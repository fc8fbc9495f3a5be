---------------------------- MODULE MCAppControl ----------------------------
(***************************************************************************)
(* AppControl for TLC: the fan and the buzzer that sounds for it.          *)
(***************************************************************************)
EXTENDS AppControl

MCMaxTtl == [fan |-> 2, beep |-> 1]

\* With TTLs of three values these come out as 2, 0, 1 and 0.
MCTtls == {-1, 0, 1, 3}
=============================================================================
