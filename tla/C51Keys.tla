------------------------------- MODULE C51Keys -------------------------------
(***************************************************************************)
(* The four keys of the archived firmware (Legacy_C51/Drivers/key.c).      *)
(*                                                                         *)
(* Every 20 ms key_scan asks the keys in turn and returns the first event: *)
(* the keys after it are not read in that scan, nor are their counts moved.*)
(* The level of every key is the operator's, or a bounce, at every scan.   *)
(***************************************************************************)
EXTENDS Naturals, Sequences

CONSTANT C51Keys  \* the keys in the order key_scan asks them

ASSUME C51KeysAssumption == C51Keys \in Seq(STRING) /\ Len(C51Keys) > 0

VARIABLES
  debounce,   \* g_mode_key to g_down_key
  c51event,   \* what the last key_scan returned
  readings,   \* history: the last three levels read of each key
  rested,     \* history: three released readings since the key's last event
  delayed     \* history: scans a rested key has been down without an event

c51keyVars == <<debounce, c51event, readings, rested, delayed>>

C51Index  == DOMAIN C51Keys
C51None   == 0
C51Levels == {0, 1}
KeyActive == 0      \* KEY_ACTIVE_LEVEL

KeyStateInit == [stable |-> 1, last_raw |-> 1, count |-> 0, reported |-> FALSE]

\* Mutant: a change of level leaves the count as it is.
KeyCountKept(d, raw) == IF d.count < 3 THEN d.count + 1 ELSE d.count

KeyCount(d, raw) ==
  IF raw # d.last_raw THEN 0 ELSE IF d.count < 3 THEN d.count + 1 ELSE d.count

\* The level counts as settled at the second repetition.
KeyStable(d, raw) == IF KeyCount(d, raw) >= 2 THEN raw ELSE d.stable

\* Mutant: a reported key is not remembered.
KeyReportedNever(d, raw) == FALSE

\* A key that settles on the active level has not been reported.
KeyReported(d, raw) ==
  d.reported /\ KeyStable(d, raw) = d.stable

KeyUpdate(d, raw) ==
  [stable   |-> KeyStable(d, raw),
   last_raw |-> raw,
   count    |-> KeyCount(d, raw),
   reported |-> KeyStable(d, raw) = KeyActive]

KeyPressed(d, raw) ==
  KeyStable(d, raw) = KeyActive /\ ~KeyReported(d, raw)

\* The keys a scan reads: none behind the first that has an event.
KeyScanned(level) ==
  {k \in C51Index : \A j \in 1..k - 1 : ~KeyPressed(debounce[j], level[j])}

KeyScan(level) ==
  LET scanned == KeyScanned(level)
      pressed == {k \in scanned : KeyPressed(debounce[k], level[k])}
  IN /\ debounce' = [k \in C51Index |->
           IF k \in scanned THEN KeyUpdate(debounce[k], level[k])
                            ELSE debounce[k]]
     /\ c51event' = IF pressed = {} THEN C51None ELSE CHOOSE k \in pressed : TRUE
     /\ readings' = [k \in C51Index |->
           IF k \in scanned THEN <<readings[k][2], readings[k][3], level[k]>>
                            ELSE readings[k]]
     /\ rested' = [k \in C51Index |->
           \/ rested[k] /\ k # c51event'
           \/ k \in scanned /\ readings'[k] = <<1, 1, 1>>]
     /\ delayed' = [k \in C51Index |->
           IF level[k] = KeyActive /\ rested[k] /\ k # c51event'
             THEN delayed[k] + 1 ELSE 0]

C51KeysInit ==
  /\ debounce = [k \in C51Index |-> KeyStateInit]
  /\ c51event = C51None
  /\ readings = [k \in C51Index |-> <<1, 1, 1>>]
  /\ rested = [k \in C51Index |-> TRUE]
  /\ delayed = [k \in C51Index |-> 0]

C51KeysNext == \E level \in [C51Index -> C51Levels] : KeyScan(level)

C51KeysSpec == C51KeysInit /\ [][C51KeysNext]_c51keyVars
-------------------------------------------------------------------------------
\* A key is reported only when it was read down three times running, and read
\* released three times running since it was last reported: bounces report
\* nothing, and a key that is held is one press (key_update).
C51PressIsOnce ==
  [][\A k \in C51Index : c51event' = k =>
       rested[k] /\ readings'[k] = <<0, 0, 0>>]_c51keyVars

\* A key that is pressed and held is reported at the third scan, or one scan
\* later for every key asked before it: the early return of key_scan delays a
\* key but cannot starve it, whatever the operator does to the other keys.  So
\* it is with up to four keys, the board's number; a fifth breaks the bound.
C51PressIsSeen == \A k \in C51Index : delayed[k] <= 1 + k
===============================================================================
