------------------------------ MODULE LossyFifo ------------------------------
(***************************************************************************)
(* What the receive rings of the firmware promise: bytes come out in the   *)
(* order in which they came in, each once, and one is lost only when the   *)
(* ring is full.                                                           *)
(***************************************************************************)
EXTENDS Naturals, Sequences

CONSTANTS
  Capacity,  \* bytes the ring can hold
  Bytes      \* what can arrive

VARIABLES
  queue,  \* bytes received and not taken yet
  taken,  \* bytes the main loop has taken, in order
  lost    \* bytes that found the ring full

fifoVars == <<queue, taken, lost>>

InitFifo == queue = <<>> /\ taken = <<>> /\ lost = {}

Put(b) ==
  /\ Len(queue) < Capacity
  /\ queue' = Append(queue, b)
  /\ UNCHANGED <<taken, lost>>

Lose(b) ==
  /\ Len(queue) = Capacity
  /\ lost' = lost \cup {b}
  /\ UNCHANGED <<queue, taken>>

Take ==
  /\ queue # <<>>
  /\ queue' = Tail(queue)
  /\ taken' = Append(taken, Head(queue))
  /\ UNCHANGED lost

NextFifo == (\E b \in Bytes : Put(b) \/ Lose(b)) \/ Take

SpecFifo == InitFifo /\ [][NextFifo]_fifoVars
===============================================================================
