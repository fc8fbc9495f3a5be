--------------------------------- MODULE Bits ---------------------------------
(***************************************************************************)
(* The bits of a number as a sensor shifts them out, the highest first.    *)
(* The weights of the bits are a sequence, each twice the next: 128 to 1   *)
(* for a byte.                                                             *)
(***************************************************************************)
EXTENDS Integers, Sequences

AreWeights(w) ==
  /\ w \in Seq(Nat \ {0}) /\ Len(w) > 0 /\ w[Len(w)] = 1
  /\ \A i \in 1..Len(w) - 1 : w[i] = 2 * w[i + 1]

\* What is left of a number after k of its bits is below this.
Scale(w, k) == IF k = 0 THEN 2 * w[1] ELSE w[k]

\* The bit of this weight, the highest one of what is left.
BitOf(left, weight) == IF left >= weight THEN 1 ELSE 0
===============================================================================
