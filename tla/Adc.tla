--------------------------------- MODULE Adc ---------------------------------
(***************************************************************************)
(* Reading the analog sensors (Drivers/adc.c) and the ADC0832 of the       *)
(* archived firmware (Legacy_C51/Drivers/adc0832.c).                       *)
(*                                                                         *)
(* Both firmwares work in units of ten bits.  The current one averages     *)
(* eight samples of the microcontroller's finer converter and rounds; the  *)
(* archived one shifts in the bits of a coarser converter, the highest     *)
(* first, and scales up.                                                   *)
(***************************************************************************)
EXTENDS Bits

CONSTANTS
  FineBits,      \* bits of the STM32 converter: 12; the unit has two less
  CoarseWeights  \* weights of the bits of the ADC0832: 128 to 1; the unit has
                 \* two bits more

CoarseBits == Len(CoarseWeights)
CoarseEnd  == Scale(CoarseWeights, 0)

ASSUME AdcAssumption == FineBits \in Nat \ {0, 1} /\ AreWeights(CoarseWeights)

VARIABLES
  adckind,   \* "none", or the converter being read: "fine" or "coarse"
  adclevel,  \* history: the samples' sum, or the level the ADC0832 converts
  adcleft,   \* what the ADC0832 has still to send of its conversion
  adcturns,  \* turns of the loop
  adcacc,    \* sum, value: what the driver has gathered
  adcvalue   \* what the read returned; -1 while it runs

adcVars == <<adckind, adclevel, adcleft, adcturns, adcacc, adcvalue>>

AdcIdle == adcvalue # -1

\* A read; a unit of the coarser converter is four of the sensor's.
AdcStart(kind, level) ==
  /\ AdcIdle
  /\ adckind' = kind /\ adclevel' = level /\ adcleft' = level \div 4
  /\ adcturns' = 0 /\ adcacc' = 0 /\ adcvalue' = -1

\* adc_once
AdcOnce(sample) ==
  /\ ~AdcIdle /\ adckind = "fine" /\ adcturns < 8
  /\ adclevel' = adclevel + sample
  /\ adcacc' = adcacc + sample
  /\ adcturns' = adcturns + 1
  /\ UNCHANGED <<adckind, adcleft, adcvalue>>

\* Mutant: the average is not rounded before it loses two bits.
Adc10Cut(sum) == (sum \div 8) \div 4

\* adc_read10
Adc10(sum) == ((sum \div 8) + 2) \div 4

AdcWeight == CoarseWeights[adcturns + 1]

\* One turn of adc0832_read: value << 1 and the next bit of the chip.
AdcBit ==
  /\ ~AdcIdle /\ adckind = "coarse" /\ adcturns < CoarseBits
  /\ adcacc' = 2 * adcacc + BitOf(adcleft, AdcWeight)
  /\ adcleft' = adcleft - BitOf(adcleft, AdcWeight) * AdcWeight
  /\ adcturns' = adcturns + 1
  /\ UNCHANGED <<adckind, adclevel, adcvalue>>

AdcReturn ==
  /\ ~AdcIdle
  /\ \/ adckind = "fine" /\ adcturns = 8 /\ adcvalue' = Adc10(adcacc)
     \/ adckind = "coarse" /\ adcturns = CoarseBits /\ adcvalue' = adcacc * 4
  /\ UNCHANGED <<adckind, adclevel, adcleft, adcturns, adcacc>>

AdcInit ==
  /\ adckind = "none" /\ adclevel = 0 /\ adcleft = 0
  /\ adcturns = 0 /\ adcacc = 0 /\ adcvalue = 0

AdcNext ==
  \/ AdcStart("fine", 0)
  \/ \E level \in 0..4 * CoarseEnd - 1 : AdcStart("coarse", level)
  \/ \E sample \in 0..2 ^ FineBits - 1 : AdcOnce(sample)
  \/ AdcBit \/ AdcReturn
-------------------------------------------------------------------------------
\* A reading is the nearest unit to the average of the samples, to the fraction
\* the integer divisions lose, and never less than the level by as much as the
\* step of the coarser converter (adc_read10, adc0832_read).  This says nothing
\* of the range of the result: that is AdcInTenBits.
AdcIsNearest ==
  AdcIdle =>
    CASE adckind = "fine"   -> 32 * adcvalue - adclevel \in -15..16
      [] adckind = "coarse" -> adclevel - adcvalue \in 0..3
      [] OTHER              -> TRUE

\* src/README_STM32.txt:51 says that every value of the converter is 0 to 1023.
\* It does not hold: adc_read10 adds two before it shifts, and the sum of eight
\* samples at or near full scale rounds to 1024.
AdcInTenBits ==
  AdcIdle /\ adckind = "fine" => adcvalue \in 0..2 ^ (FineBits - 2) - 1
===============================================================================
