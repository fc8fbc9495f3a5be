----------------------------- MODULE PanelProofs -----------------------------
(***************************************************************************)
(* Proofs about Panel, for all limits, defaults and SET commands and for   *)
(* every length of a long press and cap of the count.                      *)
(*                                                                         *)
(* The thresholds need only themselves: ThresholdsInRange is inductive     *)
(* once they are integers.  What the keys do rests on KeysInv, which says  *)
(* how many equal readings are behind a count and a settled level.         *)
(***************************************************************************)
EXTENDS Panel, TLAPS

ThresholdsInv == thresholds \in [Fields -> Int] /\ ThresholdsInRange

AdcFields == {"air_max", "light_min", "soil_min"}

\* Unsigned fields hold no negative value.
Unsigned(c) ==
  0 <= c["humi_min"] /\ 0 <= c["humi_max"] /\ \A f \in AdcFields : 0 <= c[f]

-------------------------------------------------------------------------------
\* What passes the check of app_set_thresholds is in range (app_control.c:12).
LEMMA SetThresholdsInRange ==
  ASSUME ThresholdsInv, NEW c \in [Fields -> Int], Unsigned(c), SetThresholds(c)
  PROVE  ThresholdsInv'
  <1>1. CASE Accepts(c)
    <2>1. thresholds' = c
      BY <1>1 DEF SetThresholds
    <2> QED
      BY <1>1, <2>1, LimitAssumption
      DEF Accepts, ThresholdsInv, ThresholdsInRange, Unsigned, AdcFields, Fields
  <1>2. CASE ~Accepts(c)
    BY <1>2 DEF SetThresholds, ThresholdsInv, ThresholdsInRange
  <1> QED
    BY <1>1, <1>2

\* ci and cu (app_control.c:5).
LEMMA ClampInRange ==
  ASSUME NEW v \in Int, NEW low \in Int, NEW high \in Int, low <= high
  PROVE  Clamp(v, low, high) \in low .. high
  BY DEF Clamp

\* The limits of app_adjust are in order (app_control.c:16).
LEMMA RangeOrdered ==
  ASSUME ThresholdsInv, NEW f \in Fields
  PROVE  /\ Range(f)[1] \in Int /\ Range(f)[2] \in Int /\ Range(f)[1] <= Range(f)[2]
         /\ Step(f) \in Int
  BY LimitAssumption DEF Range, Step, Fields, ThresholdsInv, ThresholdsInRange

\* A key leaves every other field alone and its own within the limits.
LEMMA AdjustedInRange ==
  ASSUME ThresholdsInv, NEW p \in Fields, NEW d \in {-1, 1}
  PROVE  /\ Adjusted(p, d) \in [Fields -> Int]
         /\ \A f \in Fields \ {p} : Adjusted(p, d)[f] = thresholds[f]
         /\ Adjusted(p, d)[p] \in Range(p)[1] .. Range(p)[2]
  <1> DEFINE v == Clamp(thresholds[p] + d * Step(p), Range(p)[1], Range(p)[2])
  <1>1. thresholds[p] + d * Step(p) \in Int
    BY RangeOrdered DEF ThresholdsInv
  <1>4. /\ Range(p)[1] \in Int /\ Range(p)[2] \in Int /\ Range(p)[1] <= Range(p)[2]
    BY RangeOrdered
  <1>5. v \in Range(p)[1] .. Range(p)[2]
    BY <1>1, <1>4, ClampInRange
  <1>2. v \in Range(p)[1] .. Range(p)[2] /\ v \in Int
    BY <1>4, <1>5
  <1>3. Adjusted(p, d) = [thresholds EXCEPT ![p] = v]
    BY DEF Adjusted
  <1> HIDE DEF v
  <1> QED
    BY <1>2, <1>3 DEF ThresholdsInv

\* What app_adjust makes of the thresholds passes app_set_thresholds.
LEMMA AdjustedAccepted ==
  ASSUME ThresholdsInv, NEW p \in Pages, NEW d \in {-1, 1}
  PROVE  /\ Adjusted(p, d) \in [Fields -> Int]
         /\ Unsigned(Adjusted(p, d)) /\ Accepts(Adjusted(p, d))
  <1>1. CASE p \in Fields
    <2> DEFINE c == Adjusted(p, d)
    <2>1. /\ c \in [Fields -> Int]
          /\ \A f \in Fields \ {p} : c[f] = thresholds[f]
          /\ c[p] \in Range(p)[1] .. Range(p)[2]
      BY <1>1, AdjustedInRange
    <2> HIDE DEF c
    <2>2. Unsigned(c) /\ Accepts(c)
      BY <1>1, <2>1, LimitAssumption
      DEF Unsigned, Accepts, AdcFields, Fields, Range, ThresholdsInv, ThresholdsInRange
    <2> QED
      BY <2>1, <2>2 DEF c
  <1>2. CASE p \notin Fields
    BY <1>2, LimitAssumption
    DEF Adjusted, Unsigned, Accepts, AdcFields, Fields, ThresholdsInv, ThresholdsInRange
  <1> QED
    BY <1>1, <1>2

\* set_cmd's casts leave integers, and nothing negative in an unsigned field
\* (command_protocol.c:28).
LEMMA CastType ==
  ASSUME NEW f \in Fields, NEW v \in Int
  PROVE  /\ Cast(f, v) \in Int
         /\ f \notin {"temp_min", "temp_max"} => 0 <= Cast(f, v)
  <1>1. v % ByteWidth \in Int /\ 0 <= v % ByteWidth
    BY LimitAssumption
  <1>2. v % WordWidth \in Int /\ 0 <= v % WordWidth
    BY LimitAssumption
  <1>3. ((v + WordWidth \div 2) % WordWidth) - WordWidth \div 2 \in Int
    BY LimitAssumption
  <1> QED
    BY <1>1, <1>2, <1>3 DEF Cast, Fields

LEMMA SetCommandInRange ==
  ASSUME ThresholdsInv, NEW r \in Requests, SetCommand(r)
  PROVE  ThresholdsInv'
  <1> DEFINE c == [f \in Fields |-> IF f \in DOMAIN r THEN Cast(f, r[f]) ELSE thresholds[f]]
  <1>1. \A f \in Fields : c[f] \in Int
    <2> SUFFICES ASSUME NEW f \in Fields PROVE c[f] \in Int
      OBVIOUS
    <2>1. CASE f \in DOMAIN r
      BY <2>1, CastType, RequestAssumption
    <2>2. CASE f \notin DOMAIN r
      BY <2>2 DEF ThresholdsInv
    <2> QED
      BY <2>1, <2>2
  <1>2. \A f \in Fields \ {"temp_min", "temp_max"} : 0 <= c[f]
    <2> SUFFICES ASSUME NEW f \in Fields \ {"temp_min", "temp_max"} PROVE 0 <= c[f]
      OBVIOUS
    <2>1. CASE f \in DOMAIN r
      BY <2>1, CastType, RequestAssumption
    <2>2. CASE f \notin DOMAIN r
      <3>1. 0 <= thresholds[f]
        BY LimitAssumption DEF ThresholdsInv, ThresholdsInRange, Fields
      <3> QED
        BY <2>2, <3>1
    <2> QED
      BY <2>1, <2>2
  <1>3. c = [f \in Fields |-> c[f]]
    OBVIOUS
  <1>4. SetThresholds(c)
    BY DEF SetCommand
  <1> HIDE DEF c
  <1>5. c \in [Fields -> Int]
    BY <1>1, <1>3
  <1>6. Unsigned(c)
    BY <1>2 DEF Unsigned, AdcFields, Fields
  <1> QED
    BY <1>4, <1>5, <1>6, SetThresholdsInRange

\* Only the two key events change the thresholds, and by app_adjust.
LEMMA HandleInRange ==
  ASSUME ThresholdsInv, page \in Pages, NEW event, Handle(event)
  PROVE  ThresholdsInv'
  <1>1. ASSUME NEW d \in {-1, 1}, SetThresholds(Adjusted(page, d))
        PROVE  ThresholdsInv'
    BY <1>1, AdjustedAccepted, SetThresholdsInRange
  <1>2. CASE event = "inc"
    BY <1>1, <1>2 DEF Handle
  <1>3. CASE event = "dec"
    BY <1>1, <1>3 DEF Handle
  <1>4. CASE event # "inc" /\ event # "dec"
    BY <1>4 DEF Handle, ThresholdsInv, ThresholdsInRange
  <1> QED
    BY <1>2, <1>3, <1>4

-------------------------------------------------------------------------------
(* The keys                                                                  *)

\* A level that has been read at a count of 20 or more was read twice before; a
\* settled key was; a step was made at a count of 40, which does not come back.
KeysInv ==
  /\ stable \in Levels /\ last \in Levels
  /\ held \in Nat /\ held < HeldCap + 20 /\ (held = 0 \/ held >= 20)
  /\ same \in 0 .. 3 /\ firm \in BOOLEAN /\ steps \in 0 .. 1
  /\ last # Rest => same >= 1
  /\ last # Rest /\ held >= 20 => same >= 2
  /\ stable # Rest => firm
  /\ steps = 1 => last # Rest /\ held >= 40

PagesInv == page \in Pages /\ gesture \in [from : Pages, long : BOOLEAN]

\* The count goes up by 20 and stops at its cap, without overflow.
LEMMA CountedValue ==
  ASSUME held \in Nat, held < HeldCap + 20
  PROVE  /\ Counted = IF held < HeldCap THEN held + 20 ELSE held
         /\ Counted \in Nat /\ Counted < HeldCap + 20
  <1>1. \A x \in Nat : x < HeldWidth => x % HeldWidth = x
    BY KeyAssumption
  <1>2. held < HeldCap => (held + 20) % HeldWidth = held + 20
    BY <1>1, KeyAssumption
  <1> QED
    BY <1>2, KeyAssumption DEF Counted

LEMMA EventCauses ==
  ASSUME KeysInv, NEW raw \in Levels
  PROVE  /\ EventAt(raw) \in {"inc", "dec"} => raw # Rest /\ held = 20
         /\ EventAt(raw) = "enter_exit" => raw # Rest /\ held >= 20
         /\ EventAt(raw) = "next" => raw = Rest /\ stable # Rest
         /\ EventAt(raw) \in {"inc", "dec", "enter_exit", "next", "none"}
  <1>1. Counted = IF held < HeldCap THEN held + 20 ELSE held
    BY CountedValue DEF KeysInv
  <1>2. held \in Nat /\ (held = 0 \/ held >= 20)
    BY DEF KeysInv
  <1>3. Counted = 40 => held = 20
    BY <1>1, <1>2, KeyAssumption
  <1>4. Counted = LongPress => held >= 20
    BY <1>1, <1>2, KeyAssumption
  <1> QED
    BY <1>3, <1>4 DEF EventAt, Settled, Levels, Rest

LEMMA NextPageType ==
  ASSUME NEW p \in Pages
  PROVE  NextPage(p) \in Pages /\ NextField(p) \in Pages
  <1>1. NextPage(p) \in Pages
    BY DEF NextPage, Pages
  <1>2. CASE Editing(p) /\ p # "soil_min"
    <2>1. \E i \in 1 .. 6 : FieldPages[i] = p
      <3>1. /\ FieldPages[1] = "temp_min" /\ FieldPages[2] = "temp_max"
            /\ FieldPages[3] = "humi_min" /\ FieldPages[4] = "humi_max"
            /\ FieldPages[5] = "air_max" /\ FieldPages[6] = "light_min"
        BY DEF FieldPages
      <3>2. p \in {"temp_min", "temp_max", "humi_min", "humi_max", "air_max", "light_min"}
        BY <1>2 DEF Editing, Fields
      <3> QED
        BY <3>1, <3>2
    <2> DEFINE i == CHOOSE j \in 1 .. 6 : FieldPages[j] = p
    <2>2. i \in 1 .. 6
      BY <2>1
    <2>3. NextField(p) = FieldPages[i + 1]
      BY <1>2 DEF NextField
    <2> HIDE DEF i
    <2>4. i + 1 \in {2, 3, 4, 5, 6, 7}
      BY <2>2
    <2>5. \A k \in {2, 3, 4, 5, 6, 7} : FieldPages[k] \in Fields
      BY DEF FieldPages, Fields
    <2> QED
      BY <1>1, <2>3, <2>4, <2>5 DEF Pages
  <1>3. CASE ~(Editing(p) /\ p # "soil_min")
    BY <1>1, <1>3 DEF NextField, Pages, Fields
  <1> QED
    BY <1>2, <1>3

LEMMA PagesNext ==
  ASSUME PagesInv, [Next]_vars
  PROVE  PagesInv'
  <1>1. ASSUME NEW raw \in Levels, ScanChanged(raw) PROVE PagesInv'
    BY <1>1 DEF ScanChanged, PagesInv
  <1>2. ASSUME ScanUnchanged PROVE PagesInv'
    BY <1>2, NextPageType DEF ScanUnchanged, Handle, PagesInv
  <1>3. ASSUME NEW r \in Requests, SetCommand(r) PROVE PagesInv'
    BY <1>3 DEF SetCommand, historyVars, PagesInv
  <1>4. CASE UNCHANGED vars
    BY <1>4 DEF vars, historyVars, PagesInv
  <1> QED
    BY <1>1, <1>2, <1>3, <1>4 DEF Next

LEMMA KeysUnchanged ==
  ASSUME KeysInv, ScanUnchanged
  PROVE  KeysInv'
  <1> DEFINE event == EventAt(last)
  <1>0. /\ stable \in Levels /\ last \in Levels /\ held \in Nat /\ held < HeldCap + 20
        /\ (held = 0 \/ held >= 20) /\ same \in 0 .. 3 /\ firm \in BOOLEAN /\ steps \in 0 .. 1
    BY DEF KeysInv
  <1>1. /\ Counted = IF held < HeldCap THEN held + 20 ELSE held
        /\ Counted \in Nat /\ Counted < HeldCap + 20
    BY <1>0, CountedValue
  <1>2. /\ Counted >= 20 /\ (Counted = 40 => held = 20)
        /\ Counted >= held
    BY <1>0, <1>1, KeyAssumption
  <1>3. last' = last /\ held' = IF Released(last) THEN 0 ELSE Counted
    BY DEF ScanUnchanged
  <1>4. same' = IF same < 3 THEN same + 1 ELSE same
    BY DEF ScanUnchanged
  <1>5. firm' = (firm \/ (last # Rest /\ same >= 2))
    BY DEF ScanUnchanged
  <1>6. stable' = IF Settled(Counted) \/ Released(last) THEN last ELSE stable
    BY DEF ScanUnchanged
  <1>7. steps' = IF event \in {"inc", "dec"} /\ steps < 2 THEN steps + 1 ELSE steps
    BY DEF ScanUnchanged
  <1>8. event \in {"inc", "dec"} => last # Rest /\ held = 20
    BY <1>0, EventCauses
  <1> HIDE DEF event
  <1>9. /\ held' \in Nat /\ held' < HeldCap + 20 /\ (held' = 0 \/ held' >= 20)
        /\ same' \in 0 .. 3 /\ firm' \in BOOLEAN /\ stable' \in Levels /\ last' \in Levels
    BY <1>0, <1>1, <1>2, <1>3, <1>4, <1>5, <1>6, KeyAssumption
  <1>10. last' # Rest => same' >= 2
    BY <1>0, <1>3, <1>4 DEF KeysInv
  <1>11. stable' # Rest => firm'
    <2>1. CASE stable' = stable
      BY <2>1, <1>5 DEF KeysInv
    <2>2. CASE stable' # stable /\ stable' # Rest
      <3>1. Settled(Counted) /\ last # Rest
        BY <2>2, <1>6 DEF Released
      <3>2. held = 20
        BY <3>1, <1>2 DEF Settled
      <3>3. last # Rest /\ held >= 20 => same >= 2
        BY DEF KeysInv
      <3>4. same >= 2
        BY <3>1, <3>2, <3>3
      <3> QED
        BY <3>1, <3>4, <1>5
    <2> QED
      BY <2>1, <2>2
  <1>12. steps' \in 0 .. 1 /\ (steps' = 1 => last' # Rest /\ held' >= 40)
    <2>1. CASE event \in {"inc", "dec"}
      <3>1. last # Rest /\ held = 20 /\ steps = 0
        BY <2>1, <1>0, <1>8 DEF KeysInv
      <3>2. steps' = 1
        BY <2>1, <3>1, <1>7
      <3>3. held' >= 40
        BY <3>1, <1>1, <1>3, KeyAssumption DEF Released
      <3> QED
        BY <3>1, <3>2, <3>3, <1>3
    <2>2. CASE event \notin {"inc", "dec"}
      <3>1. steps' = steps
        BY <2>2, <1>7
      <3>2. steps = 1 => last # Rest /\ held >= 40
        BY DEF KeysInv
      <3>3. steps = 1 => held' >= 40
        BY <3>2, <1>0, <1>1, <1>2, <1>3 DEF Released
      <3> QED
        BY <3>1, <3>2, <3>3, <1>0, <1>3
    <2> QED
      BY <2>1, <2>2
  <1> QED
    BY <1>9, <1>10, <1>11, <1>12 DEF KeysInv

LEMMA KeysNext ==
  ASSUME KeysInv, [Next]_vars
  PROVE  KeysInv'
  <1>1. ASSUME NEW raw \in Levels, ScanChanged(raw) PROVE KeysInv'
    <2>1. /\ last' = raw /\ held' = 0 /\ same' = 1 /\ steps' = 0 /\ stable' = stable
          /\ firm' = IF AtRest THEN FALSE ELSE firm
      BY <1>1 DEF ScanChanged
    <2>2. firm \in BOOLEAN /\ (stable # Rest => firm)
      BY DEF KeysInv
    <2>3. firm' \in BOOLEAN /\ (stable' # Rest => firm')
      BY <2>1, <2>2 DEF AtRest
    <2>4. held' < HeldCap + 20 /\ held' \in Nat
      BY <2>1, KeyAssumption
    <2>5. stable' \in Levels /\ last' \in Levels
      BY <2>1 DEF KeysInv
    <2>6. /\ same' \in 0 .. 3 /\ same' >= 1 /\ steps' \in 0 .. 1 /\ steps' # 1
          /\ held' = 0 /\ ~(held' >= 20)
      BY <2>1
    <2> QED
      BY <2>3, <2>4, <2>5, <2>6 DEF KeysInv
  <1>2. ASSUME ScanUnchanged PROVE KeysInv'
    BY <1>2, KeysUnchanged
  <1>3. ASSUME NEW r \in Requests, SetCommand(r) PROVE KeysInv'
    BY <1>3 DEF SetCommand, keyVars, historyVars, KeysInv
  <1>4. CASE UNCHANGED vars
    BY <1>4 DEF vars, keyVars, historyVars, KeysInv
  <1> QED
    BY <1>1, <1>2, <1>3, <1>4 DEF Next

-------------------------------------------------------------------------------
IInv == ThresholdsInv /\ KeysInv /\ PagesInv

LEMMA IInvInit == Init => IInv
  <1> SUFFICES ASSUME Init PROVE IInv
    OBVIOUS
  <1>1. ThresholdsInv
    BY DefaultsAssumption DEF Init, ThresholdsInv, ThresholdsInRange
  <1>2. KeysInv
    <2>1. held \in Nat /\ held < HeldCap + 20 /\ held = 0
      BY KeyAssumption DEF Init
    <2>2. stable \in Levels /\ last \in Levels /\ stable = Rest /\ last = Rest
      BY DEF Init, Levels, Rest
    <2>3. same \in 0 .. 3 /\ steps \in 0 .. 1 /\ steps # 1
      BY DEF Init
    <2>4. firm \in BOOLEAN
      BY DEF Init
    <2> QED
      BY <2>1, <2>2, <2>3, <2>4 DEF KeysInv
  <1>3. PagesInv
    BY DEF Init, PagesInv, Pages
  <1> QED
    BY <1>1, <1>2, <1>3 DEF IInv

LEMMA IInvNext == IInv /\ [Next]_vars => IInv'
  <1> SUFFICES ASSUME IInv, [Next]_vars PROVE IInv'
    OBVIOUS
  <1>1. ThresholdsInv'
    <2>1. ASSUME NEW raw \in Levels, ScanChanged(raw) PROVE ThresholdsInv'
      BY <2>1 DEF ScanChanged, IInv, ThresholdsInv, ThresholdsInRange
    <2>2. ASSUME ScanUnchanged PROVE ThresholdsInv'
      BY <2>2, HandleInRange DEF ScanUnchanged, IInv, PagesInv
    <2>3. ASSUME NEW r \in Requests, SetCommand(r) PROVE ThresholdsInv'
      BY <2>3, SetCommandInRange DEF IInv
    <2>4. CASE UNCHANGED vars
      BY <2>4 DEF vars, IInv, ThresholdsInv, ThresholdsInRange
    <2> QED
      BY <2>1, <2>2, <2>3, <2>4 DEF Next
  <1> QED
    BY <1>1, KeysNext, PagesNext DEF IInv

THEOREM PanelInvariant == Spec => []IInv
  BY IInvInit, IInvNext, PTL DEF Spec

\* The panel's state keeps its types; held never overflows its sixteen bits.
THEOREM PanelTypeCorrect == Spec => []TypeOK
  <1>1. IInv => TypeOK
    BY KeyAssumption DEF IInv, ThresholdsInv, KeysInv, PagesInv, TypeOK
  <1> QED
    BY <1>1, PanelInvariant, PTL

\* The thresholds stay within the limits and in order, whatever the keys and the
\* host ask for (app_control.c:12 and 16, command_protocol.c:28).
THEOREM PanelThresholdsInRange == Spec => []ThresholdsInRange
  <1>1. IInv => ThresholdsInRange
    BY DEF IInv, ThresholdsInv
  <1> QED
    BY <1>1, PanelInvariant, PTL

\* app_set_thresholds never refuses what app_adjust gives it (app_control.c:16).
THEOREM PanelAdjustIsAccepted == Spec => []AdjustIsAccepted
  <1>1. IInv => AdjustIsAccepted
    BY AdjustedAccepted DEF IInv, AdjustIsAccepted
  <1> QED
    BY <1>1, PanelInvariant, PTL

\* A held key steps once, however long it is held and for every cap that stays
\* below the width of held (key.c:5).
THEOREM PanelOneStepPerHold == Spec => []OneStepPerHold
  <1>1. IInv => OneStepPerHold
    BY DEF IInv, KeysInv, OneStepPerHold
  <1> QED
    BY <1>1, PanelInvariant, PTL

\* No page and no threshold changes by a key without three equal readings of one
\* since the keys were at rest (key.c:5).
THEOREM PanelDebounced == Spec => Debounced
  <1> DEFINE Bounce == ScanUnchanged /\ <<page, thresholds>>' # <<page, thresholds>> => firm'
  <1>1. IInv /\ [Next]_vars => [Bounce]_vars
    <2> SUFFICES ASSUME IInv, ScanUnchanged, <<page, thresholds>>' # <<page, thresholds>>
                 PROVE  firm'
      OBVIOUS
    <2>1. EventAt(last) # "none"
      BY DEF ScanUnchanged, Handle
    <2>2. firm' = (firm \/ (last # Rest /\ same >= 2))
      BY DEF ScanUnchanged
    <2>3. last \in Levels /\ (stable # Rest => firm) /\ (last # Rest /\ held >= 20 => same >= 2)
      BY DEF IInv, KeysInv
    <2>4. (last # Rest /\ held >= 20) \/ stable # Rest
      BY <2>1, <2>3, EventCauses DEF IInv
    <2> QED
      BY <2>2, <2>3, <2>4
  <1> QED
    BY <1>1, PanelInvariant, PTL DEF Spec, Debounced
===============================================================================
