--------------------------- MODULE AppControlProofs ---------------------------
(***************************************************************************)
(* Proofs about AppControl, for every width of the counter, every period   *)
(* and delay of the main loop and every set of actuators.                  *)
(*                                                                         *)
(* OverrideEnds is not inductive: a service ends an override because the   *)
(* deadline it stored and the ticks the override has left name the same    *)
(* moment, modulo Width, and because the moment is less than half the      *)
(* counter's range away.  Deadlines says so.                               *)
(***************************************************************************)
EXTENDS AppControl, TLAPS

Late == ServicePeriod + MaxDelay

InTime == Since(ticks, serviced) <= Late

\* The deadline of an override in force: since the last service at least one tick
\* was left, and until is as far from ticks as left says.
Deadlines ==
  \A a \in Actuators : mode[a] # "auto" =>
    /\ left[a] <= MaxTtl[a] * Second
    /\ left[a] + Since(ticks, serviced) >= 1
    /\ until[a] - ticks - left[a] \in {0, Width, -Width}

IInv == TypeOK /\ InTime /\ Deadlines

-------------------------------------------------------------------------------
\* Sums of clock values stay clock values as long as less than a round is added,
\* and a difference is a clock value (system_tick.c:14 and 19).
LEMMA ClockValues ==
  ASSUME NEW t \in 0 .. (Width - 1), NEW u \in 0 .. (Width - 1),
         NEW d \in Nat, d <= Width
  PROVE  /\ Plus(t, d) \in 0 .. (Width - 1)
         /\ Since(t, u) \in 0 .. (Width - 1)
         /\ Since(t, t) = 0
  BY ClockAssumption DEF Plus, Since

\* One more tick makes the distance to an earlier moment one longer, unless the
\* distance is the whole round.
LEMMA OneTick ==
  ASSUME NEW t \in 0 .. (Width - 1), NEW u \in 0 .. (Width - 1),
         Since(t, u) + 1 < Width
  PROVE  Since(Plus(t, 1), u) = Since(t, u) + 1
  BY ClockAssumption DEF Plus, Since

\* expired says exactly whether time is left, across the wrap-around too, for a
\* deadline less than half a round away in either direction (app_control.c:6).
LEMMA ExpiredIsExact ==
  ASSUME NEW t \in 0 .. (Width - 1), NEW u \in 0 .. (Width - 1), NEW l \in Int,
         u - t - l \in {0, Width, -Width},
         2 * l < Width, -Width < 2 * l
  PROVE  Expired(t, u) <=> l <= 0
  BY ClockAssumption DEF Expired, Since

\* A deadline counted from now is as far away as was asked for.
LEMMA UntilIsExact ==
  ASSUME NEW t \in 0 .. (Width - 1), NEW d \in Nat, 2 * d < Width
  PROVE  Plus(t, d) - t - d \in {0, Width, -Width}
  BY ClockAssumption DEF Plus

\* The distance survives a tick.
LEMMA DistanceKept ==
  ASSUME NEW t \in 0 .. (Width - 1), NEW u \in 0 .. (Width - 1), NEW l \in Int,
         u - t - l \in {0, Width, -Width},
         2 * l < Width, -Width < 2 * (l - 1)
  PROVE  u - Plus(t, 1) - (l - 1) \in {0, Width, -Width}
  BY ClockAssumption DEF Plus

\* A TTL within the limit of an actuator, in ticks.
LEMMA TtlBound ==
  ASSUME NEW a \in Actuators, NEW ttl \in Nat, ttl # 0, ttl <= MaxTtl[a]
  PROVE  /\ ttl * Second \in Nat /\ ttl * Second >= 1
         /\ ttl * Second <= MaxTtl[a] * Second
         /\ 2 * (ttl * Second) < Width
  <1>1. MaxTtl[a] \in Nat /\ Second \in Nat /\ Second >= 1
    BY ClockAssumption, TtlAssumption
  <1>2. PICK d \in Nat : MaxTtl[a] = ttl + d
    BY <1>1
  <1>3. MaxTtl[a] * Second = ttl * Second + d * Second
    BY <1>1, <1>2
  <1>4. d * Second \in Nat /\ ttl * Second \in Nat
    BY <1>1
  <1>5. PICK e \in Nat : ttl = e + 1
    BY ONLY ttl \in Nat, ttl # 0
  <1>6. ttl * Second = e * Second + Second /\ e * Second \in Nat
    BY <1>1, <1>5
  <1>7. 2 * (MaxTtl[a] * Second + ServicePeriod + MaxDelay) < Width
    BY WidthAssumption
  <1> QED
    BY <1>1, <1>3, <1>4, <1>6, <1>7, ClockAssumption

\* The bound on the ticks an override in force has left.
LEMMA LeftBound ==
  ASSUME IInv, NEW a \in Actuators, mode[a] # "auto"
  PROVE  /\ left[a] \in Int /\ until[a] \in 0 .. (Width - 1)
         /\ 2 * left[a] < Width /\ -Width < 2 * (left[a] - 1)
         /\ left[a] >= 1 - Late
  <1>1. /\ left[a] \in Int /\ until[a] \in 0 .. (Width - 1)
        /\ ticks \in 0 .. (Width - 1) /\ serviced \in 0 .. (Width - 1)
    BY DEF IInv, TypeOK
  <1>2. Since(ticks, serviced) \in Int
    BY <1>1, ClockAssumption DEF Since
  <1>3. MaxTtl[a] * Second \in Nat
    BY ClockAssumption, TtlAssumption
  <1>4. 2 * (MaxTtl[a] * Second + ServicePeriod + MaxDelay) < Width
    BY WidthAssumption
  <1>5. left[a] <= MaxTtl[a] * Second /\ left[a] + Since(ticks, serviced) >= 1
        /\ Since(ticks, serviced) <= ServicePeriod + MaxDelay
    BY DEF IInv, InTime, Deadlines, Late
  <1> QED
    BY <1>1, <1>2, <1>3, <1>4, <1>5, ClockAssumption DEF Late

-------------------------------------------------------------------------------
\* What the control decides is a truth value for every actuator.
LEMMA OutputsType ==
  ASSUME TypeOK, Evaluate, valid' \in BOOLEAN
  PROVE  outputs' \in [Actuators -> BOOLEAN]
  BY DEF Evaluate, Resolve, Called

\* Applying leaves the pins as the outputs and the buzzer in a mode it has.
LEMMA ApplyType ==
  ASSUME TypeOK, Apply, outputs' \in [Actuators -> BOOLEAN]
  PROVE  /\ pins' \in [Actuators -> BOOLEAN]
         /\ buzzer' \in BuzzerModes
         /\ tested' \in BOOLEAN /\ refused' \in BOOLEAN
  <1>1. {0, 1} \subseteq BuzzerModes
    BY TtlAssumption
  <1>2. pins' \in [Actuators -> BOOLEAN] /\ refused' \in BOOLEAN
    BY DEF Apply
  <1>3. CASE "beep" \in Actuators /\ pins["beep"] # outputs'["beep"]
    BY <1>1, <1>2, <1>3 DEF Apply
  <1>4. CASE ~("beep" \in Actuators /\ pins["beep"] # outputs'["beep"])
    BY <1>2, <1>4 DEF Apply, TypeOK
  <1> QED
    BY <1>3, <1>4

LEMMA NoCtrlType == NoCtrl \in [todo : -1 .. MaxFields, ttl : 0 .. (TtlWidth - 1)]
  <1>1. -1 \in -1 .. MaxFields /\ 0 \in 0 .. (TtlWidth - 1)
    BY TtlAssumption
  <1> QED
    BY <1>1 DEF NoCtrl

\* main starts with everything off and automatic, at start-up and at a reset.
LEMMA StartType ==
  ASSUME NEW m, m = [a \in Actuators |-> "auto"],
         NEW z, z = [a \in Actuators |-> 0],
         NEW f, f = [a \in Actuators |-> FALSE]
  PROVE  /\ 0 \in 0 .. (Width - 1) /\ 0 \in BuzzerModes /\ {} \in SUBSET Actuators
         /\ m \in [Actuators -> Modes]
         /\ z \in [Actuators -> 0 .. (Width - 1)] /\ z \in [Actuators -> Int]
         /\ f \in [Actuators -> BOOLEAN]
  <1>1. 0 \in 0 .. (Width - 1)
    BY ClockAssumption
  <1>2. 0 \in BuzzerModes
    BY TtlAssumption
  <1> QED
    BY <1>1, <1>2 DEF Modes

LEMMA TypeInit == Init => TypeOK
  <1> SUFFICES ASSUME Init PROVE TypeOK
    OBVIOUS
  <1>1. mode \in [Actuators -> Modes] /\ outputs \in [Actuators -> BOOLEAN]
        /\ pins \in [Actuators -> BOOLEAN]
    BY DEF Init, Modes
  <1>2. until \in [Actuators -> 0 .. (Width - 1)] /\ left \in [Actuators -> Int]
    BY StartType DEF Init
  <1>3. ctrl \in [todo : -1 .. MaxFields, ttl : 0 .. (TtlWidth - 1)]
    BY NoCtrlType DEF Init
  <1>4. 0 \in 0 .. (Width - 1) /\ 0 \in BuzzerModes
    BY StartType
  <1> QED
    BY <1>1, <1>2, <1>3, <1>4 DEF Init, TypeOK

LEMMA TypeNext == TypeOK /\ [Next]_vars => TypeOK'
  <1> SUFFICES ASSUME TypeOK, [Next]_vars PROVE TypeOK'
    OBVIOUS
  <1> USE DEF clockVars, overrideVars, pinVars
  <1>0. /\ Width \in Nat /\ Width > 0 /\ Second \in Nat /\ Second # 0
        /\ MaxTtl \in [Actuators -> Nat]
    BY ClockAssumption, TtlAssumption
  <1>1. CASE Tick
    <2>1. ticks' \in 0 .. (Width - 1)
      BY <1>1, ClockAssumption DEF Tick, TypeOK, Plus
    <2>2. left' \in [Actuators -> Int]
      BY <1>1 DEF Tick, TypeOK
    <2> QED
      BY <1>1, <2>1, <2>2 DEF Tick, TypeOK
  <1>2. CASE ServiceOverrides
    <2>1. mode' \in [Actuators -> Modes]
      BY <1>2 DEF ServiceOverrides, TypeOK, Modes
    <2>2. outputs' \in [Actuators -> BOOLEAN]
      BY <1>2, OutputsType DEF ServiceOverrides, TypeOK
    <2> QED
      BY <1>2, <2>1, <2>2, ApplyType DEF ServiceOverrides, TypeOK
  <1>3. ASSUME NEW S \in SUBSET (Actuators \ {"beep"}), ReadAdc(S) \/ ChangeThresholds(S)
        PROVE  TypeOK'
    <2>1. outputs' \in [Actuators -> BOOLEAN]
      BY <1>3, OutputsType DEF ReadAdc, ChangeThresholds, TypeOK
    <2> QED
      BY <1>3, <2>1, ApplyType DEF ReadAdc, ChangeThresholds, TypeOK
  <1>4. ASSUME NEW n \in 1 .. MaxFields, NEW ttl \in Ttls, CtrlCommand(n, ttl)
        PROVE  TypeOK'
    <2>1. ttl % TtlWidth \in 0 .. (TtlWidth - 1)
      BY TtlAssumption
    <2>2. ctrl' \in [todo : -1 .. MaxFields, ttl : 0 .. (TtlWidth - 1)]
      <3> DEFINE kept == ttl % TtlWidth
      <3> HIDE DEF kept
      <3>1. ctrl' = [todo |-> n, ttl |-> kept] /\ kept \in 0 .. (TtlWidth - 1)
        BY <1>4, <2>1 DEF CtrlCommand, kept
      <3> QED
        BY <3>1, TtlAssumption
    <2> QED
      BY <1>4, <2>2 DEF CtrlCommand, TypeOK
  <1>5. ASSUME NEW name \in Actuators \cup {"unknown"}, NEW m \in Modes, SetOverride(name, m)
        PROVE  TypeOK'
    <2>1. name \in Actuators
      BY <1>5 DEF SetOverride, Acceptable
    <2>10. ctrl.ttl \in Nat
      <3>1. ctrl.ttl \in 0 .. (TtlWidth - 1)
        BY DEF TypeOK
      <3> QED
        BY <3>1, TtlAssumption
    <2>2. ctrl.ttl \in Nat /\ ctrl.ttl * Second \in Nat
      BY <1>0, <2>10
    <2>3. m # "auto" => 2 * (ctrl.ttl * Second) < Width
      BY <1>5, <2>1, <2>2, TtlBound DEF SetOverride, Acceptable
    <2>4. Until(m, ctrl.ttl) \in 0 .. (Width - 1)
      BY <1>0, <2>2, <2>3 DEF Until, Plus, TypeOK
    <2>5. until' \in [Actuators -> 0 .. (Width - 1)]
      BY <1>5, <2>4 DEF SetOverride, TypeOK
    <2>6. left' \in [Actuators -> Int]
      <3> DEFINE granted == IF m = "auto" THEN 0 ELSE ctrl.ttl * Second
      <3>1. granted \in Int
        BY <2>2
      <3> HIDE DEF granted
      <3>2. left' = [left EXCEPT ![name] = granted]
        BY <1>5 DEF SetOverride, granted
      <3> QED
        BY <3>1, <3>2 DEF TypeOK
    <2>7. mode' \in [Actuators -> Modes]
      BY <1>5 DEF SetOverride, TypeOK
    <2>8. ctrl' \in [todo : -1 .. MaxFields, ttl : 0 .. (TtlWidth - 1)]
      BY <1>5, TtlAssumption DEF SetOverride, TypeOK
    <2>9. outputs' \in [Actuators -> BOOLEAN]
      BY <1>5, OutputsType DEF SetOverride, TypeOK
    <2> QED
      BY <1>5, <2>5, <2>6, <2>7, <2>8, <2>9 DEF SetOverride, TypeOK
  <1>6. ASSUME NEW name \in Actuators \cup {"unknown"}, NEW m \in Modes, RefuseField(name, m)
        PROVE  TypeOK'
    BY <1>6, TtlAssumption DEF RefuseField, TypeOK, NoCtrl
  <1>7. CASE AcknowledgeCtrl
    <2>1. outputs' \in [Actuators -> BOOLEAN]
      BY <1>7 DEF AcknowledgeCtrl, TypeOK
    <2> QED
      BY <1>7, <2>1, ApplyType, TtlAssumption DEF AcknowledgeCtrl, TypeOK, NoCtrl
  <1>8. ASSUME NEW m \in BuzzerModes, BeepCommand(m)
        PROVE  TypeOK'
    BY <1>8 DEF BeepCommand, TypeOK
  <1>9. CASE Reset
    BY <1>9, StartType, NoCtrlType DEF Reset, TypeOK
  <1>10. CASE UNCHANGED vars
    BY <1>10 DEF vars, TypeOK
  <1> QED
    BY <1>1, <1>2, <1>3, <1>4, <1>5, <1>6, <1>7, <1>8, <1>9, <1>10 DEF Next, Ctrl

\* The control's state keeps its types, whatever the counter's width, the delays
\* and the actuators (app_control.c, actuators.c, buzzer.c).
THEOREM ControlTypeCorrect == Spec => []TypeOK
  BY TypeInit, TypeNext, PTL DEF Spec

-------------------------------------------------------------------------------
\* What the clock's actions do to the time since the last service.
LEMMA InTimeNext == TypeOK /\ InTime /\ [Next]_vars => InTime'
  <1> SUFFICES ASSUME TypeOK, InTime, [Next]_vars PROVE InTime'
    OBVIOUS
  <1>0. ticks \in 0 .. (Width - 1) /\ serviced \in 0 .. (Width - 1)
    BY DEF TypeOK
  <1>1. CASE Tick
    <2>1. Since(ticks, serviced) \in 0 .. (Width - 1)
      BY <1>0, ClockAssumption DEF Since
    <2>2. Since(ticks, serviced) + 1 < Width
      BY <1>1, <2>1, ClockAssumption DEF Tick
    <2>3. Since(Plus(ticks, 1), serviced) = Since(ticks, serviced) + 1
      BY <1>0, <2>2, OneTick
    <2>4. Since(Plus(ticks, 1), serviced) <= Late
      BY <1>1, <2>1, <2>3, ClockAssumption DEF Tick, Late
    <2> QED
      BY <1>1, <2>4 DEF Tick, InTime
  <1>2. CASE serviced' = ticks' /\ ticks' \in 0 .. (Width - 1)
    <2>3. \A t \in 0 .. (Width - 1) : Since(t, t) = 0
      BY ClockAssumption DEF Since
    <2>1. Since(ticks', serviced') = 0
      BY <1>2, <2>3
    <2>2. 0 <= Late
      BY ClockAssumption DEF Late
    <2> QED
      BY <2>1, <2>2 DEF InTime
  <1>3. CASE UNCHANGED clockVars
    BY <1>3 DEF InTime, clockVars
  <1>4. ServiceOverrides => serviced' = ticks' /\ ticks' \in 0 .. (Width - 1)
    BY <1>0 DEF ServiceOverrides
  <1>5. Reset => serviced' = ticks' /\ ticks' \in 0 .. (Width - 1)
    BY ClockAssumption DEF Reset
  <1>6. (Next /\ ~Tick /\ ~ServiceOverrides /\ ~Reset) \/ UNCHANGED vars => UNCHANGED clockVars
    BY DEF Next, Ctrl, vars, clockVars, ReadAdc, ChangeThresholds, CtrlCommand, SetOverride,
           RefuseField, AcknowledgeCtrl, BeepCommand
  <1> QED
    BY <1>1, <1>2, <1>3, <1>4, <1>5, <1>6

\* The clock ticks: the ticks left shrink as the time since the service grows.
LEMMA DeadlinesTick == IInv /\ Tick => Deadlines'
  <1> SUFFICES ASSUME IInv, Tick, NEW a \in Actuators, mode'[a] # "auto"
               PROVE  /\ left'[a] <= MaxTtl[a] * Second
                      /\ left'[a] + Since(ticks', serviced') >= 1
                      /\ until'[a] - ticks' - left'[a] \in {0, Width, -Width}
    BY DEF Deadlines
  <1>0. ticks \in 0 .. (Width - 1) /\ serviced \in 0 .. (Width - 1)
    BY DEF IInv, TypeOK
  <1>1. mode[a] # "auto" /\ left'[a] = left[a] - 1 /\ until' = until
        /\ ticks' = Plus(ticks, 1) /\ serviced' = serviced
    BY DEF Tick
  <1>2. /\ left[a] \in Int /\ until[a] \in 0 .. (Width - 1)
        /\ 2 * left[a] < Width /\ -Width < 2 * (left[a] - 1)
    BY <1>1, LeftBound
  <1>3. /\ left[a] <= MaxTtl[a] * Second /\ left[a] + Since(ticks, serviced) >= 1
        /\ until[a] - ticks - left[a] \in {0, Width, -Width}
    BY <1>1 DEF IInv, Deadlines
  <1>4. Since(ticks, serviced) \in 0 .. (Width - 1)
    BY <1>0, ClockAssumption DEF Since
  <1>5. Since(ticks, serviced) + 1 < Width
    BY <1>4, ClockAssumption DEF Tick
  <1>6. Since(Plus(ticks, 1), serviced) = Since(ticks, serviced) + 1
    BY <1>0, <1>5, OneTick
  <1>7. until[a] - Plus(ticks, 1) - (left[a] - 1) \in {0, Width, -Width}
    BY <1>0, <1>2, <1>3, DistanceKept
  <1>8. MaxTtl[a] * Second \in Nat
    BY ClockAssumption, TtlAssumption
  <1>9. left[a] - 1 <= MaxTtl[a] * Second
    BY <1>2, <1>3, <1>8
  <1>10. (left[a] - 1) + Since(Plus(ticks, 1), serviced) >= 1
    BY <1>2, <1>3, <1>4, <1>6
  <1> QED
    BY <1>1, <1>7, <1>9, <1>10

\* A service keeps the overrides that have time left and ends no other.
LEMMA ServiceIsExact ==
  ASSUME IInv, ServiceOverrides, NEW a \in Actuators, mode[a] # "auto"
  PROVE  mode'[a] = IF left[a] <= 0 THEN "auto" ELSE mode[a]
  <1>0. ticks \in 0 .. (Width - 1)
    BY DEF IInv, TypeOK
  <1>1. /\ left[a] \in Int /\ until[a] \in 0 .. (Width - 1)
        /\ 2 * left[a] < Width /\ -Width < 2 * (left[a] - 1)
    BY LeftBound
  <1>2. until[a] - ticks - left[a] \in {0, Width, -Width}
    BY DEF IInv, Deadlines
  <1>3. -Width < 2 * left[a]
    BY <1>1, ClockAssumption
  <1>4. Expired(ticks, until[a]) <=> left[a] <= 0
    BY <1>0, <1>1, <1>2, <1>3, ExpiredIsExact
  <1> QED
    BY <1>4 DEF ServiceOverrides

LEMMA DeadlinesService == IInv /\ ServiceOverrides => Deadlines'
  <1> SUFFICES ASSUME IInv, ServiceOverrides, NEW a \in Actuators, mode'[a] # "auto"
               PROVE  /\ left'[a] <= MaxTtl[a] * Second
                      /\ left'[a] + Since(ticks', serviced') >= 1
                      /\ until'[a] - ticks' - left'[a] \in {0, Width, -Width}
    BY DEF Deadlines
  <1>1. mode[a] # "auto"
    BY DEF ServiceOverrides
  <1>2. left[a] \in Int /\ ~(left[a] <= 0)
    BY <1>1, ServiceIsExact, LeftBound
  <1>3. left' = left /\ until' = until /\ ticks' = ticks /\ serviced' = ticks
    BY DEF ServiceOverrides
  <1>4. Since(ticks, ticks) = 0
    BY DEF Since, IInv, TypeOK
  <1>5. left[a] + 0 >= 1
    BY <1>2
  <1>6. /\ left[a] <= MaxTtl[a] * Second
        /\ until[a] - ticks - left[a] \in {0, Width, -Width}
    BY <1>1 DEF IInv, Deadlines
  <1> QED
    BY <1>3, <1>4, <1>5, <1>6

\* A new override has its whole TTL left.
LEMMA DeadlinesSet ==
  ASSUME IInv, NEW name \in Actuators \cup {"unknown"}, NEW m \in Modes, SetOverride(name, m)
  PROVE  Deadlines'
  <1> SUFFICES ASSUME NEW a \in Actuators, mode'[a] # "auto"
               PROVE  /\ left'[a] <= MaxTtl[a] * Second
                      /\ left'[a] + Since(ticks', serviced') >= 1
                      /\ until'[a] - ticks' - left'[a] \in {0, Width, -Width}
    BY DEF Deadlines
  <1>0. /\ ticks \in 0 .. (Width - 1) /\ serviced \in 0 .. (Width - 1)
        /\ mode \in [Actuators -> Modes] /\ until \in [Actuators -> 0 .. (Width - 1)]
        /\ left \in [Actuators -> Int]
    BY DEF IInv, TypeOK
  <1>1. ticks' = ticks /\ serviced' = serviced
    BY DEF SetOverride, clockVars
  <1>2. CASE a # name
    <2>1. mode'[a] = mode[a] /\ left'[a] = left[a] /\ until'[a] = until[a]
      BY <1>0, <1>2 DEF SetOverride
    <2> QED
      BY <1>1, <2>1 DEF IInv, Deadlines
  <1>3. CASE a = name
    <2>1. mode'[a] = m
      BY <1>0, <1>3 DEF SetOverride
    <2>2. ctrl.ttl # 0 /\ ctrl.ttl <= MaxTtl[a]
      BY <1>3, <2>1 DEF SetOverride, Acceptable
    <2>3. left'[a] = ctrl.ttl * Second
      BY <1>0, <1>3, <2>1 DEF SetOverride
    <2>4. until'[a] = Plus(ticks, ctrl.ttl * Second)
      BY <1>0, <1>3, <2>1 DEF SetOverride, Until
    <2>5. ctrl.ttl \in Nat
      <3>1. ctrl.ttl \in 0 .. (TtlWidth - 1)
        BY DEF IInv, TypeOK
      <3> QED
        BY <3>1, TtlAssumption
    <2>6. /\ ctrl.ttl * Second \in Nat /\ ctrl.ttl * Second >= 1
          /\ ctrl.ttl * Second <= MaxTtl[a] * Second /\ 2 * (ctrl.ttl * Second) < Width
      BY <2>2, <2>5, TtlBound
    <2>7. Since(ticks, serviced) \in Nat
      BY <1>0, ClockAssumption DEF Since
    <2>8. Plus(ticks, ctrl.ttl * Second) - ticks - ctrl.ttl * Second \in {0, Width, -Width}
      BY <1>0, <2>6, UntilIsExact
    <2>9. ctrl.ttl * Second + Since(ticks, serviced) >= 1
      BY <2>6, <2>7
    <2> QED
      BY <1>1, <2>3, <2>4, <2>6, <2>8, <2>9
  <1> QED
    BY <1>2, <1>3

LEMMA DeadlinesNext == IInv /\ [Next]_vars => Deadlines'
  <1> SUFFICES ASSUME IInv, [Next]_vars PROVE Deadlines'
    OBVIOUS
  <1>1. CASE UNCHANGED <<clockVars, overrideVars>>
    BY <1>1 DEF IInv, Deadlines, clockVars, overrideVars
  <1>2. CASE Reset
    BY <1>2 DEF Reset, Deadlines
  <1>3. Next /\ ~Tick /\ ~ServiceOverrides /\ ~Reset =>
          \/ \E name \in Actuators \cup {"unknown"}, m \in Modes : SetOverride(name, m)
          \/ UNCHANGED <<clockVars, overrideVars>>
    BY DEF Next, Ctrl, vars, clockVars, overrideVars, ReadAdc, ChangeThresholds, CtrlCommand,
           RefuseField, AcknowledgeCtrl, BeepCommand
  <1>4. UNCHANGED vars => UNCHANGED <<clockVars, overrideVars>>
    BY DEF vars
  <1> QED
    BY <1>1, <1>2, <1>3, <1>4, DeadlinesTick, DeadlinesService, DeadlinesSet

LEMMA IInvInit == Init => IInv
  <1> SUFFICES ASSUME Init PROVE IInv
    OBVIOUS
  <1>1. Since(ticks, serviced) = 0
    BY DEF Init, Since
  <1>2. InTime
    BY <1>1, ClockAssumption DEF InTime, Late
  <1>3. Deadlines
    BY DEF Init, Deadlines
  <1> QED
    BY <1>2, <1>3, TypeInit DEF IInv

LEMMA IInvNext == IInv /\ [Next]_vars => IInv'
  BY TypeNext, InTimeNext, DeadlinesNext DEF IInv

THEOREM ControlInvariant == Spec => []IInv
  BY IInvInit, IInvNext, PTL DEF Spec

\* No override outlives its TTL by more than one late service, for every width of
\* the counter and across every wrap-around (app_control.c:6, 11 and 13).
THEOREM ControlOverrideEnds == Spec => []OverrideEnds
  <1>1. IInv => OverrideEnds
    <2> SUFFICES ASSUME IInv, NEW a \in Actuators, mode[a] # "auto"
                 PROVE  left[a] >= -(ServicePeriod + MaxDelay)
      BY DEF OverrideEnds
    <2> QED
      BY LeftBound, ClockAssumption DEF Late
  <1> QED
    BY <1>1, ControlInvariant, PTL

\* A service ends only overrides whose time is up (app_control.c:6 and 11).
THEOREM ControlOverrideLasts == Spec => OverrideLasts
  <1> DEFINE Lasts == \A a \in Actuators :
               ServiceOverrides /\ mode'[a] # mode[a] => left[a] <= 0
  <1>1. IInv /\ [Next]_vars => [Lasts]_vars
    <2> SUFFICES ASSUME IInv, NEW a \in Actuators, ServiceOverrides, mode'[a] # mode[a]
                 PROVE  left[a] <= 0
      OBVIOUS
    <2>1. mode[a] # "auto"
      BY DEF ServiceOverrides
    <2> QED
      BY <2>1, ServiceIsExact
  <1> QED
    BY <1>1, ControlInvariant, PTL DEF Spec, OverrideLasts

-------------------------------------------------------------------------------
\* Applying makes the pins follow and the buzzer agree with its pin.
LEMMA ApplyAgrees ==
  ASSUME BuzzerFollows, TypeOK, Apply, outputs' \in [Actuators -> BOOLEAN]
  PROVE  pins' = outputs' /\ BuzzerFollows'
  <1>1. pins' = outputs'
    BY DEF Apply
  <1>2. CASE "beep" \in Actuators /\ pins["beep"] # outputs'["beep"]
    <2>1. buzzer' = (IF outputs'["beep"] THEN 1 ELSE 0)
      BY <1>2 DEF Apply
    <2>2. (buzzer' # 0) = outputs'["beep"]
      BY <1>2, <2>1
    <2> QED
      BY <1>1, <2>2 DEF BuzzerFollows
  <1>3. CASE ~("beep" \in Actuators /\ pins["beep"] # outputs'["beep"])
    BY <1>1, <1>3 DEF Apply, BuzzerFollows
  <1> QED
    BY <1>1, <1>2, <1>3

\* The pins show the outputs between two activities of the main loop, unless a CTRL
\* command failed half way (actuators.c:5-10, command_protocol.c:29, main.c:19-22).
THEOREM ControlPinsFollow == Spec => []PinsFollow
  <1>1. Init => PinsFollow
    BY DEF Init, PinsFollow
  <1>2. PinsFollow /\ TypeOK /\ [Next]_vars => PinsFollow'
    <2> SUFFICES ASSUME PinsFollow, TypeOK, [Next]_vars PROVE PinsFollow'
      OBVIOUS
    <2>1. Apply => PinsFollow'
      BY DEF Apply, PinsFollow
    <2>2. UNCHANGED <<ctrl, refused, pins, outputs>> => PinsFollow'
      BY DEF PinsFollow, InLoop
    <2>3. ASSUME NEW n \in 1 .. MaxFields, NEW ttl \in Ttls, CtrlCommand(n, ttl)
          PROVE  PinsFollow'
      <3>1. ctrl'.todo # -1
        <4> DEFINE kept == ttl % TtlWidth
        <4> HIDE DEF kept
        <4>1. ctrl' = [todo |-> n, ttl |-> kept]
          BY <2>3 DEF CtrlCommand, kept
        <4> QED
          BY <4>1
      <3> QED
        BY <3>1 DEF PinsFollow, InLoop, NoCtrl
    <2>4. ASSUME NEW name \in Actuators \cup {"unknown"}, NEW m \in Modes, SetOverride(name, m)
          PROVE  PinsFollow'
      <3>1. ctrl'.todo # -1
        BY <2>4, TtlAssumption DEF SetOverride, TypeOK
      <3> QED
        BY <3>1 DEF PinsFollow, InLoop, NoCtrl
    <2>5. ASSUME NEW name \in Actuators \cup {"unknown"}, NEW m \in Modes, RefuseField(name, m)
          PROVE  PinsFollow'
      BY <2>5 DEF RefuseField, PinsFollow
    <2>6. Reset => PinsFollow'
      BY DEF Reset, PinsFollow
    <2> QED
      BY <2>1, <2>2, <2>3, <2>4, <2>5, <2>6
      DEF Next, Ctrl, vars, pinVars, Tick, ServiceOverrides, ReadAdc, ChangeThresholds,
          AcknowledgeCtrl, BeepCommand
  <1> QED
    BY <1>1, <1>2, ControlTypeCorrect, PTL DEF Spec

\* The buzzer sounds exactly when its output says so, unless a BEEP command set it
\* past actuators_apply and its remembered value (actuators.c:9, buzzer.c:18).
THEOREM ControlBuzzerFollows == Spec => []BuzzerFollows
  <1>1. Init => BuzzerFollows
    BY DEF Init, BuzzerFollows
  <1>2. BuzzerFollows /\ TypeOK /\ [Next]_vars => BuzzerFollows'
    <2> SUFFICES ASSUME BuzzerFollows, TypeOK, [Next]_vars PROVE BuzzerFollows'
      OBVIOUS
    <2>1. Apply => BuzzerFollows'
      BY TypeNext, ApplyAgrees DEF TypeOK
    <2>2. UNCHANGED <<tested, buzzer, pins>> => BuzzerFollows'
      BY DEF BuzzerFollows
    <2>3. ASSUME NEW m \in BuzzerModes, BeepCommand(m)
          PROVE  BuzzerFollows'
      BY <2>3 DEF BeepCommand, BuzzerFollows
    <2>4. Reset => BuzzerFollows'
      BY DEF Reset, BuzzerFollows
    <2> QED
      BY <2>1, <2>2, <2>3, <2>4
      DEF Next, Ctrl, vars, pinVars, Tick, ServiceOverrides, ReadAdc, ChangeThresholds,
          AcknowledgeCtrl, CtrlCommand, SetOverride, RefuseField
  <1> QED
    BY <1>1, <1>2, ControlTypeCorrect, PTL DEF Spec
===============================================================================
