------------------------------ MODULE AppControl ------------------------------
(***************************************************************************)
(* The firmware's control of its actuators: automatic outputs, overrides   *)
(* with a time to live, and the pins (User/app_control.c, User/main.c,     *)
(* Drivers/actuators.c, Drivers/buzzer.c and the CTRL and BEEP commands of *)
(* User/command_protocol.c).                                               *)
(*                                                                         *)
(* Everything but the tick interrupt runs in the main loop, one activity   *)
(* after the other.  Ticks come between any two of them, and between two   *)
(* fields of one CTRL command, whose handler reads the clock per field.    *)
(* The clock is a counter of Width values that wraps around, as the code's *)
(* uint32_t does; sums and differences of two clock values are exact.      *)
(*                                                                         *)
(* What the sensors and thresholds come to is abstracted to which          *)
(* actuators they call for; module Panel has the thresholds themselves.     *)
(***************************************************************************)
EXTENDS Integers

CONSTANTS
  Width,          \* values of the tick counter: 2^32
  Second,         \* ticks per second: 1000
  ServicePeriod,  \* ticks between two services of the overrides: 100
  MaxDelay,       \* ticks the main loop may be late: sensors, radio, printing
  MaxTtl,         \* per actuator: seconds an override may last
  TtlWidth,       \* values of the uint16_t a TTL is handed on in: 2^16
  Ttls,           \* bound: the TTL values CTRL commands carry
  BuzzerModes,    \* the modes of buzzer.c: 0 silent, 1 the alarm, 2 to 4 tests
  MaxFields       \* bound: fields of a CTRL command, 4 in the code

Actuators == DOMAIN MaxTtl

ASSUME ClockAssumption ==
  /\ Width \in Nat /\ Second \in Nat \ {0}
  /\ ServicePeriod \in Nat \ {0} /\ MaxDelay \in Nat
  /\ 2 * (ServicePeriod + MaxDelay) < Width
ASSUME TtlAssumption ==
  /\ MaxTtl \in [Actuators -> Nat]
  /\ TtlWidth \in Nat \ {0} /\ Ttls \subseteq Int /\ MaxFields \in Nat /\ {0, 1} \subseteq BuzzerModes
\* In the code 1800 s and some milliseconds are far below 2^31 ms.
ASSUME WidthAssumption ==
  \A a \in Actuators : 2 * (MaxTtl[a] * Second + ServicePeriod + MaxDelay) < Width

VARIABLES
  ticks,       \* the counter SysTick_Handler increments
  serviced,    \* tv of main: when the overrides were last serviced
  valid, need, \* g_sensor.valid & 2; the actuators the readings call for
  mode, until, \* g_overrides
  outputs,     \* g_outputs
  pins,        \* the relay pins, and what last_buzzer remembers of the buzzer
  buzzer,      \* g_mode of buzzer.c
  ctrl,        \* the CTRL command at hand: fields still to be set, its TTL
  left,        \* history: ticks an override has left by the TTL it was given
  refused,     \* history: a CTRL command failed half way since the last apply
  tested       \* history: a BEEP command since the buzzer was last set

clockVars    == <<ticks, serviced>>
overrideVars == <<mode, until, left>>
pinVars      == <<pins, buzzer, tested, refused>>
vars == <<clockVars, valid, need, overrideVars, outputs, pinVars, ctrl>>

Modes == {"auto", "off", "on"}

NoCtrl == [todo |-> -1, ttl |-> 0]

\* uint32_t arithmetic on clock values.
Plus(t, d)  == IF t + d < Width THEN t + d ELSE t + d - Width
Since(n, t) == IF n >= t THEN n - t ELSE n - t + Width

\* Mutant: the two clock values are compared as they are.
ExpiredCompared(n, t) == n >= t

\* (int32_t)(now - until) >= 0
Expired(n, t) == 2 * Since(n, t) < Width

\* The buzzer sounds the alarm the fan is turned on for.
Called(a) == valid /\ (IF a = "beep" THEN "fan" ELSE a) \in need

Resolve(automatic, m) == m = "on" \/ (m = "auto" /\ automatic)

\* app_evaluate, after the sensors, the thresholds or the overrides have changed.
Evaluate == outputs' = [a \in Actuators |-> Resolve(Called(a)', mode'[a])]

\* Mutant: the buzzer is set, what it was set to is not remembered.
ApplyForgetful ==
  /\ pins' = [a \in Actuators |-> IF a = "beep" THEN pins[a] ELSE outputs'[a]]
  /\ refused' = FALSE
  /\ IF "beep" \in Actuators /\ pins["beep"] # outputs'["beep"]
       THEN buzzer' = (IF outputs'["beep"] THEN 1 ELSE 0) /\ tested' = FALSE
       ELSE UNCHANGED <<buzzer, tested>>

\* actuators_apply: the buzzer is touched only when its output has changed.
Apply ==
  /\ pins' = outputs'
  /\ refused' = FALSE
  /\ IF "beep" \in Actuators /\ pins["beep"] # outputs'["beep"]
       THEN buzzer' = (IF outputs'["beep"] THEN 1 ELSE 0) /\ tested' = FALSE
       ELSE UNCHANGED <<buzzer, tested>>

\* app_init, actuators_init.
Init ==
  /\ ticks = 0 /\ serviced = 0
  /\ valid = FALSE /\ need = {}
  /\ mode = [a \in Actuators |-> "auto"]
  /\ until = [a \in Actuators |-> 0]
  /\ left = [a \in Actuators |-> 0]
  /\ outputs = [a \in Actuators |-> FALSE]
  /\ pins = [a \in Actuators |-> FALSE]
  /\ buzzer = 0 /\ tested = FALSE /\ refused = FALSE
  /\ ctrl = NoCtrl

InLoop == ctrl = NoCtrl

-------------------------------------------------------------------------------
\* SysTick_Handler.  The main loop comes round in time.
Tick ==
  /\ Since(ticks, serviced) < ServicePeriod + MaxDelay
  /\ ticks' = Plus(ticks, 1)
  /\ left' = [a \in Actuators |-> IF mode[a] = "auto" THEN 0 ELSE left[a] - 1]
  /\ UNCHANGED <<serviced, valid, need, mode, until, outputs, pinVars, ctrl>>

\* app_service_overrides and actuators_apply, when system_due says so.
ServiceOverrides ==
  /\ InLoop
  /\ Since(ticks, serviced) >= ServicePeriod
  /\ serviced' = ticks
  /\ mode' = [a \in Actuators |-> IF mode[a] # "auto" /\ Expired(ticks, until[a])
                                    THEN "auto" ELSE mode[a]]
  /\ UNCHANGED <<ticks, valid, need, until, left, ctrl>>
  /\ Evaluate /\ Apply

\* adc_read_environment: the readings call for the actuators in S.
ReadAdc(S) ==
  /\ InLoop
  /\ valid' = TRUE /\ need' = S
  /\ UNCHANGED <<clockVars, overrideVars, ctrl>>
  /\ Evaluate /\ Apply

\* SET, a key, or a DHT reading: the same readings call for other actuators.
ChangeThresholds(S) ==
  /\ InLoop
  /\ need' = S
  /\ UNCHANGED <<clockVars, valid, overrideVars, ctrl>>
  /\ Evaluate /\ Apply

-------------------------------------------------------------------------------
(* CTRL, <id>, name=mode, ..., TTL=ttl: ctrl_cmd parses the whole line, then   *)
(* sets the overrides one by one.  The model picks a field when its turn comes.*)
(* The TTL is cast to uint16_t before anything looks at its range.             *)

CtrlCommand(n, seconds) ==
  /\ InLoop
  /\ ctrl' = [todo |-> n, ttl |-> seconds % TtlWidth]
  /\ UNCHANGED <<clockVars, valid, need, overrideVars, outputs, pinVars>>

\* The conditions of app_set_override.
Acceptable(name, m, ttl) ==
  /\ name \in Actuators
  /\ m # "auto" => ttl # 0 /\ ttl <= MaxTtl[name]

\* Mutant: counted from the time of the last service.
UntilFromService(m, ttl) == IF m = "auto" THEN 0 ELSE Plus(serviced, ttl * Second)

\* *u = m==OUTPUT_AUTO ? 0 : now + ttl*1000
Until(m, ttl) == IF m = "auto" THEN 0 ELSE Plus(ticks, ttl * Second)

\* app_set_override for the next field.
SetOverride(name, m) ==
  /\ ctrl.todo > 0
  /\ Acceptable(name, m, ctrl.ttl)
  /\ mode' = [mode EXCEPT ![name] = m]
  /\ until' = [until EXCEPT ![name] = Until(m, ctrl.ttl)]
  /\ left' = [left EXCEPT ![name] = IF m = "auto" THEN 0 ELSE ctrl.ttl * Second]
  /\ ctrl' = [ctrl EXCEPT !.todo = @ - 1]
  /\ UNCHANGED <<clockVars, valid, need, pinVars>>
  /\ Evaluate

\* It returns false: ERR RANGE, and the fields before stay in force.
RefuseField(name, m) ==
  /\ ctrl.todo > 0
  /\ ~Acceptable(name, m, ctrl.ttl)
  /\ ctrl' = NoCtrl
  /\ refused' = TRUE
  /\ UNCHANGED <<clockVars, valid, need, overrideVars, outputs, pins, buzzer, tested>>

\* Mutant: the command is acknowledged and the pins are left for later.
AcknowledgeUnapplied ==
  /\ ctrl.todo = 0
  /\ ctrl' = NoCtrl
  /\ UNCHANGED <<clockVars, valid, need, overrideVars, outputs, pinVars>>

\* All fields are set: actuators_apply, ACK.
AcknowledgeCtrl ==
  /\ ctrl.todo = 0
  /\ ctrl' = NoCtrl
  /\ UNCHANGED <<clockVars, valid, need, overrideVars, outputs>>
  /\ Apply

\* BEEP,<id>,m goes past the outputs to the buzzer.
BeepCommand(m) ==
  /\ InLoop
  /\ buzzer' = m /\ tested' = TRUE
  /\ UNCHANGED <<clockVars, valid, need, overrideVars, outputs, pins, refused, ctrl>>

\* Power fails or the reset button is pressed: main starts again.
Reset ==
  /\ ticks' = 0 /\ serviced' = 0
  /\ valid' = FALSE /\ need' = {}
  /\ mode' = [a \in Actuators |-> "auto"]
  /\ until' = [a \in Actuators |-> 0]
  /\ left' = [a \in Actuators |-> 0]
  /\ outputs' = [a \in Actuators |-> FALSE]
  /\ pins' = [a \in Actuators |-> FALSE]
  /\ buzzer' = 0 /\ tested' = FALSE /\ refused' = FALSE
  /\ ctrl' = NoCtrl

-------------------------------------------------------------------------------
Ctrl ==
  \/ \E name \in Actuators \cup {"unknown"}, m \in Modes :
       SetOverride(name, m) \/ RefuseField(name, m)
  \/ AcknowledgeCtrl

Next ==
  \/ Tick
  \/ ServiceOverrides
  \/ \E S \in SUBSET (Actuators \ {"beep"}) : ReadAdc(S) \/ ChangeThresholds(S)
  \/ \E n \in 1 .. MaxFields, ttl \in Ttls : CtrlCommand(n, ttl)
  \/ Ctrl
  \/ \E m \in BuzzerModes : BeepCommand(m)
  \/ Reset

Spec == Init /\ [][Next]_vars

-------------------------------------------------------------------------------
TypeOK ==
  /\ ticks \in 0 .. (Width - 1) /\ serviced \in 0 .. (Width - 1)
  /\ valid \in BOOLEAN /\ need \in SUBSET Actuators
  /\ mode \in [Actuators -> Modes]
  /\ until \in [Actuators -> 0 .. (Width - 1)]
  /\ left \in [Actuators -> Int]
  /\ outputs \in [Actuators -> BOOLEAN] /\ pins \in [Actuators -> BOOLEAN]
  /\ buzzer \in BuzzerModes /\ tested \in BOOLEAN /\ refused \in BOOLEAN
  /\ ctrl \in [todo : -1 .. MaxFields, ttl : 0 .. (TtlWidth - 1)]

\* No override outlives its TTL by more than one late service, also across the
\* wrap-around of the counter: a pump that was forced on stops even if nobody ever
\* says so (app_control.c:6, 11 and 13).
OverrideEnds ==
  \A a \in Actuators : mode[a] # "auto" => left[a] >= -(ServicePeriod + MaxDelay)

\* Nor is it cut short: the service ends only overrides whose time is up.
OverrideLasts ==
  [][\A a \in Actuators :
       ServiceOverrides /\ mode'[a] # mode[a] => left[a] <= 0]_vars

\* The pins show the outputs whenever the main loop is between two activities,
\* whatever changed them, except after a CTRL command that failed half way, until
\* the next activity that applies (command_protocol.c:29).
PinsFollow == InLoop /\ ~refused => pins = outputs

\* actuators_apply compares with what it last set, so the buzzer can stay wrong for
\* ever once the two disagree: they disagree only while a BEEP command is in force.
BuzzerFollows ==
  "beep" \in Actuators /\ ~tested => (buzzer # 0) = pins["beep"]
===============================================================================
