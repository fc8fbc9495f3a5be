-------------------------------- MODULE Panel --------------------------------
(***************************************************************************)
(* The two keys of the board, the pages they move through and the          *)
(* thresholds they change (Drivers/key.c; the pages, app_adjust and        *)
(* app_set_thresholds of User/app_control.c; the key branch of main), and  *)
(* the SET command, which changes the same thresholds from the host.       *)
(*                                                                         *)
(* key_scan is called every 20 ms and reads both keys; what it reads is    *)
(* whatever the user, or a bouncing contact, makes of it.  Levels are as   *)
(* key_scan combines them: 3 no key, 2 KEY1, 1 KEY2, 0 both.               *)
(***************************************************************************)
EXTENDS Integers, Sequences

CONSTANTS
  LongPress,          \* 700 ms
  HeldCap,            \* 60000: held is not counted any further
  HeldWidth,          \* 2^16: held is a uint16_t
  TempLow, TempHigh,  \* -20, 80
  HumiHigh,           \* 100
  AdcHigh, AdcStep,   \* 1023; 10 per key
  Defaults,           \* the DEFAULT_ values of board_config.h
  ByteWidth,          \* 2^8: what the host sends is cut to the field's type
  WordWidth,          \* 2^16
  Requests            \* bound: the SET commands of the host, fields to integers

Fields ==
  {"temp_min", "temp_max", "humi_min", "humi_max", "air_max", "light_min", "soil_min"}

ASSUME KeyAssumption ==
  /\ LongPress \in Nat /\ LongPress > 20
  /\ HeldCap \in Nat /\ HeldCap > 40
  /\ HeldWidth \in Nat /\ HeldCap + 20 < HeldWidth
ASSUME LimitAssumption ==
  /\ TempLow \in Int /\ TempHigh \in Int
  /\ HumiHigh \in Nat /\ AdcHigh \in Nat /\ AdcStep \in Nat
  /\ ByteWidth \in Nat \ {0} /\ WordWidth \in Nat \ {0}
ASSUME DefaultsAssumption ==
  /\ Defaults \in [Fields -> Int]
  /\ TempLow <= Defaults["temp_min"] /\ Defaults["temp_min"] <= Defaults["temp_max"]
  /\ Defaults["temp_max"] <= TempHigh
  /\ 0 <= Defaults["humi_min"] /\ Defaults["humi_min"] <= Defaults["humi_max"]
  /\ Defaults["humi_max"] <= HumiHigh
  /\ \A f \in {"air_max", "light_min", "soil_min"} : Defaults[f] \in 0 .. AdcHigh
ASSUME RequestAssumption ==
  \A r \in Requests : \A f \in DOMAIN r : r[f] \in Int

VARIABLES
  stable, last, held,  \* the static variables of key.c
  page,                \* g_ui_page
  thresholds,          \* g_thresholds
  same,                \* history: equal readings in a row, counted to 3
  firm,                \* history: 3 equal readings of a key since the keys were at rest
  steps,               \* history: threshold steps since the reading last changed
  gesture              \* history of the keys since they were last at rest

keyVars == <<stable, last, held>>
historyVars == <<same, firm, steps, gesture>>
vars == <<keyVars, page, thresholds, historyVars>>

Levels == 0 .. 3
Rest == 3

-------------------------------------------------------------------------------
(* The thresholds                                                            *)

\* The conditions of app_set_thresholds; unsigned fields have no lower one.
Accepts(c) ==
  /\ c["temp_min"] >= TempLow /\ c["temp_max"] <= TempHigh
  /\ c["temp_min"] <= c["temp_max"]
  /\ c["humi_min"] <= HumiHigh /\ c["humi_max"] <= HumiHigh
  /\ c["humi_min"] <= c["humi_max"]
  /\ c["air_max"] <= AdcHigh /\ c["light_min"] <= AdcHigh /\ c["soil_min"] <= AdcHigh

SetThresholds(c) == thresholds' = IF Accepts(c) THEN c ELSE thresholds

\* ci and cu.
Clamp(v, low, high) == IF v < low THEN low ELSE IF v > high THEN high ELSE v

\* Mutant: the two temperatures are limited on their own.
RangeIndependent(f) ==
  CASE f \in {"temp_min", "temp_max"}            -> <<TempLow, TempHigh>>
    [] f = "humi_min"                            -> <<0, thresholds["humi_max"]>>
    [] f = "humi_max"                            -> <<thresholds["humi_min"], HumiHigh>>
    [] f \in {"air_max", "light_min", "soil_min"} -> <<0, AdcHigh>>

\* The limits app_adjust gives ci and cu.
Range(f) ==
  CASE f = "temp_min"                            -> <<TempLow, thresholds["temp_max"]>>
    [] f = "temp_max"                            -> <<thresholds["temp_min"], TempHigh>>
    [] f = "humi_min"                            -> <<0, thresholds["humi_max"]>>
    [] f = "humi_max"                            -> <<thresholds["humi_min"], HumiHigh>>
    [] f \in {"air_max", "light_min", "soil_min"} -> <<0, AdcHigh>>

Step(f) == IF f \in {"air_max", "light_min", "soil_min"} THEN AdcStep ELSE 1

\* app_adjust: a page that shows no field leaves the thresholds as they are.
Adjusted(p, d) ==
  IF p \in Fields
    THEN [thresholds EXCEPT ![p] = Clamp(@ + d * Step(p), Range(p)[1], Range(p)[2])]
    ELSE thresholds

-------------------------------------------------------------------------------
(* The pages                                                                 *)

FieldPages ==
  <<"temp_min", "temp_max", "humi_min", "humi_max", "air_max", "light_min", "soil_min">>

Pages == {"values", "thresholds"} \cup Fields

Editing(p) == p \in Fields

\* app_next_page
NextPage(p) == IF p = "values" THEN "thresholds" ELSE "values"

\* app_next_field
NextField(p) ==
  IF Editing(p) /\ p # "soil_min"
    THEN FieldPages[(CHOOSE i \in 1 .. 6 : FieldPages[i] = p) + 1]
    ELSE "temp_min"

-------------------------------------------------------------------------------
(* key_scan                                                                  *)

\* Mutant: counted on and on, until the sixteen bits overflow.
CountedUncapped == (held + 20) % HeldWidth

\* if(held<60000U)held+=20U
Counted == IF held < HeldCap THEN (held + 20) % HeldWidth ELSE held

\* Mutant: every level counts after two equal readings.
SettledEarly(h) == h = 20

\* held==40U
Settled(h) == h = 40

\* What an unchanged reading at level raw comes to.
EventAt(raw) ==
  CASE Settled(Counted) /\ raw = 0                  -> "dec"
    [] Settled(Counted) /\ raw = 1                  -> "inc"
    [] Counted = LongPress /\ raw = 2               -> "enter_exit"
    [] raw = Rest /\ stable = 2 /\ Counted < LongPress -> "next"
    [] OTHER                                        -> "none"

Released(raw) == raw = Rest /\ stable # Rest

\* The branches of main on the event.
Handle(event) ==
  /\ page' = CASE event = "next"       -> NextField(page)
               [] event = "enter_exit" -> NextPage(page)
               [] OTHER                -> page
  /\ CASE event = "inc" -> SetThresholds(Adjusted(page, 1))
       [] event = "dec" -> SetThresholds(Adjusted(page, -1))
       [] OTHER         -> UNCHANGED thresholds

Init ==
  /\ stable = Rest /\ last = Rest /\ held = 0
  /\ page = "values"
  /\ thresholds = Defaults
  /\ same = 0 /\ firm = FALSE /\ steps = 0
  /\ gesture = [from |-> "values", long |-> FALSE]

AtRest == stable = Rest /\ last = Rest

\* The reading has changed: it has to settle first.
ScanChanged(raw) ==
  /\ raw # last
  /\ last' = raw
  /\ held' = 0
  /\ same' = 1 /\ steps' = 0
  /\ firm' = IF AtRest THEN FALSE ELSE firm
  /\ gesture' = IF AtRest THEN [from |-> page, long |-> FALSE] ELSE gesture
  /\ UNCHANGED <<stable, page, thresholds>>

ScanUnchanged ==
  LET raw == last
      event == EventAt(raw)
  IN /\ held' = IF Released(raw) THEN 0 ELSE Counted
     /\ stable' = IF Settled(Counted) \/ Released(raw) THEN raw ELSE stable
     /\ Handle(event)
     /\ same' = IF same < 3 THEN same + 1 ELSE same
     /\ firm' = (firm \/ (raw # Rest /\ same >= 2))
     /\ steps' = IF event \in {"inc", "dec"} /\ steps < 2 THEN steps + 1 ELSE steps
     /\ gesture' = IF event = "enter_exit" THEN [gesture EXCEPT !.long = TRUE] ELSE gesture
     /\ UNCHANGED last

-------------------------------------------------------------------------------
\* SET: set_cmd casts each value to the field's type before the check.
Cast(f, v) ==
  CASE f \in {"temp_min", "temp_max"} ->
         ((v + WordWidth \div 2) % WordWidth) - WordWidth \div 2
    [] f \in {"humi_min", "humi_max"} -> v % ByteWidth
    [] OTHER                          -> v % WordWidth

SetCommand(request) ==
  /\ SetThresholds([f \in Fields |-> IF f \in DOMAIN request THEN Cast(f, request[f])
                                                            ELSE thresholds[f]])
  /\ UNCHANGED <<keyVars, page, historyVars>>

Next ==
  \/ \E raw \in Levels : ScanChanged(raw)
  \/ ScanUnchanged
  \/ \E r \in Requests : SetCommand(r)

Spec == Init /\ [][Next]_vars

-------------------------------------------------------------------------------
TypeOK ==
  /\ stable \in Levels /\ last \in Levels
  /\ held \in 0 .. (HeldWidth - 1)
  /\ page \in Pages
  /\ thresholds \in [Fields -> Int]
  /\ same \in 0 .. 3 /\ firm \in BOOLEAN /\ steps \in 0 .. 2
  /\ gesture \in [from : Pages, long : BOOLEAN]

\* Whatever the keys and the host ask for, in whatever order, the thresholds stay
\* within the limits and each minimum below its maximum: else a lamp would be lit
\* for too much and too little at once (app_control.c:10, 12 and 16).
ThresholdsInRange ==
  /\ TempLow <= thresholds["temp_min"] /\ thresholds["temp_max"] <= TempHigh
  /\ thresholds["temp_min"] <= thresholds["temp_max"]
  /\ 0 <= thresholds["humi_min"] /\ thresholds["humi_max"] <= HumiHigh
  /\ thresholds["humi_min"] <= thresholds["humi_max"]
  /\ \A f \in {"air_max", "light_min", "soil_min"} : thresholds[f] \in 0 .. AdcHigh

\* A key never goes dead: what app_adjust makes of the thresholds passes the check
\* of app_set_thresholds, which says nothing when it refuses.
AdjustIsAccepted ==
  \A p \in Pages, d \in {-1, 1} : Accepts(Adjusted(p, d))

\* A key held down changes a threshold once, however long it is held: the count
\* stops before the sixteen bits overflow and pass 40 ms again (key.c:5).
OneStepPerHold == steps <= 1

\* Bouncing contacts change nothing: without three equal readings of some key since
\* the keys were at rest, no page and no threshold changes by a key.
Debounced ==
  [][ScanUnchanged /\ <<page, thresholds>>' # <<page, thresholds>> => firm']_vars

\* "KEY1 held long: enter or leave the settings" (README_STM32.txt:26): a long press
\* that begins on a settings page ends, once the keys are released, on a page that
\* is not one.
LongPressLeaves ==
  AtRest /\ gesture.long /\ Editing(gesture.from) => ~Editing(page)
===============================================================================
