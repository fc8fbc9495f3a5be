----------------------------- MODULE DeviceProofs -----------------------------
(***************************************************************************)
(* Proofs about parts of the system that share nothing with each other: of *)
(* the archived firmware its panel, keys and clock (C51App, C51Keys,       *)
(* C51Tick); of the current one the LoRa link and the buzzer (Lora,        *)
(* Buzzer) and the start-up of its pins (Board); the drivers of both       *)
(* (Oled, Dht11, Adc); and of the local dashboard its requests and its     *)
(* event streams (FlaskSerial, StateStore).                                *)
(***************************************************************************)
EXTENDS C51App, C51Keys, C51Tick, Lora, FlaskSerial, Buzzer, StateStore, Oled, Dht11, Adc,
        Board, FiniteSetTheorems, SequenceTheorems, TLAPS

-------------------------------------------------------------------------------
(* The archived panel: the order of the thresholds needs only their types. *)

ThresholdsInv51 ==
  /\ c51page \in UiPages
  /\ thresholds51 \in [Thresholds -> Int]
  /\ C51ThresholdsOrdered

\* clamp_s16 and clamp_u16 (app_control.c:9).
LEMMA ClampSInRange ==
  ASSUME NEW value \in Int, NEW low \in Int, NEW high \in Int, low <= high
  PROVE  ClampS(value, low, high) \in low..high
  BY DEF ClampS

\* The limits of a field are integers in order, whatever its partner is now.
LEMMA LimitsOrdered ==
  ASSUME ThresholdsInv51, NEW field \in Thresholds
  PROVE  LET limits == Limits(thresholds51, field)
         IN limits[1] \in Int /\ limits[2] \in Int /\ limits[1] <= limits[2]
  BY C51LimitsAssumption
  DEF ThresholdsInv51, C51ThresholdsOrdered, Limits, Thresholds, Thermal, Analog

\* A key moves one field, and leaves it within its limits.
LEMMA AdjustInLimits ==
  ASSUME ThresholdsInv51, NEW field \in Thresholds, NEW delta \in {1, -1}
  PROVE  LET after  == Adjust51(thresholds51, field, delta)
             limits == Limits(thresholds51, field)
         IN /\ after \in [Thresholds -> Int]
            /\ after[field] \in limits[1]..limits[2]
            /\ \A f \in Thresholds \ {field} : after[f] = thresholds51[f]
  <1> DEFINE limits == Limits(thresholds51, field)
             moved == thresholds51[field]
                        + (IF field \in Analog THEN delta * C51AdcStep ELSE delta)
             value == ClampS(moved, limits[1], limits[2])
  <1>1. limits[1] \in Int /\ limits[2] \in Int /\ limits[1] <= limits[2]
    BY LimitsOrdered
  <1>2. moved \in Int
    BY C51LimitsAssumption DEF ThresholdsInv51
  <1>3. value \in limits[1]..limits[2]
    <2> HIDE DEF moved, limits
    <2> QED
      BY <1>1, <1>2, ClampSInRange
  <1>4. value \in Int
    BY <1>1, <1>3
  <1>5. Adjust51(thresholds51, field, delta) = [thresholds51 EXCEPT ![field] = value]
    BY DEF Adjust51
  <1> HIDE DEF value, moved
  <1> QED
    BY <1>3, <1>4, <1>5 DEF ThresholdsInv51

LEMMA AdjustKeepsOrder ==
  ASSUME ThresholdsInv51, NEW field \in Thresholds, NEW delta \in {1, -1},
         thresholds51' = Adjust51(thresholds51, field, delta)
  PROVE  thresholds51' \in [Thresholds -> Int] /\ C51ThresholdsOrdered'
  <1> DEFINE limits == Limits(thresholds51, field)
  <1>1. /\ thresholds51' \in [Thresholds -> Int]
        /\ thresholds51'[field] \in limits[1]..limits[2]
        /\ \A f \in Thresholds \ {field} : thresholds51'[f] = thresholds51[f]
    BY AdjustInLimits
  <1> QED
    BY <1>1, C51LimitsAssumption
    DEF ThresholdsInv51, C51ThresholdsOrdered, Limits, Thresholds, Thermal, Analog

LEMMA NextItemIsSetting == \A page \in UiPages : NextItem(page) \in Thresholds
  BY DEF NextItem, SetPages, UiPages, Thresholds, Thermal, Analog

LEMMA C51AppStep == ThresholdsInv51 /\ [C51AppNext]_c51appVars => ThresholdsInv51'
  <1> SUFFICES ASSUME ThresholdsInv51, [C51AppNext]_c51appVars PROVE ThresholdsInv51'
    OBVIOUS
  <1>1. ASSUME NEW event \in {"mode", "select", "up", "down"}, KeyTask(event)
        PROVE  ThresholdsInv51'
    <2> DEFINE field == IF c51page \in Thresholds THEN c51page ELSE NextItem(c51page)
    <2>1. field \in Thresholds
      BY NextItemIsSetting DEF ThresholdsInv51
    <2>2. CASE event = "mode"
      <3>1. thresholds51' = thresholds51 /\ c51page' \in {"values", "thresholds"}
        BY <1>1, <2>2 DEF KeyTask, NextPage51
      <3> QED
        BY <3>1 DEF ThresholdsInv51, C51ThresholdsOrdered, UiPages
    <2>3. CASE event = "select"
      <3>1. thresholds51' = thresholds51 /\ c51page' \in Thresholds
        BY <1>1, <2>3, NextItemIsSetting DEF KeyTask, ThresholdsInv51
      <3> QED
        BY <3>1 DEF ThresholdsInv51, C51ThresholdsOrdered, UiPages
    <2>4. CASE event \in {"up", "down"}
      <3>1. PICK delta \in {1, -1} :
              thresholds51' = Adjust51(thresholds51, field, delta) /\ c51page' = field
        BY <1>1, <2>4 DEF KeyTask
      <3>2. thresholds51' \in [Thresholds -> Int] /\ C51ThresholdsOrdered'
        <4> HIDE DEF field
        <4> QED
          BY <2>1, <3>1, AdjustKeepsOrder
      <3> QED
        BY <2>1, <3>1, <3>2 DEF ThresholdsInv51, UiPages
    <2> QED
      BY <2>2, <2>3, <2>4
  <1>2. ASSUME UNCHANGED <<c51page, thresholds51>> PROVE ThresholdsInv51'
    BY <1>2 DEF ThresholdsInv51, C51ThresholdsOrdered
  <1> QED
    BY <1>1, <1>2 DEF C51AppNext, SensorTask, DisplayTask, SerialTask, c51appVars

LEMMA C51AppStart == C51AppInit => ThresholdsInv51
  BY C51DefaultsAssumption, C51LimitsAssumption
  DEF C51AppInit, ThresholdsInv51, C51ThresholdsOrdered, UiPages, Thresholds,
      Thermal, Analog

\* For all limits and steps, in-range defaults and any keys, the thresholds of
\* the archived firmware stay in range and in order (app_adjust_selected).
THEOREM ThresholdsStayOrdered == C51AppSpec => []C51ThresholdsOrdered
  <1>1. ThresholdsInv51 => C51ThresholdsOrdered
    BY DEF ThresholdsInv51
  <1> QED
    BY <1>1, C51AppStart, C51AppStep, PTL DEF C51AppSpec

-------------------------------------------------------------------------------
(* What the archived firmware drives, reports and shows.                   *)

\* Unless a threshold was adjusted, the pins are the outputs, and these are what
\* sensors and thresholds call for.
OutputsInv51 ==
  adjusted \/ (/\ c51outputs = c51pins
               /\ c51pins = UpdateOutputs(sensor, thresholds51)
               /\ report = <<>> \/ report = <<AlarmBits(c51pins), c51pins>>)

\* What the display remembers is what it printed, and is of now unless something
\* happened since.
DisplayInv51 ==
  /\ backlog \in Nat
  /\ remembered # <<>> =>
       \E page, s, t : /\ remembered = <<page, s, t>>
                       /\ screen = Line(page, s, t)
  /\ backlog = 0 => remembered = <<c51page, sensor, thresholds51>>

LEMMA OutputsStep == OutputsInv51 /\ [C51AppNext]_c51appVars => OutputsInv51'
  <1> SUFFICES ASSUME OutputsInv51, [C51AppNext]_c51appVars PROVE OutputsInv51'
    OBVIOUS
  <1>1. ASSUME NEW event \in {"mode", "select", "up", "down"}, KeyTask(event)
        PROVE  OutputsInv51'
    <2>1. CASE event \in {"mode", "select"}
      <3>1. /\ report' = <<>>
            /\ UNCHANGED <<c51outputs, c51pins, sensor, thresholds51, adjusted>>
        BY <1>1, <2>1 DEF KeyTask
      <3> QED
        BY <3>1 DEF OutputsInv51
    <2>2. CASE event \in {"up", "down"}
      BY <1>1, <2>2 DEF KeyTask, OutputsInv51
    <2> QED
      BY <2>1, <2>2
  <1>2. ASSUME NEW climate, NEW soil, SensorTask(climate, soil) PROVE OutputsInv51'
    BY <1>2 DEF SensorTask, OutputsInv51
  <1>3. CASE DisplayTask
    BY <1>3 DEF DisplayTask, OutputsInv51
  <1>4. CASE SerialTask
    BY <1>4 DEF SerialTask, OutputsInv51
  <1>5. CASE UNCHANGED c51appVars
    BY <1>5 DEF c51appVars, OutputsInv51
  <1> QED
    BY <1>1, <1>2, <1>3, <1>4, <1>5 DEF C51AppNext

\* Whatever the sensors read, the pins are what sensors and thresholds call for
\* and the host is told what they drive, but after a key adjusted a threshold
\* (read_sensors, serial2_report_all).
THEOREM ReportStaysTrue == C51AppSpec => []C51ReportIsTrue
  <1>1. C51AppInit => OutputsInv51
    BY C51DefaultsAssumption DEF C51AppInit, OutputsInv51
  <1>2. OutputsInv51 => C51ReportIsTrue
    BY DEF OutputsInv51, C51ReportIsTrue
  <1> QED
    BY <1>1, <1>2, OutputsStep, PTL DEF C51AppSpec

LEMMA DisplayStep == DisplayInv51 /\ [C51AppNext]_c51appVars => DisplayInv51'
  <1> SUFFICES ASSUME DisplayInv51, [C51AppNext]_c51appVars PROVE DisplayInv51'
    OBVIOUS
  <1>1. ASSUME Bound51, UNCHANGED <<remembered, screen>> PROVE DisplayInv51'
    <2>1. backlog' \in Nat /\ backlog' # 0
      BY <1>1 DEF Bound51, DisplayInv51
    <2> QED
      BY <1>1, <2>1 DEF DisplayInv51
  <1>2. CASE DisplayTask
    <2>1. backlog' = 0 /\ UNCHANGED <<c51page, thresholds51, sensor>>
      BY <1>2 DEF DisplayTask
    <2>2. CASE SameAsRemembered(c51page, sensor, thresholds51)
      <3>1. UNCHANGED <<screen, remembered>>
        BY <1>2, <2>2 DEF DisplayTask
      <3>2. remembered' = <<c51page, sensor, thresholds51>>'
        BY <2>1, <2>2, <3>1 DEF SameAsRemembered
      <3> QED
        BY <2>1, <3>1, <3>2 DEF DisplayInv51
    <2>3. CASE ~SameAsRemembered(c51page, sensor, thresholds51)
      <3>1. /\ screen' = Line(c51page, sensor, thresholds51)
            /\ remembered' = <<c51page, sensor, thresholds51>>
        BY <1>2, <2>3 DEF DisplayTask
      <3> QED
        BY <2>1, <3>1 DEF DisplayInv51
    <2> QED
      BY <2>2, <2>3
  <1>3. CASE SerialTask \/ UNCHANGED c51appVars
    <2>1. UNCHANGED <<c51page, thresholds51, sensor, remembered, screen, backlog>>
      BY <1>3 DEF SerialTask, c51appVars
    <2> QED
      BY <2>1 DEF DisplayInv51
  <1> QED
    BY <1>1, <1>2, <1>3 DEF C51AppNext, KeyTask, SensorTask

\* After display_update the line on the screen is the page, the readings and the
\* thresholds of now, whatever came back to what it was before it was drawn.
THEOREM ScreenStaysCurrent == C51AppSpec => []C51ScreenIsCurrent
  <1>1. C51AppInit => DisplayInv51
    BY DEF C51AppInit, DisplayInv51
  <1>2. DisplayInv51 => C51ScreenIsCurrent
    <2> SUFFICES ASSUME DisplayInv51, backlog = 0
                 PROVE  screen = Line(c51page, sensor, thresholds51)
      BY DEF C51ScreenIsCurrent
    <2>1. remembered = <<c51page, sensor, thresholds51>> /\ remembered # <<>>
      BY DEF DisplayInv51
    <2>2. PICK page, s, t : remembered = <<page, s, t>> /\ screen = Line(page, s, t)
      BY <2>1 DEF DisplayInv51
    <2>3. page = c51page /\ s = sensor /\ t = thresholds51
      BY <2>1, <2>2
    <2> QED
      BY <2>2, <2>3
  <1> QED
    BY <1>1, <1>2, DisplayStep, PTL DEF C51AppSpec
-------------------------------------------------------------------------------
(* The keys of the archived firmware.                                      *)

Levels3 == {<<x, y, z>> : x \in C51Levels, y \in C51Levels, z \in C51Levels}

\* The count of equal readings has that many behind it, a settled level has two,
\* and a key that is settled up has rested.
KeyInv(k) ==
  /\ debounce[k] \in [stable : C51Levels, last_raw : C51Levels, count : 0..3,
                      reported : BOOLEAN]
  /\ readings[k] \in Levels3
  /\ readings[k][3] = debounce[k].last_raw
  /\ debounce[k].count >= 1 => readings[k][2] = readings[k][3]
  /\ debounce[k].count >= 2 => readings[k][1] = readings[k][2]
  /\ debounce[k].reported <=> debounce[k].stable = KeyActive
  /\ debounce[k].stable # KeyActive => rested[k]

KeysInv51 == \A k \in C51Index : KeyInv(k)

LEMMA C51IndexType == C51Index \subseteq Nat \ {0}
  BY C51KeysAssumption DEF C51Index

\* What key_update leaves has the readings behind it that it claims.
LEMMA KeyUpdateSettles ==
  ASSUME NEW k \in C51Index, KeyInv(k), NEW raw \in C51Levels
  PROVE  LET d == KeyUpdate(debounce[k], raw)
             r == <<readings[k][2], readings[k][3], raw>>
         IN /\ d \in [stable : C51Levels, last_raw : C51Levels, count : 0..3,
                      reported : BOOLEAN]
            /\ r \in Levels3 /\ r[3] = d.last_raw
            /\ d.count >= 1 => r[2] = r[3]
            /\ d.count >= 2 => r[1] = r[2]
            /\ d.reported <=> d.stable = KeyActive
            /\ d.stable # debounce[k].stable => r = <<raw, raw, raw>> /\ d.stable = raw
            /\ KeyPressed(debounce[k], raw) =>
                 debounce[k].stable # KeyActive /\ d.stable = KeyActive
  <1> DEFINE r == <<readings[k][2], readings[k][3], raw>>
             x == readings[k][2]
             y == readings[k][3]
  <1>1. r \in Levels3 /\ r = <<x, y, raw>>
    BY DEF KeyInv, Levels3
  <1> HIDE DEF r, x, y
  <1>2. r[1] = x /\ r[2] = y /\ r[3] = raw
    BY <1>1
  <1>3. /\ y = debounce[k].last_raw
        /\ debounce[k].count >= 1 => x = y
    BY DEF KeyInv, x, y
  <1>4. KeyCount(debounce[k], raw) \in 0..3
    BY DEF KeyCount, KeyInv
  <1>5. /\ KeyCount(debounce[k], raw) >= 1 => y = raw
        /\ KeyCount(debounce[k], raw) >= 2 => x = y
    BY <1>3 DEF KeyCount, KeyInv
  <1>6. KeyStable(debounce[k], raw) \in C51Levels
    BY DEF KeyStable, KeyInv
  <1>7. KeyStable(debounce[k], raw) # debounce[k].stable =>
          r = <<raw, raw, raw>> /\ KeyStable(debounce[k], raw) = raw
    BY <1>1, <1>5, <1>4 DEF KeyStable
  <1>8. KeyPressed(debounce[k], raw) =>
          /\ debounce[k].stable # KeyActive
          /\ KeyStable(debounce[k], raw) = KeyActive
    BY DEF KeyPressed, KeyReported, KeyInv
  <1> QED
    BY <1>1, <1>2, <1>4, <1>5, <1>6, <1>7, <1>8 DEF KeyUpdate, r

\* A scan keeps the invariant of every key, and reports a key only when it was
\* rested and three readings in a row were down.
LEMMA KeyScanStep ==
  ASSUME KeysInv51, NEW level \in [C51Index -> C51Levels], KeyScan(level),
         NEW k \in C51Index
  PROVE  /\ KeyInv(k)'
         /\ c51event' = k => rested[k] /\ readings'[k] = <<0, 0, 0>>
  <1> DEFINE scanned == KeyScanned(level)
             pressed == {j \in scanned : KeyPressed(debounce[j], level[j])}
             d == KeyUpdate(debounce[k], level[k])
             r == <<readings[k][2], readings[k][3], level[k]>>
  <1>1. /\ KeyInv(k) /\ level[k] \in C51Levels
        /\ scanned \subseteq C51Index /\ pressed \subseteq scanned
    BY DEF KeysInv51, KeyScanned
  <1>2. /\ debounce'[k] = IF k \in scanned THEN d ELSE debounce[k]
        /\ readings'[k] = IF k \in scanned THEN r ELSE readings[k]
        /\ rested'[k] = \/ rested[k] /\ k # c51event'
                        \/ k \in scanned /\ readings'[k] = <<1, 1, 1>>
        /\ c51event' = IF pressed = {} THEN C51None ELSE CHOOSE j \in pressed : TRUE
    BY DEF KeyScan
  <1>3. c51event' = k => k \in pressed
    <2>1. CASE pressed = {}
      BY <1>2, <2>1, C51IndexType DEF C51None
    <2>2. CASE pressed # {}
      BY <1>2, <2>2
    <2> QED
      BY <2>1, <2>2
  <1>4. /\ d \in [stable : C51Levels, last_raw : C51Levels, count : 0..3,
                  reported : BOOLEAN]
        /\ r \in Levels3 /\ r[3] = d.last_raw
        /\ d.count >= 1 => r[2] = r[3]
        /\ d.count >= 2 => r[1] = r[2]
        /\ d.reported <=> d.stable = KeyActive
        /\ d.stable # debounce[k].stable =>
             r = <<level[k], level[k], level[k]>> /\ d.stable = level[k]
        /\ KeyPressed(debounce[k], level[k]) =>
             debounce[k].stable # KeyActive /\ d.stable = KeyActive
    BY <1>1, KeyUpdateSettles
  <1>5. k \in pressed => k \in scanned /\ KeyPressed(debounce[k], level[k])
    OBVIOUS
  <1> HIDE DEF scanned, pressed, d, r
  <1>6. c51event' = k => rested[k] /\ readings'[k] = <<0, 0, 0>>
    <2> SUFFICES ASSUME c51event' = k PROVE rested[k] /\ readings'[k] = <<0, 0, 0>>
      OBVIOUS
    <2>1. /\ k \in scanned /\ debounce[k].stable # KeyActive /\ d.stable = KeyActive
      BY <1>3, <1>4, <1>5
    <2>2. r = <<0, 0, 0>> /\ readings'[k] = r
      BY <1>2, <1>4, <2>1 DEF KeyActive
    <2> QED
      BY <1>1, <2>1, <2>2 DEF KeyInv
  <1>7. debounce'[k].stable # KeyActive => rested'[k]
    <2> SUFFICES ASSUME debounce'[k].stable # KeyActive PROVE rested'[k]
      OBVIOUS
    <2>1. CASE k \in scanned /\ d.stable # debounce[k].stable
      <3>1. level[k] = 1
        BY <1>1, <1>2, <1>4, <2>1 DEF KeyActive, C51Levels
      <3> QED
        BY <1>2, <1>4, <2>1, <3>1
    <2>2. CASE ~(k \in scanned /\ d.stable # debounce[k].stable)
      <3>1. debounce[k].stable # KeyActive
        BY <1>2, <2>2
      <3>2. c51event' # k
        BY <1>2, <1>3, <1>4, <1>5, <2>2
      <3> QED
        BY <1>1, <1>2, <3>1, <3>2 DEF KeyInv
    <2> QED
      BY <2>1, <2>2
  <1>9. CASE k \in scanned
    BY <1>2, <1>4, <1>6, <1>7, <1>9 DEF KeyInv
  <1>10. CASE k \notin scanned
    <2>1. debounce'[k] = debounce[k] /\ readings'[k] = readings[k]
      BY <1>2, <1>10
    <2> QED
      BY <1>1, <1>6, <1>7, <2>1 DEF KeyInv
  <1> QED
    BY <1>6, <1>9, <1>10

LEMMA KeysStep == KeysInv51 /\ [C51KeysNext]_c51keyVars => KeysInv51'
  <1> SUFFICES ASSUME KeysInv51, [C51KeysNext]_c51keyVars PROVE KeysInv51'
    OBVIOUS
  <1>1. ASSUME NEW level \in [C51Index -> C51Levels], KeyScan(level) PROVE KeysInv51'
    <2>1. \A k \in C51Index : KeyInv(k)'
      BY <1>1, KeyScanStep
    <2> QED
      BY <2>1 DEF KeysInv51
  <1>2. CASE UNCHANGED c51keyVars
    BY <1>2 DEF c51keyVars, KeysInv51, KeyInv
  <1> QED
    BY <1>1, <1>2 DEF C51KeysNext

\* For any number of keys and any levels, a key is reported once per press, and
\* neither a bounce nor the early return of key_scan makes it twice.
THEOREM PressIsOnce == C51KeysSpec => C51PressIsOnce
  <1>1. C51KeysInit => KeysInv51
    <2> SUFFICES ASSUME C51KeysInit, NEW k \in C51Index PROVE KeyInv(k)
      BY DEF C51KeysInit, KeysInv51
    <2>1. /\ debounce[k] = KeyStateInit
          /\ readings[k] = <<1, 1, 1>>
          /\ rested[k]
      BY DEF C51KeysInit
    <2>2. <<1, 1, 1>> \in Levels3
      BY DEF Levels3, C51Levels
    <2>3. KeyStateInit \in [stable : C51Levels, last_raw : C51Levels, count : 0..3,
                             reported : BOOLEAN]
      BY DEF KeyStateInit, C51Levels
    <2> QED
      BY <2>1, <2>2, <2>3 DEF KeyInv, KeyStateInit, KeyActive
  <1>2. KeysInv51 /\ [C51KeysNext]_c51keyVars =>
          [\A k \in C51Index : c51event' = k =>
             rested[k] /\ readings'[k] = <<0, 0, 0>>]_c51keyVars
    BY KeyScanStep DEF C51KeysNext
  <1> QED
    BY <1>1, <1>2, KeysStep, PTL DEF C51KeysSpec, C51PressIsOnce

-------------------------------------------------------------------------------
(* No key of four is starved.  A key that had an event is six readings    *)
(* from its next, and a key that waits was not read only in scans in which *)
(* one before it had an event: each of them at most once in that time.     *)

\* The readings to the next event, at least.
ToEvent(d) ==
  IF d.stable = KeyActive
    THEN IF d.last_raw = KeyActive THEN 6 ELSE 5 - d.count
    ELSE IF d.last_raw = KeyActive THEN 2 - d.count ELSE 3

KeyStates == [stable : C51Levels, last_raw : C51Levels, count : 0..3, reported : BOOLEAN]

\* A level that is not the settled one has not been read three times; a key that
\* is down has been read as often as its count says, and has not rested.
KeySettled(k) ==
  LET d == debounce[k] r == readings[k] IN
  /\ d.last_raw # d.stable => d.count <= 1
  /\ d.stable = KeyActive =>
       /\ r[2] = r[3] => d.count >= 1
       /\ r[1] = r[2] /\ r[2] = r[3] => d.count >= 2
  /\ rested[k] => d.stable # KeyActive

\* The keys before a key that may have had an event in so many scans.
Events(k, scans) == {j \in 1..k - 1 : ToEvent(debounce[j]) >= 7 - scans}

Waits(k) ==
  /\ delayed[k] \in Nat
  /\ ~rested[k] => delayed[k] = 0
  /\ rested[k] =>
       delayed[k] <= 3 - ToEvent(debounce[k]) + Cardinality(Events(k, delayed[k]))

WaitInv ==
  /\ KeysInv51
  /\ \A k \in C51Index : KeySettled(k) /\ Waits(k)

\* What a reading does to the way to the next event.
LEMMA ReadingBringsNearer ==
  ASSUME NEW d \in KeyStates, NEW raw \in C51Levels,
         d.last_raw # d.stable => d.count <= 1, d.reported <=> d.stable = KeyActive
  PROVE  LET after == KeyUpdate(d, raw)
         IN /\ ToEvent(d) \in Int /\ ToEvent(after) \in Int
            /\ ToEvent(after) >= ToEvent(d) - 1
            /\ after.last_raw # after.stable => after.count <= 1
            /\ KeyPressed(d, raw) => ToEvent(d) = 1 /\ ToEvent(after) = 6
            /\ d.stable # KeyActive /\ raw = KeyActive /\ ~KeyPressed(d, raw) =>
                 ToEvent(after) <= ToEvent(d) - 1
            /\ d.stable # KeyActive => ToEvent(d) \in 1..3
            /\ after.stable = KeyActive =>
                 d.stable = KeyActive \/ KeyPressed(d, raw)
  <1> DEFINE count  == KeyCount(d, raw)
             stable == KeyStable(d, raw)
             after  == KeyUpdate(d, raw)
  <1>1. /\ d.stable \in {0, 1} /\ d.last_raw \in {0, 1} /\ d.count \in 0..3 /\ raw \in {0, 1}
    BY DEF KeyStates, C51Levels
  <1>2. /\ after.stable = stable /\ after.last_raw = raw /\ after.count = count
    BY DEF KeyUpdate
  <1>3. count = IF raw # d.last_raw THEN 0 ELSE IF d.count < 3 THEN d.count + 1 ELSE d.count
    BY DEF KeyCount
  <1>4. stable = IF count >= 2 THEN raw ELSE d.stable
    BY DEF KeyStable
  <1>5. KeyPressed(d, raw) <=> stable = 0 /\ d.stable = 1
    BY <1>1 DEF KeyPressed, KeyReported, KeyActive
  <1>6. ToEvent(d) = IF d.stable = 0 THEN IF d.last_raw = 0 THEN 6 ELSE 5 - d.count
                                     ELSE IF d.last_raw = 0 THEN 2 - d.count ELSE 3
    BY DEF ToEvent, KeyActive
  <1>7. ToEvent(after) = IF stable = 0 THEN IF raw = 0 THEN 6 ELSE 5 - count
                                       ELSE IF raw = 0 THEN 2 - count ELSE 3
    BY <1>2 DEF ToEvent, KeyActive
  <1> HIDE DEF count, stable, after
  <1>8. count \in 0..3 /\ stable \in {0, 1}
    BY <1>1, <1>3, <1>4
  <1> QED
    BY <1>1, <1>2, <1>3, <1>4, <1>5, <1>6, <1>7, <1>8 DEF KeyActive, after

\* Who is read in a scan: all, or the keys up to the one that has the event.
LEMMA ScanStops ==
  ASSUME NEW level \in [C51Index -> C51Levels], KeyScan(level), Len(C51Keys) <= 4
  PROVE  \/ /\ c51event' = C51None
            /\ \A k \in C51Index : k \in KeyScanned(level) /\ ~KeyPressed(debounce[k], level[k])
         \/ /\ c51event' \in C51Index
            /\ KeyPressed(debounce[c51event'], level[c51event'])
            /\ \A k \in C51Index :
                 /\ k \in KeyScanned(level) <=> k <= c51event'
                 /\ k < c51event' => ~KeyPressed(debounce[k], level[k])
  <1> DEFINE scanned == KeyScanned(level)
             P(k) == KeyPressed(debounce[k], level[k])
             pressed == {k \in scanned : P(k)}
  <1>1. c51event' = IF pressed = {} THEN C51None ELSE CHOOSE k \in pressed : TRUE
    BY DEF KeyScan
  <1>2. scanned = {k \in C51Index : \A j \in 1..k - 1 : ~P(j)}
    BY DEF KeyScanned
  <1>3. C51Index = 1..Len(C51Keys) /\ Len(C51Keys) \in 0..4
    <2>1. C51Index = 1..Len(C51Keys) /\ Len(C51Keys) \in Nat
      BY C51KeysAssumption DEF C51Index
    <2>2. \A n \in Nat : n <= 4 => n \in 0..4
      OBVIOUS
    <2> QED
      BY <2>1, <2>2
  <1> HIDE DEF scanned, P
  <1>4. CASE pressed = {}
    <2>1. \A k \in C51Index : k \in scanned => ~P(k)
      BY <1>4
    <2>2. 1 \in C51Index => ~P(1)
      BY <1>2, <1>3, <2>1
    <2>3. 2 \in C51Index => ~P(2)
      BY <1>2, <1>3, <2>1, <2>2
    <2>4. 3 \in C51Index => ~P(3)
      BY <1>2, <1>3, <2>1, <2>2, <2>3
    <2>5. 4 \in C51Index => ~P(4)
      BY <1>2, <1>3, <2>1, <2>2, <2>3, <2>4
    <2>6. \A k \in C51Index : ~P(k)
      BY <1>3, <2>2, <2>3, <2>4, <2>5
    <2>7. \A k \in C51Index : k \in scanned
      BY <1>2, <1>3, <2>6
    <2> QED
      BY <1>1, <1>4, <2>6, <2>7 DEF scanned, P
  <1>5. CASE pressed # {}
    <2>1. PICK e \in pressed : e = c51event'
      BY <1>1, <1>5
    <2>2. e \in C51Index /\ P(e) /\ \A j \in 1..e - 1 : ~P(j)
      BY <1>2, <2>1
    <2>3. \A k \in C51Index : (k \in scanned <=> k <= e) /\ (k < e => ~P(k))
      BY <1>2, <1>3, <2>2
    <2> QED
      BY <2>1, <2>2, <2>3 DEF scanned, P
  <1> QED
    BY <1>4, <1>5

\* What a scan does to a key, whether the scan reads it or not.
LEMMA ScanMoves ==
  ASSUME WaitInv, NEW level \in [C51Index -> C51Levels], KeyScan(level), Len(C51Keys) <= 4,
         NEW k \in C51Index
  PROVE  /\ k \in KeyScanned(level) => debounce'[k] = KeyUpdate(debounce[k], level[k])
         /\ k \notin KeyScanned(level) => debounce'[k] = debounce[k]
         /\ rested'[k] <=> \/ rested[k] /\ k # c51event'
                           \/ k \in KeyScanned(level) /\ readings'[k] = <<1, 1, 1>>
         /\ ToEvent(debounce[k]) \in Int /\ ToEvent(debounce'[k]) \in Int
         /\ ToEvent(debounce'[k]) >= ToEvent(debounce[k]) - 1
         /\ k \notin KeyScanned(level) => ToEvent(debounce'[k]) = ToEvent(debounce[k])
         /\ c51event' = k => ToEvent(debounce[k]) = 1 /\ ToEvent(debounce'[k]) = 6
         /\ debounce[k].stable # KeyActive => ToEvent(debounce[k]) \in 1..3
         /\ debounce'[k].last_raw # debounce'[k].stable => debounce'[k].count <= 1
         /\ debounce'[k].stable = KeyActive =>
              debounce[k].stable = KeyActive \/ c51event' = k
         /\ k \in KeyScanned(level) /\ k # c51event' /\ level[k] = KeyActive
              /\ debounce[k].stable # KeyActive =>
                 ToEvent(debounce'[k]) <= ToEvent(debounce[k]) - 1
  <1> DEFINE d == debounce[k]
             raw == level[k]
             after == KeyUpdate(d, raw)
  <1>1. /\ d \in KeyStates /\ raw \in C51Levels
        /\ d.last_raw # d.stable => d.count <= 1
        /\ d.reported <=> d.stable = KeyActive
    BY DEF WaitInv, KeysInv51, KeyInv, KeyStates, KeySettled
  <1>2. /\ k \in KeyScanned(level) => debounce'[k] = after
        /\ k \notin KeyScanned(level) => debounce'[k] = d
        /\ rested'[k] <=> \/ rested[k] /\ k # c51event'
                          \/ k \in KeyScanned(level) /\ readings'[k] = <<1, 1, 1>>
    BY DEF KeyScan
  <1>3. /\ ToEvent(d) \in Int /\ ToEvent(after) \in Int
        /\ ToEvent(after) >= ToEvent(d) - 1
        /\ after.last_raw # after.stable => after.count <= 1
        /\ KeyPressed(d, raw) => ToEvent(d) = 1 /\ ToEvent(after) = 6
        /\ d.stable # KeyActive /\ raw = KeyActive /\ ~KeyPressed(d, raw) =>
             ToEvent(after) <= ToEvent(d) - 1
        /\ d.stable # KeyActive => ToEvent(d) \in 1..3
        /\ after.stable = KeyActive => d.stable = KeyActive \/ KeyPressed(d, raw)
    BY <1>1, ReadingBringsNearer
  <1>4. /\ c51event' = k => KeyPressed(d, raw) /\ k \in KeyScanned(level)
        /\ k \in KeyScanned(level) /\ k # c51event' => ~KeyPressed(d, raw)
    <2>1. C51Index \subseteq Nat \ {0}
      BY C51IndexType
    <2> QED
      BY <2>1, ScanStops DEF C51None
  <1> DEFINE next == debounce'[k]
  <1>5. next = IF k \in KeyScanned(level) THEN after ELSE d
    BY <1>2
  <1> HIDE DEF after, d, raw, next
  <1>6. /\ ToEvent(d) \in Int /\ ToEvent(next) \in Int
        /\ ToEvent(next) >= ToEvent(d) - 1
        /\ k \notin KeyScanned(level) => ToEvent(next) = ToEvent(d)
    BY <1>3, <1>5
  <1>7. /\ next.last_raw # next.stable => next.count <= 1
        /\ next.stable = KeyActive => d.stable = KeyActive \/ c51event' = k
    BY <1>1, <1>3, <1>4, <1>5
  <1>8. /\ c51event' = k => ToEvent(d) = 1 /\ ToEvent(next) = 6
        /\ d.stable # KeyActive => ToEvent(d) \in 1..3
        /\ k \in KeyScanned(level) /\ k # c51event' /\ raw = KeyActive
             /\ d.stable # KeyActive => ToEvent(next) <= ToEvent(d) - 1
    BY <1>3, <1>4, <1>5
  <1> QED
    BY <1>2, <1>6, <1>7, <1>8 DEF d, raw, next, after

LEMMA SettledStep ==
  ASSUME WaitInv, NEW level \in [C51Index -> C51Levels], KeyScan(level), Len(C51Keys) <= 4,
         NEW k \in C51Index
  PROVE  KeySettled(k)'
  <1> DEFINE d == debounce[k]
             x == readings[k][2]
             y == readings[k][3]
             raw == level[k]
  <1>1. /\ d \in KeyStates /\ raw \in {0, 1} /\ x \in {0, 1} /\ y \in {0, 1}
        /\ y = d.last_raw /\ d.count \in 0..3 /\ d.stable \in {0, 1}
        /\ d.last_raw # d.stable => d.count <= 1
        /\ d.stable = KeyActive => (x = y => d.count >= 1)
        /\ d.stable = KeyActive => (readings[k][1] = x /\ x = y => d.count >= 2)
        /\ rested[k] => d.stable # KeyActive
    <2>1. KeyInv(k) /\ KeySettled(k)
      BY DEF WaitInv, KeysInv51
    <2>2. readings[k] \in Levels3 /\ d \in KeyStates /\ y = d.last_raw
      BY <2>1 DEF KeyInv, KeyStates
    <2>3. x \in {0, 1} /\ y \in {0, 1}
      BY <2>2 DEF Levels3, C51Levels
    <2>4. d.count \in 0..3 /\ d.stable \in {0, 1} /\ raw \in {0, 1}
      BY <2>2 DEF KeyStates, C51Levels
    <2> QED
      BY <2>1, <2>2, <2>3, <2>4 DEF KeySettled
  <1>2. CASE k \in KeyScanned(level)
    <2> DEFINE after == KeyUpdate(d, raw)
               count == KeyCount(d, raw)
               stable == KeyStable(d, raw)
    <2>1. debounce'[k] = after
      BY <1>2, ScanMoves
    <2>2. readings'[k] = <<x, y, raw>>
      BY <1>2 DEF KeyScan
    <2>3. readings'[k][1] = x /\ readings'[k][2] = y /\ readings'[k][3] = raw
      BY <2>2
    <2>4. after.stable = stable /\ after.last_raw = raw /\ after.count = count
      BY DEF KeyUpdate
    <2>5. count = IF raw # d.last_raw THEN 0 ELSE IF d.count < 3 THEN d.count + 1 ELSE d.count
      BY DEF KeyCount
    <2>6. stable = IF count >= 2 THEN raw ELSE d.stable
      BY DEF KeyStable
    <2> HIDE DEF after, count, stable, d, x, y, raw
    <2>7. stable = KeyActive => (y = raw => count >= 1)
      BY <1>1, <2>5
    <2>8. stable = KeyActive => (x = y /\ y = raw => count >= 2)
      <3>1. CASE d.stable = KeyActive
        BY <1>1, <2>5, <3>1
      <3>2. CASE d.stable # KeyActive
        BY <1>1, <2>5, <2>6, <3>2
      <3> QED
        BY <3>1, <3>2
    <2>9. rested'[k] => stable # KeyActive
      <3> SUFFICES ASSUME rested'[k], stable = KeyActive PROVE FALSE
        OBVIOUS
      <3>1. CASE readings'[k] = <<1, 1, 1>>
        <4>1. x = 1 /\ y = 1 /\ raw = 1
          BY <2>3, <3>1
        <4>2. count >= 2
          BY <2>8, <4>1
        <4> QED
          BY <2>6, <4>1, <4>2 DEF KeyActive
      <3>2. CASE ~(readings'[k] = <<1, 1, 1>>)
        <4>1. rested[k] /\ k # c51event'
          BY <3>2, ScanMoves
        <4>2. d.stable = KeyActive
          BY <2>1, <2>4, <4>1, ScanMoves DEF d
        <4> QED
          BY <1>1, <4>1, <4>2
      <3> QED
        BY <3>1, <3>2
    <2>10. debounce'[k].last_raw # debounce'[k].stable => debounce'[k].count <= 1
      BY ScanMoves
    <2> QED
      BY <2>1, <2>3, <2>4, <2>7, <2>8, <2>9, <2>10 DEF KeySettled
  <1>3. CASE k \notin KeyScanned(level)
    <2>1. debounce'[k] = debounce[k] /\ (rested'[k] => rested[k])
      BY <1>3, ScanMoves
    <2>2. readings'[k] = readings[k]
      BY <1>3 DEF KeyScan
    <2> QED
      BY <2>1, <2>2 DEF WaitInv, KeySettled
  <1> QED
    BY <1>2, <1>3

LEMMA KeysBefore ==
  ASSUME NEW k \in Nat \ {0}
  PROVE  IsFiniteSet(1..k - 1) /\ Cardinality(1..k - 1) = k - 1
  <1>1. 1 \in Int /\ k - 1 \in Int /\ (IF 1 > k - 1 THEN 0 ELSE (k - 1) - 1 + 1) = k - 1
    OBVIOUS
  <1> QED
    BY <1>1, FS_Interval

\* A scan that reports an earlier key adds that key to those that had an event
\* while this one waits; one that reports none of them brings this one nearer.
LEMMA WaitsStep ==
  ASSUME WaitInv, NEW level \in [C51Index -> C51Levels], KeyScan(level), Len(C51Keys) <= 4,
         NEW k \in C51Index, KeySettled(k)'
  PROVE  Waits(k)'
  <1> DEFINE n == delayed[k]
             far == ToEvent(debounce[k])
             near == ToEvent(debounce'[k])
             before == Events(k, n)
             later == {j \in 1..k - 1 : ToEvent(debounce'[j]) >= 7 - (n + 1)}
  <1>1. k \in 1..4 /\ \A j \in 1..k - 1 : j \in C51Index
    <2>1. C51Index = 1..Len(C51Keys) /\ Len(C51Keys) \in Nat
      BY C51KeysAssumption DEF C51Index
    <2>2. \A m \in Nat : m <= 4 => 1..m \subseteq 1..4
      OBVIOUS
    <2> QED
      BY <2>1, <2>2
  <1>2. /\ n \in Nat /\ (~rested[k] => n = 0)
        /\ rested[k] => n <= 3 - far + Cardinality(before)
        /\ rested[k] => debounce[k].stable # KeyActive
    BY DEF WaitInv, Waits, KeySettled
  <1>3. delayed'[k] = IF level[k] = KeyActive /\ rested[k] /\ k # c51event' THEN n + 1 ELSE 0
    BY DEF KeyScan
  <1>4. /\ far \in Int /\ near \in Int
        /\ rested[k] => far \in 1..3
        /\ rested'[k] => near \in 1..3
    <2>1. far \in Int /\ near \in Int /\ (debounce[k].stable # KeyActive => far \in 1..3)
      BY ScanMoves
    <2>2. debounce'[k].stable # KeyActive => near \in 1..3
      <3>1. /\ KeyInv(k)'
            /\ debounce'[k].last_raw # debounce'[k].stable => debounce'[k].count <= 1
        BY KeyScanStep, ScanMoves DEF WaitInv
      <3>2. debounce'[k] \in KeyStates
        BY <3>1 DEF KeyInv, KeyStates
      <3> DEFINE d == debounce'[k]
      <3> HIDE DEF d
      <3>3. /\ d.last_raw \in {0, 1} /\ d.stable \in {0, 1} /\ d.count \in 0..3
            /\ d.last_raw # d.stable => d.count <= 1
        BY <3>1, <3>2 DEF KeyStates, C51Levels, d
      <3>4. d.stable # KeyActive => ToEvent(d) \in 1..3
        BY <3>3 DEF ToEvent, KeyActive
      <3> QED
        BY <3>4 DEF d
    <2>3. rested'[k] => debounce'[k].stable # KeyActive
      BY DEF KeySettled
    <2> QED
      BY <1>2, <2>1, <2>2, <2>3
  <1>5. /\ IsFiniteSet(before) /\ IsFiniteSet(later)
        /\ Cardinality(before) \in 0..k - 1 /\ Cardinality(later) \in Nat
    <2>1. IsFiniteSet(1..k - 1) /\ Cardinality(1..k - 1) = k - 1
      BY C51IndexType, KeysBefore
    <2>2. before \subseteq 1..k - 1 /\ later \subseteq 1..k - 1
      BY DEF Events
    <2> HIDE DEF before, later
    <2>3. IsFiniteSet(before) /\ IsFiniteSet(later) /\ Cardinality(before) <= k - 1
      BY <2>1, <2>2, FS_Subset
    <2> QED
      BY <1>1, <2>3, FS_CardinalityType
  <1>6. CASE delayed'[k] = 0
    <2>1. IsFiniteSet(Events(k, 0)') /\ Cardinality(Events(k, 0)') \in Nat
      <3>1. Events(k, 0)' \subseteq 1..k - 1 /\ IsFiniteSet(1..k - 1)
        BY C51IndexType, KeysBefore DEF Events
      <3> QED
        BY <3>1, FS_Subset, FS_CardinalityType
    <2>2. rested'[k] => 0 <= 3 - near + Cardinality(Events(k, 0)')
      BY <1>4, <2>1
    <2> QED
      BY <1>6, <2>2 DEF Waits, Events
  <1>7. CASE delayed'[k] # 0
    <2>1. /\ delayed'[k] = n + 1 /\ level[k] = KeyActive /\ rested[k] /\ k # c51event'
      BY <1>3, <1>7
    <2>2. n <= 5
      <3> HIDE DEF before, n, far
      <3> QED
        BY <1>1, <1>2, <1>4, <1>5, <2>1
    <2>3. before \subseteq later
      <3> SUFFICES ASSUME NEW j \in 1..k - 1, ToEvent(debounce[j]) >= 7 - n
                   PROVE  ToEvent(debounce'[j]) >= 7 - (n + 1)
        BY DEF Events
      <3>1. /\ ToEvent(debounce[j]) \in Int /\ ToEvent(debounce'[j]) \in Int
            /\ ToEvent(debounce'[j]) >= ToEvent(debounce[j]) - 1
        BY <1>1, ScanMoves
      <3> QED
        BY <1>2, <3>1
    <2>4. n + 1 <= 3 - near + Cardinality(later)
      <3>1. CASE c51event' \in 1..k - 1
        <4> DEFINE e == c51event'
        <4>1. e \in C51Index /\ ToEvent(debounce[e]) = 1 /\ ToEvent(debounce'[e]) = 6
          BY <1>1, <3>1, ScanMoves
        <4>2. e \notin before /\ e \in later
          BY <1>2, <2>2, <3>1, <4>1 DEF Events
        <4>3. k \notin KeyScanned(level)
          <5>1. ~(k <= e) /\ e # 0
            BY <1>1, <3>1
          <5> QED
            BY <5>1, ScanStops DEF C51None
        <4>4. near = far
          BY <4>3, ScanMoves
        <4> HIDE DEF before, later, e
        <4>5. before \cup {e} \subseteq later
          BY <2>3, <4>2
        <4>6. Cardinality(before) + 1 <= Cardinality(later)
          BY <1>5, <4>2, <4>5, FS_AddElement, FS_Subset
        <4> HIDE DEF n, far, near
        <4> QED
          BY <1>2, <1>4, <1>5, <2>1, <4>4, <4>6
      <3>2. CASE c51event' \notin 1..k - 1
        <4>1. k \in KeyScanned(level)
          <5>1. c51event' \in C51Index => k <= c51event'
            BY <1>1, <3>2, C51IndexType
          <5> QED
            BY <5>1, ScanStops
        <4>2. near <= far - 1
          BY <1>2, <2>1, <4>1, ScanMoves
        <4> HIDE DEF before, later
        <4>3. Cardinality(before) <= Cardinality(later)
          BY <1>5, <2>3, FS_Subset
        <4> HIDE DEF n, far, near
        <4> QED
          BY <1>2, <1>4, <1>5, <2>1, <4>2, <4>3
      <3> QED
        BY <3>1, <3>2
    <2>5. later = Events(k, delayed[k])'
      BY <2>1 DEF Events
    <2>6. rested'[k]
      BY <2>1, ScanMoves
    <2> HIDE DEF later
    <2>7. delayed'[k] <= 3 - ToEvent(debounce'[k]) + Cardinality(Events(k, delayed[k])')
      BY <2>1, <2>4, <2>5
    <2> QED
      BY <1>2, <2>1, <2>6, <2>7 DEF Waits
  <1> QED
    BY <1>6, <1>7

LEMMA WaitBegins == C51KeysInit => WaitInv
  <1> SUFFICES ASSUME C51KeysInit PROVE WaitInv
    OBVIOUS
  <1>1. KeysInv51
    BY DEF C51KeysInit, KeysInv51, KeyInv, KeyStateInit, C51Levels, Levels3, KeyActive
  <1>2. ASSUME NEW k \in C51Index PROVE KeySettled(k) /\ Waits(k)
    <2>1. /\ debounce[k] = KeyStateInit /\ readings[k] = <<1, 1, 1>>
          /\ rested[k] /\ delayed[k] = 0
      BY DEF C51KeysInit
    <2>2. KeySettled(k)
      BY <2>1 DEF KeySettled, KeyStateInit, KeyActive
    <2>3. ToEvent(debounce[k]) = 3
      BY <2>1 DEF ToEvent, KeyStateInit, KeyActive
    <2>4. Cardinality(Events(k, 0)) \in Nat
      <3>1. Events(k, 0) \subseteq 1..k - 1 /\ IsFiniteSet(1..k - 1)
        BY C51IndexType, KeysBefore DEF Events
      <3> QED
        BY <3>1, FS_Subset, FS_CardinalityType
    <2> QED
      BY <2>1, <2>2, <2>3, <2>4 DEF Waits
  <1> QED
    BY <1>1, <1>2 DEF WaitInv

LEMMA WaitStep ==
  ASSUME Len(C51Keys) <= 4
  PROVE  WaitInv /\ [C51KeysNext]_c51keyVars => WaitInv'
  <1> SUFFICES ASSUME WaitInv, [C51KeysNext]_c51keyVars PROVE WaitInv'
    OBVIOUS
  <1>1. ASSUME NEW level \in [C51Index -> C51Levels], KeyScan(level) PROVE WaitInv'
    <2>1. \A k \in C51Index : KeySettled(k)' /\ Waits(k)'
      BY <1>1, SettledStep, WaitsStep
    <2> QED
      BY <2>1, KeysStep DEF WaitInv
  <1>2. CASE UNCHANGED c51keyVars
    BY <1>2 DEF c51keyVars, WaitInv, KeysInv51, KeyInv, KeySettled, Waits, Events
  <1> QED
    BY <1>1, <1>2 DEF C51KeysNext

\* With the four keys of the board or fewer, no key waits longer than the keys
\* before it can make it (key_scan).  A fifth would be too many.
THEOREM PressIsSeen ==
  ASSUME Len(C51Keys) <= 4
  PROVE  C51KeysSpec => []C51PressIsSeen
  <1>1. WaitInv => C51PressIsSeen
    <2> SUFFICES ASSUME WaitInv, NEW k \in C51Index PROVE delayed[k] <= 1 + k
      BY DEF C51PressIsSeen
    <2>1. k \in Nat \ {0}
      BY C51IndexType
    <2>2. /\ delayed[k] \in Nat /\ (~rested[k] => delayed[k] = 0)
          /\ rested[k] => delayed[k] <= 3 - ToEvent(debounce[k])
                                          + Cardinality(Events(k, delayed[k]))
          /\ rested[k] => debounce[k].stable # KeyActive
      BY DEF WaitInv, Waits, KeySettled
    <2>3. ToEvent(debounce[k]) \in Int /\ (rested[k] => ToEvent(debounce[k]) \in 1..3)
      <3>1. /\ debounce[k] \in KeyStates
            /\ debounce[k].last_raw # debounce[k].stable => debounce[k].count <= 1
            /\ debounce[k].reported <=> debounce[k].stable = KeyActive
        BY DEF WaitInv, KeysInv51, KeyInv, KeyStates, KeySettled
      <3>2. 0 \in C51Levels
        BY DEF C51Levels
      <3> QED
        BY <2>2, <3>1, <3>2, ReadingBringsNearer
    <2>4. Cardinality(Events(k, delayed[k])) <= k - 1
          /\ Cardinality(Events(k, delayed[k])) \in Nat
      <3>1. IsFiniteSet(1..k - 1) /\ Cardinality(1..k - 1) = k - 1
        BY <2>1, KeysBefore
      <3>2. Events(k, delayed[k]) \subseteq 1..k - 1
        BY DEF Events
      <3> QED
        BY <3>1, <3>2, FS_Subset, FS_CardinalityType
    <2> QED
      BY <2>1, <2>2, <2>3, <2>4
  <1>2. WaitInv /\ [C51KeysNext]_c51keyVars => WaitInv'
    BY WaitStep
  <1> QED
    BY <1>1, <1>2, WaitBegins, PTL DEF C51KeysSpec
-------------------------------------------------------------------------------
(* Time in the archived firmware.  What system_due sees between a task's   *)
(* last run and now is the number of overflows since, less the lost ones   *)
(* and the pending one, plus the one that was pending at the last run.     *)

Pending51 == IF tf0 THEN 1 ELSE 0

Lags(since, e, m) == since + Pending51 - (e - m) \in {0, 1}

C51TickShape ==
  /\ g_ms_ticks \in 0..Width51 - 1 /\ tf0 \in BOOLEAN
  /\ task \in Tasks51
  /\ last_tick \in [Tasks51 -> 0..Width51 - 1]
  /\ elapsed \in [Tasks51 -> Nat] /\ missed \in [Tasks51 -> Nat]
  /\ \A t \in Tasks51 : elapsed[t] <= Width51 - 2
  /\ pc51 \in {"high", "low", "unmask"} => ~ea

ReadingShape ==
  /\ seen[1] \in 0..elapsed[task] /\ seen[2] \in 0..missed[task]

\* A reading of the counter, now at this value, against the task's last run.
ReadingLags(value) ==
  /\ Lags(Since51(g_ms_ticks, value), elapsed[task] - seen[1], missed[task] - seen[2])
  /\ Since51(value, last_tick[task]) - (seen[1] - seen[2]) \in {-1, 0, 1}

C51TickInv ==
  /\ C51TickShape
  /\ \A t \in Tasks51 :
       Lags(Since51(g_ms_ticks, last_tick[t]), elapsed[t], missed[t])
  /\ pc51 \in {"low", "unmask", "due"} => ReadingShape
  /\ pc51 = "low" => copied = (g_ms_ticks \div Byte51) * Byte51 /\ ReadingLags(g_ms_ticks)
  /\ pc51 \in {"unmask", "due"} => copied \in 0..Width51 - 1 /\ ReadingLags(copied)

LEMMA Tasks51Known ==
  /\ Width51 \in Nat /\ Width51 > 2 /\ Byte51 \in Nat \ {0}
  /\ 1 \in Tasks51 /\ Tasks51 \subseteq Nat
  /\ \A t \in Tasks51 : Periods51[t] \in Nat /\ NextTask51 \in Tasks51
  <1>1. Width51 \in Nat /\ Byte51 \in Nat \ {0}
    BY C51TickAssumption DEF Width51
  <1>2. Tasks51 = 1..Len(Periods51) /\ Len(Periods51) \in Nat /\ DhtTask \in Tasks51
    BY C51TickAssumption DEF Tasks51
  <1>3. \A t \in Tasks51 : Periods51[t] \in 1..Width51 - 2
    BY C51TickAssumption
  <1>4. Periods51[DhtTask] \in 1..Width51 - 2
    BY <1>2, <1>3
  <1>5. Width51 > 2
    BY <1>1, <1>4
  <1>6. 1 \in Tasks51 /\ Tasks51 \subseteq Nat
    BY <1>2
  <1>7. \A t \in Tasks51 : Periods51[t] \in Nat
    BY <1>1, <1>3
  <1> QED
    BY <1>1, <1>5, <1>6, <1>7 DEF NextTask51

\* The difference of two readings, whichever side of the wrap-around they are.
LEMMA SinceIs ==
  ASSUME NEW a \in 0..Width51 - 1, NEW b \in 0..Width51 - 1
  PROVE  /\ Since51(a, b) = IF a >= b THEN a - b ELSE a + Width51 - b
         /\ Since51(a, b) \in 0..Width51 - 1
  <1>1. Width51 \in Nat /\ Width51 > 2
    BY Tasks51Known
  <1> HIDE DEF Width51
  <1>2. CASE a >= b
    <2>1. a + Width51 - b = (a - b) + Width51 * 1
      BY <1>1
    <2>2. (a + Width51 - b) % Width51 = a - b
      BY <1>1, <1>2, <2>1
    <2> QED
      BY <1>1, <1>2, <2>2 DEF Since51
  <1>3. CASE ~(a >= b)
    <2>1. (a + Width51 - b) % Width51 = a + Width51 - b
      BY <1>1, <1>3
    <2> QED
      BY <1>1, <1>3, <2>1 DEF Since51
  <1> QED
    BY <1>2, <1>3

\* A tick makes every difference one more, unless it would come round.
LEMMA TickAdds ==
  ASSUME NEW a \in 0..Width51 - 1, NEW b \in 0..Width51 - 1, Since51(a, b) < Width51 - 1
  PROVE  /\ (a + 1) % Width51 \in 0..Width51 - 1
         /\ Since51((a + 1) % Width51, b) = Since51(a, b) + 1
  <1>1. Width51 \in Nat /\ Width51 > 2
    BY Tasks51Known
  <1> DEFINE next == (a + 1) % Width51
  <1> HIDE DEF Width51
  <1>2. CASE a = Width51 - 1
    <2>1. next = 0
      BY <1>1, <1>2
    <2> HIDE DEF next
    <2>2. Since51(next, b) = IF 0 >= b THEN 0 - b ELSE 0 + Width51 - b
      BY <1>1, <2>1, SinceIs
    <2>3. Since51(a, b) = a - b
      BY <1>1, <1>2, SinceIs
    <2> QED
      BY <1>1, <1>2, <2>1, <2>2, <2>3 DEF next
  <1>3. CASE a # Width51 - 1
    <2>1. next = a + 1
      BY <1>1, <1>3
    <2> HIDE DEF next
    <2>2. next \in 0..Width51 - 1
      BY <1>1, <1>3, <2>1
    <2>3. Since51(next, b) = IF next >= b THEN next - b ELSE next + Width51 - b
      BY <1>1, <2>2, SinceIs
    <2>4. Since51(a, b) = IF a >= b THEN a - b ELSE a + Width51 - b
      BY <1>1, SinceIs
    <2> QED
      BY <1>1, <1>3, <2>1, <2>2, <2>3, <2>4 DEF next
  <1> QED
    BY <1>2, <1>3

LEMMA TickBegins == C51TickInit => C51TickInv
  <1> SUFFICES ASSUME C51TickInit PROVE C51TickInv
    OBVIOUS
  <1>1. Width51 \in Nat /\ Width51 > 2 /\ 1 \in Tasks51
    BY Tasks51Known
  <1>2. Since51(0, 0) = 0
    BY <1>1, SinceIs
  <1>3. C51TickShape
    <2>1. /\ last_tick \in [Tasks51 -> 0..Width51 - 1]
          /\ elapsed \in [Tasks51 -> Nat] /\ missed \in [Tasks51 -> Nat]
          /\ \A t \in Tasks51 : elapsed[t] <= Width51 - 2
      BY <1>1 DEF C51TickInit
    <2>2. g_ms_ticks \in 0..Width51 - 1 /\ task \in Tasks51
      <3>1. g_ms_ticks = 0 /\ task = 1
        BY DEF C51TickInit
      <3> QED
        BY <1>1, <3>1
    <2>3. tf0 \in BOOLEAN /\ pc51 \notin {"high", "low", "unmask"}
      BY DEF C51TickInit
    <2> QED
      BY <2>1, <2>2, <2>3 DEF C51TickShape
  <1>4. \A t \in Tasks51 :
          Lags(Since51(g_ms_ticks, last_tick[t]), elapsed[t], missed[t])
    <2>1. \A t \in Tasks51 : last_tick[t] = 0 /\ elapsed[t] = 0 /\ missed[t] = 0
      BY DEF C51TickInit
    <2>2. g_ms_ticks = 0 /\ Pending51 = 0
      BY DEF C51TickInit, Pending51
    <2> QED
      BY <1>2, <2>1, <2>2 DEF Lags
  <1> QED
    BY <1>3, <1>4 DEF C51TickInv, C51TickInit

LEMMA OverflowStep == ASSUME C51TickInv, Overflow PROVE C51TickInv'
  <1>1. /\ tf0' = TRUE
        /\ elapsed' = [t \in Tasks51 |-> elapsed[t] + 1]
        /\ missed' = [t \in Tasks51 |-> missed[t] + (IF tf0 THEN 1 ELSE 0)]
        /\ \A t \in Tasks51 : elapsed[t] < Width51 - 2
        /\ UNCHANGED <<g_ms_ticks, ea, pc51, task, copied, last_tick, seen>>
    BY DEF Overflow
  <1>2. Width51 \in Nat /\ Width51 > 2
    BY Tasks51Known
  <1>3. /\ C51TickShape /\ task \in Tasks51
        /\ \A t \in Tasks51 : elapsed[t] \in Nat /\ missed[t] \in Nat
    BY DEF C51TickInv, C51TickShape
  <1> HIDE DEF Width51
  <1>4. /\ elapsed' \in [Tasks51 -> Nat] /\ missed' \in [Tasks51 -> Nat]
        /\ \A t \in Tasks51 : elapsed'[t] <= Width51 - 2
    BY <1>1, <1>2, <1>3
  <1>5. C51TickShape'
    BY <1>1, <1>3, <1>4 DEF C51TickShape
  <1>6. ASSUME NEW t \in Tasks51
        PROVE  /\ elapsed'[t] = elapsed[t] + 1
               /\ Pending51' - (elapsed'[t] - missed'[t]) = Pending51 - (elapsed[t] - missed[t])
               /\ missed'[t] >= missed[t]
    <2>1. elapsed'[t] = elapsed[t] + 1 /\ missed'[t] = missed[t] + (IF tf0 THEN 1 ELSE 0)
      BY <1>1
    <2>2. Pending51' = 1 /\ Pending51 = IF tf0 THEN 1 ELSE 0
      BY <1>1 DEF Pending51
    <2> QED
      BY <1>3, <2>1, <2>2
  <1>7. \A t \in Tasks51 :
          Lags(Since51(g_ms_ticks, last_tick[t]), elapsed[t], missed[t])'
    <2> TAKE t \in Tasks51
    <2>1. Since51(g_ms_ticks, last_tick[t]) \in Int
      BY <1>3, SinceIs DEF C51TickShape
    <2>2. Lags(Since51(g_ms_ticks, last_tick[t]), elapsed[t], missed[t])
      BY DEF C51TickInv
    <2>3. elapsed'[t] \in Nat /\ missed'[t] \in Nat /\ Pending51 \in Int /\ Pending51' \in Int
      BY <1>4 DEF Pending51
    <2> QED
      BY <1>1, <1>3, <1>6, <2>1, <2>2, <2>3 DEF Lags
  <1>8. ReadingShape => ReadingShape'
    BY <1>1, <1>3, <1>6 DEF ReadingShape
  <1>9. ASSUME NEW value \in 0..Width51 - 1, ReadingShape, ReadingLags(value)
        PROVE  ReadingLags(value)'
    <2> DEFINE since == Since51(g_ms_ticks, value)
    <2>1. since \in Int
      BY <1>3, SinceIs DEF C51TickShape
    <2>2. since + Pending51 - ((elapsed[task] - seen[1]) - (missed[task] - seen[2])) \in {0, 1}
      BY <1>9 DEF ReadingLags, Lags
    <2>3. /\ elapsed'[task] \in Nat /\ missed'[task] \in Nat /\ Pending51 \in Int
          /\ Pending51' \in Int /\ seen[1] \in Int /\ seen[2] \in Int
      BY <1>3, <1>4, <1>9 DEF Pending51, ReadingShape
    <2>4. Pending51' - (elapsed'[task] - missed'[task]) = Pending51 - (elapsed[task] - missed[task])
      BY <1>3, <1>6
    <2> HIDE DEF since
    <2>5. since + Pending51' - ((elapsed'[task] - seen[1]) - (missed'[task] - seen[2])) \in {0, 1}
      BY <1>3, <2>1, <2>2, <2>3, <2>4
    <2> QED
      BY <1>1, <1>9, <2>5 DEF ReadingLags, Lags, since
  <1>10. pc51 = "low" => ReadingLags(g_ms_ticks)'
    BY <1>1, <1>3, <1>9 DEF C51TickInv, C51TickShape
  <1>11. pc51 \in {"unmask", "due"} => ReadingLags(copied)'
    BY <1>1, <1>9 DEF C51TickInv
  <1> QED
    BY <1>1, <1>5, <1>7, <1>8, <1>10, <1>11 DEF C51TickInv

LEMMA IsrStep == ASSUME C51TickInv, Isr PROVE C51TickInv'
  <1>1. /\ ea /\ tf0 /\ tf0' = FALSE /\ g_ms_ticks' = (g_ms_ticks + 1) % Width51
        /\ UNCHANGED <<ea, pc51, task, copied, last_tick, elapsed, missed, seen>>
    BY DEF Isr
  <1>2. Width51 \in Nat /\ Width51 > 2
    BY Tasks51Known
  <1>3. /\ C51TickShape /\ task \in Tasks51 /\ g_ms_ticks \in 0..Width51 - 1
        /\ \A t \in Tasks51 : /\ elapsed[t] \in Nat /\ missed[t] \in Nat
                              /\ elapsed[t] <= Width51 - 2 /\ last_tick[t] \in 0..Width51 - 1
    BY DEF C51TickInv, C51TickShape
  <1>4. Pending51 = 1 /\ Pending51' = 0
    BY <1>1 DEF Pending51
  <1>5. ASSUME NEW then \in 0..Width51 - 1, NEW e \in Nat, NEW m \in Nat, e <= Width51 - 2,
               Lags(Since51(g_ms_ticks, then), e, m)
        PROVE  /\ (g_ms_ticks + 1) % Width51 \in 0..Width51 - 1
               /\ Lags(Since51(g_ms_ticks, then), e, m)'
    <2> DEFINE since == Since51(g_ms_ticks, then)
    <2>1. since \in 0..Width51 - 1 /\ since + 1 - (e - m) \in {0, 1}
      BY <1>3, <1>4, <1>5, SinceIs DEF Lags
    <2> HIDE DEF since
    <2>2. since < Width51 - 1
      BY <1>2, <1>5, <2>1
    <2>3. /\ (g_ms_ticks + 1) % Width51 \in 0..Width51 - 1
          /\ Since51(g_ms_ticks', then) = since + 1
      BY <1>1, <1>3, <2>2, TickAdds DEF since
    <2>4. (since + 1) + 0 - (e - m) \in {0, 1}
      BY <1>2, <2>1
    <2> QED
      BY <1>4, <2>3, <2>4 DEF Lags
  <1>6. (g_ms_ticks + 1) % Width51 \in 0..Width51 - 1
    BY <1>2, <1>3
  <1>7. C51TickShape'
    BY <1>1, <1>3, <1>6 DEF C51TickShape
  <1>8. \A t \in Tasks51 :
          Lags(Since51(g_ms_ticks, last_tick[t]), elapsed[t], missed[t])'
    <2> TAKE t \in Tasks51
    <2>1. Lags(Since51(g_ms_ticks, last_tick[t]), elapsed[t], missed[t])
      BY DEF C51TickInv
    <2>2. PICK a \in 0..Width51 - 1, b \in Nat, c \in Nat :
            a = last_tick[t] /\ b = elapsed[t] /\ c = missed[t]
      BY <1>3
    <2>3. Lags(Since51(g_ms_ticks, a), b, c)'
      BY <1>3, <1>5, <2>1, <2>2
    <2> QED
      BY <1>1, <2>2, <2>3 DEF Lags
  <1>9. pc51 # "low"
    BY <1>1, <1>3 DEF C51TickShape
  <1>10. ReadingShape => ReadingShape'
    BY <1>1 DEF ReadingShape
  <1>11. ASSUME pc51 \in {"unmask", "due"}
         PROVE  copied' \in 0..Width51 - 1 /\ ReadingLags(copied)'
    <2>1. copied \in 0..Width51 - 1 /\ ReadingLags(copied) /\ ReadingShape
      BY <1>11 DEF C51TickInv
    <2>2. PICK a \in 0..Width51 - 1, b \in Nat, c \in Nat :
            a = copied /\ b = elapsed[task] - seen[1] /\ c = missed[task] - seen[2]
      BY <1>3, <2>1 DEF ReadingShape
    <2>3. b <= Width51 - 2
      BY <1>2, <1>3, <2>1, <2>2 DEF ReadingShape
    <2>4. Lags(Since51(g_ms_ticks, a), b, c)'
      BY <1>5, <2>1, <2>2, <2>3 DEF ReadingLags
    <2> QED
      BY <1>1, <2>1, <2>2, <2>4 DEF ReadingLags, Lags
  <1> QED
    BY <1>1, <1>7, <1>8, <1>9, <1>10, <1>11 DEF C51TickInv

\* The steps of the loop that leave history alone keep the invariant when they
\* keep the shape and the reading under way.
LEMMA LoopFrame ==
  ASSUME C51TickInv, C51TickShape',
         UNCHANGED <<g_ms_ticks, tf0, last_tick, elapsed, missed>>,
         pc51' \in {"low", "unmask", "due"} => ReadingShape',
         pc51' = "low" =>
           copied' = (g_ms_ticks \div Byte51) * Byte51 /\ ReadingLags(g_ms_ticks)',
         pc51' \in {"unmask", "due"} =>
           copied' \in 0..Width51 - 1 /\ ReadingLags(copied)'
  PROVE  C51TickInv'
  <1>1. \A t \in Tasks51 :
          Lags(Since51(g_ms_ticks, last_tick[t]), elapsed[t], missed[t])'
    BY DEF C51TickInv, Lags, Pending51
  <1> QED
    BY <1>1 DEF C51TickInv

LEMMA ReadHighStep ==
  ASSUME C51TickInv, ReadHigh, UNCHANGED <<g_ms_ticks, tf0, elapsed, missed>>
  PROVE  C51TickInv'
  <1>1. /\ pc51 = "high" /\ pc51' = "low" /\ copied' = (g_ms_ticks \div Byte51) * Byte51
        /\ seen' = <<elapsed[task], missed[task]>> /\ UNCHANGED <<ea, task, last_tick>>
    BY DEF ReadHigh, Goto51
  <1>2. C51TickShape /\ C51TickShape'
    BY <1>1 DEF C51TickInv, C51TickShape
  <1>3. /\ elapsed[task] \in Nat /\ missed[task] \in Nat /\ g_ms_ticks \in 0..Width51 - 1
        /\ last_tick[task] \in 0..Width51 - 1 /\ task \in Tasks51
    BY <1>2 DEF C51TickShape
  <1>4. seen'[1] = elapsed[task] /\ seen'[2] = missed[task]
    BY <1>1
  <1>5. ReadingShape'
    BY <1>1, <1>3, <1>4 DEF ReadingShape
  <1>6. ReadingLags(g_ms_ticks)'
    <2> DEFINE since == Since51(g_ms_ticks, last_tick[task])
    <2>1. Since51(g_ms_ticks, g_ms_ticks) = 0
      BY <1>3, Tasks51Known, SinceIs
    <2>2. Pending51' = Pending51 /\ Pending51 \in {0, 1}
      BY DEF Pending51
    <2>3. Lags(Since51(g_ms_ticks, g_ms_ticks), elapsed[task] - seen[1], missed[task] - seen[2])'
      BY <1>1, <1>3, <1>4, <2>1, <2>2 DEF Lags
    <2>4. since \in Int /\ since + Pending51 - (elapsed[task] - missed[task]) \in {0, 1}
      <3>1. since \in Int
        BY <1>3, SinceIs
      <3>2. Lags(since, elapsed[task], missed[task])
        BY <1>3 DEF C51TickInv
      <3> QED
        BY <3>1, <3>2 DEF Lags
    <2> HIDE DEF since
    <2>5. since - (elapsed[task] - missed[task]) \in {-1, 0, 1}
      BY <1>3, <2>2, <2>4
    <2>6. since = Since51(g_ms_ticks', last_tick'[task'])
      BY <1>1 DEF since
    <2> QED
      BY <1>4, <2>3, <2>5, <2>6 DEF ReadingLags
  <1> QED
    BY <1>1, <1>2, <1>5, <1>6, LoopFrame

LEMMA ReadLowStep ==
  ASSUME C51TickInv, ReadLow, UNCHANGED <<g_ms_ticks, tf0, elapsed, missed>>
  PROVE  C51TickInv'
  <1>1. /\ pc51 = "low" /\ pc51' = "unmask" /\ copied' = copied + (g_ms_ticks % Byte51)
        /\ UNCHANGED <<ea, task, last_tick, seen>>
    BY DEF ReadLow, Goto51
  <1>2. /\ C51TickShape /\ C51TickShape' /\ ReadingShape /\ ReadingShape'
        /\ ReadingLags(g_ms_ticks) /\ copied = (g_ms_ticks \div Byte51) * Byte51
    BY <1>1 DEF C51TickInv, C51TickShape, ReadingShape
  <1>3. g_ms_ticks \in 0..Width51 - 1 /\ Width51 \in Nat /\ Byte51 \in Nat \ {0}
    BY <1>2, Tasks51Known DEF C51TickShape
  <1>4. (g_ms_ticks \div Byte51) * Byte51 + (g_ms_ticks % Byte51) = g_ms_ticks
    BY <1>3
  <1>5. copied' = g_ms_ticks
    BY <1>1, <1>2, <1>4
  <1>6. ReadingLags(copied)' /\ copied' \in 0..Width51 - 1
    BY <1>1, <1>2, <1>3, <1>5 DEF ReadingLags, Lags, Pending51
  <1> QED
    BY <1>1, <1>2, <1>6, LoopFrame

LEMMA UnmaskStep ==
  ASSUME C51TickInv, Unmask, UNCHANGED <<g_ms_ticks, tf0, elapsed, missed>>
  PROVE  C51TickInv'
  <1>1. /\ pc51 = "unmask" /\ pc51' = "due"
        /\ UNCHANGED <<task, copied, last_tick, seen>>
    BY DEF Unmask, Goto51
  <1>2. /\ C51TickShape' /\ ReadingShape' /\ ReadingLags(copied)' /\ copied' \in 0..Width51 - 1
    BY <1>1 DEF C51TickInv, C51TickShape, ReadingShape, ReadingLags, Lags, Pending51
  <1> QED
    BY <1>1, <1>2, LoopFrame

\* The steps before a reading and after a task.
LEMMA AsideStep ==
  ASSUME C51TickInv, UNCHANGED <<g_ms_ticks, tf0, elapsed, missed, last_tick>>,
         pc51' \in {"mask", "high", "run", "handshake", "frame"}, task' \in Tasks51,
         pc51' = "high" => ~ea'
  PROVE  C51TickInv'
  <1>1. C51TickShape'
    BY DEF C51TickInv, C51TickShape
  <1> QED
    BY <1>1, LoopFrame

LEMMA DueStep ==
  ASSUME C51TickInv, pc51 = "due", pc51' = "run", UNCHANGED <<g_ms_ticks, tf0, ea, task, seen>>,
         last_tick' = [last_tick EXCEPT ![task] = copied],
         elapsed' = [elapsed EXCEPT ![task] = @ - seen[1]],
         missed' = [missed EXCEPT ![task] = @ - seen[2]]
  PROVE  C51TickInv'
  <1>1. /\ C51TickShape /\ ReadingShape /\ ReadingLags(copied) /\ copied \in 0..Width51 - 1
    BY DEF C51TickInv
  <1>2. /\ task \in Tasks51 /\ Width51 \in Nat
        /\ \A t \in Tasks51 : elapsed[t] \in Nat /\ missed[t] \in Nat /\ elapsed[t] <= Width51 - 2
    BY <1>1, Tasks51Known DEF C51TickShape
  <1>3. /\ elapsed[task] - seen[1] \in Nat /\ missed[task] - seen[2] \in Nat
        /\ elapsed[task] - seen[1] <= elapsed[task]
    BY <1>1, <1>2 DEF ReadingShape
  <1>4. /\ last_tick' \in [Tasks51 -> 0..Width51 - 1]
        /\ elapsed' \in [Tasks51 -> Nat] /\ missed' \in [Tasks51 -> Nat]
    BY <1>1, <1>2, <1>3 DEF C51TickShape
  <1>5. /\ elapsed'[task] = elapsed[task] - seen[1] /\ missed'[task] = missed[task] - seen[2]
        /\ last_tick'[task] = copied
        /\ \A t \in Tasks51 \ {task} : /\ elapsed'[t] = elapsed[t] /\ missed'[t] = missed[t]
                                       /\ last_tick'[t] = last_tick[t]
    BY <1>1, <1>2 DEF C51TickShape
  <1>6. \A t \in Tasks51 : elapsed'[t] <= Width51 - 2
    <2> TAKE t \in Tasks51
    <2>1. CASE t = task
      BY <1>2, <1>3, <1>5, <2>1
    <2>2. CASE t # task
      BY <1>2, <1>5, <2>2
    <2> QED
      BY <2>1, <2>2
  <1>7. C51TickShape'
    BY <1>1, <1>4, <1>6 DEF C51TickShape
  <1>8. \A t \in Tasks51 :
          Lags(Since51(g_ms_ticks, last_tick[t]), elapsed[t], missed[t])'
    <2> TAKE t \in Tasks51
    <2>1. CASE t = task
      BY <1>1, <1>2, <1>5, <2>1 DEF ReadingLags, Lags, Pending51
    <2>2. CASE t # task
      BY <1>5, <2>2 DEF C51TickInv, Lags, Pending51
    <2> QED
      BY <2>1, <2>2
  <1> QED
    BY <1>7, <1>8 DEF C51TickInv

LEMMA LoopStep == ASSUME C51TickInv, Loop51 PROVE C51TickInv'
  <1>1. UNCHANGED <<g_ms_ticks, tf0>>
    BY DEF Loop51
  <1>2. task \in Tasks51 /\ NextTask51 \in Tasks51 /\ (pc51 \in {"high", "low", "unmask"} => ~ea)
    BY Tasks51Known DEF C51TickInv, C51TickShape
  <1>3. CASE pc51 = "due" /\ pc51' = "run"
    <2>1. /\ elapsed' = [elapsed EXCEPT ![task] = @ - seen[1]]
          /\ missed' = [missed EXCEPT ![task] = @ - seen[2]]
      BY <1>3 DEF Loop51
    <2>2. /\ last_tick' = [last_tick EXCEPT ![task] = copied] /\ task' = task
          /\ UNCHANGED <<ea, seen>>
      BY <1>3 DEF Loop51, Mask, ReadHigh, ReadLow, Unmask, Due, Run, DhtFrame, DhtReturn, Goto51
    <2> QED
      BY <1>1, <1>3, <2>1, <2>2, DueStep
  <1>4. CASE ~(pc51 = "due" /\ pc51' = "run")
    <2>1. elapsed' = elapsed /\ missed' = missed
      BY <1>4 DEF Loop51
    <2>2. CASE Mask
      <3>1. pc51' = "high" /\ ~ea' /\ UNCHANGED <<task, last_tick>>
        BY <2>2 DEF Mask, Goto51
      <3> QED
        BY <1>1, <1>2, <2>1, <3>1, AsideStep
    <2>3. CASE Due
      <3>1. pc51' = "mask" /\ task' = NextTask51 /\ UNCHANGED last_tick
        BY <1>4, <2>3 DEF Due
      <3> QED
        BY <1>1, <1>2, <2>1, <3>1, AsideStep
    <2>4. CASE Run
      <3>1. pc51' \in {"handshake", "mask"} /\ task' \in {task, NextTask51} /\ UNCHANGED last_tick
        BY <2>4 DEF Run
      <3> QED
        BY <1>1, <1>2, <2>1, <3>1, AsideStep
    <2>5. CASE DhtFrame
      <3>1. pc51' = "frame" /\ UNCHANGED <<task, last_tick>>
        BY <2>5 DEF DhtFrame, Goto51
      <3> QED
        BY <1>1, <1>2, <2>1, <3>1, AsideStep
    <2>6. CASE DhtReturn
      <3>1. pc51' = "mask" /\ task' = NextTask51 /\ UNCHANGED last_tick
        BY <2>6 DEF DhtReturn
      <3> QED
        BY <1>1, <1>2, <2>1, <3>1, AsideStep
    <2> QED
      BY <1>1, <2>1, <2>2, <2>3, <2>4, <2>5, <2>6, ReadHighStep, ReadLowStep, UnmaskStep
      DEF Loop51
  <1> QED
    BY <1>3, <1>4

LEMMA TickStep == C51TickInv /\ [C51TickNext]_c51tickVars => C51TickInv'
  <1> SUFFICES ASSUME C51TickInv, [C51TickNext]_c51tickVars
               PROVE  C51TickInv'
    OBVIOUS
  <1>1. CASE UNCHANGED c51tickVars
    BY <1>1 DEF c51tickVars, C51TickInv, C51TickShape, ReadingShape, ReadingLags, Lags, Pending51
  <1> QED
    BY <1>1, OverflowStep, IsrStep, LoopStep DEF C51TickNext

\* No task of the archived main loop runs too early or is passed over when it is
\* due (system_millis, system_due), for a counter of any width and any periods
\* it can hold.
THEOREM TasksDueOnTime == C51TickInit /\ [][C51TickNext]_c51tickVars => C51DueOnTime
  <1> DEFINE OnTime == pc51 = "due" /\ pc51' # "due" =>
               IF pc51' = "run" THEN seen[1] + 1 >= Periods51[task]
                                ELSE seen[1] - seen[2] <= Periods51[task]
  <1>1. C51TickInv /\ [C51TickNext]_c51tickVars => [OnTime]_c51tickVars
    <2> SUFFICES ASSUME C51TickInv, C51TickNext, pc51 = "due", pc51' # "due"
                 PROVE  IF pc51' = "run" THEN seen[1] + 1 >= Periods51[task]
                                         ELSE seen[1] - seen[2] <= Periods51[task]
      BY DEF c51tickVars
    <2> DEFINE since == Since51(copied, last_tick[task])
    <2>1. Due
      BY DEF C51TickNext, Overflow, Isr, Loop51, Mask, ReadHigh, ReadLow, Unmask, Run, DhtFrame,
             DhtReturn, Goto51
    <2>2. /\ seen[1] \in Nat /\ seen[2] \in Nat /\ Periods51[task] \in Nat
          /\ since - (seen[1] - seen[2]) \in {-1, 0, 1} /\ since \in Int
      <3>1. /\ C51TickShape /\ ReadingShape /\ ReadingLags(copied) /\ copied \in 0..Width51 - 1
        BY DEF C51TickInv
      <3>2. task \in Tasks51 /\ elapsed[task] \in Nat /\ missed[task] \in Nat
            /\ last_tick[task] \in 0..Width51 - 1
        BY <3>1 DEF C51TickShape
      <3>3. since \in Int
        BY <3>1, <3>2, SinceIs
      <3>4. Periods51[task] \in Nat
        BY <3>2, Tasks51Known
      <3>5. seen[1] \in Nat /\ seen[2] \in Nat
        BY <3>1, <3>2 DEF ReadingShape
      <3> QED
        BY <3>1, <3>3, <3>4, <3>5 DEF ReadingLags
    <2>3. IF pc51' = "run" THEN since >= Periods51[task] ELSE ~(since >= Periods51[task])
      BY <2>1 DEF Due
    <2> HIDE DEF since
    <2> QED
      BY <2>2, <2>3
  <1>2. C51TickInit /\ [][C51TickNext]_c51tickVars => [][OnTime]_c51tickVars
    BY <1>1, TickBegins, TickStep, PTL
  <1> QED
    BY <1>2 DEF C51DueOnTime
-------------------------------------------------------------------------------
(* The LoRa link: without power the chip has no event, and a packet is only *)
(* fetched while the driver and the chip receive.                          *)

LoraInv ==
  /\ lorastate \in {"OFF", "ERROR", "RX", "TX"}
  /\ chip \in ChipModes
  /\ chip = "off" <=> lorastate \in {"OFF", "ERROR"}
  /\ chip = "off" => ~rxdone
  /\ lorapc \in {"clear", "fetch", "pong"} => lorastate = "RX"
  /\ lorapc # "service" => loraenabled
  /\ ~unanswered
  /\ LoraChipAgrees

LEMMA LoraStep == LoraInv /\ [LoraNext]_loraVars => LoraInv'
  <1> SUFFICES ASSUME LoraInv, [LoraNext]_loraVars PROVE LoraInv'
    OBVIOUS
  <1> USE DEF LoraInv, LoraChipAgrees, ChipModes
  <1>1. CASE Service
    BY <1>1 DEF Service
  <1>2. CASE LoraReceive
    BY <1>2 DEF LoraReceive
  <1>14. CASE LoraClear
    BY <1>14 DEF LoraClear
  <1>3. CASE Fetch
    BY <1>3 DEF Fetch
  <1>4. CASE Pong
    BY <1>4 DEF Pong, Transmit, ClearFlags, CanSend
  <1>5. CASE Telemetry
    BY <1>5 DEF Telemetry, Transmit, ClearFlags, CanSend
  <1>6. CASE LoraOff
    BY <1>6 DEF LoraOff, ClearFlags
  <1>7. CASE LoraPing
    BY <1>7 DEF LoraPing, Transmit, ClearFlags, CanSend
  <1>8. CASE LoraConfigure
    BY <1>8 DEF LoraConfigure
  <1>9. CASE LoraTick
    BY <1>9 DEF LoraTick
  <1>10. CASE ChipSent
    BY <1>10 DEF ChipSent
  <1>11. ASSUME NEW found \in BOOLEAN, LoraOn(found) PROVE LoraInv'
    BY <1>11 DEF LoraOn, ClearFlags
  <1>12. ASSUME NEW packet, NEW damaged, ChipReceived(packet, damaged) PROVE LoraInv'
    BY <1>12 DEF ChipReceived
  <1>13. CASE UNCHANGED loraVars
    BY <1>13 DEF loraVars
  <1> QED
    BY <1>1, <1>2, <1>3, <1>4, <1>5, <1>6, <1>7, <1>8, <1>9, <1>10, <1>11, <1>12,
       <1>13, <1>14
    DEF LoraNext, LoraPoll

LEMMA LoraStart == LoraInit => LoraInv
  BY DEF LoraInit, LoraInv, LoraChipAgrees, ChipModes

\* Whatever the period, the commands and the packets, the driver's state is the
\* chip's at every step (sx1278.c).
THEOREM ChipStaysAgreed == LoraInit /\ [][LoraNext]_loraVars => []LoraChipAgrees
  <1>1. LoraInv => LoraChipAgrees
    BY DEF LoraInv
  <1> QED
    BY <1>1, LoraStart, LoraStep, PTL

\* No ping that was read is left without its answer (lora_service_poll).
THEOREM PingsAreAnswered == LoraInit /\ [][LoraNext]_loraVars => []PongIsSent
  <1>1. LoraInv => PongIsSent
    BY DEF LoraInv, PongIsSent
  <1> QED
    BY <1>1, LoraStart, LoraStep, PTL
-------------------------------------------------------------------------------
(* The requests of the local dashboard.  A caller's id is fixed once it has *)
(* passed the counter; everything else refers to callers by it.            *)

Past   == {"port?", "shown?", "register", "send", "wait", "done"}
Inside == {"send", "wait"}
Numbered(c) == call[c].pc \in Past
InCall(c)   == call[c].pc \in Inside

\* Somebody with this id was answered, or a GET of the worker's has it.
AnsweredId(i) == i \in gets \/ \E c \in answered : idOf[c] = i

Pcs      == {"start", "write", "return"} \cup Past
Outcomes == {"none", "answer", "500", "503", "504"}
Calls == [pc : Pcs, read : Nat]
Lines == [id : Nat, for : SUBSET Callers]
Owners ==
  [pc : {"open", "show", "start", "write", "return", "read"}, read : Nat, opens : Nat]

FlaskTypeOK ==
  /\ call \in [Callers -> Calls]
  /\ idOf \in [Callers -> Nat]
  /\ outcome \in [Callers -> Outcomes]
  /\ allocated \in Nat /\ owner \in Owners
  /\ wire \in Seq(Lines)
  /\ answers \in Seq(Nat)
  /\ answered \subseteq Callers

\* Who was answered, or is about to be, has an id that was.
AnsweredInv ==
  \A c \in Callers :
    outcome[c] = "answer" \/ c \in told =>
      Numbered(c) /\ AnsweredId(idOf[c])

\* A line bears the id of the caller it is for, or of a GET.
Signed(l) ==
  /\ \A c \in l.for : idOf[c] = l.id /\ Numbered(c)
  /\ l.for = {} => l.id \in gets

\* Lines and answers bear ids of numbered callers or of GETs.
TravelInv ==
  /\ \A c \in answered : Numbered(c)
  /\ \A n \in 1..Len(wire) : Signed(wire[n])
  /\ \A n \in 1..Len(answers) : AnsweredId(answers[n])

TableInv ==
  \A i \in DOMAIN waiting :
    /\ waiting[i] \in Callers /\ idOf[waiting[i]] = i /\ Numbered(waiting[i])
    /\ \E c \in Callers : idOf[c] = i /\ InCall(c)

FlaskInv == FlaskTypeOK /\ AnsweredInv /\ TravelInv /\ TableInv

\* What every step leaves: ids of numbered callers, and answers that were given.
Settled ==
  /\ answered \subseteq answered' /\ gets \subseteq gets'
  /\ \A c \in Callers : Numbered(c) => (call'[c].pc \in Past) /\ idOf'[c] = idOf[c]

LEMMA AnsweredIdStays ==
  ASSUME FlaskInv, Settled, NEW i, AnsweredId(i)
  PROVE  i \in gets' \/ \E c \in answered' : idOf'[c] = i
  BY DEF FlaskInv, FlaskTypeOK, TravelInv, Settled, AnsweredId

LEMMA SignedStays ==
  ASSUME Settled, NEW l \in Lines, Signed(l)
  PROVE  /\ \A c \in l.for : idOf'[c] = l.id /\ (call'[c].pc \in Past)
         /\ l.for = {} => l.id \in gets'
  BY DEF Settled, Signed, Lines

LEMMA AnsweredStep ==
  ASSUME FlaskInv, Settled,
         \A c \in Callers : outcome'[c] = "answer" \/ c \in told' =>
           \/ outcome[c] = "answer" \/ c \in told
           \/ Numbered(c) /\ AnsweredId(idOf[c])
  PROVE  AnsweredInv'
  <1> SUFFICES ASSUME NEW c \in Callers, outcome'[c] = "answer" \/ c \in told'
               PROVE  /\ call'[c].pc \in Past
                      /\ idOf'[c] \in gets' \/ \E d \in answered' : idOf'[d] = idOf'[c]
    BY DEF AnsweredInv, AnsweredId, Numbered
  <1>1. Numbered(c) /\ AnsweredId(idOf[c])
    BY DEF FlaskInv, AnsweredInv
  <1>2. (call'[c].pc \in Past) /\ idOf'[c] = idOf[c]
    BY <1>1 DEF Settled
  <1> QED
    BY <1>1, <1>2, AnsweredIdStays

\* The lines and answers there are stay as they should be; what is added must be.
LEMMA TravelStep ==
  ASSUME FlaskInv, Settled, answered' = answered,
         answers' \in Seq(Nat), wire' \in Seq(Lines),
         \A n \in 1..Len(answers') : \E m \in 1..Len(answers) : answers'[n] = answers[m],
         \A n \in 1..Len(wire') :
           \/ \E m \in 1..Len(wire) : wire'[n] = wire[m]
           \/ /\ \A c \in wire'[n].for : idOf'[c] = wire'[n].id /\ (call'[c].pc \in Past)
              /\ wire'[n].for = {} => wire'[n].id \in gets'
  PROVE  TravelInv'
  <1>1. \A c \in answered : c \in Callers /\ Numbered(c) /\ (call'[c].pc \in Past)
    BY DEF FlaskInv, FlaskTypeOK, TravelInv, Settled
  <1>2. ASSUME NEW m \in 1..Len(wire)
        PROVE  /\ \A c \in wire[m].for : idOf'[c] = wire[m].id /\ (call'[c].pc \in Past)
               /\ wire[m].for = {} => wire[m].id \in gets'
    <2>1. wire[m] \in Lines /\ Signed(wire[m])
      BY DEF FlaskInv, FlaskTypeOK, TravelInv
    <2> QED
      BY <2>1, SignedStays
  <1>3. ASSUME NEW n \in 1..Len(wire')
        PROVE  /\ \A c \in wire'[n].for : idOf'[c] = wire'[n].id /\ (call'[c].pc \in Past)
               /\ wire'[n].for = {} => wire'[n].id \in gets'
    <2>1. CASE \E m \in 1..Len(wire) : wire'[n] = wire[m]
      <3>1. PICK m \in 1..Len(wire) : wire'[n] = wire[m]
        BY <2>1
      <3> QED
        BY <1>2, <3>1, Zenon
    <2>2. CASE ~\E m \in 1..Len(wire) : wire'[n] = wire[m]
      BY <2>2, Zenon
    <2> QED
      BY <2>1, <2>2
  <1>4. ASSUME NEW n \in 1..Len(answers')
        PROVE  answers'[n] \in gets' \/ \E c \in answered' : idOf'[c] = answers'[n]
    <2>1. PICK m \in 1..Len(answers) : answers'[n] = answers[m]
      OBVIOUS
    <2>2. AnsweredId(answers[m])
      BY DEF FlaskInv, TravelInv
    <2> QED
      BY <2>1, <2>2, AnsweredIdStays
  <1> QED
    BY <1>1, <1>3, <1>4 DEF TravelInv, Signed, AnsweredId, Numbered

LEMMA TravelFrame ==
  ASSUME FlaskInv, Settled, UNCHANGED <<wire, answers, answered>>
  PROVE  TravelInv'
  <1>1. wire' \in Seq(Lines) /\ answers' \in Seq(Nat)
    BY DEF FlaskInv, FlaskTypeOK
  <1> QED
    BY <1>1, TravelStep

\* A line is written.
LEMMA TravelWrite ==
  ASSUME FlaskInv, Settled, NEW l \in Lines, wire' = Append(wire, l),
         UNCHANGED <<answers, answered>>,
         \A c \in l.for : idOf'[c] = l.id /\ (call'[c].pc \in Past),
         l.for = {} => l.id \in gets'
  PROVE  TravelInv'
  <1>1. wire \in Seq(Lines) /\ answers' \in Seq(Nat)
    BY DEF FlaskInv, FlaskTypeOK
  <1>2. /\ wire' \in Seq(Lines)
        /\ \A n \in 1..Len(wire') : wire'[n] = l \/ (n \in 1..Len(wire) /\ wire'[n] = wire[n])
    BY <1>1
  <1> QED
    BY <1>1, <1>2, TravelStep

\* The table keeps its entries, but for those of an id that is popped.
LEMMA TableStep ==
  ASSUME FlaskInv, Settled, NEW gone,
         waiting' = Popped(gone) \/ waiting' = waiting,
         \A c \in Callers : InCall(c) => (call'[c].pc \in Inside) \/ (waiting' = Popped(gone) /\ idOf[c] = gone)
  PROVE  TableInv'
  <1>1. ASSUME NEW i \in DOMAIN waiting'
        PROVE  /\ waiting'[i] \in Callers
               /\ idOf'[waiting'[i]] = i /\ (call'[waiting'[i]].pc \in Past)
               /\ \E c \in Callers : idOf'[c] = i /\ (call'[c].pc \in Inside)
    <2>1. /\ i \in DOMAIN waiting /\ waiting'[i] = waiting[i]
          /\ waiting' = Popped(gone) => i # gone
      BY DEF Popped, Restrict
    <2>2. waiting[i] \in Callers /\ idOf[waiting[i]] = i /\ Numbered(waiting[i])
      BY <2>1 DEF FlaskInv, TableInv
    <2>3. idOf'[waiting[i]] = i /\ (call'[waiting[i]].pc \in Past)
      BY <2>2 DEF Settled
    <2>4. PICK c \in Callers : idOf[c] = i /\ InCall(c)
      BY <2>1 DEF FlaskInv, TableInv
    <2>5. (call'[c].pc \in Inside) /\ idOf'[c] = i
      BY <2>1, <2>4 DEF InCall, Numbered, Settled, Past, Inside
    <2> QED
      BY <2>1, <2>2, <2>3, <2>5 DEF Numbered, Past
  <1> QED
    BY <1>1 DEF TableInv, Numbered, InCall, Past, Inside

LEMMA CallAtMoves ==
  ASSUME FlaskTypeOK, NEW c \in Callers, NEW pc \in Pcs, NEW read \in Nat,
         CallAt(c, pc, read)
  PROVE  /\ call' \in [Callers -> Calls] /\ call'[c].pc = pc
         /\ \A d \in Callers \ {c} : call'[d] = call[d]
  <1>1. [pc |-> pc, read |-> read] \in Calls
    BY DEF Calls, Pcs, Past
  <1>2. call \in [Callers -> Calls]
    BY DEF FlaskTypeOK
  <1>3. call' = [call EXCEPT ![c] = [pc |-> pc, read |-> read]]
    BY DEF CallAt
  <1> QED
    BY <1>1, <1>2, <1>3

\* A step of one caller that is neither a registration nor a line written.
LEMMA CallerStep ==
  ASSUME FlaskInv, NEW c \in Callers,
         call' \in [Callers -> Calls],
         \A d \in Callers \ {c} : call'[d] = call[d],
         Numbered(c) => call'[c].pc \in Past,
         idOf' \in [Callers -> Nat],
         \A d \in Callers : idOf'[d] = idOf[d] \/ ~Numbered(d),
         outcome' \in [Callers -> Outcomes],
         \A d \in Callers :
           outcome'[d] = "answer" => outcome[d] = "answer" \/ d \in told,
         allocated' \in Nat,
         UNCHANGED <<owner, told, wire, answers, answered, gets>>,
         waiting' = waiting \/ waiting' = Popped(idOf[c]),
         InCall(c) => waiting' = Popped(idOf[c])
  PROVE  FlaskInv'
  <1>1. FlaskTypeOK'
    BY DEF FlaskInv, FlaskTypeOK
  <1>2. Settled
    BY DEF Settled, Numbered
  <1>3. TravelInv'
    BY <1>2, TravelFrame
  <1>4. ASSUME NEW d \in Callers, outcome'[d] = "answer" \/ d \in told'
        PROVE  outcome[d] = "answer" \/ d \in told
    BY <1>4
  <1>5. AnsweredInv'
    BY <1>2, <1>4, AnsweredStep
  <1>6. \A d \in Callers : InCall(d) =>
          (call'[d].pc \in Inside) \/ (waiting' = Popped(idOf[c]) /\ idOf[d] = idOf[c])
    BY DEF InCall
  <1>7. TableInv'
    BY <1>2, <1>6, TableStep
  <1> QED
    BY <1>1, <1>3, <1>5, <1>7 DEF FlaskInv

LEMMA CallNextStep == ASSUME FlaskInv, NEW c \in Callers, CallNext(c) PROVE FlaskInv'
  <1>0. FlaskTypeOK
    BY DEF FlaskInv
  <1>1. /\ UNCHANGED <<owner, told, wire, answers, answered, gets, waiting, outcome>>
        /\ idOf \in [Callers -> Nat] /\ outcome \in [Callers -> Outcomes]
        /\ allocated \in Nat /\ call[c].read \in Nat
    <2>1. call[c] \in Calls
      BY <1>0 DEF FlaskTypeOK
    <2> QED
      BY <1>0, <2>1 DEF FlaskTypeOK, CallNext, Calls, ownerVars, lineVars
  <1>2. PICK pc \in {"write", "return", "port?"}, read \in Nat : CallAt(c, pc, read)
    BY <1>1 DEF CallNext
  <1>3. /\ call' \in [Callers -> Calls] /\ call'[c].pc = pc
        /\ \A d \in Callers \ {c} : call'[d] = call[d]
    BY <1>0, <1>2, CallAtMoves DEF Pcs, Past
  <1>4. ~Numbered(c) /\ ~InCall(c) /\ allocated' \in Nat
    BY <1>1 DEF CallNext, NextRead, NextWrite, NextReturn, Numbered, InCall, Past, Inside
  <1>5. idOf' \in [Callers -> Nat] /\ \A d \in Callers \ {c} : idOf'[d] = idOf[d]
    BY <1>1 DEF CallNext
  <1> QED
    BY <1>1, <1>3, <1>4, <1>5, CallerStep

LEMMA CallCheckStep == ASSUME FlaskInv, NEW c \in Callers, CallCheck(c) PROVE FlaskInv'
  <1>0. FlaskTypeOK
    BY DEF FlaskInv
  <1>1. /\ UNCHANGED <<owner, told, wire, answers, answered, gets, waiting, idOf>>
        /\ idOf \in [Callers -> Nat] /\ outcome \in [Callers -> Outcomes]
        /\ allocated' \in Nat /\ ~InCall(c)
    BY <1>0 DEF FlaskTypeOK, CallCheck, InCall, Inside, ownerVars, lineVars
  <1>2. PICK pc \in {"shown?", "register", "done"} : CallAt(c, pc, 0)
    BY DEF CallCheck, EndCommand
  <1>3. /\ call' \in [Callers -> Calls] /\ call'[c].pc = pc
        /\ \A d \in Callers \ {c} : call'[d] = call[d]
    BY <1>0, <1>2, CallAtMoves DEF Pcs, Past
  <1>4. pc \in Past
    BY DEF Past
  <1>5. /\ outcome' \in [Callers -> Outcomes]
        /\ \A d \in Callers : outcome'[d] = "answer" => outcome[d] = "answer"
    BY <1>1 DEF CallCheck, EndCommand, Outcomes
  <1> QED
    BY <1>1, <1>3, <1>4, <1>5, CallerStep

\* The three ways out of command() that pop the id.
LEMMA CallEndStep ==
  ASSUME FlaskInv, NEW c \in Callers, NEW how \in Outcomes, EndCommand(c, how),
         how = "answer" => c \in told,
         waiting' = Popped(idOf[c]),
         UNCHANGED <<idOf, allocated, owner, told, wire, answers, answered, gets>>
  PROVE  FlaskInv'
  <1>0. FlaskTypeOK
    BY DEF FlaskInv
  <1>1. /\ idOf \in [Callers -> Nat] /\ outcome \in [Callers -> Outcomes]
        /\ allocated \in Nat
    BY <1>0 DEF FlaskTypeOK
  <1>2. /\ call' \in [Callers -> Calls] /\ call'[c].pc = "done"
        /\ \A d \in Callers \ {c} : call'[d] = call[d]
    BY <1>0, CallAtMoves DEF EndCommand, Pcs, Past
  <1>3. call'[c].pc \in Past
    BY <1>2 DEF Past
  <1>4. /\ outcome' \in [Callers -> Outcomes]
        /\ \A d \in Callers :
             outcome'[d] = "answer" => outcome[d] = "answer" \/ d \in told
    BY <1>1 DEF EndCommand
  <1> QED
    BY <1>1, <1>2, <1>3, <1>4, CallerStep

LEMMA CallRegisterStep ==
  ASSUME FlaskInv, NEW c \in Callers, CallRegister(c) PROVE FlaskInv'
  <1> USE DEF CallRegister, CallAt, ownerVars, lineVars
  <1>0. FlaskTypeOK
    BY DEF FlaskInv
  <1>1. FlaskTypeOK'
    <2>1. [pc |-> "send", read |-> 0] \in Calls
      BY DEF Calls, Pcs, Past
    <2> QED
      BY <1>0, <2>1 DEF FlaskTypeOK
  <1>2. Settled
    BY <1>0 DEF FlaskTypeOK, Settled, Numbered, Past
  <1>3. TravelInv'
    BY <1>2, TravelFrame
  <1>4. AnsweredInv'
    BY <1>0, <1>2, AnsweredStep DEF FlaskTypeOK
  <1>5. /\ (call'[c].pc \in Past) /\ (call'[c].pc \in Inside) /\ idOf' = idOf
        /\ \A d \in Callers : InCall(d) => (call'[d].pc \in Inside)
    BY <1>0 DEF FlaskTypeOK, Numbered, InCall, Past, Inside
  <1>6. ASSUME NEW i \in DOMAIN waiting'
        PROVE  /\ waiting'[i] \in Callers
               /\ idOf'[waiting'[i]] = i /\ (call'[waiting'[i]].pc \in Past)
               /\ \E d \in Callers : idOf'[d] = i /\ (call'[d].pc \in Inside)
    <2>1. CASE i = idOf[c]
      <3>1. waiting'[i] = c
        BY <2>1
      <3> QED
        BY <1>5, <2>1, <3>1 DEF Numbered, Past
    <2>2. CASE i # idOf[c]
      <3>1. i \in DOMAIN waiting /\ waiting'[i] = waiting[i]
        BY <2>2
      <3>2. waiting[i] \in Callers /\ idOf[waiting[i]] = i /\ Numbered(waiting[i])
        BY <3>1 DEF FlaskInv, TableInv
      <3>3. PICK d \in Callers : idOf[d] = i /\ InCall(d)
        BY <3>1 DEF FlaskInv, TableInv
      <3>4. (call'[waiting[i]].pc \in Past)
        BY <1>2, <3>2 DEF Settled
      <3> QED
        BY <1>5, <3>1, <3>2, <3>3, <3>4 DEF Numbered, Past
    <2> QED
      BY <2>1, <2>2
  <1>7. TableInv'
    BY <1>6 DEF TableInv, Numbered, InCall, Past, Inside
  <1> QED
    BY <1>1, <1>3, <1>4, <1>7 DEF FlaskInv

\* A step that leaves the callers, the table and the lines where they are.
LEMMA OwnerStep ==
  ASSUME FlaskInv, allocated' \in Nat, owner' \in Owners,
         UNCHANGED <<call, idOf, outcome, waiting, told, wire, answers, answered, gets>>
  PROVE  FlaskInv'
  <1>1. FlaskTypeOK'
    BY DEF FlaskInv, FlaskTypeOK
  <1>2. Settled
    BY DEF Settled, Numbered, Past
  <1>3. TravelInv' /\ AnsweredInv'
    BY <1>2, TravelFrame, AnsweredStep
  <1>4. TableInv'
    BY <1>2, TableStep DEF InCall, Inside
  <1> QED
    BY <1>1, <1>3, <1>4 DEF FlaskInv

LEMMA OwnerMoves ==
  ASSUME owner \in Owners, NEW pc \in {"open", "start", "write", "return", "read"},
         NEW read \in Nat, OwnerAt(pc, read)
  PROVE  owner' \in Owners
  <1>1. owner' = [owner EXCEPT !.pc = pc, !.read = read]
    BY DEF OwnerAt
  <1> QED
    BY <1>1 DEF Owners

LEMMA CallWriteStep ==
  ASSUME FlaskInv, NEW c \in Callers, CallWrite(c) PROVE FlaskInv'
  <1>0. FlaskTypeOK
    BY DEF FlaskInv
  <1>1. CASE handle # "open"
    BY <1>1, CallEndStep DEF CallWrite, Outcomes, ownerVars
  <1>2. CASE handle = "open"
    <2>0. /\ call[c].pc = "send"
          /\ wire' = Append(wire, [id |-> idOf[c], for |-> {c}])
          /\ call' = [call EXCEPT ![c] = [pc |-> "wait", read |-> 0]]
          /\ UNCHANGED <<outcome, waiting, idOf, allocated, owner, told, answers, answered,
                         gets>>
      BY <1>2 DEF CallWrite, CallAt, ownerVars
    <2> DEFINE l == [id |-> idOf[c], for |-> {c}]
    <2>1. l \in Lines /\ l.id = idOf[c] /\ l.for = {c}
      BY <1>0 DEF FlaskTypeOK, Lines
    <2>2. FlaskTypeOK'
      <3>1. [pc |-> "wait", read |-> 0] \in Calls
        BY DEF Calls, Pcs, Past
      <3> QED
        BY <1>0, <2>0, <2>1, <3>1 DEF FlaskTypeOK
    <2>3. Settled /\ (call'[c].pc \in Past)
      BY <1>0, <2>0 DEF FlaskTypeOK, Settled, Numbered, Past
    <2>4. AnsweredInv'
      BY <1>0, <2>0, <2>3, AnsweredStep DEF FlaskTypeOK
    <2>5. \A d \in Callers : InCall(d) => (call'[d].pc \in Inside)
      BY <1>0, <2>0 DEF FlaskTypeOK, InCall, Inside
    <2>6. TableInv'
      BY <2>0, <2>3, <2>5, TableStep
    <2>7. TravelInv'
      <3> HIDE DEF l
      <3>1. wire' = Append(wire, l)
        BY <2>0 DEF l
      <3>2. \A d \in l.for : idOf'[d] = l.id /\ (call'[d].pc \in Past)
        BY <2>0, <2>1, <2>3
      <3>3. l.for # {}
        BY <2>1
      <3> QED
        BY <2>0, <2>1, <2>3, <3>1, <3>2, <3>3, TravelWrite
    <2> QED
      BY <2>2, <2>4, <2>6, <2>7 DEF FlaskInv
  <1> QED
    BY <1>1, <1>2

LEMMA OwnerGetStep == ASSUME FlaskInv, OwnerGet PROVE FlaskInv'
  <1>0. /\ FlaskTypeOK /\ allocated \in Nat /\ owner \in Owners /\ owner.read \in Nat
    BY DEF FlaskInv, FlaskTypeOK, Owners
  <1>1. owner' \in Owners
    BY <1>0, OwnerMoves DEF OwnerGet, OwnerFails
  <1>2. allocated' \in Nat
    BY <1>0 DEF OwnerGet, NextRead, NextWrite, NextReturn
  <1>3. CASE UNCHANGED <<wire, gets>>
    BY <1>1, <1>2, <1>3, OwnerStep DEF OwnerGet
  <1>4. CASE /\ wire' = Append(wire, [id |-> allocated, for |-> {}])
             /\ gets' = gets \cup {allocated}
    <2> DEFINE l == [id |-> allocated, for |-> {}]
    <2>0. UNCHANGED <<call, idOf, outcome, waiting, told, answers, answered>>
      BY DEF OwnerGet
    <2>1. l \in Lines /\ l.id = allocated /\ l.for = {}
      BY <1>0 DEF Lines
    <2>2. FlaskTypeOK'
      BY <1>0, <1>1, <1>2, <1>4, <2>0, <2>1 DEF FlaskTypeOK
    <2>3. Settled
      BY <1>4, <2>0 DEF Settled, Numbered, Past
    <2>4. AnsweredInv'
      BY <2>0, <2>3, AnsweredStep
    <2>5. TableInv'
      BY <2>0, <2>3, TableStep DEF InCall, Inside
    <2>6. TravelInv'
      <3> HIDE DEF l
      <3>1. wire' = Append(wire, l)
        BY <1>4 DEF l
      <3> QED
        BY <1>4, <2>0, <2>1, <2>3, <3>1, TravelWrite
    <2> QED
      BY <2>2, <2>4, <2>5, <2>6 DEF FlaskInv
  <1> QED
    BY <1>3, <1>4 DEF OwnerGet

LEMMA OwnerHandleStep == ASSUME FlaskInv, OwnerHandle PROVE FlaskInv'
  <1>0. FlaskTypeOK
    BY DEF FlaskInv
  <1>1. /\ answers # <<>> /\ answers' = Tail(answers)
        /\ told' = told \cup Heard(Head(answers))
        /\ UNCHANGED <<call, idOf, outcome, waiting, allocated, owner, wire, answered, gets>>
    BY DEF OwnerHandle, ownerVars
  <1>2. /\ answers' \in Seq(Nat)
        /\ \A n \in 1..Len(answers') : n + 1 \in 1..Len(answers) /\ answers'[n] = answers[n + 1]
        /\ Head(answers) = answers[1] /\ 1 \in 1..Len(answers)
    BY <1>0, <1>1 DEF FlaskTypeOK
  <1>3. FlaskTypeOK'
    BY <1>0, <1>1, <1>2 DEF FlaskTypeOK
  <1>4. Settled
    BY <1>1 DEF Settled, Numbered, Past
  <1>5. ASSUME NEW c \in Callers, outcome'[c] = "answer" \/ c \in told'
        PROVE  \/ outcome[c] = "answer" \/ c \in told
               \/ Numbered(c) /\ AnsweredId(idOf[c])
    <2> SUFFICES ASSUME c \in Heard(Head(answers))
                 PROVE  Numbered(c) /\ AnsweredId(idOf[c])
      BY <1>1, <1>5
    <2>1. idOf[c] = Head(answers) /\ Numbered(c)
      BY DEF Heard, FlaskInv, TableInv
    <2>2. AnsweredId(answers[1])
      BY <1>2 DEF FlaskInv, TravelInv
    <2> QED
      BY <1>2, <2>1, <2>2
  <1>6. AnsweredInv'
    BY <1>4, <1>5, AnsweredStep
  <1>7. TableInv'
    BY <1>1, <1>4, TableStep DEF InCall, Inside
  <1>8. TravelInv'
    <2>1. wire' \in Seq(Lines) /\ wire' = wire
      BY <1>0, <1>1 DEF FlaskTypeOK
    <2> QED
      BY <1>1, <1>2, <1>4, <2>1, TravelStep
  <1> QED
    BY <1>3, <1>6, <1>7, <1>8 DEF FlaskInv

LEMMA McuAnswersStep == ASSUME FlaskInv, McuAnswers PROVE FlaskInv'
  <1>0. FlaskTypeOK
    BY DEF FlaskInv
  <1> DEFINE line == Head(wire)
  <1>1. /\ wire # <<>> /\ wire' = Tail(wire)
        /\ \/ /\ answers' = Append(answers, line.id)
              /\ answered' = answered \cup line.for
           \/ UNCHANGED <<answers, answered>>
        /\ UNCHANGED <<call, idOf, outcome, waiting, allocated, owner, told, gets>>
    BY DEF McuAnswers, ownerVars
  <1>2. line \in Lines /\ line.id \in Nat /\ line.for \subseteq Callers /\ Signed(line)
    <2>1. line = wire[1] /\ 1 \in 1..Len(wire)
      BY <1>0, <1>1 DEF FlaskTypeOK
    <2>2. wire[1] \in Lines
      BY <1>0, <2>1 DEF FlaskTypeOK
    <2>3. Signed(wire[1])
      BY <2>1 DEF FlaskInv, TravelInv
    <2> QED
      BY <2>1, <2>2, <2>3 DEF Lines
  <1> HIDE DEF line
  <1>3. FlaskTypeOK'
    <2>1. wire' \in Seq(Lines)
      BY <1>0, <1>1 DEF FlaskTypeOK
    <2>2. answers' \in Seq(Nat) /\ answered' \subseteq Callers
      <3>1. CASE UNCHANGED <<answers, answered>>
        BY <1>0, <3>1 DEF FlaskTypeOK
      <3>2. CASE answers' = Append(answers, line.id) /\ answered' = answered \cup line.for
        <4>1. Append(answers, line.id) \in Seq(Nat)
          BY <1>0, <1>2 DEF FlaskTypeOK
        <4> QED
          BY <1>0, <1>2, <3>2, <4>1 DEF FlaskTypeOK
      <3> QED
        BY <1>1, <3>1, <3>2
    <2> QED
      BY <1>0, <1>1, <2>1, <2>2 DEF FlaskTypeOK
  <1>4. Settled
    BY <1>1 DEF Settled, Numbered, Past
  <1>5. AnsweredInv'
    BY <1>1, <1>4, AnsweredStep
  <1>6. TableInv'
    BY <1>1, <1>4, TableStep DEF InCall, Inside
  <1>7. \A c \in answered' : (call'[c].pc \in Past)
    BY <1>1, <1>2 DEF FlaskInv, TravelInv, Signed, Numbered, Past
  <1>8. ASSUME NEW n \in 1..Len(wire')
        PROVE  /\ \A c \in wire'[n].for : idOf'[c] = wire'[n].id /\ (call'[c].pc \in Past)
               /\ wire'[n].for = {} => wire'[n].id \in gets'
    <2>1. n + 1 \in 1..Len(wire) /\ wire'[n] = wire[n + 1]
      BY <1>0, <1>1, <1>8 DEF FlaskTypeOK
    <2>2. wire[n + 1] \in Lines /\ Signed(wire[n + 1])
      BY <1>0, <2>1 DEF FlaskInv, FlaskTypeOK, TravelInv
    <2> QED
      BY <1>4, <2>1, <2>2, SignedStays
  <1>9. ASSUME NEW n \in 1..Len(answers')
        PROVE  answers'[n] \in gets' \/ \E d \in answered' : idOf'[d] = answers'[n]
    <2>1. CASE n \in 1..Len(answers) /\ answers'[n] = answers[n]
      <3>1. AnsweredId(answers[n])
        BY <2>1 DEF FlaskInv, TravelInv
      <3> QED
        BY <1>4, <2>1, <3>1, AnsweredIdStays
    <2>2. CASE line.for \subseteq answered' /\ answers'[n] = line.id
      BY <1>1, <1>2, <2>2 DEF Signed
    <2>3. \/ n \in 1..Len(answers) /\ answers'[n] = answers[n]
          \/ line.for \subseteq answered' /\ answers'[n] = line.id
      <3>1. CASE UNCHANGED <<answers, answered>>
        BY <1>9, <3>1
      <3>2. CASE /\ answers' = Append(answers, line.id)
                 /\ answered' = answered \cup line.for
        BY <1>0, <1>2, <1>9, <3>2 DEF FlaskTypeOK
      <3> QED
        BY <1>1, <3>1, <3>2
    <2> QED
      BY <2>1, <2>2, <2>3
  <1>10. TravelInv'
    BY <1>7, <1>8, <1>9 DEF TravelInv, Signed, AnsweredId, Numbered
  <1> QED
    BY <1>3, <1>5, <1>6, <1>10 DEF FlaskInv

LEMMA FlaskStart == FlaskInit => FlaskInv
  <1> SUFFICES ASSUME FlaskInit PROVE FlaskInv
    OBVIOUS
  <1> USE DEF FlaskInit
  <1>1. FlaskTypeOK /\ AnsweredInv
    <2>1. [pc |-> "start", read |-> 0] \in Calls
      BY DEF Calls, Pcs, Past
    <2>2. [pc |-> "open", read |-> 0, opens |-> 0] \in Owners
      BY DEF Owners
    <2>3. FlaskTypeOK
      BY <2>1, <2>2 DEF FlaskTypeOK, Outcomes
    <2> QED
      BY <2>3 DEF AnsweredInv
  <1>2. TravelInv /\ TableInv
    BY DEF TravelInv, TableInv
  <1> QED
    BY <1>1, <1>2 DEF FlaskInv

LEMMA FlaskStep == FlaskInv /\ [FlaskNext]_flaskVars => FlaskInv'
  <1> SUFFICES ASSUME FlaskInv, [FlaskNext]_flaskVars PROVE FlaskInv'
    OBVIOUS
  <1>0. /\ allocated \in Nat /\ owner \in Owners /\ owner.read \in Nat
        /\ owner.opens \in Nat
    BY DEF FlaskInv, FlaskTypeOK, Owners
  <1>1. ASSUME NEW c \in Callers,
               CallNext(c) \/ CallCheck(c) \/ CallRegister(c) \/ CallWrite(c)
        PROVE  FlaskInv'
    BY <1>1, CallNextStep, CallCheckStep, CallRegisterStep, CallWriteStep
  <1>2. ASSUME NEW c \in Callers, CallTimeout(c) PROVE FlaskInv'
    BY <1>2, CallEndStep DEF CallTimeout, Outcomes, ownerVars, lineVars
  <1>3. ASSUME NEW c \in Callers, CallReturn(c) PROVE FlaskInv'
    BY <1>3, CallEndStep DEF CallReturn, Outcomes, ownerVars, lineVars
  <1>4. CASE OwnerOpen
    <2>1. owner' \in Owners
      <3>1. CASE owner' = [owner EXCEPT !.pc = "show", !.opens = @ + 1]
        <4> DEFINE n == owner.opens + 1
        <4>1. n \in Nat
          BY <1>0
        <4>2. owner' = [owner EXCEPT !.pc = "show", !.opens = n]
          BY <3>1
        <4> HIDE DEF n
        <4> QED
          BY <1>0, <4>1, <4>2 DEF Owners
      <3>2. CASE OwnerFails
        BY <1>0, <3>2, OwnerMoves DEF OwnerFails
      <3> QED
        BY <1>4, <3>1, <3>2 DEF OwnerOpen
    <2> QED
      BY <1>0, <1>4, <2>1, OwnerStep DEF OwnerOpen, lineVars
  <1>5. CASE OwnerShow
    BY <1>0, <1>5, OwnerMoves, OwnerStep DEF OwnerShow, lineVars
  <1>6. CASE OwnerGet
    BY <1>6, OwnerGetStep
  <1>7. CASE OwnerStops
    <2>1. owner' \in Owners
      BY <1>0, <1>7, OwnerMoves DEF OwnerStops, OwnerFails
    <2> QED
      BY <1>0, <1>7, <2>1, OwnerStep DEF OwnerStops, lineVars
  <1>8. CASE OwnerHandle
    BY <1>8, OwnerHandleStep
  <1>9. CASE FlaskDisconnect
    BY <1>0, <1>9, OwnerStep DEF FlaskDisconnect, lineVars
  <1>10. CASE McuAnswers
    BY <1>10, McuAnswersStep
  <1>11. CASE UNCHANGED flaskVars
    BY <1>0, <1>11, OwnerStep DEF flaskVars
  <1> QED
    BY <1>1, <1>2, <1>3, <1>4, <1>5, <1>6, <1>7, <1>8, <1>9, <1>10, <1>11 DEF FlaskNext

\* For any number of request threads, over every interleaving of their steps
\* with the worker's: an answer is to the caller's own line, unless the unlocked
\* counter gave its id twice, to another caller or to the worker's GET
\* (FlaskSerialManager.command and _next).
THEOREM FlaskAnswersAreOwn == FlaskSpec => []FlaskAnswerIsOwn
  <1>1. FlaskInv => FlaskAnswerIsOwn
    BY DEF FlaskInv, FlaskTypeOK, AnsweredInv, AnsweredId, FlaskAnswerIsOwn
  <1> QED
    BY <1>1, FlaskStart, FlaskStep, PTL DEF FlaskSpec

\* However the calls end, the table only holds ids of calls that have not
\* (`finally' in FlaskSerialManager.command).
THEOREM FlaskTableEmpties == FlaskSpec => []FlaskTableIsEmptied
  <1>1. FlaskInv => FlaskTableIsEmptied
    BY DEF FlaskInv, TableInv, InCall, FlaskTableIsEmptied, Inside
  <1> QED
    BY <1>1, FlaskStart, FlaskStep, PTL DEF FlaskSpec

-------------------------------------------------------------------------------
(* The buzzer: the handler of the timer between the writes of a call. *)

\* The modes that need no timer.
Silent == {0, 2}

BuzzerWrites ==
  {"mode", "on", "stop", "mask", "clear", "low", "high", "update", "unmask", "start"}

\* The next write of a call of which n are left.
WriteLeft(m, n) ==
  CASE m \in Silent ->
         (CASE n = 6 -> "mode" [] n = 5 -> "on" [] n = 4 -> "stop" [] n = 3 -> "mask"
            [] n = 2 -> "clear" [] OTHER -> IF m = 0 THEN "low" ELSE "high")
    [] m = 4 ->
         (CASE n = 7 -> "mode" [] n = 6 -> "on" [] n = 5 -> "update" [] n = 4 -> "clear"
            [] n = 3 -> "unmask" [] n = 2 -> "high" [] OTHER -> "start")
    [] OTHER ->
         (CASE n = 6 -> "mode" [] n = 5 -> "on" [] n = 4 -> "update" [] n = 3 -> "clear"
            [] n = 2 -> "unmask" [] OTHER -> "start")

Writes(m) == IF m = 4 THEN 7 ELSE 6

\* A call does its writes in order; those that are done have had their effect,
\* and the handler has undone none.
BuzzerInv ==
  /\ target \in BeepModes
  /\ program \in Seq(BuzzerWrites)
  /\ Len(program) <= Writes(target)
  /\ \A i \in 1..Len(program) : program[i] = WriteLeft(target, Len(program) - i + 1)
  /\ Len(program) < Writes(target) => g_mode = target
  /\ target \in Silent =>
       /\ Len(program) < 4 => ~cen
       /\ Len(program) < 3 => ~uie
       /\ Len(program) < 1 => bzpin = IF target = 0 THEN 0 ELSE 1
  /\ target \notin Silent =>
       /\ Len(program) < (IF target = 4 THEN 3 ELSE 2) => uie
       /\ Len(program) < 1 => cen

\* Every call sets its two variables first.
LEMMA FirstModeThenOn ==
  ASSUME NEW m \in BeepModes, NEW r \in Seq(BuzzerWrites), Len(r) = Writes(m) - 2,
         Program(m) = <<"mode", "on">> \o r,
         \A i \in 1..Len(r) : r[i] = WriteLeft(m, Len(r) - i + 1)
  PROVE  /\ Program(m) \in Seq(BuzzerWrites)
         /\ Len(Program(m)) = Writes(m)
         /\ \A i \in 1..Writes(m) : Program(m)[i] = WriteLeft(m, Writes(m) - i + 1)
<1> DEFINE p == <<"mode", "on">> \o r
<1>1. Writes(m) \in {6, 7} /\ Len(r) = Writes(m) - 2
  BY DEF Writes
<1>2. p \in Seq(BuzzerWrites) /\ Len(p) = Len(r) + 2
  <2>1. <<"mode", "on">> \in Seq(BuzzerWrites)
    BY DEF BuzzerWrites
  <2> QED
    BY <2>1
<1>3. p[1] = "mode" /\ p[2] = "on" /\ \A i \in 3..Len(p) : p[i] = r[i - 2]
  OBVIOUS
<1>4. WriteLeft(m, Writes(m)) = "mode" /\ WriteLeft(m, Writes(m) - 1) = "on"
  BY DEF WriteLeft, Writes, Silent, BeepModes
<1> HIDE DEF p
<1>5. \A i \in 3..Writes(m) : p[i] = WriteLeft(m, Writes(m) - i + 1)
  <2> SUFFICES ASSUME NEW i \in 3..Writes(m) PROVE p[i] = WriteLeft(m, Writes(m) - i + 1)
    OBVIOUS
  <2>1. i - 2 \in 1..Len(r) /\ Len(r) - (i - 2) + 1 = Writes(m) - i + 1
    BY <1>1
  <2> QED
    BY <1>1, <1>2, <1>3, <2>1
<1>6. \A i \in 1..Writes(m) : i = 1 \/ i = 2 \/ i \in 3..Writes(m)
  BY <1>1
<1>7. Program(m) = p
  BY DEF p
<1>8. Writes(m) - 1 + 1 = Writes(m) /\ Writes(m) - 2 + 1 = Writes(m) - 1
  BY <1>1
<1> QED
  BY <1>1, <1>2, <1>3, <1>4, <1>5, <1>6, <1>7, <1>8

LEMMA ProgramWrites ==
  ASSUME NEW m \in BeepModes
  PROVE  /\ Program(m) \in Seq(BuzzerWrites)
         /\ Len(Program(m)) = Writes(m)
         /\ \A i \in 1..Writes(m) : Program(m)[i] = WriteLeft(m, Writes(m) - i + 1)
<1>1. CASE m = 0
  <2> DEFINE r == <<"stop", "mask", "clear", "low">>
  <2>1. Program(m) = <<"mode", "on">> \o r
    BY <1>1 DEF Program
  <2>2. r \in Seq(BuzzerWrites) /\ Len(r) = Writes(m) - 2
    BY <1>1 DEF Writes, BuzzerWrites
  <2>3. \A i \in 1..Len(r) : r[i] = WriteLeft(m, Len(r) - i + 1)
    BY <1>1 DEF WriteLeft, Silent
  <2> HIDE DEF r
  <2> QED
    BY <2>1, <2>2, <2>3, FirstModeThenOn
<1>2. CASE m = 2
  <2> DEFINE r == <<"stop", "mask", "clear", "high">>
  <2>1. Program(m) = <<"mode", "on">> \o r
    BY <1>2 DEF Program
  <2>2. r \in Seq(BuzzerWrites) /\ Len(r) = Writes(m) - 2
    BY <1>2 DEF Writes, BuzzerWrites
  <2>3. \A i \in 1..Len(r) : r[i] = WriteLeft(m, Len(r) - i + 1)
    BY <1>2 DEF WriteLeft, Silent
  <2> HIDE DEF r
  <2> QED
    BY <2>1, <2>2, <2>3, FirstModeThenOn
<1>3. CASE m = 4
  <2> DEFINE r == <<"update", "clear", "unmask", "high", "start">>
  <2>1. Program(m) = <<"mode", "on">> \o r
    BY <1>3 DEF Program
  <2>2. r \in Seq(BuzzerWrites) /\ Len(r) = Writes(m) - 2
    BY <1>3 DEF Writes, BuzzerWrites
  <2>3. \A i \in 1..Len(r) : r[i] = WriteLeft(m, Len(r) - i + 1)
    BY <1>3 DEF WriteLeft, Silent
  <2> HIDE DEF r
  <2> QED
    BY <2>1, <2>2, <2>3, FirstModeThenOn
<1>4. CASE m \in {1, 3}
  <2> DEFINE r == <<"update", "clear", "unmask", "start">>
  <2>1. Program(m) = <<"mode", "on">> \o r
    BY <1>4 DEF Program
  <2>2. r \in Seq(BuzzerWrites) /\ Len(r) = Writes(m) - 2
    BY <1>4 DEF Writes, BuzzerWrites
  <2>3. \A i \in 1..Len(r) : r[i] = WriteLeft(m, Len(r) - i + 1)
    BY <1>4 DEF WriteLeft, Silent
  <2> HIDE DEF r
  <2> QED
    BY <2>1, <2>2, <2>3, FirstModeThenOn
<1> QED
  BY <1>1, <1>2, <1>3, <1>4 DEF BeepModes

\* A mode that needs the timer unmasks its interrupt and then starts it.
LEMMA TimerWrites ==
  ASSUME NEW m \in {1, 3, 4}, NEW k \in 1..Writes(m)
  PROVE  /\ WriteLeft(m, k) # "mask"
         /\ k = (IF m = 4 THEN 3 ELSE 2) => WriteLeft(m, k) = "unmask"
         /\ k = 1 => WriteLeft(m, k) = "start"
<1>1. CASE m = 4
  BY <1>1 DEF WriteLeft, Writes, Silent
<1>2. CASE m = 1
  BY <1>2 DEF WriteLeft, Writes, Silent
<1>3. CASE m = 3
  BY <1>3 DEF WriteLeft, Writes, Silent
<1> QED
  BY <1>1, <1>2, <1>3

LEMMA BuzzerInvInit == BuzzerInit => BuzzerInv
  BY DEF BuzzerInit, BuzzerInv, BeepModes, Silent, Writes

LEMMA BuzzerInvNext == BuzzerInv /\ [BuzzerNext]_bzVars => BuzzerInv'
<1> SUFFICES ASSUME BuzzerInv, [BuzzerNext]_bzVars PROVE BuzzerInv'
  OBVIOUS
<1>1. ASSUME NEW m \in BeepModes, SetMode2(m) PROVE BuzzerInv'
  <2>1. Len(program') = Writes(m) /\ Writes(m) \in {6, 7} /\ target' = m
    BY <1>1, ProgramWrites DEF SetMode2, Writes
  <2>2. \A i \in 1..Len(program') : program'[i] = WriteLeft(m, Len(program') - i + 1)
    BY <1>1, <2>1, ProgramWrites DEF SetMode2
  <2> QED
    BY <1>1, <2>1, <2>2, ProgramWrites DEF SetMode2, BuzzerInv
<1>2. CASE BuzzerWrite
  <2> DEFINE n == Len(program)
  <2>1. n \in 1..Writes(target) /\ Head(program) = WriteLeft(target, n)
    BY <1>2 DEF BuzzerInv, BuzzerWrite, Writes
  <2>2. /\ program' \in Seq(BuzzerWrites) /\ Len(program') = n - 1 /\ target' = target
        /\ \A i \in 1..Len(program') : program'[i] = program[i + 1]
    BY <1>2 DEF BuzzerInv, BuzzerWrite
  <2>3. \A i \in 1..Len(program') : program'[i] = WriteLeft(target, Len(program') - i + 1)
    <3> SUFFICES ASSUME NEW i \in 1..Len(program')
                 PROVE  program'[i] = WriteLeft(target, Len(program') - i + 1)
      OBVIOUS
    <3>1. i + 1 \in 1..n /\ n - (i + 1) + 1 = Len(program') - i + 1
      BY <2>1, <2>2 DEF Writes
    <3> QED
      BY <2>2, <3>1 DEF BuzzerInv
  <2>4. Len(program') < Writes(target) => g_mode' = target
    BY <1>2, <2>1, <2>2 DEF BuzzerInv, BuzzerWrite, WriteLeft, Writes, Silent, BeepModes
  <2>5. target \in Silent =>
          /\ Len(program') < 4 => ~cen'
          /\ Len(program') < 3 => ~uie'
          /\ Len(program') < 1 => bzpin' = IF target = 0 THEN 0 ELSE 1
    BY <1>2, <2>1, <2>2 DEF BuzzerInv, BuzzerWrite, WriteLeft, Writes, Silent, BeepModes
  <2>6. target \notin Silent =>
          /\ Len(program') < (IF target = 4 THEN 3 ELSE 2) => uie'
          /\ Len(program') < 1 => cen'
    <3> SUFFICES ASSUME target \in {1, 3, 4}
                 PROVE  /\ n - 1 < (IF target = 4 THEN 3 ELSE 2) => uie'
                        /\ n - 1 < 1 => cen'
      BY <2>2 DEF BuzzerInv, Silent, BeepModes
    <3> DEFINE w == Head(program)  few == IF target = 4 THEN 3 ELSE 2
    <3>1. w # "mask" /\ (n = few => w = "unmask") /\ (n = 1 => w = "start")
      BY <2>1, TimerWrites
    <3>2. (w = "unmask" => uie') /\ (w # "unmask" /\ w # "mask" => (uie => uie'))
      BY <1>2 DEF BuzzerWrite
    <3>3. w = "start" => cen'
      BY <1>2 DEF BuzzerWrite
    <3>4. n < few => uie
      BY DEF BuzzerInv, Silent
    <3>5. few \in Nat /\ n \in Nat /\ n >= 1
      BY <2>1 DEF Writes
    <3> HIDE DEF n, w, few
    <3>6. n - 1 < few => n = few \/ n < few
      BY <3>5
    <3>7. n - 1 < 1 => n = 1
      BY <3>5
    <3>8. n - 1 < few => uie'
      BY <3>1, <3>2, <3>4, <3>6, Zenon
    <3>9. n - 1 < 1 => cen'
      BY <3>1, <3>3, <3>7, Zenon
    <3> QED
      BY <3>8, <3>9 DEF few
  <2> QED
    BY <2>1, <2>2, <2>3, <2>4, <2>5, <2>6 DEF BuzzerInv, Writes
<1>3. CASE TimerUpdate
  BY <1>3 DEF BuzzerInv, TimerUpdate
<1>4. CASE TIM3_IRQHandler
  BY <1>4 DEF BuzzerInv, TIM3_IRQHandler, Toggles, Silent, Writes
<1>5. ASSUME NEW on \in BOOLEAN, ApplyLed3(on) PROVE BuzzerInv'
  BY <1>5 DEF BuzzerInv, ApplyLed3
<1>6. CASE UNCHANGED bzVars
  BY <1>6 DEF BuzzerInv, bzVars
<1> QED
  BY <1>1, <1>2, <1>3, <1>4, <1>5, <1>6 DEF BuzzerNext

\* Between two calls the buzzer does what it was last told, wherever the handler
\* of its timer came between the writes of buzzer_set_mode2 (buzzer.c).
THEOREM BuzzerDoesAsSet ==
  BuzzerInit /\ [][BuzzerNext]_bzVars => []BuzzerIsAsSet
<1>1. BuzzerInv => BuzzerIsAsSet
  BY DEF BuzzerInv, BuzzerIsAsSet, Silent, Writes, BeepModes
<1> QED
  BY <1>1, BuzzerInvInit, BuzzerInvNext, PTL

-------------------------------------------------------------------------------
(* The event streams of the local dashboard.  As long as publications do   *)
(* not overlap, every registered queue ends with the newest revision, or   *)
(* is empty because its stream has sent it, or the publication that is     *)
(* under way has yet to come to it: that is inductive.                     *)

StoreTypes ==
  /\ revision \in Nat
  /\ publishing \in [Publishers -> {"idle", "snapshot", "streams", "full?", "get", "put"}]
  /\ snapshot \in [Publishers -> Nat]
  /\ unserved \in [Publishers -> SUBSET Streams]
  /\ serving \in [Publishers -> SUBSET Streams]
  /\ dead \in [Publishers -> SUBSET Streams]
  /\ subscribers \subseteq Streams
  /\ queued \in [Streams -> Seq(Nat)]
  /\ stream \in [Streams -> {"none", "subscribed", "open", "closed"}]
  /\ yielded \in [Streams -> Nat]

\* The queue of s leaves its stream with the newest state.
Served(s) ==
  IF queued[s] = <<>>
    THEN stream[s] = "open" => yielded[s] = revision
    ELSE queued[s][Len(queued[s])] = revision

\* The publication of p has yet to come to s, or is about to drop it.
ComesTo(p, s) ==
  \/ publishing[p] \in {"snapshot", "streams"}
  \/ publishing[p] \in {"full?", "get", "put"}
       /\ s \in unserved[p] \cup dead[p]
  \/ publishing[p] \in {"get", "put"} /\ s \in serving[p]

\* Only the queues of streams that have been asked for are ever filled.
QueuesAreAsked ==
  /\ \A s \in subscribers : stream[s] # "none"
  /\ \A p \in Publishers :
       \A s \in unserved[p] \cup serving[p] : stream[s] # "none"
  /\ \A s \in Streams : stream[s] = "none" => queued[s] = <<>>

\* One publication at a time, and it is at one queue.
OneAtATime ==
  /\ \A p, q \in Publishers : publishing[p] # "idle" /\ publishing[q] # "idle" => p = q
  /\ \A p \in Publishers : \A r, s \in serving[p] : r = s

SnapsAreNewest == \A p \in Publishers :
  publishing[p] \in {"streams", "full?", "get", "put"} => snapshot[p] = revision

AllAreServed == \A s \in subscribers : Served(s) \/ \E p \in Publishers : ComesTo(p, s)

StoreInv ==
  /\ StoreTypes
  /\ QueuesAreAsked
  /\ ~overlapped => OneAtATime /\ SnapsAreNewest /\ AllAreServed

LEMMA StoreStart == StoreInit => StoreInv
  BY StoreAssumption
  DEF StoreInit, StoreInv, StoreTypes, QueuesAreAsked, OneAtATime,
      SnapsAreNewest, AllAreServed

\* What is put is last in its queue.
LEMMA PutIsLast ==
  ASSUME NEW q \in Seq(Nat), NEW n \in Nat
  PROVE  /\ Append(q, n) \in Seq(Nat) /\ Append(q, n) # <<>>
         /\ Append(q, n)[Len(Append(q, n))] = n
  OBVIOUS

\* What is last stays last when the head of the queue is taken.
LEMMA LastStays ==
  ASSUME NEW q \in Seq(Nat), q # <<>>
  PROVE  /\ Head(q) \in Nat /\ Tail(q) \in Seq(Nat)
         /\ Len(q) \in DOMAIN q
         /\ Tail(q) = <<>> => q[Len(q)] = Head(q)
         /\ Tail(q) # <<>> => Tail(q)[Len(Tail(q))] = q[Len(q)]
  <1>1. /\ Head(q) \in Nat /\ Tail(q) \in Seq(Nat) /\ Len(q) \in DOMAIN q
        /\ Head(q) = q[1]
        /\ Len(Tail(q)) = Len(q) - 1
        /\ \A i \in 1..Len(Tail(q)) : Tail(q)[i] = q[i + 1]
    OBVIOUS
  <1>2. Len(Tail(q)) = 0 <=> Tail(q) = <<>>
    BY <1>1, EmptySeq
  <1>3. Len(q) \in Nat /\ Len(Tail(q)) \in Nat
    BY <1>1
  <1> QED
    BY <1>1, <1>2, <1>3

\* Every action keeps the types.
LEMMA StoreTypesStep == StoreTypes /\ [StoreNext]_storeVars => StoreTypes'
  <1> SUFFICES ASSUME StoreTypes, [StoreNext]_storeVars
               PROVE  StoreTypes'
    OBVIOUS
  <1> USE DEF StoreTypes, GoesOn, streamVars, publisherVars
  <1>0. ASSUME NEW p \in Publishers, Update(p)
        PROVE  StoreTypes'
    BY <1>0 DEF Update
  <1>1. ASSUME NEW p \in Publishers, Snap(p) \/ Enumerate(p)
        PROVE  StoreTypes'
    BY <1>1 DEF Snap, Enumerate
  <1>2. ASSUME NEW p \in Publishers, DropDead(p)
        PROVE  StoreTypes'
    BY <1>2 DEF DropDead
  <1>3. ASSUME NEW p \in Publishers, NEW s \in Streams, LookAt(p, s)
        PROVE  StoreTypes'
    BY <1>3 DEF LookAt
  <1>4. ASSUME NEW p \in Publishers, NEW s \in Streams, Evict(p, s)
        PROVE  StoreTypes'
    <2>1. publishing' \in [Publishers -> {"idle", "snapshot", "streams", "full?", "get", "put"}]
      BY <1>4 DEF Evict
    <2>2. dead' \in [Publishers -> SUBSET Streams]
      <3>1. dead' = dead \/ dead' = [dead EXCEPT ![p] = @ \cup {s}]
        BY <1>4 DEF Evict
      <3> QED
        BY <3>1
    <2>3. queued' \in [Streams -> Seq(Nat)]
      <3>1. \/ queued' = queued
            \/ queued[s] # <<>> /\ queued' = [queued EXCEPT ![s] = Tail(@)]
        BY <1>4 DEF Evict
      <3>2. queued[s] # <<>> => Tail(queued[s]) \in Seq(Nat)
        OBVIOUS
      <3> QED
        BY <3>1, <3>2
    <2> QED
      BY <1>4, <2>1, <2>2, <2>3 DEF Evict
  <1>5. ASSUME NEW p \in Publishers, NEW s \in Streams, Put(p, s)
        PROVE  StoreTypes'
    <2>1. publishing' \in [Publishers -> {"idle", "snapshot", "streams", "full?", "get", "put"}]
      BY <1>5 DEF Put
    <2>2. dead' \in [Publishers -> SUBSET Streams]
      BY <1>5 DEF Put
    <2>3. queued' \in [Streams -> Seq(Nat)]
      <3>1. queued' = queued \/ queued' = [queued EXCEPT ![s] = Append(@, snapshot[p])]
        BY <1>5 DEF Put
      <3>2. Append(queued[s], snapshot[p]) \in Seq(Nat)
        OBVIOUS
      <3> QED
        BY <3>1, <3>2
    <2> QED
      BY <1>5, <2>1, <2>2, <2>3 DEF Put
  <1>6. ASSUME NEW s \in Streams, Subscribe(s) \/ FirstYield(s)
        PROVE  StoreTypes'
    BY <1>6 DEF Subscribe, FirstYield
  <1>7. ASSUME NEW s \in Streams, Yield(s)
        PROVE  StoreTypes'
    BY <1>7 DEF Yield
  <1>8. ASSUME NEW s \in Streams, Close(s)
        PROVE  StoreTypes'
    BY <1>8 DEF Close
  <1>9. CASE UNCHANGED storeVars
    BY <1>9 DEF storeVars
  <1> QED
    BY <1>0, <1>1, <1>2, <1>3, <1>4, <1>5, <1>6, <1>7, <1>8, <1>9 DEF StoreNext

LEMMA QueuesAreAskedStep ==
  StoreTypes /\ QueuesAreAsked /\ [StoreNext]_storeVars => QueuesAreAsked'
  <1> SUFFICES ASSUME StoreTypes, QueuesAreAsked, [StoreNext]_storeVars
               PROVE  QueuesAreAsked'
    OBVIOUS
  <1> USE DEF StoreTypes, QueuesAreAsked
  <1>1. ASSUME NEW p \in Publishers, Update(p) \/ Snap(p) \/ Enumerate(p) \/ DropDead(p)
        PROVE  QueuesAreAsked'
    BY <1>1 DEF Update, Snap, Enumerate, DropDead, GoesOn, streamVars, publisherVars
  <1>2. ASSUME NEW p \in Publishers, NEW s \in Streams, LookAt(p, s)
        PROVE  QueuesAreAsked'
    BY <1>2 DEF LookAt, GoesOn, streamVars, publisherVars
  <1>3. ASSUME NEW p \in Publishers, NEW s \in Streams, Evict(p, s)
        PROVE  QueuesAreAsked'
    BY <1>3 DEF Evict, GoesOn, streamVars, publisherVars
  <1>4. ASSUME NEW p \in Publishers, NEW s \in Streams, Put(p, s)
        PROVE  QueuesAreAsked'
    BY <1>4 DEF Put, GoesOn, streamVars, publisherVars
  <1>5. ASSUME NEW s \in Streams, Subscribe(s) \/ FirstYield(s) \/ Yield(s) \/ Close(s)
        PROVE  QueuesAreAsked'
    BY <1>5 DEF Subscribe, FirstYield, Yield, Close, streamVars, publisherVars
  <1>6. CASE UNCHANGED storeVars
    BY <1>6 DEF storeVars, streamVars, publisherVars
  <1> QED
    BY <1>1, <1>2, <1>3, <1>4, <1>5, <1>6 DEF StoreNext

\* What the queues hold, as long as publications have not overlapped.
QueuesInv == OneAtATime /\ SnapsAreNewest /\ AllAreServed

\* A publication starts and goes round the queues.
LEMMA UpdateServes ==
  ASSUME StoreTypes, QueuesInv, ~overlapped', NEW p \in Publishers, Update(p)
  PROVE  QueuesInv'
  BY DEF StoreTypes, QueuesInv, OneAtATime, SnapsAreNewest, AllAreServed,
         Served, ComesTo, Update, GoesOn, Busy, streamVars

LEMMA RoundServes ==
  ASSUME StoreTypes, QueuesInv, NEW p \in Publishers,
         Snap(p) \/ Enumerate(p) \/ DropDead(p)
  PROVE  QueuesInv'
  <1> USE DEF StoreTypes, QueuesInv, GoesOn, streamVars
  <1>1. OneAtATime'
    <2>1. \A q \in Publishers : publishing'[q] # "idle" => publishing[q] # "idle"
      BY DEF Snap, Enumerate, DropDead
    <2>2. \A q \in Publishers : serving'[q] \subseteq serving[q]
      BY DEF Snap, Enumerate, DropDead
    <2> QED
      BY <2>1, <2>2 DEF OneAtATime
  <1>2. SnapsAreNewest'
    BY DEF SnapsAreNewest, Snap, Enumerate, DropDead
  <1>3. CASE Snap(p)
    BY <1>1, <1>2, <1>3 DEF AllAreServed, Served, ComesTo, Snap
  <1>4. CASE Enumerate(p)
    BY <1>1, <1>2, <1>4 DEF AllAreServed, Served, ComesTo, Enumerate
  <1>5. CASE DropDead(p)
    <2>1. \A q \in Publishers : publishing[q] # "idle" => q = p
      BY <1>5 DEF DropDead, OneAtATime
    <2>2. \A s \in subscribers' : Served(s)
      BY <1>5, <2>1 DEF DropDead, AllAreServed, ComesTo
    <2> QED
      BY <1>1, <1>2, <1>5, <2>2 DEF DropDead, AllAreServed, Served
  <1> QED
    BY <1>3, <1>4, <1>5

LEMMA LookAtServes ==
  ASSUME StoreTypes, QueuesInv, NEW p \in Publishers, NEW s \in Streams, LookAt(p, s)
  PROVE  QueuesInv'
  BY DEF StoreTypes, QueuesInv, OneAtATime, SnapsAreNewest, AllAreServed,
         Served, ComesTo, LookAt, GoesOn, streamVars

LEMMA EvictServes ==
  ASSUME StoreTypes, QueuesInv, NEW p \in Publishers, NEW s \in Streams, Evict(p, s)
  PROVE  QueuesInv'
  <1> USE DEF StoreTypes, QueuesInv, GoesOn, Evict
  <1>1. OneAtATime'
    BY DEF OneAtATime
  <1>2. SnapsAreNewest'
    BY DEF SnapsAreNewest
  <1>3. ComesTo(p, s)'
    BY DEF ComesTo
  <1>4. \A r \in Streams \ {s} : Served(r) => Served(r)'
    BY DEF Served
  <1>5. ASSUME NEW r \in Streams \ {s}, NEW q \in Publishers, ComesTo(q, r)
        PROVE  ComesTo(q, r)'
    <2>1. q = p /\ r \in unserved[p] \cup dead[p]
      BY <1>5 DEF ComesTo, OneAtATime
    <2> QED
      BY <2>1 DEF ComesTo
  <1>6. subscribers' = subscribers
    OBVIOUS
  <1> HIDE DEF StoreTypes, QueuesInv, GoesOn, Evict
  <1> QED
    BY <1>1, <1>2, <1>3, <1>4, <1>5, <1>6 DEF AllAreServed, QueuesInv, StoreTypes

\* The snapshot that is put is the newest revision, so its queue is served.
LEMMA PutServes ==
  ASSUME StoreTypes, QueuesInv, NEW p \in Publishers, NEW s \in Streams, Put(p, s)
  PROVE  QueuesInv'
  <1> USE DEF StoreTypes, QueuesInv, GoesOn, Put
  <1>1. OneAtATime'
    BY DEF OneAtATime
  <1>2. SnapsAreNewest'
    BY DEF SnapsAreNewest
  <1>3. Served(s)' \/ ComesTo(p, s)'
    <2>1. CASE Len(queued[s]) = QueueSize
      BY <2>1 DEF ComesTo
    <2>2. CASE Len(queued[s]) # QueueSize
      <3>1. snapshot[p] = revision
        BY DEF SnapsAreNewest
      <3>2. queued'[s] = Append(queued[s], revision) /\ revision' = revision
        BY <2>2, <3>1
      <3> QED
        BY <3>2, PutIsLast DEF Served
    <2> QED
      BY <2>1, <2>2
  <1>4. \A r \in Streams \ {s} : Served(r) => Served(r)'
    BY DEF Served
  <1>5. ASSUME NEW r \in Streams \ {s}, NEW q \in Publishers, ComesTo(q, r)
        PROVE  ComesTo(q, r)'
    <2>1. q = p /\ r \in unserved[p] \cup dead[p] \cup serving[p]
      BY <1>5 DEF ComesTo, OneAtATime
    <2>2. r \notin serving[p]
      BY DEF OneAtATime
    <2> QED
      BY <2>1, <2>2, <1>5 DEF ComesTo
  <1>6. subscribers' = subscribers
    OBVIOUS
  <1> HIDE DEF StoreTypes, QueuesInv, GoesOn, Put
  <1> QED
    BY <1>1, <1>2, <1>3, <1>4, <1>5, <1>6 DEF AllAreServed, QueuesInv, StoreTypes

\* A stream opens, takes the oldest snapshot of its queue, or goes.
LEMMA StreamServes ==
  ASSUME StoreTypes, QueuesAreAsked, QueuesInv, NEW s \in Streams,
         Subscribe(s) \/ FirstYield(s) \/ Yield(s) \/ Close(s)
  PROVE  QueuesInv'
  <1> USE DEF StoreTypes, QueuesInv
  <1>1. UNCHANGED <<revision, publishing, snapshot, unserved, serving, dead>>
    BY DEF Subscribe, FirstYield, Yield, Close, publisherVars
  <1>2. OneAtATime' /\ SnapsAreNewest'
    BY <1>1 DEF OneAtATime, SnapsAreNewest
  <1>3. \A r \in Streams, q \in Publishers : ComesTo(q, r) => ComesTo(q, r)'
    BY <1>1 DEF ComesTo
  <1>4. \A r \in Streams \ {s} : Served(r) => Served(r)'
    BY DEF Served, Subscribe, FirstYield, Yield, Close
  <1>5. subscribers' \subseteq subscribers \cup {s}
    BY DEF Subscribe, FirstYield, Yield, Close
  <1>6. CASE Subscribe(s)
    <2>1. Served(s)'
      BY <1>6 DEF Subscribe, QueuesAreAsked, Served
    <2> QED
      BY <1>2, <1>3, <1>4, <1>5, <2>1 DEF AllAreServed
  <1>7. ASSUME FirstYield(s) \/ Yield(s) \/ Close(s)
        PROVE  QueuesInv'
    <2>1. Served(s) => Served(s)'
      <3>1. CASE FirstYield(s)
        BY <3>1 DEF FirstYield, Served
      <3>2. CASE Yield(s)
        <4>1. queued[s] \in Seq(Nat) /\ queued[s] # <<>>
          BY <3>2 DEF Yield
        <4>2. queued'[s] = Tail(queued[s]) /\ yielded'[s] = Head(queued[s])
          BY <3>2 DEF Yield
        <4>3. revision' = revision
          BY <1>1
        <4> QED
          BY <4>1, <4>2, <4>3, LastStays DEF Served
      <3>3. CASE Close(s)
        BY <3>3 DEF Close, Served
      <3> QED
        BY <1>7, <3>1, <3>2, <3>3
    <2>2. subscribers' \subseteq subscribers
      BY <1>7 DEF FirstYield, Yield, Close
    <2> QED
      BY <1>2, <1>3, <1>4, <2>1, <2>2 DEF AllAreServed
  <1> QED
    BY <1>6, <1>7

LEMMA StoreStep == StoreInv /\ [StoreNext]_storeVars => StoreInv'
  <1> SUFFICES ASSUME StoreInv, [StoreNext]_storeVars
               PROVE  StoreInv'
    OBVIOUS
  <1>1. StoreTypes' /\ QueuesAreAsked'
    BY StoreTypesStep, QueuesAreAskedStep DEF StoreInv
  <1>2. ASSUME ~overlapped' PROVE ~overlapped
    BY <1>2 DEF StoreInv, StoreTypes, StoreNext, storeVars, Update, Snap, Enumerate, DropDead,
                streamVars, publisherVars, LookAt, Evict, Put, Subscribe, FirstYield, Yield, Close
  <1>3. ASSUME ~overlapped' PROVE QueuesInv'
    <2>1. StoreTypes /\ QueuesAreAsked /\ QueuesInv
      BY <1>2, <1>3 DEF StoreInv, QueuesInv
    <2>2. CASE UNCHANGED storeVars
      BY <2>1, <2>2
      DEF storeVars, QueuesInv, streamVars, publisherVars, OneAtATime, SnapsAreNewest, AllAreServed, Served, ComesTo
    <2> QED
      BY <1>3, <2>1, <2>2, UpdateServes, RoundServes, LookAtServes, EvictServes, PutServes,
         StreamServes DEF StoreNext
  <1> QED
    BY <1>1, <1>3 DEF StoreInv, QueuesInv

\* What an event stream shows (state_store.py, flask_app.py): while
\* publications do not overlap, an open stream whose queue is registered has
\* sent the newest state or has it in its queue.  For any number of threads
\* that publish and of streams.
THEOREM StoreShowsNewest == StoreSpec => []StoreNewestIsSeen
  <1>1. ASSUME StoreInv PROVE StoreNewestIsSeen
    <2> SUFFICES ASSUME NEW s \in subscribers, stream[s] = "open", Busy = {}, ~overlapped
                 PROVE  \/ yielded[s] = revision
                        \/ \E i \in DOMAIN queued[s] : queued[s][i] = revision
      BY DEF StoreNewestIsSeen
    <2>1. queued[s] \in Seq(Nat)
      BY <1>1 DEF StoreInv, StoreTypes
    <2>2. Served(s)
      BY <1>1 DEF StoreInv, AllAreServed, ComesTo, Busy
    <2> QED
      BY <2>1, <2>2, LastStays DEF Served
  <1> QED
    BY <1>1, StoreStart, StoreStep, PTL DEF StoreSpec

-------------------------------------------------------------------------------
(* The OLED: what update believes of the display is right but for the      *)
(* pages a failed transmission disturbed, and the pages behind the one it  *)
(* is at agree with what it rendered.                                      *)

OledContents == {Torn} \cup UNION {{Glyphs[v][p] : p \in OledPages} : v \in Views}

OledTypes ==
  /\ view \in Views
  /\ cached # <<>> => cached[1] \in Views
  /\ fb \in [OledPages -> OledContents]
  /\ shadow \in [OledPages -> OledContents]
  /\ glass \in [OledPages -> OledContents]
  /\ position \in OledPages
  /\ oledpage \in {0} \cup OledPages
  /\ disturbed \subseteq OledPages

\* What the code believes of the display.
ShadowIsGlass == \A p \in OledPages \ disturbed : glass[p] = shadow[p]

\* The pages the loop is behind with are as rendered.
LoopIsDone ==
  oledpage # 0 =>
    /\ fb = Glyphs[view]
    /\ \A p \in OledPages : p < oledpage => shadow[p] = fb[p]

\* What cache_equal compares with is what was drawn last.
CacheIsDrawn ==
  oledpage = 0 /\ cached # <<>> =>
    \A p \in OledPages : shadow[p] = Glyphs[cached[1]][p]

OledInv == OledTypes /\ ShadowIsGlass /\ LoopIsDone /\ CacheIsDrawn

LEMMA RenderingIsTyped == \A v \in Views : Glyphs[v] \in [OledPages -> OledContents]
  <1> SUFFICES ASSUME NEW v \in Views
               PROVE  Glyphs[v] \in [OledPages -> OledContents]
    OBVIOUS
  <1>1. Glyphs[v] = [p \in OledPages |-> Glyphs[v][p]]
    BY OledAssumption
  <1>2. \A p \in OledPages : Glyphs[v][p] \in OledContents
    BY DEF OledContents
  <1> QED
    BY <1>1, <1>2

LEMMA OledStart == OledInit => OledInv
  <1> SUFFICES ASSUME OledInit
               PROVE  OledInv
    OBVIOUS
  <1>1. Torn \in OledContents
    BY DEF OledContents
  <1>2. OledPageCount \in Nat \ {0}
    BY OledAssumption
  <1>3. 1 \in OledPages
    BY <1>2 DEF OledPages
  <1> QED
    BY <1>1, <1>3 DEF OledInit, OledInv, OledTypes, ShadowIsGlass, LoopIsDone, CacheIsDrawn

\* The loop moves past a page that shows what is rendered, and remembers the
\* view after the last one.
LEMMA AdvanceStep ==
  ASSUME OledTypes, OledAdvance, oledpage # 0, fb = Glyphs[view],
         UNCHANGED <<view, fb>>,
         \A p \in OledPages : p <= oledpage => shadow'[p] = fb[p]
  PROVE  /\ oledpage' \in {0} \cup OledPages
         /\ cached' # <<>> => cached'[1] \in Views
         /\ LoopIsDone' /\ CacheIsDrawn'
  <1>1. oledpage \in 1..OledPageCount /\ OledPageCount \in Nat
    BY OledAssumption DEF OledTypes, OledPages
  <1>2. CASE oledpage + 1 \in OledPages
    <2>1. oledpage' = oledpage + 1 /\ cached' = cached
      BY <1>2 DEF OledAdvance
    <2> QED
      BY <1>1, <1>2, <2>1 DEF OledTypes, LoopIsDone, CacheIsDrawn, OledPages
  <1>3. CASE oledpage + 1 \notin OledPages
    <2>1. oledpage' = 0 /\ cached' = <<view>>
      BY <1>3 DEF OledAdvance
    <2>2. \A p \in OledPages : p <= oledpage
      BY <1>1, <1>3 DEF OledPages
    <2>3. cached'[1] = view
      BY <2>1
    <2> QED
      BY <2>1, <2>2, <2>3 DEF OledTypes, LoopIsDone, CacheIsDrawn
  <1> QED
    BY <1>2, <1>3

LEMMA OledSkipStep == ASSUME OledInv, OledSkip PROVE OledInv'
  <1>1. \A p \in OledPages : p <= oledpage => shadow'[p] = fb[p]
    BY OledAssumption DEF OledInv, OledTypes, OledSkip, SamePage, LoopIsDone, OledPages
  <1>2. OledAdvance /\ oledpage # 0 /\ UNCHANGED <<view, fb, shadow, glass, position, disturbed>>
    BY DEF OledSkip
  <1>3. fb = Glyphs[view]
    BY <1>2 DEF OledInv, LoopIsDone
  <1>4. /\ oledpage' \in {0} \cup OledPages
        /\ cached' # <<>> => cached'[1] \in Views
        /\ LoopIsDone' /\ CacheIsDrawn'
    BY <1>1, <1>2, <1>3, AdvanceStep DEF OledInv
  <1> QED
    BY <1>2, <1>4 DEF OledInv, OledTypes, ShadowIsGlass

\* The data lands whole on the page meant, or every page it touched is disturbed.
LEMMA OledDataStep == ASSUME OledInv, OledData PROVE OledInv'
  <1> USE DEF OledInv, OledTypes
  <1>1. oledpage \in OledPages
    BY DEF OledData
  <1>2. PICK landed \in {fb[oledpage], Torn, glass[position]} :
          /\ glass' = [glass EXCEPT ![position] = landed]
          /\ disturbed' =
               IF position = oledpage /\ landed = fb[oledpage]
                 THEN disturbed \ {oledpage}
                 ELSE disturbed \cup {oledpage}
                        \cup {p \in OledPages : glass'[p] # glass[p]}
    BY DEF OledData
  <1>3. /\ shadow' = [shadow EXCEPT ![oledpage] = fb[oledpage]]
        /\ OledAdvance /\ UNCHANGED <<view, fb, position>> /\ oledpage # 0
    BY DEF OledData
  <1>4. landed \in OledContents
    BY <1>1 DEF OledContents
  <1>5. /\ glass' \in [OledPages -> OledContents]
        /\ shadow' \in [OledPages -> OledContents]
        /\ disturbed' \subseteq OledPages
    <2>1. fb[oledpage] \in OledContents
      BY <1>1
    <2>2. disturbed' \subseteq OledPages
      BY <1>1, <1>2
    <2> QED
      BY <1>2, <1>3, <1>4, <2>1, <2>2
  <1>6. ShadowIsGlass'
    <2>1. CASE position = oledpage /\ landed = fb[oledpage]
      <3>1. disturbed' = disturbed \ {oledpage}
        BY <1>2, <2>1
      <3> QED
        BY <1>1, <1>2, <1>3, <2>1, <3>1 DEF ShadowIsGlass
    <2>2. CASE ~(position = oledpage /\ landed = fb[oledpage])
      <3>1. \A p \in OledPages \ disturbed' :
              p \notin disturbed /\ p # oledpage /\ glass'[p] = glass[p]
        BY <1>2, <2>2
      <3> QED
        BY <1>3, <3>1 DEF ShadowIsGlass
    <2> QED
      BY <2>1, <2>2
  <1>7. fb = Glyphs[view]
    BY <1>3 DEF LoopIsDone
  <1>8. \A p \in OledPages : p <= oledpage => shadow'[p] = fb[p]
    BY <1>1, <1>3, OledAssumption DEF LoopIsDone, OledPages
  <1>9. /\ oledpage' \in {0} \cup OledPages
        /\ cached' # <<>> => cached'[1] \in Views
        /\ LoopIsDone' /\ CacheIsDrawn'
    BY <1>3, <1>7, <1>8, AdvanceStep
  <1> QED
    BY <1>3, <1>5, <1>6, <1>9

LEMMA OledStep == OledInv /\ [OledNext]_oledVars => OledInv'
  <1> SUFFICES ASSUME OledInv, [OledNext]_oledVars
               PROVE  OledInv'
    OBVIOUS
  <1>1. ASSUME NEW v \in Views, Change(v)
        PROVE  OledInv'
    BY <1>1 DEF OledInv, OledTypes, Change, ShadowIsGlass, LoopIsDone, CacheIsDrawn
  <1>2. CASE OledRender
    <2>1. 1 \in OledPages /\ \A p \in OledPages : ~(p < 1)
      BY OledAssumption DEF OledPages
    <2> QED
      BY <1>2, <2>1, RenderingIsTyped
      DEF OledInv, OledTypes, OledRender, ShadowIsGlass, LoopIsDone, CacheIsDrawn
  <1>3. CASE OledPosition
    BY <1>3 DEF OledInv, OledTypes, OledPosition, ShadowIsGlass, LoopIsDone, CacheIsDrawn
  <1>4. CASE UNCHANGED oledVars
    BY <1>4 DEF OledInv, OledTypes, oledVars, ShadowIsGlass, LoopIsDone, CacheIsDrawn
  <1> QED
    BY <1>1, <1>2, <1>3, <1>4, OledSkipStep, OledDataStep DEF OledNext

\* What the OLED shows (Drivers/oled.c): after oled_update every page no failed
\* transmission disturbed shows the view it finished with, whichever pages it
\* skipped as unchanged.  For any renderings, any number of pages and any
\* sequence of views and failures.
THEOREM OledShowsCurrent == OledInit /\ [][OledNext]_oledVars => []OledPageIsCurrent
  <1>1. OledInv => OledPageIsCurrent
    BY DEF OledInv, ShadowIsGlass, CacheIsDrawn, OledPageIsCurrent
  <1> QED
    BY <1>1, OledStart, OledStep, PTL

-------------------------------------------------------------------------------
(* Sensors that shift a number out bit by bit.  What the driver has        *)
(* gathered, times the weight of the last bit, and what the sensor has     *)
(* left make the number, whatever the number of bits: a bit misread        *)
(* changes this sum by its weight, once.                                   *)

\* What is left before a turn of such a loop, and after it.
LEMMA TurnWeight ==
  ASSUME NEW w, AreWeights(w), NEW k \in 0..Len(w) - 1
  PROVE  w[k + 1] \in Nat /\ Scale(w, k) = 2 * w[k + 1] /\ Scale(w, k + 1) = w[k + 1]
  <1>1. /\ k \in Nat /\ k + 1 \in 1..Len(w) /\ Len(w) \in Nat
        /\ \A i \in 1..Len(w) : w[i] \in Nat
    BY DEF AreWeights
  <1>2. CASE k = 0
    BY <1>1, <1>2 DEF Scale
  <1>3. CASE k # 0
    <2>1. w[k] = 2 * w[k + 1]
      BY <1>1, <1>3 DEF AreWeights
    <2> QED
      BY <1>1, <1>3, <2>1 DEF Scale
  <1> QED
    BY <1>2, <1>3

\* The sensor's part of a turn, ...
LEMMA SentPart ==
  ASSUME NEW weight \in Nat, NEW left \in 0..2 * weight - 1
  PROVE  /\ BitOf(left, weight) \in {0, 1}
         /\ left - BitOf(left, weight) * weight \in 0..weight - 1
  <1>1. CASE left >= weight
    <2>1. BitOf(left, weight) = 1
      BY <1>1 DEF BitOf
    <2> QED
      BY <1>1, <2>1
  <1>2. CASE ~(left >= weight)
    <2>1. BitOf(left, weight) = 0
      BY <1>2 DEF BitOf
    <2> QED
      BY <1>2, <2>1
  <1> QED
    BY <1>1, <1>2

\* ... and the sum after it, which changes only by the weight of a misread bit.
LEMMA TurnSum ==
  ASSUME NEW weight \in Nat, NEW left \in 0..2 * weight - 1, NEW value \in Int,
         NEW bit \in {0, 1}
  PROVE  (2 * value + bit) * weight + (left - BitOf(left, weight) * weight)
           = value * (2 * weight) + left + (bit - BitOf(left, weight)) * weight
  <1> DEFINE sent == BitOf(left, weight)
  <1>1. sent \in {0, 1}
    BY SentPart
  <1> HIDE DEF sent
  <1>2. (2 * value + bit) * weight + (left - sent * weight)
          = value * (2 * weight) + left + (bit - sent) * weight
    BY <1>1
  <1> QED
    BY <1>2 DEF sent

\* The weights end with one: when the last bit is out nothing is left.
LEMMA LastBit == ASSUME NEW w, AreWeights(w) PROVE Scale(w, Len(w)) = 1
  BY DEF AreWeights, Scale

-------------------------------------------------------------------------------
(* The analog sensors.                                                     *)

AdcInv ==
  /\ adclevel \in Nat /\ adcvalue \in Int /\ adcacc \in Nat
  /\ adckind \in {"none", "fine", "coarse"}
  /\ adckind = "fine" => adcacc = adclevel
  /\ adckind = "coarse" =>
       /\ adcturns \in 0..CoarseBits
       /\ adcleft \in 0..Scale(CoarseWeights, adcturns) - 1
       /\ adcacc * Scale(CoarseWeights, adcturns) + adcleft = adclevel \div 4
  /\ AdcIsNearest

\* The cuts of adc_read10 lose less than the rounding allows.
LEMMA Adc10IsNearest ==
  ASSUME NEW sum \in Nat
  PROVE  Adc10(sum) \in Nat /\ 32 * Adc10(sum) - sum \in -15..16
  <1> DEFINE eighth == sum \div 8
             value  == (eighth + 2) \div 4
  <1>1. eighth \in Nat /\ sum - 8 * eighth \in 0..7
    OBVIOUS
  <1> HIDE DEF eighth
  <1>2. value \in Nat /\ eighth + 2 - 4 * value \in 0..3
    BY <1>1
  <1> HIDE DEF value
  <1>3. 32 * value - sum \in -15..16
    BY <1>1, <1>2
  <1> QED
    BY <1>2, <1>3 DEF Adc10, value, eighth

LEMMA AdcBegins == AdcInit => AdcInv
  BY DEF AdcInit, AdcInv, AdcIsNearest, AdcIdle

LEMMA AdcStartStep ==
  ASSUME AdcInv, NEW kind \in {"fine", "coarse"}, NEW level \in Nat, AdcStart(kind, level),
         kind = "fine" => level = 0, kind = "coarse" => level \in 0..4 * CoarseEnd - 1
  PROVE  AdcInv'
  <1>1. /\ adckind' = kind /\ adclevel' = level /\ adcleft' = level \div 4
        /\ adcturns' = 0 /\ adcacc' = 0 /\ adcvalue' = -1
    BY DEF AdcStart
  <1>2. CASE kind = "fine"
    BY <1>1, <1>2 DEF AdcInv, AdcIsNearest, AdcIdle
  <1>3. CASE kind = "coarse"
    <2>1. Len(CoarseWeights) \in Nat /\ CoarseWeights[1] \in Nat
      BY AdcAssumption DEF AreWeights
    <2>2. Scale(CoarseWeights, 0) = CoarseEnd /\ CoarseEnd \in Nat
      BY <2>1 DEF CoarseEnd, Scale
    <2>3. level \in 0..4 * CoarseEnd - 1
      BY <1>3
    <2>4. level \div 4 \in 0..CoarseEnd - 1
      BY <2>2, <2>3
    <2>5. 0 * Scale(CoarseWeights, 0) + level \div 4 = level \div 4
      BY <2>2, <2>4
    <2>6. 0 \in 0..CoarseBits
      BY <2>1 DEF CoarseBits
    <2> QED
      BY <1>1, <1>3, <2>2, <2>4, <2>5, <2>6 DEF AdcInv, AdcIsNearest, AdcIdle
  <1> QED
    BY <1>2, <1>3

LEMMA AdcBitStep == ASSUME AdcInv, AdcBit PROVE AdcInv'
  <1> DEFINE sent == BitOf(adcleft, AdcWeight)
  <1>1. /\ adcvalue = -1 /\ adckind = "coarse" /\ adcturns < CoarseBits
        /\ adcacc' = 2 * adcacc + sent /\ adcleft' = adcleft - sent * AdcWeight
        /\ adcturns' = adcturns + 1
        /\ UNCHANGED <<adckind, adclevel, adcvalue>>
    BY DEF AdcBit, AdcIdle
  <1>2. /\ adcturns \in 0..Len(CoarseWeights) - 1
        /\ adcleft \in 0..Scale(CoarseWeights, adcturns) - 1
        /\ adcacc * Scale(CoarseWeights, adcturns) + adcleft = adclevel \div 4
        /\ adcacc \in Nat /\ adclevel \in Nat /\ Len(CoarseWeights) \in Nat
    BY <1>1, AdcAssumption DEF AdcInv, CoarseBits, AreWeights
  <1>3. /\ Scale(CoarseWeights, adcturns) = 2 * AdcWeight
        /\ Scale(CoarseWeights, adcturns + 1) = AdcWeight /\ AdcWeight \in Nat
    BY <1>2, TurnWeight, AdcAssumption DEF AdcWeight
  <1>4. adcleft \in 0..2 * AdcWeight - 1
    BY <1>2, <1>3
  <1>5. sent \in {0, 1} /\ adcleft' \in 0..AdcWeight - 1
    BY <1>1, <1>3, <1>4, SentPart
  <1>6. adcacc' * AdcWeight + adcleft' = adclevel \div 4
    <2>1. /\ BitOf(adcleft, AdcWeight) = sent
          /\ adcacc \in Int /\ (sent - sent) * AdcWeight = 0
      BY <1>2, <1>3, <1>5
    <2> HIDE DEF sent
    <2>2. (2 * adcacc + sent) * AdcWeight + (adcleft - sent * AdcWeight)
            = adcacc * (2 * AdcWeight) + adcleft + (sent - sent) * AdcWeight
      BY <1>3, <1>4, <1>5, <2>1, TurnSum
    <2> QED
      BY <1>1, <1>2, <1>3, <2>1, <2>2
  <1> HIDE DEF sent
  <1>7. adcturns' \in 0..CoarseBits /\ adcacc' \in Nat
    BY <1>1, <1>2, <1>5 DEF CoarseBits
  <1> QED
    BY <1>1, <1>2, <1>3, <1>5, <1>6, <1>7 DEF AdcInv, AdcIsNearest, AdcIdle

LEMMA AdcReturnStep == ASSUME AdcInv, AdcReturn PROVE AdcInv'
  <1>1. /\ adcvalue = -1 /\ UNCHANGED <<adckind, adclevel, adcleft, adcturns, adcacc>>
    BY DEF AdcReturn, AdcIdle
  <1>2. CASE adckind = "fine"
    <2>1. adcvalue' = Adc10(adcacc) /\ adcacc = adclevel
      BY <1>2 DEF AdcReturn, AdcInv
    <2>2. adcvalue' \in Nat /\ 32 * adcvalue' - adclevel \in -15..16
      BY <2>1, Adc10IsNearest DEF AdcInv
    <2> QED
      BY <1>1, <1>2, <2>2 DEF AdcInv, AdcIsNearest, AdcIdle
  <1>3. CASE adckind = "coarse"
    <2>1. adcturns = CoarseBits /\ adcvalue' = adcacc * 4
      BY <1>3 DEF AdcReturn
    <2>2. Scale(CoarseWeights, adcturns) = 1
      BY <2>1, LastBit, AdcAssumption DEF CoarseBits
    <2>3. /\ adcacc \in Nat /\ adclevel \in Nat /\ adcleft \in 0..0
          /\ adcacc * 1 + adcleft = adclevel \div 4
      BY <1>3, <2>2 DEF AdcInv
    <2>4. adcvalue' \in Nat /\ adclevel - adcvalue' \in 0..3
      BY <2>1, <2>3
    <2> QED
      BY <1>1, <1>3, <2>4 DEF AdcInv, AdcIsNearest, AdcIdle
  <1> QED
    BY <1>2, <1>3 DEF AdcReturn

LEMMA AdcStep == AdcInv /\ [AdcNext]_adcVars => AdcInv'
  <1> SUFFICES ASSUME AdcInv, [AdcNext]_adcVars
               PROVE  AdcInv'
    OBVIOUS
  <1>1. CASE AdcStart("fine", 0)
    BY <1>1, AdcStartStep
  <1>2. ASSUME NEW level \in 0..4 * CoarseEnd - 1, AdcStart("coarse", level)
        PROVE  AdcInv'
    <2>1. level \in Nat
      OBVIOUS
    <2> QED
      BY <1>2, <2>1, AdcStartStep
  <1>3. ASSUME NEW sample \in 0..2 ^ FineBits - 1, AdcOnce(sample)
        PROVE  AdcInv'
    <2>1. sample \in Nat
      OBVIOUS
    <2> QED
      BY <1>3, <2>1 DEF AdcOnce, AdcInv, AdcIsNearest, AdcIdle
  <1>4. CASE UNCHANGED adcVars
    BY <1>4 DEF adcVars, AdcInv, AdcIsNearest, AdcIdle
  <1> QED
    BY <1>1, <1>2, <1>3, <1>4, AdcBitStep, AdcReturnStep DEF AdcNext

\* What the analog reads return (adc_read10, adc0832_read): the nearest unit to
\* what the converter saw, for converters of any width.
THEOREM ReadingIsNearest == AdcInit /\ [][AdcNext]_adcVars => []AdcIsNearest
  <1>1. AdcInv => AdcIsNearest
    BY DEF AdcInv
  <1> QED
    BY <1>1, AdcBegins, AdcStep, PTL
-------------------------------------------------------------------------------
(* The DHT11.                                                              *)

IsFrame(f) ==
  /\ f \in Seq(Int) /\ Len(f) = 5
  /\ \A i \in 1..5 : f[i] \in 0..DhtByte - 1
  /\ Checksum(f)

\* What the misread bit added to a byte.
Misread(i) == IF dhtwrong = i THEN dhterror ELSE 0

\* The shape of a read; a bit never weighs as much as a byte.
DhtShape ==
  /\ dhtdriver \in {"stm32", "c51"} /\ dhtline \in {0, 1, DhtLive}
  /\ dhtbytes \in Seq(Int) /\ Len(dhtbytes) <= 5
  /\ dhtturn \in 0..DhtBits - 1 /\ Scale(DhtWeights, dhtturn) <= DhtByte
  /\ dhtvalue \in Int
  /\ IsFrame(dhtsent)
  /\ dhtwrong \in 0..5 /\ dhtwrong <= Len(dhtbytes) + 1
  /\ dhterror \in Int
  /\ dhtwrong # 0 => dhterror # 0 /\ -DhtByte < dhterror /\ dhterror < DhtByte

\* The sum of a byte under way, and the bytes that are whole.
DhtAdds ==
  /\ \A i \in 1..Len(dhtbytes) : dhtbytes[i] = dhtsent[i] + Misread(i)
  /\ Len(dhtbytes) < 5 =>
       /\ dhtleft \in 0..Scale(DhtWeights, dhtturn) - 1
       /\ dhtvalue * Scale(DhtWeights, dhtturn) + dhtleft
            = dhtsent[Len(dhtbytes) + 1] + Misread(Len(dhtbytes) + 1)

DhtHeld == dhtdriver = "stm32" \/ dhtline = DhtLive

DhtInv ==
  /\ DhtShape
  /\ dhtbusy => dhtresult = <<>>
  /\ dhtbusy /\ DhtHeld => DhtAdds
  /\ DhtAcceptedIsSent

\* Two sums that differ by less than a byte do not have the same remainder.
LEMMA RemainderTells ==
  ASSUME NEW w \in Nat \ {0}, NEW n \in Int, NEW e \in Int, e # 0, -w < e, e < w
  PROVE  (n + e) % w # n % w
  <1> DEFINE q == n \div w
             p == (n + e) \div w
             r == n % w
  <1>1. q \in Int /\ r \in 0..w - 1 /\ n = w * q + r
    OBVIOUS
  <1>2. p \in Int /\ n + e = w * p + ((n + e) % w)
    OBVIOUS
  <1> SUFFICES ASSUME (n + e) % w = r PROVE FALSE
    OBVIOUS
  <1>3. n + e = w * p + r
    BY <1>2
  <1> HIDE DEF q, p, r
  <1>4. e = w * (p - q)
    BY <1>1, <1>2, <1>3
  <1>5. CASE p - q = 0
    BY <1>1, <1>2, <1>4, <1>5
  <1>6. CASE p - q >= 1
    <2>1. w * (p - q) >= w * 1
      BY <1>1, <1>2, <1>6
    <2> QED
      BY <1>4, <2>1
  <1>7. CASE p - q <= -1
    <2>1. w * (p - q) <= w * (-1)
      BY <1>1, <1>2, <1>7
    <2> QED
      BY <1>4, <2>1
  <1> QED
    BY <1>1, <1>2, <1>5, <1>6, <1>7

\* A frame with one misread bit has not the sum it says.
LEMMA MisreadShows ==
  ASSUME NEW f, IsFrame(f), NEW b \in Seq(Int), Len(b) = 5, DhtByte \in Nat \ {0},
         NEW at \in 1..5, NEW e \in Int, e # 0, -DhtByte < e, e < DhtByte,
         \A i \in 1..5 : b[i] = f[i] + (IF at = i THEN e ELSE 0)
  PROVE  ~Checksum(b)
  <1> DEFINE s(g) == g[1] + g[2] + g[3] + g[4]
  <1>1. s(f) \in Int /\ f[5] = s(f) % DhtByte /\ f[5] \in Int
    BY DEF IsFrame, Checksum
  <1>2. CASE at = 5
    <2>1. s(b) = s(f) /\ b[5] = f[5] + e
      BY <1>2 DEF IsFrame
    <2> QED
      BY <1>1, <2>1 DEF Checksum
  <1>3. CASE at # 5
    <2>1. s(b) = s(f) + e /\ b[5] = f[5]
      <3>1. /\ f[1] \in Int /\ f[2] \in Int /\ f[3] \in Int /\ f[4] \in Int
            /\ f[5] \in Int
        BY DEF IsFrame
      <3>2. PICK g1 \in Int, g2 \in Int, g3 \in Int, g4 \in Int :
              g1 = f[1] /\ g2 = f[2] /\ g3 = f[3] /\ g4 = f[4]
        BY <3>1
      <3>3. /\ b[1] = f[1] + (IF at = 1 THEN e ELSE 0)
            /\ b[2] = f[2] + (IF at = 2 THEN e ELSE 0)
            /\ b[3] = f[3] + (IF at = 3 THEN e ELSE 0)
            /\ b[4] = f[4] + (IF at = 4 THEN e ELSE 0)
            /\ b[5] = f[5] + (IF at = 5 THEN e ELSE 0)
        OBVIOUS
      <3>4. (g1 + (IF at = 1 THEN e ELSE 0)) + (g2 + (IF at = 2 THEN e ELSE 0))
              + (g3 + (IF at = 3 THEN e ELSE 0)) + (g4 + (IF at = 4 THEN e ELSE 0))
                = g1 + g2 + g3 + g4 + e
        BY <1>3
      <3>5. f[5] + (IF at = 5 THEN e ELSE 0) = f[5]
        BY <1>3, <3>1
      <3> QED
        BY <3>2, <3>3, <3>4, <3>5
    <2>2. (s(f) + e) % DhtByte # s(f) % DhtByte
      BY <1>1, RemainderTells
    <2> QED
      BY <1>1, <2>1, <2>2 DEF Checksum
  <1> QED
    BY <1>2, <1>3

\* A byte is twice the weight of its first bit.
LEMMA DhtByteIsBig == Scale(DhtWeights, 0) = DhtByte /\ DhtByte \in Nat \ {0}
  BY DhtAssumption DEF AreWeights, DhtByte, Scale

\* A turn keeps the shape, ...
LEMMA ShiftShape ==
  ASSUME DhtShape, NEW bit \in {0, 1}, Shift(bit), Len(dhtbytes) < 5,
         UNCHANGED <<dhtdriver, dhtsent>>
  PROVE  /\ dhtbytes' \in Seq(Int) /\ Len(dhtbytes') <= 5 /\ Len(dhtbytes') >= Len(dhtbytes)
         /\ dhtturn' \in 0..DhtBits - 1 /\ Scale(DhtWeights, dhtturn') <= DhtByte
         /\ dhtvalue' \in Int /\ IsFrame(dhtsent)'
  <1>1. /\ Len(DhtWeights) \in Nat \ {0} /\ DhtWeights[1] \in Nat
        /\ dhtturn \in 0..Len(DhtWeights) - 1 /\ DhtBits = Len(DhtWeights)
    BY DhtAssumption DEF DhtShape, DhtBits, AreWeights
  <1>2. /\ SentWeight \in Nat /\ Scale(DhtWeights, dhtturn) = 2 * SentWeight
        /\ Scale(DhtWeights, dhtturn + 1) = SentWeight
    BY <1>1, TurnWeight, DhtAssumption DEF SentWeight
  <1>3. Scale(DhtWeights, 0) = DhtByte /\ DhtByte \in Nat
    BY <1>1 DEF DhtByte, Scale
  <1>4. IsFrame(dhtsent)'
    BY DEF DhtShape, IsFrame, Checksum
  <1>5. CASE dhtturn + 1 < DhtBits
    <2>1. /\ dhtturn' = dhtturn + 1 /\ dhtvalue' = 2 * dhtvalue + bit /\ dhtbytes' = dhtbytes
      BY <1>5 DEF Shift
    <2>2. Scale(DhtWeights, dhtturn') <= DhtByte
      BY <1>2, <1>3, <2>1 DEF DhtShape
    <2> QED
      BY <1>1, <1>4, <1>5, <2>1, <2>2 DEF DhtShape
  <1>6. CASE ~(dhtturn + 1 < DhtBits)
    <2>1. /\ dhtturn' = 0 /\ dhtvalue' = 0 /\ dhtbytes' = Append(dhtbytes, 2 * dhtvalue + bit)
      BY <1>6 DEF Shift
    <2>2. 2 * dhtvalue + bit \in Int /\ dhtbytes \in Seq(Int)
      BY DEF DhtShape
    <2>3. dhtbytes' \in Seq(Int) /\ Len(dhtbytes') = Len(dhtbytes) + 1 /\ Len(dhtbytes) \in Nat
      BY <2>1, <2>2
    <2>4. 0 \in 0..DhtBits - 1 /\ Scale(DhtWeights, 0) <= DhtByte
      BY <1>1, <1>3
    <2> QED
      BY <1>4, <2>1, <2>3, <2>4
  <1> QED
    BY <1>5, <1>6

\* ... and adds to the sum what the bit differs from the one that was sent.
LEMMA ShiftAdds ==
  ASSUME DhtShape, DhtAdds, NEW k \in 1..5, k = Len(dhtbytes) + 1,
         NEW bit \in {0, 1}, Shift(bit), SensorMoves, UNCHANGED dhtsent,
         \A i \in 1..k - 1 : Misread(i)' = Misread(i),
         Misread(k)' = Misread(k) + (bit - SentBit) * SentWeight,
         Misread(k + 1)' = 0
  PROVE  DhtAdds'
  <1> DEFINE wrong == Misread(k)
  <1>1. /\ Len(DhtWeights) \in Nat \ {0} /\ DhtWeights[1] \in Nat
        /\ dhtturn \in 0..Len(DhtWeights) - 1 /\ DhtBits = Len(DhtWeights)
    BY DhtAssumption DEF DhtShape, DhtBits, AreWeights
  <1>2. /\ SentWeight \in Nat /\ Scale(DhtWeights, dhtturn) = 2 * SentWeight
        /\ Scale(DhtWeights, dhtturn + 1) = SentWeight
    BY <1>1, TurnWeight, DhtAssumption DEF SentWeight
  <1>3. /\ dhtleft \in 0..2 * SentWeight - 1 /\ dhtvalue \in Int
        /\ dhtvalue * (2 * SentWeight) + dhtleft = dhtsent[k] + wrong
        /\ Len(dhtbytes) = k - 1
    <2>1. dhtvalue \in Int /\ Len(dhtbytes) = k - 1 /\ Len(dhtbytes) < 5
      BY DEF DhtShape
    <2>2. /\ dhtleft \in 0..Scale(DhtWeights, dhtturn) - 1
          /\ dhtvalue * Scale(DhtWeights, dhtturn) + dhtleft = dhtsent[k] + wrong
      BY <2>1 DEF DhtAdds
    <2> QED
      BY <1>2, <2>1, <2>2
  <1>4. SentBit \in {0, 1} /\ dhtleft - SentBit * SentWeight \in 0..SentWeight - 1
    BY <1>2, <1>3, SentPart DEF SentBit
  <1>5. (2 * dhtvalue + bit) * SentWeight + (dhtleft - SentBit * SentWeight)
          = dhtvalue * (2 * SentWeight) + dhtleft + (bit - SentBit) * SentWeight
    BY <1>2, <1>3, TurnSum DEF SentBit
  <1>6. dhtsent[k] \in Int /\ wrong \in Int
    <2>1. dhtsent[k] \in 0..DhtByte - 1 /\ dhterror \in Int
      BY DEF DhtShape, IsFrame
    <2> QED
      BY <2>1, DhtByteIsBig DEF Misread
  <1>7. (2 * dhtvalue + bit) * SentWeight + (dhtleft - SentBit * SentWeight)
          = dhtsent[k] + Misread(k)'
    <2> DEFINE more == (bit - SentBit) * SentWeight
    <2>1. more \in Int /\ Misread(k)' = wrong + more
      BY <1>2, <1>4
    <2> HIDE DEF more, wrong
    <2> QED
      BY <1>3, <1>5, <1>6, <2>1 DEF more
  <1>8. CASE dhtturn + 1 < DhtBits
    <2>1. /\ dhtturn' = dhtturn + 1 /\ dhtvalue' = 2 * dhtvalue + bit /\ dhtbytes' = dhtbytes
      BY <1>8 DEF Shift
    <2>2. dhtleft' = dhtleft - SentBit * SentWeight
      BY <1>8 DEF SensorMoves
    <2>3. dhtvalue' * Scale(DhtWeights, dhtturn') + dhtleft' = dhtsent'[k] + Misread(k)'
      BY <1>2, <1>7, <2>1, <2>2
    <2>4. dhtleft' \in 0..Scale(DhtWeights, dhtturn') - 1
      BY <1>2, <1>4, <2>1, <2>2
    <2>5. \A i \in 1..Len(dhtbytes') : dhtbytes'[i] = dhtsent'[i] + Misread(i)'
      BY <2>1 DEF DhtAdds
    <2> QED
      BY <2>1, <2>3, <2>4, <2>5 DEF DhtAdds
  <1>9. CASE ~(dhtturn + 1 < DhtBits)
    <2>1. /\ dhtturn' = 0 /\ dhtvalue' = 0 /\ dhtbytes' = Append(dhtbytes, 2 * dhtvalue + bit)
          /\ dhtleft' = SentNext
      BY <1>9 DEF Shift, SensorMoves
    <2>2. SentWeight = 1
      BY <1>1, <1>2, <1>9, LastBit, DhtAssumption
    <2>3. 2 * dhtvalue + bit = dhtsent[k] + Misread(k)'
      BY <1>3, <1>4, <1>7, <2>2
    <2>4. /\ dhtbytes \in Seq(Int) /\ 2 * dhtvalue + bit \in Int
          /\ Len(dhtbytes') = k /\ dhtbytes'[k] = 2 * dhtvalue + bit
          /\ \A i \in 1..Len(dhtbytes) : dhtbytes'[i] = dhtbytes[i]
      BY <1>3, <2>1 DEF DhtShape
    <2>5. \A i \in 1..Len(dhtbytes') : dhtbytes'[i] = dhtsent'[i] + Misread(i)'
      <3> TAKE i \in 1..Len(dhtbytes')
      <3>1. CASE i = k
        BY <2>3, <2>4, <3>1
      <3>2. CASE i # k
        <4>1. i \in 1..Len(dhtbytes) /\ i \in 1..k - 1
          BY <1>3, <2>4, <3>2
        <4>2. Misread(i)' = Misread(i)
          BY <4>1
        <4>3. dhtbytes[i] = dhtsent[i] + Misread(i)
          BY <4>1 DEF DhtAdds
        <4> QED
          BY <2>4, <4>1, <4>2, <4>3
      <3> QED
        BY <3>1, <3>2
    <2>6. ASSUME Len(dhtbytes') < 5
          PROVE  /\ dhtleft' \in 0..Scale(DhtWeights, dhtturn') - 1
                 /\ dhtvalue' * Scale(DhtWeights, dhtturn') + dhtleft'
                      = (dhtsent[Len(dhtbytes) + 1] + Misread(Len(dhtbytes) + 1))'
      <3>1. Len(dhtbytes) < 4 /\ Len(dhtbytes') + 1 = k + 1 /\ k + 1 \in 1..5
        BY <1>3, <2>4, <2>6
      <3>2. dhtleft' = dhtsent[k + 1]
        BY <1>3, <2>1, <3>1 DEF SentNext
      <3>3. dhtsent[k + 1] \in 0..DhtByte - 1
        BY <3>1 DEF DhtShape, IsFrame
      <3>4. Scale(DhtWeights, 0) = DhtByte /\ DhtByte \in Nat
        BY <1>1 DEF DhtByte, Scale
      <3>5. Misread(Len(dhtbytes) + 1)' = 0
        BY <3>1 DEF Misread
      <3>6. dhtleft' \in 0..Scale(DhtWeights, dhtturn') - 1
        BY <2>1, <3>2, <3>3, <3>4
      <3>7. dhtvalue' * Scale(DhtWeights, dhtturn') + dhtleft'
              = dhtsent'[Len(dhtbytes') + 1] + 0
        BY <2>1, <3>1, <3>2, <3>3, <3>4
      <3> QED
        BY <3>5, <3>6, <3>7
    <2> QED
      BY <2>5, <2>6 DEF DhtAdds
  <1> QED
    BY <1>8, <1>9

\* The bit the sensor sends in a read under way.
LEMMA SentParts ==
  ASSUME DhtShape, DhtAdds, Len(dhtbytes) < 5
  PROVE  /\ SentBit \in {0, 1} /\ SentWeight \in Nat
         /\ SentWeight > 0 /\ SentWeight < DhtByte /\ DhtByte \in Nat
  <1>1. DhtByte \in Nat
    BY DhtByteIsBig
  <1>2. dhtturn \in 0..Len(DhtWeights) - 1
    BY DEF DhtShape, DhtBits
  <1>3. SentWeight \in Nat /\ Scale(DhtWeights, dhtturn) = 2 * SentWeight
    BY <1>2, TurnWeight, DhtAssumption DEF SentWeight
  <1>4. dhtleft \in 0..2 * SentWeight - 1 /\ 2 * SentWeight <= DhtByte
    BY <1>3 DEF DhtAdds, DhtShape
  <1>5. SentBit \in {0, 1}
    BY <1>3, <1>4, SentPart DEF SentBit
  <1> QED
    BY <1>1, <1>3, <1>4, <1>5

LEMMA DhtBegins == DhtInit => DhtInv
  <1> SUFFICES ASSUME DhtInit PROVE DhtInv
    OBVIOUS
  <1>1. /\ Len(DhtWeights) \in Nat \ {0} /\ DhtWeights[1] \in Nat
        /\ DhtBits = Len(DhtWeights)
    BY DhtAssumption DEF DhtBits, AreWeights
  <1>2. Scale(DhtWeights, 0) = DhtByte /\ DhtByte \in Nat \ {0}
    BY DhtByteIsBig
  <1>3. IsFrame(dhtsent)
    <2>1. dhtsent \in Seq(Int) /\ Len(dhtsent) = 5 /\ \A i \in 1..5 : dhtsent[i] = 0
      BY DEF DhtInit
    <2>2. (0 + 0 + 0 + 0) % DhtByte = 0
      BY <1>2
    <2> QED
      BY <1>2, <2>1, <2>2 DEF IsFrame, Checksum
  <1>4. DhtShape
    BY <1>1, <1>2, <1>3 DEF DhtInit, DhtShape
  <1> QED
    BY <1>4 DEF DhtInit, DhtInv, DhtAcceptedIsSent

\* The frames of the sensor have the sum they say.
LEMMA FramesAreFrames == ASSUME NEW frame \in DhtFrames PROVE IsFrame(frame)
  <1>1. DhtByte \in Nat \ {0}
    BY DhtByteIsBig
  <1>2. PICK h \in 0..DhtByte - 1, hd \in DhtDecimals,
              t \in 0..DhtByte - 1, td \in DhtDecimals :
          frame = <<h, hd, t, td, (h + hd + t + td) % DhtByte>>
    BY DEF DhtFrames
  <1>3. hd \in 0..DhtByte - 1 /\ td \in 0..DhtByte - 1
    BY DhtAssumption
  <1>4. (h + hd + t + td) % DhtByte \in 0..DhtByte - 1
    BY <1>1, <1>3
  <1>5. /\ frame[1] = h /\ frame[2] = hd /\ frame[3] = t /\ frame[4] = td
        /\ frame[5] = (h + hd + t + td) % DhtByte /\ Len(frame) = 5
        /\ frame \in Seq(Int)
    BY <1>1, <1>2, <1>3, <1>4
  <1> QED
    BY <1>1, <1>3, <1>4, <1>5 DEF IsFrame, Checksum

LEMMA DhtStartStep ==
  ASSUME DhtInv, NEW frame \in DhtFrames, DhtStart(frame)
  PROVE  DhtInv'
  <1>1. /\ dhtbusy' = TRUE /\ dhtresult' = <<>> /\ dhtsent' = frame /\ dhtline' = DhtLive
        /\ dhtleft' = frame[1] /\ dhtbytes' = <<>> /\ dhtturn' = 0 /\ dhtvalue' = 0
        /\ dhtwrong' = 0 /\ dhterror' = 0 /\ dhtdriver' = dhtdriver
    BY DEF DhtStart
  <1>2. IsFrame(frame)
    BY FramesAreFrames
  <1>3. IsFrame(dhtsent)'
    BY <1>1, <1>2 DEF IsFrame, Checksum
  <1>4. /\ Len(DhtWeights) \in Nat \ {0} /\ DhtBits = Len(DhtWeights)
    BY DhtAssumption DEF DhtBits, AreWeights
  <1>5. Scale(DhtWeights, 0) = DhtByte /\ DhtByte \in Nat \ {0}
    BY DhtByteIsBig
  <1>6. DhtShape'
    BY <1>1, <1>3, <1>4, <1>5 DEF DhtInv, DhtShape
  <1>7. frame[1] \in 0..DhtByte - 1
    BY <1>2 DEF IsFrame
  <1>8. DhtAdds'
    <2>1. Len(dhtbytes') = 0 /\ 0 * Scale(DhtWeights, dhtturn') = 0
      BY <1>1, <1>5
    <2>2. Misread(1)' = 0 /\ dhtsent'[1] = frame[1] /\ dhtleft' = frame[1]
      BY <1>1 DEF Misread
    <2>3. dhtleft' \in 0..Scale(DhtWeights, dhtturn') - 1
      BY <1>1, <1>5, <1>7
    <2>4. dhtvalue' * Scale(DhtWeights, dhtturn') + dhtleft' = dhtsent'[1] + Misread(1)'
      BY <1>1, <1>7, <2>1, <2>2
    <2>5. (Misread(Len(dhtbytes) + 1))' = Misread(1)'
      BY <2>1 DEF Misread
    <2> QED
      BY <2>1, <2>3, <2>4, <2>5 DEF DhtAdds
  <1> QED
    BY <1>1, <1>6, <1>8 DEF DhtInv, DhtAcceptedIsSent

LEMMA ReadBitStep == ASSUME DhtInv, ReadBit PROVE DhtInv'
  <1>1. /\ dhtbusy /\ Len(dhtbytes) < 5 /\ dhtline = DhtLive /\ Shift(SentBit) /\ SensorMoves
        /\ UNCHANGED <<dhtdriver, dhtbusy, dhtresult, dhtsent, dhtline, dhtwrong, dhterror>>
    BY DEF ReadBit
  <1>2. DhtShape /\ DhtAdds /\ dhtresult = <<>>
    BY <1>1 DEF DhtInv, DhtHeld
  <1>3. SentBit \in {0, 1} /\ SentWeight \in Nat
    BY <1>1, <1>2, SentParts
  <1>4. DhtShape'
    BY <1>1, <1>2, <1>3, ShiftShape DEF DhtShape
  <1>5. DhtAdds'
    <2> DEFINE k == Len(dhtbytes) + 1
    <2>1. k \in 1..5
      BY <1>1, <1>2 DEF DhtShape
    <2>2. (SentBit - SentBit) * SentWeight = 0
      BY <1>3
    <2>3. PICK at \in 1..5 : at = k
      BY <2>1
    <2>4. /\ \A i \in 1..at - 1 : Misread(i)' = Misread(i)
          /\ Misread(at)' = Misread(at) /\ Misread(at) \in Int
          /\ Misread(at + 1)' = 0
      BY <1>1, <1>2, <2>3 DEF Misread, DhtShape
    <2>5. Misread(at)' = Misread(at) + (SentBit - SentBit) * SentWeight
      BY <2>2, <2>4
    <2> QED
      BY <1>1, <1>2, <1>3, <2>3, <2>4, <2>5, ShiftAdds
  <1> QED
    BY <1>1, <1>2, <1>4, <1>5 DEF DhtInv, DhtAcceptedIsSent

LEMMA MisreadBitStep == ASSUME DhtInv, MisreadBit PROVE DhtInv'
  <1> DEFINE bit == 1 - SentBit
  <1>1. /\ dhtbusy /\ Len(dhtbytes) < 5 /\ dhtline = DhtLive /\ Shift(bit) /\ SensorMoves
        /\ dhtwrong = 0 /\ dhtwrong' = Len(dhtbytes) + 1
        /\ dhterror' = IF SentBit = 0 THEN SentWeight ELSE -SentWeight
        /\ UNCHANGED <<dhtdriver, dhtbusy, dhtresult, dhtsent, dhtline>>
    BY DEF MisreadBit
  <1>2. DhtShape /\ DhtAdds /\ dhtresult = <<>>
    BY <1>1 DEF DhtInv, DhtHeld
  <1>3. /\ SentBit \in {0, 1} /\ SentWeight \in Nat
        /\ SentWeight > 0 /\ SentWeight < DhtByte /\ DhtByte \in Nat
    BY <1>1, <1>2, SentParts
  <1>4. bit \in {0, 1}
    BY <1>3
  <1>5. /\ dhterror' = (bit - SentBit) * SentWeight /\ dhterror' \in Int
        /\ dhterror' # 0 /\ -DhtByte < dhterror' /\ dhterror' < DhtByte
    <2>1. CASE SentBit = 0
      BY <1>1, <1>3, <2>1
    <2>2. CASE SentBit = 1
      BY <1>1, <1>3, <2>2
    <2> QED
      BY <1>3, <2>1, <2>2
  <1> HIDE DEF bit
  <1>6. DhtShape'
    <2>1. Len(dhtbytes) \in 0..4 /\ dhtwrong' \in 0..5
      <3>1. Len(dhtbytes) \in Nat
        BY <1>2 DEF DhtShape
      <3>2. Len(dhtbytes) < 5 /\ dhtwrong' = Len(dhtbytes) + 1
        BY <1>1
      <3>3. \A n \in Nat : n < 5 => n \in 0..4 /\ n + 1 \in 0..5
        OBVIOUS
      <3> QED
        BY <3>1, <3>2, <3>3
    <2>2. /\ dhtbytes' \in Seq(Int) /\ Len(dhtbytes') <= 5 /\ Len(dhtbytes') >= Len(dhtbytes)
          /\ dhtturn' \in 0..DhtBits - 1 /\ Scale(DhtWeights, dhtturn') <= DhtByte
          /\ dhtvalue' \in Int /\ IsFrame(dhtsent)'
      BY <1>1, <1>2, <1>4, ShiftShape
    <2>3. dhtwrong' <= Len(dhtbytes') + 1
      BY <1>1, <2>1, <2>2
    <2> QED
      BY <1>1, <1>2, <1>5, <2>1, <2>2, <2>3 DEF DhtShape
  <1>7. DhtAdds'
    <2>1. Len(dhtbytes) + 1 \in 1..5
      BY <1>1, <1>2 DEF DhtShape
    <2>2. PICK at \in 1..5 : at = Len(dhtbytes) + 1
      BY <2>1
    <2>3. /\ \A i \in 1..at - 1 : Misread(i)' = Misread(i)
          /\ Misread(at)' = dhterror' /\ Misread(at) = 0
          /\ Misread(at + 1)' = 0
      BY <1>1, <2>2 DEF Misread
    <2>4. Misread(at)' = Misread(at) + (bit - SentBit) * SentWeight
      BY <1>5, <2>3
    <2> QED
      BY <1>1, <1>2, <1>4, <2>2, <2>3, <2>4, ShiftAdds
  <1> QED
    BY <1>1, <1>2, <1>6, <1>7 DEF DhtInv, DhtAcceptedIsSent

\* The archived driver alone reads the level of a line nobody drives.
LEMMA ReadLevelStep == ASSUME DhtInv, ReadLevel PROVE DhtInv'
  <1>1. /\ dhtbusy /\ Len(dhtbytes) < 5 /\ dhtline # DhtLive /\ dhtdriver # "stm32"
        /\ Shift(dhtline) /\ DhtShape /\ dhtline \in {0, 1}
        /\ UNCHANGED <<dhtdriver, dhtbusy, dhtresult, dhtsent, dhtline, dhtwrong, dhterror>>
    BY DEF ReadLevel, GivesUp, DhtInv, DhtShape, sensorVars
  <1>2. DhtShape'
    BY <1>1, ShiftShape DEF DhtShape
  <1>3. ~DhtHeld' /\ dhtresult' = <<>>
    BY <1>1 DEF DhtHeld, DhtInv, DhtLive
  <1> QED
    BY <1>2, <1>3 DEF DhtInv, DhtAcceptedIsSent

LEMMA DhtDecideStep == ASSUME DhtInv, DhtDecide PROVE DhtInv'
  <1>1. /\ dhtbusy /\ Len(dhtbytes) = 5 /\ ~dhtbusy'
        /\ dhtresult' = IF Checksum(dhtbytes) THEN <<dhtbytes[3], dhtbytes[1]>> ELSE <<>>
        /\ UNCHANGED <<dhtdriver, dhtsent, dhtline, dhtleft, dhtbytes, dhtturn, dhtvalue,
                       dhtwrong, dhterror>>
    BY DEF DhtDecide, sensorVars, readVars
  <1>2. DhtShape /\ DhtShape'
    BY <1>1 DEF DhtInv, DhtShape, IsFrame, Checksum
  <1>3. CASE ~DhtHeld
    BY <1>1, <1>2, <1>3 DEF DhtInv, DhtAcceptedIsSent, DhtHeld, DhtShape
  <1>4. CASE DhtHeld
    <2>1. \A i \in 1..5 : dhtbytes[i] = dhtsent[i] + Misread(i)
      BY <1>1, <1>4 DEF DhtInv, DhtAdds
    <2>2. dhtresult' \in {<<>>, <<dhtsent[3], dhtsent[1]>>}
      <3>1. CASE dhtwrong = 0
        <4>1. dhtsent[1] \in Int /\ dhtsent[3] \in Int
          BY <1>2, DhtByteIsBig DEF DhtShape, IsFrame
        <4>2. Misread(3) = 0 /\ Misread(1) = 0
          BY <3>1 DEF Misread
        <4>3. dhtbytes[3] = dhtsent[3] /\ dhtbytes[1] = dhtsent[1]
          BY <2>1, <4>1, <4>2
        <4> QED
          BY <1>1, <4>3
      <3>2. CASE dhtwrong # 0
        <4>1. DhtByte \in Nat \ {0}
          BY DhtByteIsBig
        <4>2. /\ dhtwrong \in 1..5 /\ dhterror \in Int /\ dhterror # 0
              /\ -DhtByte < dhterror /\ dhterror < DhtByte
              /\ IsFrame(dhtsent) /\ dhtbytes \in Seq(Int)
          BY <1>2, <3>2 DEF DhtShape
        <4>3. \A i \in 1..5 : dhtbytes[i] = dhtsent[i] + (IF dhtwrong = i THEN dhterror ELSE 0)
          BY <2>1 DEF Misread
        <4>4. ~Checksum(dhtbytes)
          BY <1>1, <4>1, <4>2, <4>3, MisreadShows
        <4> QED
          BY <1>1, <4>4
      <3> QED
        BY <3>1, <3>2
    <2> QED
      BY <1>1, <1>2, <2>2 DEF DhtInv, DhtAcceptedIsSent
  <1> QED
    BY <1>3, <1>4

LEMMA DhtStep == DhtInv /\ [DhtNext]_dhtVars => DhtInv'
  <1> SUFFICES ASSUME DhtInv, [DhtNext]_dhtVars
               PROVE  DhtInv'
    OBVIOUS
  <1>1. CASE SensorStops
    <2>1. /\ dhtline = DhtLive /\ dhtline' \in {0, 1}
          /\ UNCHANGED <<dhtdriver, dhtbusy, dhtresult, dhtsent, dhtleft, dhtbytes, dhtturn,
                         dhtvalue, dhtwrong, dhterror>>
      BY <1>1 DEF SensorStops, readVars
    <2>2. DhtShape'
      BY <2>1 DEF DhtInv, DhtShape, IsFrame, Checksum
    <2>3. DhtAdds <=> DhtAdds'
      BY <2>1 DEF DhtAdds, Misread
    <2>4. DhtHeld
      BY <2>1 DEF DhtHeld
    <2>5. dhtbusy' => dhtresult' = <<>>
      BY <2>1 DEF DhtInv
    <2>6. dhtbusy
      BY <1>1 DEF SensorStops
    <2> QED
      BY <2>1, <2>2, <2>3, <2>4, <2>5, <2>6 DEF DhtInv, DhtAcceptedIsSent
  <1>2. CASE DhtTimeout
    <2>1. /\ dhtbusy /\ ~dhtbusy'
          /\ UNCHANGED <<dhtdriver, dhtresult, dhtsent, dhtline, dhtleft, dhtbytes, dhtturn,
                         dhtvalue, dhtwrong, dhterror>>
      BY <1>2 DEF DhtTimeout, sensorVars, readVars
    <2>2. DhtShape'
      BY <2>1 DEF DhtInv, DhtShape, IsFrame, Checksum
    <2> QED
      BY <2>1, <2>2 DEF DhtInv, DhtAcceptedIsSent
  <1>3. CASE UNCHANGED dhtVars
    <2>1. UNCHANGED <<dhtdriver, dhtbusy, dhtresult, dhtsent, dhtline, dhtleft, dhtbytes,
                      dhtturn, dhtvalue, dhtwrong, dhterror>>
      BY <1>3 DEF dhtVars, sensorVars, readVars
    <2>2. DhtShape'
      BY <2>1 DEF DhtInv, DhtShape, IsFrame, Checksum
    <2>3. (DhtAdds <=> DhtAdds') /\ (DhtHeld <=> DhtHeld')
      BY <2>1 DEF DhtAdds, Misread, DhtHeld
    <2> QED
      BY <2>1, <2>2, <2>3 DEF DhtInv, DhtAcceptedIsSent
  <1> QED
    BY <1>1, <1>2, <1>3, DhtStartStep, ReadBitStep, MisreadBitStep, ReadLevelStep,
       DhtDecideStep DEF DhtNext

\* What dht11_read returns is what the sensor sent (Drivers/dht11.c): a frame
\* with a misread bit does not add up, and the driver leaves a read the sensor
\* stopped in, for bytes of any number of bits.
THEOREM AcceptedIsSent == DhtInit /\ [][DhtNext]_dhtVars => []DhtAcceptedIsSent
  <1>1. DhtInv => DhtAcceptedIsSent
    BY DEF DhtInv
  <1> QED
    BY <1>1, DhtBegins, DhtStep, PTL

-------------------------------------------------------------------------------
(* Start-up of the current firmware.  What a pin is at follows from the    *)
(* writes to it that are done, so that all there is to know is the order   *)
(* of the writes.                                                          *)

Clock == <<"clock", "all">>
Outs == ActiveHigh \cup Of(Leds) \cup Radios

\* What start-up writes: low to what is on at a high level, high to the others.
Suits(op, p) ==
  /\ op = "low" => p \in ActiveHigh
  /\ op = "high" => p \in BoardPins \ ActiveHigh
  /\ op = "output" => p \in Outs
  /\ op = "pulled" => p \in Pulled

PinWrites ==
  {w \in {"low", "high", "output", "pulled"} \X BoardPins : Suits(w[1], w[2])}

\* What a sequence of writes has done, the first one but for the clock.
Done(s) == {s[i] : i \in 2..Len(s)}

\* An LED is at a high level before its pin is an output, a radio right after.
Sound(s) ==
  /\ s \in Seq(PinWrites \cup {Clock}) /\ Len(s) >= 1 /\ s[1] = Clock
  /\ \A i \in 2..Len(s) : s[i] \in PinWrites
  /\ \A i \in 2..Len(s) : \A p \in Of(Leds) :
       s[i] = <<"output", p>> => \E j \in 2..i - 1 : s[j] = <<"high", p>>
  /\ \A i \in 2..Len(s) : \A p \in Radios :
       s[i] = <<"output", p>> => i + 1 \in 2..Len(s) /\ s[i + 1] = <<"high", p>>

\* What the writes add that come behind others.
LEMMA WritesAdd ==
  ASSUME NEW s, Sound(s), NEW t \in Seq(PinWrites)
  PROVE  /\ s \o t \in Seq(PinWrites \cup {Clock}) /\ Len(s \o t) = Len(s) + Len(t)
         /\ \A i \in 1..Len(s) : (s \o t)[i] = s[i]
         /\ \A i \in 1..Len(t) : (s \o t)[Len(s) + i] = t[i]
         /\ Done(s \o t) = Done(s) \cup Of(t)
  <1>1. /\ s \in Seq(PinWrites \cup {Clock}) /\ t \in Seq(PinWrites \cup {Clock})
        /\ Len(s) \in Nat /\ Len(s) >= 1 /\ Len(t) \in Nat
    BY DEF Sound
  <1>2. /\ s \o t \in Seq(PinWrites \cup {Clock}) /\ Len(s \o t) = Len(s) + Len(t)
        /\ \A i \in 1..Len(s) : (s \o t)[i] = s[i]
        /\ \A i \in 1..Len(t) : (s \o t)[Len(s) + i] = t[i]
    BY <1>1, SMT
  <1>3. Done(s \o t) \subseteq Done(s) \cup Of(t)
    <2> SUFFICES ASSUME NEW i \in 2..Len(s) + Len(t)
                 PROVE  (s \o t)[i] \in Done(s) \cup Of(t)
      BY <1>2 DEF Done
    <2>1. CASE i <= Len(s)
      BY <1>1, <1>2, <2>1 DEF Done
    <2>2. CASE i > Len(s)
      <3>1. i - Len(s) \in 1..Len(t) /\ i = Len(s) + (i - Len(s))
        BY <1>1, <2>2
      <3>2. (s \o t)[i] = t[i - Len(s)]
        BY <1>2, <3>1
      <3> QED
        BY <1>1, <3>1, <3>2 DEF Of
    <2> QED
      BY <1>1, <2>1, <2>2
  <1>4. Done(s) \cup Of(t) \subseteq Done(s \o t)
    <2>1. ASSUME NEW i \in 2..Len(s) PROVE s[i] \in Done(s \o t)
      <3>1. i \in 2..Len(s \o t) /\ (s \o t)[i] = s[i]
        BY <1>1, <1>2
      <3> QED
        BY <3>1 DEF Done
    <2>2. ASSUME NEW i \in 1..Len(t) PROVE t[i] \in Done(s \o t)
      <3>1. Len(s) + i \in 2..Len(s \o t) /\ (s \o t)[Len(s) + i] = t[i]
        BY <1>1, <1>2
      <3> QED
        BY <3>1 DEF Done
    <2>3. DOMAIN t = 1..Len(t)
      BY <1>1
    <2>4. ASSUME NEW w \in Done(s) PROVE w \in Done(s \o t)
      BY <2>1, Zenon DEF Done
    <2>5. ASSUME NEW w \in Of(t) PROVE w \in Done(s \o t)
      BY <2>2, <2>3, Zenon DEF Of
    <2> QED
      BY <2>4, <2>5, Zenon
  <1> QED
    BY <1>2, <1>3, <1>4

\* The order stays sound when LEDs behind it are at a high level in it, and
\* radios go on behind it.
LEMMA SoundGoesOn ==
  ASSUME NEW s, Sound(s), NEW t \in Seq(PinWrites),
         \A i \in 1..Len(t) : \A p \in Of(Leds) :
           t[i] = <<"output", p>> => <<"high", p>> \in Done(s),
         \A i \in 1..Len(t) : \A p \in Radios :
           t[i] = <<"output", p>> => i + 1 \in 1..Len(t) /\ t[i + 1] = <<"high", p>>
  PROVE  Sound(s \o t)
  <1> DEFINE st == s \o t
  <1>1. /\ st \in Seq(PinWrites \cup {Clock}) /\ Len(st) = Len(s) + Len(t)
        /\ \A i \in 1..Len(s) : st[i] = s[i]
        /\ \A i \in 1..Len(t) : st[Len(s) + i] = t[i]
        /\ Len(s) \in Nat /\ Len(s) >= 1 /\ Len(t) \in Nat /\ s[1] = Clock
    BY WritesAdd DEF Sound
  <1> HIDE DEF st
  <1>2. \A i \in 2..Len(st) :
          \/ i \in 2..Len(s) /\ st[i] = s[i]
          \/ \E k \in 1..Len(t) : i = Len(s) + k /\ st[i] = t[k]
    <2> SUFFICES ASSUME NEW i \in 2..Len(st), i \notin 2..Len(s)
                 PROVE  \E k \in 1..Len(t) : i = Len(s) + k /\ st[i] = t[k]
      BY <1>1
    <2>1. i - Len(s) \in 1..Len(t) /\ i = Len(s) + (i - Len(s))
      BY <1>1
    <2> QED
      BY <1>1, <2>1
  <1>3. st[1] = Clock /\ Len(st) >= 1
    BY <1>1
  <1>4. ASSUME NEW i \in 2..Len(st) PROVE st[i] \in PinWrites
    <2>1. CASE i \in 2..Len(s) /\ st[i] = s[i]
      BY <2>1 DEF Sound
    <2>2. ASSUME NEW k \in 1..Len(t), st[i] = t[k] PROVE st[i] \in PinWrites
      BY <2>2, <1>1
    <2> QED
      BY <1>2, <2>1, <2>2
  <1>5. ASSUME NEW i \in 2..Len(st), NEW p \in Of(Leds), st[i] = <<"output", p>>
        PROVE  \E j \in 2..i - 1 : st[j] = <<"high", p>>
    <2>1. CASE i \in 2..Len(s) /\ st[i] = s[i]
      <3>1. PICK j \in 2..i - 1 : s[j] = <<"high", p>>
        BY <1>5, <2>1 DEF Sound
      <3>2. j \in 1..Len(s)
        BY <1>1, <2>1, <3>1
      <3> QED
        BY <1>1, <3>1, <3>2
    <2>2. ASSUME NEW k \in 1..Len(t), i = Len(s) + k, st[i] = t[k]
          PROVE  \E j \in 2..i - 1 : st[j] = <<"high", p>>
      <3>1. <<"high", p>> \in Done(s)
        BY <1>5, <2>2
      <3>2. PICK j \in 2..Len(s) : s[j] = <<"high", p>>
        BY <3>1, Zenon DEF Done
      <3>3. j \in 2..i - 1 /\ j \in 1..Len(s)
        BY <1>1, <2>2, <3>2
      <3> QED
        BY <1>1, <3>2, <3>3
    <2> QED
      BY <1>2, <2>1, <2>2
  <1>6. ASSUME NEW i \in 2..Len(st), NEW p \in Radios, st[i] = <<"output", p>>
        PROVE  i + 1 \in 2..Len(st) /\ st[i + 1] = <<"high", p>>
    <2>1. CASE i \in 2..Len(s) /\ st[i] = s[i]
      <3>1. i + 1 \in 2..Len(s) /\ s[i + 1] = <<"high", p>>
        BY <1>6, <2>1 DEF Sound
      <3> QED
        BY <1>1, <3>1
    <2>2. ASSUME NEW k \in 1..Len(t), i = Len(s) + k, st[i] = t[k]
          PROVE  i + 1 \in 2..Len(st) /\ st[i + 1] = <<"high", p>>
      <3>1. k + 1 \in 1..Len(t) /\ t[k + 1] = <<"high", p>>
        BY <1>6, <2>2
      <3>2. i + 1 = Len(s) + (k + 1)
        BY <1>1, <2>2
      <3> QED
        BY <1>1, <3>1, <3>2
    <2> QED
      BY <1>2, <2>1, <2>2
  <1> QED
    BY <1>1, <1>3, <1>4, <1>5, <1>6 DEF Sound, st

\* One write to every pin of a list.
LEMMA EachGoesOn ==
  ASSUME NEW s, Sound(s),
         NEW op \in {"low", "high", "output", "pulled"}, NEW names \in Seq(BoardPins),
         \A p \in Of(names) : p \in BoardPins /\ Suits(op, p),
         op = "output" => \A p \in Of(names) :
                            p \notin Radios /\ (p \in Of(Leds) => <<"high", p>> \in Done(s))
  PROVE  /\ Sound(s \o Each(op, names))
         /\ Done(s \o Each(op, names)) = Done(s) \cup {<<op, p>> : p \in Of(names)}
  <1> DEFINE t == Each(op, names)
  <1>1. /\ DOMAIN names = 1..Len(names) /\ Len(names) \in Nat
        /\ \A i \in 1..Len(names) : names[i] \in Of(names)
    BY DEF Of
  <1>2. ASSUME NEW p \in Of(names) PROVE <<op, p>> \in PinWrites
    BY DEF PinWrites
  <1>3. t \in [1..Len(names) -> PinWrites]
    BY <1>1, <1>2 DEF Each
  <1>4. t \in Seq(PinWrites) /\ Len(t) = Len(names) /\ DOMAIN t = 1..Len(names)
    <2> HIDE DEF t
    <2> QED
      BY <1>1, <1>3
  <1>5. \A i \in 1..Len(names) : t[i] = <<op, names[i]>>
    BY <1>1 DEF Each
  <1>6. Of(t) = {<<op, p>> : p \in Of(names)}
    <2> HIDE DEF t
    <2>1. Of(t) = {<<op, names[i]>> : i \in 1..Len(names)}
      BY <1>4, <1>5 DEF Of
    <2> QED
      BY <1>1, <2>1 DEF Of
  <1> HIDE DEF t
  <1>7. Sound(s \o t)
    <2>1. ASSUME NEW i \in 1..Len(t), NEW p, t[i] = <<"output", p>>
          PROVE  op = "output" /\ p \in Of(names)
      BY <1>1, <1>4, <1>5, <2>1
    <2>2. \A i \in 1..Len(t) : \A p \in Of(Leds) :
            t[i] = <<"output", p>> => <<"high", p>> \in Done(s)
      BY <2>1, Zenon
    <2>3. \A i \in 1..Len(t) : \A p \in Radios : t[i] # <<"output", p>>
      BY <2>1, Zenon
    <2>4. \A i \in 1..Len(t) : \A p \in Radios :
            t[i] = <<"output", p>> => i + 1 \in 1..Len(t) /\ t[i + 1] = <<"high", p>>
      BY <2>3, Zenon
    <2> QED
      BY <1>4, <2>2, <2>4, SoundGoesOn, Zenon
  <1>8. Done(s \o t) = Done(s) \cup Of(t)
    BY <1>4, WritesAdd
  <1> QED
    BY <1>6, <1>7, <1>8 DEF t

\* The two writes that power a radio.
LEMMA SupplyGoesOn ==
  ASSUME NEW s, Sound(s), NEW radio \in Radios
  PROVE  /\ Sound(s \o Supply(radio))
         /\ Done(s \o Supply(radio))
              = Done(s) \cup {<<"output", radio>>, <<"high", radio>>}
  <1> DEFINE t == Supply(radio)
  <1>1. <<"output", radio>> \in PinWrites /\ <<"high", radio>> \in PinWrites
    BY BoardAssumption DEF PinWrites, Suits, Outs, BoardPins
  <1>2. /\ t \in Seq(PinWrites) /\ Len(t) = 2
        /\ t[1] = <<"output", radio>> /\ t[2] = <<"high", radio>>
    BY <1>1 DEF Supply
  <1>3. Of(t) = {<<"output", radio>>, <<"high", radio>>}
    <2>1. DOMAIN t = {1, 2}
      BY <1>2
    <2> HIDE DEF t
    <2> QED
      BY <1>2, <2>1 DEF Of
  <1> HIDE DEF t
  <1>4. ASSUME NEW i \in 1..Len(t), NEW p, t[i] = <<"output", p>>
        PROVE  i = 1 /\ p = radio
    <2>1. i = 1 \/ i = 2
      BY <1>2
    <2> QED
      BY <1>2, <1>4, <2>1
  <1>5. radio \notin Of(Leds)
    BY BoardAssumption
  <1>6. \A i \in 1..Len(t) : \A p \in Of(Leds) :
          t[i] = <<"output", p>> => <<"high", p>> \in Done(s)
    BY <1>4, <1>5, Zenon
  <1>7. \A i \in 1..Len(t) : \A p \in Radios :
          t[i] = <<"output", p>> => i + 1 \in 1..Len(t) /\ t[i + 1] = <<"high", p>>
    BY <1>2, <1>4
  <1>8. Sound(s \o t)
    BY <1>2, <1>6, <1>7, SoundGoesOn, Zenon
  <1>9. Done(s \o t) = Done(s) \cup Of(t)
    BY <1>2, WritesAdd
  <1> QED
    BY <1>3, <1>8, <1>9 DEF t

LEMMA OfJoined ==
  ASSUME NEW S, NEW a \in Seq(S), NEW b \in Seq(S)
  PROVE  a \o b \in Seq(S) /\ Of(a \o b) = Of(a) \cup Of(b)
  <1>1. /\ a \o b \in Seq(S) /\ Len(a \o b) = Len(a) + Len(b)
        /\ DOMAIN a = 1..Len(a) /\ DOMAIN b = 1..Len(b)
        /\ DOMAIN (a \o b) = 1..Len(a) + Len(b)
        /\ Len(a) \in Nat /\ Len(b) \in Nat
        /\ \A i \in 1..Len(a) : (a \o b)[i] = a[i]
        /\ \A i \in 1..Len(b) : (a \o b)[Len(a) + i] = b[i]
    OBVIOUS
  <1>2. ASSUME NEW i \in 1..Len(a) + Len(b) PROVE (a \o b)[i] \in Of(a) \cup Of(b)
    <2>1. CASE i <= Len(a)
      BY <1>1, <2>1 DEF Of
    <2>2. CASE i > Len(a)
      <3>1. i - Len(a) \in 1..Len(b) /\ i = Len(a) + (i - Len(a))
        BY <1>1, <2>2
      <3>2. (a \o b)[i] = b[i - Len(a)]
        BY <1>1, <3>1
      <3> QED
        BY <1>1, <3>1, <3>2 DEF Of
    <2> QED
      BY <1>1, <2>1, <2>2
  <1>3. ASSUME NEW i \in 1..Len(a) PROVE a[i] \in Of(a \o b)
    <2>1. i \in DOMAIN (a \o b) /\ (a \o b)[i] = a[i]
      BY <1>1
    <2> QED
      BY <2>1, Zenon DEF Of
  <1>4. ASSUME NEW i \in 1..Len(b) PROVE b[i] \in Of(a \o b)
    <2>1. Len(a) + i \in DOMAIN (a \o b) /\ (a \o b)[Len(a) + i] = b[i]
      BY <1>1
    <2> QED
      BY <2>1, Zenon DEF Of
  <1>5. Of(a \o b) \subseteq Of(a) \cup Of(b)
    BY <1>1, <1>2, Zenon DEF Of
  <1>6. Of(a) \subseteq Of(a \o b) /\ Of(b) \subseteq Of(a \o b)
    BY <1>1, <1>3, <1>4, Zenon DEF Of
  <1> QED
    BY <1>1, <1>5, <1>6

LEMMA OfOne ==
  ASSUME NEW S, NEW name \in S
  PROVE  <<name>> \in Seq(S) /\ Of(<<name>>) = {name}
  <1> DEFINE one == <<name>>
  <1>1. one \in Seq(S) /\ Len(one) = 1 /\ one[1] = name
    OBVIOUS
  <1> HIDE DEF one
  <1>2. DOMAIN one = {1}
    BY <1>1
  <1>3. Of(one) = {name}
    BY <1>1, <1>2 DEF Of
  <1> QED
    BY <1>1, <1>3 DEF one

\* Start-up is sound, and does to every pin what its place in the list asks for.
LEMMA StartUpIsSound ==
  /\ Sound(StartUp)
  /\ \A p \in Outs : <<"output", p>> \in Done(StartUp)
  /\ \A p \in Pulled : <<"pulled", p>> \in Done(StartUp)
  /\ \A p \in BoardPins \ ActiveHigh : <<"high", p>> \in Done(StartUp)
  <1> DEFINE s0 == <<Clock>>
             s1 == s0 \o Each("low", Relays)
             s2 == s1 \o Each("high", Leds)
             s3 == s2 \o Each("output", Relays \o Leds)
             s4 == s3 \o Each("high", Inputs)
             s5 == s4 \o Each("pulled", Inputs \o <<"soil">>)
             s6 == s5 \o Each("high", <<"soil">>)
             s7 == s6 \o Each("low", <<"buzzer">>)
             s8 == s7 \o Each("output", <<"buzzer">>)
             s9 == s8 \o Each("high", Leds)
             s10 == s9 \o Each("low", Relays)
             s11 == s10 \o Supply("lora")
             s12 == s11 \o Supply("esp")
  <1>1. Relays \in Seq(BoardPins) /\ Leds \in Seq(BoardPins) /\ Inputs \in Seq(BoardPins)
    <2>1. /\ Relays \in Seq(STRING \ {"all"}) /\ Leds \in Seq(STRING \ {"all"})
          /\ Inputs \in Seq(STRING \ {"all"})
      BY BoardAssumption, Zenon
    <2>2. ASSUME NEW a \in Seq(STRING \ {"all"}), Of(a) \subseteq BoardPins
          PROVE  a \in Seq(BoardPins)
      <3>1. Len(a) \in Nat /\ a = [i \in 1..Len(a) |-> a[i]] /\ DOMAIN a = 1..Len(a)
        OBVIOUS
      <3>2. \A i \in 1..Len(a) : a[i] \in BoardPins
        BY <2>2, <3>1 DEF Of
      <3> QED
        BY <3>1, <3>2
    <2>3. /\ Of(Relays) \subseteq BoardPins /\ Of(Leds) \subseteq BoardPins
          /\ Of(Inputs) \subseteq BoardPins
      BY DEF BoardPins, ActiveHigh, Pulled
    <2> QED
      BY <2>1, <2>2, <2>3
  <1>2. /\ Relays \o Leds \in Seq(BoardPins)
        /\ Of(Relays \o Leds) = Of(Relays) \cup Of(Leds)
    BY <1>1, OfJoined
  <1>3. /\ <<"soil">> \in Seq(BoardPins) /\ Of(<<"soil">>) = {"soil"}
        /\ <<"buzzer">> \in Seq(BoardPins) /\ Of(<<"buzzer">>) = {"buzzer"}
    <2>1. "soil" \in BoardPins /\ "buzzer" \in BoardPins
      BY DEF BoardPins, ActiveHigh, Pulled
    <2> QED
      BY <2>1, OfOne
  <1>4. /\ Inputs \o <<"soil">> \in Seq(BoardPins)
        /\ Of(Inputs \o <<"soil">>) = Pulled
    <2> DEFINE soil == <<"soil">>
    <2>1. soil \in Seq(BoardPins) /\ Of(soil) = {"soil"}
      BY <1>3
    <2> HIDE DEF soil
    <2>2. Inputs \o soil \in Seq(BoardPins) /\ Of(Inputs \o soil) = Of(Inputs) \cup Of(soil)
      BY <1>1, <2>1, OfJoined
    <2>3. Inputs \o soil \in Seq(BoardPins) /\ Of(Inputs \o soil) = Pulled
      BY <2>1, <2>2 DEF Pulled
    <2> QED
      BY <2>3 DEF soil
  <1>5. Sound(s0) /\ Done(s0) = {}
    <2>1. s0 \in Seq(PinWrites \cup {Clock}) /\ Len(s0) = 1 /\ s0[1] = Clock
      OBVIOUS
    <2>2. 2..Len(s0) = {}
      BY <2>1
    <2> HIDE DEF s0
    <2> QED
      BY <2>1, <2>2 DEF Sound, Done
  <1>6. \A p \in Of(Relays) : p \in BoardPins /\ p \in ActiveHigh /\ p \in Outs
                              /\ p \notin Radios /\ p \notin Of(Leds)
    BY BoardAssumption DEF BoardPins, ActiveHigh, Outs
  <1>7. \A p \in Of(Leds) : p \in BoardPins \ ActiveHigh /\ p \in Outs /\ p \notin Radios
    BY BoardAssumption DEF BoardPins, Outs
  <1>8. \A p \in Pulled : p \in BoardPins \ ActiveHigh
    BY BoardAssumption DEF BoardPins
  <1>9. \A p \in Of(Inputs) \cup {"soil"} : p \in Pulled
    BY DEF Pulled
  <1>10. /\ "buzzer" \in BoardPins /\ "buzzer" \in ActiveHigh /\ "buzzer" \in Outs
         /\ "buzzer" \notin Radios /\ "buzzer" \notin Of(Leds)
    BY BoardAssumption DEF BoardPins, ActiveHigh, Outs
  <1>11. "lora" \in Radios /\ "esp" \in Radios
    BY DEF Radios
  <1>12. /\ \A p \in Of(Relays) : Suits("low", p)
         /\ \A p \in Of(Leds) : Suits("high", p)
         /\ \A p \in Of(Relays) \cup Of(Leds) : Suits("output", p)
         /\ \A p \in Pulled : Suits("high", p) /\ Suits("pulled", p)
         /\ Suits("low", "buzzer") /\ Suits("output", "buzzer")
    BY <1>6, <1>7, <1>8, <1>10 DEF Suits
  <1> HIDE DEF s0
  <1>21. Sound(s1) /\ Done(s1) = Done(s0) \cup {<<"low", p>> : p \in Of(Relays)}
    BY <1>1, <1>5, <1>6, <1>12, EachGoesOn
  <1> HIDE DEF s1
  <1>22. Sound(s2) /\ Done(s2) = Done(s1) \cup {<<"high", p>> : p \in Of(Leds)}
    BY <1>1, <1>21, <1>7, <1>12, EachGoesOn
  <1> HIDE DEF s2
  <1>23. /\ Sound(s3)
         /\ Done(s3) = Done(s2) \cup {<<"output", p>> : p \in Of(Relays) \cup Of(Leds)}
    <2>1. \A p \in Of(Relays \o Leds) : 
            p \notin Radios /\ (p \in Of(Leds) => <<"high", p>> \in Done(s2))
      BY <1>2, <1>6, <1>7, <1>22
    <2>2. \A p \in Of(Relays \o Leds) : p \in BoardPins /\ Suits("output", p)
      BY <1>2, <1>6, <1>7, <1>12
    <2>3. /\ Sound(s3)
          /\ Done(s3) = Done(s2) \cup {<<"output", p>> : p \in Of(Relays \o Leds)}
      BY <1>2, <1>22, <2>1, <2>2, EachGoesOn
    <2> QED
      BY <1>2, <2>3
  <1> HIDE DEF s3
  <1>24. Sound(s4) /\ Done(s4) = Done(s3) \cup {<<"high", p>> : p \in Of(Inputs)}
    BY <1>1, <1>23, <1>8, <1>9, <1>12, EachGoesOn
  <1> HIDE DEF s4
  <1>25. Sound(s5) /\ Done(s5) = Done(s4) \cup {<<"pulled", p>> : p \in Pulled}
    BY <1>4, <1>24, <1>8, <1>12, EachGoesOn
  <1> HIDE DEF s5
  <1>26. Sound(s6) /\ Done(s6) = Done(s5) \cup {<<"high", p>> : p \in {"soil"}}
    BY <1>3, <1>25, <1>8, <1>9, <1>12, EachGoesOn
  <1> HIDE DEF s6
  <1>27. Sound(s7) /\ Done(s7) = Done(s6) \cup {<<"low", p>> : p \in {"buzzer"}}
    <2>1. \A p \in Of(<<"buzzer">>) :
            p \in BoardPins /\ Suits("low", p) /\ p \notin Radios /\ p \notin Of(Leds)
      BY <1>3, <1>10, <1>12
    <2>2. Sound(s7) /\ Done(s7) = Done(s6) \cup {<<"low", p>> : p \in Of(<<"buzzer">>)}
      BY <1>3, <1>26, <2>1, EachGoesOn
    <2> QED
      BY <1>3, <2>2
  <1> HIDE DEF s7
  <1>28. Sound(s8) /\ Done(s8) = Done(s7) \cup {<<"output", p>> : p \in {"buzzer"}}
    <2>1. \A p \in Of(<<"buzzer">>) :
            p \in BoardPins /\ Suits("output", p) /\ p \notin Radios /\ p \notin Of(Leds)
      BY <1>3, <1>10, <1>12
    <2>2. Sound(s8) /\ Done(s8) = Done(s7) \cup {<<"output", p>> : p \in Of(<<"buzzer">>)}
      BY <1>3, <1>27, <2>1, EachGoesOn
    <2> QED
      BY <1>3, <2>2
  <1> HIDE DEF s8
  <1>29. Sound(s9) /\ Done(s9) = Done(s8) \cup {<<"high", p>> : p \in Of(Leds)}
    BY <1>1, <1>28, <1>7, <1>12, EachGoesOn
  <1> HIDE DEF s9
  <1>30. Sound(s10) /\ Done(s10) = Done(s9) \cup {<<"low", p>> : p \in Of(Relays)}
    BY <1>1, <1>29, <1>6, <1>12, EachGoesOn
  <1> HIDE DEF s10
  <1>31. /\ Sound(s11)
         /\ Done(s11) = Done(s10) \cup {<<"output", "lora">>, <<"high", "lora">>}
    BY <1>30, <1>11, SupplyGoesOn
  <1> HIDE DEF s11
  <1>32. /\ Sound(s12)
         /\ Done(s12) = Done(s11) \cup {<<"output", "esp">>, <<"high", "esp">>}
    BY <1>31, <1>11, SupplyGoesOn
  <1>33. StartUp = s12
    BY Zenon DEF StartUp, BoardInit, Clock, s0, s1, s2, s3, s4, s5, s6, s7, s8, s9, s10, s11
  <1> HIDE DEF s12
  <1>41. \A p \in Outs : <<"output", p>> \in Done(s12)
    <2>1. \A p \in Of(Relays) \cup Of(Leds) : <<"output", p>> \in Done(s12)
      BY <1>23, <1>24, <1>25, <1>26, <1>27, <1>28, <1>29, <1>30, <1>31, <1>32
    <2>2. <<"output", "buzzer">> \in Done(s12)
      BY <1>28, <1>29, <1>30, <1>31, <1>32
    <2> QED
      BY <1>31, <1>32, <2>1, <2>2 DEF Outs, ActiveHigh, Radios
  <1>42. \A p \in Pulled : <<"pulled", p>> \in Done(s12)
    BY <1>25, <1>26, <1>27, <1>28, <1>29, <1>30, <1>31, <1>32
  <1>43. \A p \in Of(Leds) \cup Pulled \cup Radios : <<"high", p>> \in Done(s12)
    <2>1. \A p \in Of(Leds) : <<"high", p>> \in Done(s12)
      BY <1>29, <1>30, <1>31, <1>32
    <2>2. \A p \in Of(Inputs) : <<"high", p>> \in Done(s12)
      BY <1>24, <1>25, <1>26, <1>27, <1>28, <1>29, <1>30, <1>31, <1>32
    <2>3. <<"high", "soil">> \in Done(s12)
      BY <1>26, <1>27, <1>28, <1>29, <1>30, <1>31, <1>32
    <2> QED
      BY <1>31, <1>32, <2>1, <2>2, <2>3 DEF Pulled, Radios
  <1>44. BoardPins \ ActiveHigh \subseteq Of(Leds) \cup Pulled \cup Radios
    BY DEF BoardPins
  <1> QED
    BY <1>32, <1>33, <1>41, <1>42, <1>43, <1>44, Zenon

LEMMA StartUpWrites ==
  /\ Len(StartUp) \in Nat /\ Len(StartUp) >= 1 /\ StartUp[1] = <<"clock", "all">>
  /\ \A i \in 2..Len(StartUp) :
       \E op \in {"low", "high", "output", "pulled"}, p \in BoardPins :
         StartUp[i] = <<op, p>> /\ Suits(op, p)
  /\ "all" \notin BoardPins
  <1>1. /\ Len(StartUp) \in Nat /\ Len(StartUp) >= 1 /\ StartUp[1] = <<"clock", "all">>
        /\ \A i \in 2..Len(StartUp) : StartUp[i] \in PinWrites
    BY StartUpIsSound DEF Sound, Clock
  <1>2. ASSUME NEW w \in PinWrites
        PROVE  \E op \in {"low", "high", "output", "pulled"}, p \in BoardPins :
                 w = <<op, p>> /\ Suits(op, p)
    BY <1>2 DEF PinWrites
  <1>3. ASSUME NEW a \in Seq(STRING \ {"all"}) PROVE "all" \notin Of(a)
    BY <1>3 DEF Of
  <1>4. "all" \notin Of(Relays) /\ "all" \notin Of(Leds) /\ "all" \notin Of(Inputs)
    BY <1>3, BoardAssumption, Zenon
  <1>5. "all" \notin BoardPins
    BY <1>4 DEF BoardPins, ActiveHigh, Pulled, Radios
  <1> QED
    BY <1>1, <1>2, <1>5, Zenon

\* A write is done when start-up is past it.
Written(op, p) == \E i \in 2..step : StartUp[i] = <<op, p>>

\* The registers hold what is written, and no pin is pulled up that drives.
BoardInv ==
  /\ step \in 0..Len(StartUp)
  /\ clocked \in BOOLEAN /\ (clocked <=> step >= 1)
  /\ latch \in [BoardPins -> {0, 1}]
  /\ direction \in [BoardPins -> {"input", "output", "pulled"}]
  /\ \A p \in ActiveHigh : latch[p] = 0
  /\ \A p \in BoardPins \ ActiveHigh : latch[p] = 1 <=> Written("high", p)
  /\ \A p \in BoardPins : direction[p] = "output" <=> Written("output", p)
  /\ \A p \in BoardPins : direction[p] = "pulled" <=> Written("pulled", p)

LEMMA ResetKeepsBoard ==
  ASSUME BoardReset PROVE BoardInv'
  <1>1. \A op, p : ~Written(op, p)'
    BY DEF BoardReset, Written
  <1>2. /\ step' \in 0..Len(StartUp)
        /\ clocked' \in BOOLEAN /\ (clocked' <=> step' >= 1)
    <2>1. step' = 0 /\ ~clocked' /\ clocked' \in BOOLEAN
      BY Zenon DEF BoardReset
    <2> QED
      BY <2>1, StartUpWrites
  <1>3. /\ latch' \in [BoardPins -> {0, 1}]
        /\ direction' \in [BoardPins -> {"input", "output", "pulled"}]
        /\ \A p \in BoardPins : latch'[p] = 0 /\ direction'[p] = "input"
    BY DEF BoardReset
  <1>4. ActiveHigh \subseteq BoardPins
    BY DEF BoardPins
  <1> QED
    BY <1>1, <1>2, <1>3, <1>4 DEF BoardInv

LEMMA StartKeepsBoard ==
  ASSUME BoardInv, BoardStep PROVE BoardInv'
  <1>1. /\ step \in Nat /\ step < Len(StartUp) /\ step' = step + 1
        /\ step' \in 0..Len(StartUp)
    BY StartUpWrites DEF BoardInv, BoardStep
  <1>2. CASE step = 0
    <2>1. StartUp[step + 1][1] = "clock" /\ StartUp[step + 1][2] = "all"
      BY <1>2, StartUpWrites
    <2>2. clocked' \in BOOLEAN /\ clocked' /\ latch' = latch /\ direction' = direction
      BY <2>1, Zenon DEF BoardStep
    <2>3. \A op, p : Written(op, p)' <=> Written(op, p)
      BY <1>1, <1>2 DEF Written
    <2>4. clocked' <=> step' >= 1
      BY <1>1, <1>2, <2>2
    <2> QED
      BY <1>1, <2>2, <2>3, <2>4 DEF BoardInv
  <1>3. CASE step >= 1
    <2>1. step + 1 \in 2..Len(StartUp)
      BY <1>1, <1>3
    <2>2. PICK op \in {"low", "high", "output", "pulled"}, pin \in BoardPins :
            StartUp[step + 1] = <<op, pin>> /\ Suits(op, pin)
      BY <2>1, StartUpWrites, Zenon
    <2>3. clocked = TRUE /\ pin # "all"
      BY <1>3, <2>2, StartUpWrites DEF BoardInv
    <2>4. StartUp[step + 1][1] = op /\ StartUp[step + 1][2] = pin
      BY <2>2
    <2>5. /\ clocked' \in BOOLEAN /\ clocked'
          /\ latch' = IF op \in {"low", "high"}
                        THEN [latch EXCEPT ![pin] = IF op = "low" THEN 0 ELSE 1]
                        ELSE latch
          /\ direction' = IF op \in {"output", "pulled"}
                            THEN [direction EXCEPT ![pin] = op] ELSE direction
      BY <2>3, <2>4, Zenon DEF BoardStep
    <2>6. ASSUME NEW o, NEW p
          PROVE  Written(o, p)' <=> Written(o, p) \/ (o = op /\ p = pin)
      <3>1. \A i \in 2..step + 1 : i \in 2..step \/ i = step + 1
        BY <1>1
      <3>2. \A i \in 2..step : i \in 2..step + 1
        BY <1>1
      <3>3. step + 1 \in 2..step + 1
        BY <1>1, <1>3
      <3>4. StartUp[step + 1] = <<o, p>> <=> o = op /\ p = pin
        BY <2>2
      <3>5. Written(o, p)' <=> \E i \in 2..step + 1 : StartUp[i] = <<o, p>>
        BY <1>1 DEF Written
      <3> QED
        BY <3>1, <3>2, <3>3, <3>4, <3>5, Zenon DEF Written
    <2>7. ActiveHigh \subseteq BoardPins
      BY DEF BoardPins
    <2>8. /\ latch' \in [BoardPins -> {0, 1}]
          /\ direction' \in [BoardPins -> {"input", "output", "pulled"}]
      BY <2>2, <2>5 DEF BoardInv
    <2>9. ASSUME NEW p \in ActiveHigh PROVE latch'[p] = 0
      BY <2>2, <2>5, <2>7, <2>9 DEF BoardInv, Suits
    <2>10. ASSUME NEW p \in BoardPins \ ActiveHigh
           PROVE  latch'[p] = 1 <=> Written("high", p)'
      <3>1. CASE op = "high" /\ p = pin
        BY <2>2, <2>5, <2>6, <3>1 DEF BoardInv
      <3>2. CASE op = "low" /\ p = pin
        BY <2>2, <3>2 DEF Suits
      <3>3. CASE op \notin {"high", "low"} \/ p # pin
        <4>1. latch'[p] = latch[p]
          BY <2>2, <2>5, <3>3 DEF BoardInv
        <4>2. Written("high", p)' <=> Written("high", p)
          BY <2>6, <3>3, Zenon
        <4> QED
          BY <4>1, <4>2, Zenon DEF BoardInv
      <3> QED
        BY <3>1, <3>2, <3>3
    <2>11. ASSUME NEW p \in BoardPins
           PROVE  /\ direction'[p] = "output" <=> Written("output", p)'
                  /\ direction'[p] = "pulled" <=> Written("pulled", p)'
      <3>1. ~(Written("output", p)' /\ Written("pulled", p)')
        <4>1. Written("output", p)' => p \in Outs
          <5>1. \A i \in 2..step' : i \in 2..Len(StartUp)
            BY <1>1
          <5>2. ASSUME NEW i \in 2..Len(StartUp), StartUp[i] = <<"output", p>>
                PROVE  Suits("output", p)
            BY <5>2, StartUpWrites
          <5> QED
            BY <5>1, <5>2, Zenon DEF Written, Suits
        <4>2. Written("pulled", p)' => p \in Pulled
          <5>1. \A i \in 2..step' : i \in 2..Len(StartUp)
            BY <1>1
          <5>2. ASSUME NEW i \in 2..Len(StartUp), StartUp[i] = <<"pulled", p>>
                PROVE  Suits("pulled", p)
            BY <5>2, StartUpWrites
          <5> QED
            BY <5>1, <5>2, Zenon DEF Written, Suits
        <4>3. Outs \cap Pulled = {}
          BY BoardAssumption DEF Outs
        <4> QED
          BY <4>1, <4>2, <4>3
      <3>2. CASE op \in {"output", "pulled"} /\ p = pin
        <4>1. direction'[p] = op
          BY <2>2, <2>5, <3>2 DEF BoardInv
        <4>2. Written(op, p)'
          BY <2>6, <3>2, Zenon
        <4> QED
          BY <3>1, <3>2, <4>1, <4>2
      <3>3. CASE op \notin {"output", "pulled"} \/ p # pin
        <4>1. direction'[p] = direction[p]
          BY <2>2, <2>5, <3>3 DEF BoardInv
        <4>2. /\ Written("output", p)' <=> Written("output", p)
              /\ Written("pulled", p)' <=> Written("pulled", p)
          BY <2>6, <3>3, Zenon
        <4> QED
          BY <4>1, <4>2, Zenon DEF BoardInv
      <3> QED
        BY <3>2, <3>3
    <2>12. clocked' <=> step' >= 1
      BY <1>1, <1>3, <2>5
    <2> QED
      BY <1>1, <2>5, <2>8, <2>9, <2>10, <2>11, <2>12 DEF BoardInv
  <1> QED
    BY <1>1, <1>2, <1>3

LEMMA BoardIsQuiet ==
  ASSUME BoardInv PROVE QuietStart
  <1>1. \A p \in Outs \cup Pulled : p \in BoardPins
    BY DEF Outs, BoardPins
  <1>2. step \in Nat /\ \A i \in 2..step : i \in 2..Len(StartUp)
    BY StartUpWrites DEF BoardInv
  <1>3. ASSUME NEW p \in BoardPins \ ActiveHigh, Drives(p)
        PROVE  ~Written("high", p) /\ p \in Of(Leds) \cup Radios
               /\ \E i \in 2..step : StartUp[i] = <<"output", p>>
    <2>1. latch[p] = 0 /\ direction[p] = "output"
      BY <1>3 DEF Drives, ActiveLevel
    <2>2. PICK i \in 2..step : StartUp[i] = <<"output", p>>
      BY <2>1 DEF BoardInv, Written
    <2>3. Suits("output", p)
      BY <1>2, <2>2, StartUpWrites
    <2>4. p \in Of(Leds) \cup Radios
      BY <2>3, <1>3 DEF Suits, Outs
    <2>5. latch[p] # 1
      BY <2>1
    <2>6. ~Written("high", p)
      BY <2>5, <1>3, Zenon DEF BoardInv
    <2> QED
      BY <2>2, <2>4, <2>6
  <1>4. ASSUME NEW p \in ActiveHigh PROVE ~Drives(p)
    BY <1>4 DEF BoardInv, Drives, ActiveLevel
  <1>5. ASSUME NEW p \in BoardPins \ Radios, Drives(p) PROVE FALSE
    <2>1. p \in BoardPins \ ActiveHigh
      BY <1>4, <1>5
    <2>2. PICK i \in 2..step : StartUp[i] = <<"output", p>>
      BY <1>3, <1>5, <2>1, Zenon
    <2>3. p \in Of(Leds) /\ i \in 2..Len(StartUp)
      BY <1>2, <1>3, <1>5, <2>1
    <2>4. PICK j \in 2..i - 1 : StartUp[j] = <<"high", p>>
      BY <2>2, <2>3, StartUpIsSound, Zenon DEF Sound
    <2>5. j \in 2..step
      BY <1>2, <2>4
    <2> QED
      BY <1>3, <1>5, <2>1, <2>4, <2>5, Zenon DEF Written
  <1>6. ASSUME NEW p \in Radios, Drives(p) PROVE StartUp[step] = <<"output", p>>
    <2>1. p \in BoardPins \ ActiveHigh
      BY BoardAssumption DEF BoardPins
    <2>2. PICK i \in 2..step : StartUp[i] = <<"output", p>>
      BY <1>3, <1>6, <2>1, Zenon
    <2>3. StartUp[i + 1] = <<"high", p>>
      BY <1>2, <2>2, StartUpIsSound, Zenon DEF Sound
    <2>4. i + 1 \notin 2..step
      BY <1>3, <1>6, <2>1, <2>3, Zenon DEF Written
    <2>5. i = step
      BY <1>2, <2>4
    <2> QED
      BY <2>2, <2>5
  <1>7. ASSUME step = Len(StartUp), NEW p \in BoardPins
        PROVE  IF p \in Pulled
                 THEN direction[p] = "pulled" /\ latch[p] = 1
                 ELSE direction[p] = "output" /\ ~Drives(p)
    <2>1. \A op : <<op, p>> \in Done(StartUp) => Written(op, p)
      BY <1>7, Zenon DEF Done, Written
    <2>2. p \notin ActiveHigh => latch[p] = 1
      BY <2>1, StartUpIsSound, Zenon DEF BoardInv
    <2>3. p \in Pulled => p \notin ActiveHigh
      BY BoardAssumption
    <2>4. p \in Pulled => direction[p] = "pulled"
      BY <2>1, StartUpIsSound, Zenon DEF BoardInv
    <2>5. p \notin Pulled => p \in Outs
      BY DEF BoardPins, Outs
    <2>6. p \in Outs => direction[p] = "output"
      BY <2>1, StartUpIsSound, Zenon DEF BoardInv
    <2>7. p \notin ActiveHigh => ~Drives(p)
      BY <2>2 DEF Drives, ActiveLevel
    <2> QED
      BY <1>4, <2>2, <2>3, <2>4, <2>5, <2>6, <2>7, Zenon
  <1> QED
    BY <1>5, <1>6, <1>7, Zenon DEF QuietStart

\* On a board with any relays, LEDs and keys, whenever it is reset, nothing is
\* switched on before control starts, except a radio for one instant.
THEOREM StartIsQuiet ==
  BoardAtReset /\ [][BoardNext]_boardVars => []QuietStart
  <1>1. BoardAtReset => BoardInv
    <2> SUFFICES ASSUME BoardAtReset PROVE BoardInv
      OBVIOUS
    <2>1. \A op, p : ~Written(op, p)
      BY DEF BoardAtReset, Written
    <2>2. ActiveHigh \subseteq BoardPins
      BY DEF BoardPins
    <2>3. /\ latch \in [BoardPins -> {0, 1}]
          /\ direction \in [BoardPins -> {"input", "output", "pulled"}]
          /\ \A p \in BoardPins : latch[p] = 0 /\ direction[p] = "input"
      BY DEF BoardAtReset
    <2>4. /\ step \in 0..Len(StartUp)
          /\ clocked \in BOOLEAN /\ (clocked <=> step >= 1)
      <3>1. step = 0 /\ ~clocked /\ clocked \in BOOLEAN
        BY Zenon DEF BoardAtReset
      <3> QED
        BY <3>1, StartUpWrites
    <2> QED
      BY <2>1, <2>2, <2>3, <2>4 DEF BoardInv
  <1>2. BoardInv /\ [BoardNext]_boardVars => BoardInv'
    <2> SUFFICES ASSUME BoardInv, [BoardNext]_boardVars PROVE BoardInv'
      OBVIOUS
    <2>1. CASE UNCHANGED boardVars
      BY <2>1 DEF boardVars, BoardInv, Written
    <2> QED
      BY <2>1, ResetKeepsBoard, StartKeepsBoard, Zenon DEF BoardNext
  <1>3. BoardInv => QuietStart
    BY BoardIsQuiet
  <1> QED
    BY <1>1, <1>2, <1>3, PTL
===============================================================================
