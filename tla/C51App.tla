-------------------------------- MODULE C51App --------------------------------
(***************************************************************************)
(* The archived firmware's panel and control: thresholds, outputs, display *)
(* and report (Legacy_C51/User/app_control.c and main.c,                   *)
(* Drivers/actuators.c, display.c, serial2_printf.c).                      *)
(*                                                                         *)
(* One main loop runs the key, sensor, display and serial tasks, each to   *)
(* its end; their periods are multiples of each other, but a late loop may *)
(* run any of them next.  Key events come from C51Keys in any order.       *)
(* Text is abstracted to the page and the values it is made of.            *)
(***************************************************************************)
EXTENDS Integers, Sequences

CONSTANTS
  C51TempLow, C51TempHigh,  \* TEMP_MIN_LIMIT, TEMP_MAX_LIMIT
  C51HumiHigh, C51AdcHigh,  \* HUMI_MAX_LIMIT, ADC_MAX_LIMIT
  C51AdcStep,               \* 10: what a key adds to an ADC threshold
  C51Defaults,              \* DEFAULT_TEMP_MIN and so on
  C51FirstReading,          \* what app_init takes for the first reading
  C51Climates,              \* bound: what the DHT11 reads
  C51Soils,                 \* bound: what the ADC reads
  C51Backlog                \* bound: key events and readings between two displays

Thermal == {"temp_min", "temp_max", "humi_min", "humi_max"}
Analog  == {"air_quality_max", "light_min", "soil_min"}
Thresholds == Thermal \cup Analog

ASSUME C51LimitsAssumption ==
  /\ C51TempLow \in Int /\ C51TempHigh \in Int /\ C51TempLow <= C51TempHigh
  /\ C51HumiHigh \in Nat /\ C51AdcHigh \in Nat /\ C51AdcStep \in Nat
  /\ C51Backlog \in Nat \ {0}

VARIABLES
  c51page,     \* g_ui_page
  thresholds51,\* g_thresholds
  sensor,      \* g_sensor_data
  c51outputs,  \* g_output_state
  c51pins,     \* what the pins drive, in terms of on and off
  remembered,  \* g_last_page, g_last_temp to g_last_soil, g_last_cfg
  screen,      \* the last line display_update printed
  report,      \* the line serial2_report_all has just printed, if any
  adjusted,    \* history: a key adjusted a threshold since the last sensor task
  backlog      \* history: key events and readings since the last display

c51appVars == <<c51page, thresholds51, sensor, c51outputs, c51pins,
                remembered, screen, report, adjusted, backlog>>

SetPages == <<"temp_min", "temp_max", "humi_min", "humi_max",
              "air_quality_max", "light_min", "soil_min">>
UiPages  == {"values", "thresholds"} \cup Thresholds

NextPage51(page) == IF page = "values" THEN "thresholds" ELSE "values"

NextItem(page) ==
  IF page \notin Thresholds \/ page = "soil_min" THEN "temp_min"
  ELSE SetPages[1 + CHOOSE i \in 1..6 : SetPages[i] = page]

ClampS(value, low, high) ==
  IF value < low THEN low ELSE IF value > high THEN high ELSE value

\* Mutant: a threshold is held to its limits and not to its partner.
LimitsAlone(t, field) ==
  CASE field \in {"temp_min", "temp_max"} -> <<C51TempLow, C51TempHigh>>
    [] field \in {"humi_min", "humi_max"} -> <<0, C51HumiHigh>>
    [] OTHER                              -> <<0, C51AdcHigh>>

\* The range app_adjust_selected holds a field to.
Limits(t, field) ==
  CASE field = "temp_min" -> <<C51TempLow, t.temp_max>>
    [] field = "temp_max" -> <<t.temp_min, C51TempHigh>>
    [] field = "humi_min" -> <<0, t.humi_max>>
    [] field = "humi_max" -> <<t.humi_min, C51HumiHigh>>
    [] OTHER              -> <<0, C51AdcHigh>>

Adjust51(t, field, delta) ==
  LET limits == Limits(t, field)
      step   == IF field \in Analog THEN delta * C51AdcStep ELSE delta
  IN [t EXCEPT ![field] = ClampS(t[field] + step, limits[1], limits[2])]

Outputs51 == {"led1_temp_high", "led2_temp_low", "led3_humi_high",
              "led4_humi_low", "relay_pump", "relay_fan", "relay_light", "buzzer"}

\* app_update_outputs: the outputs that are on.
UpdateOutputs(s, t) ==
  {o \in Outputs51 :
     CASE o = "led1_temp_high" -> s.temperature > t.temp_max
       [] o = "led2_temp_low"  -> s.temperature < t.temp_min
       [] o = "led3_humi_high" -> s.humidity > t.humi_max
       [] o = "led4_humi_low"  -> s.humidity < t.humi_min
       [] o = "relay_pump"     -> s.soil < t.soil_min
       [] o = "relay_light"    -> s.light < t.light_min
       [] OTHER                -> s.air_quality > t.air_quality_max}

\* The code's defaults raise no alarm, so that actuators_init can turn all off.
ASSUME C51DefaultsAssumption ==
  /\ C51Defaults \in [Thresholds -> Int]
  /\ C51Defaults.temp_min \in C51TempLow..C51Defaults.temp_max
  /\ C51Defaults.temp_max \in C51TempLow..C51TempHigh
  /\ C51Defaults.humi_min \in 0..C51Defaults.humi_max
  /\ C51Defaults.humi_max \in 0..C51HumiHigh
  /\ \A f \in Analog : C51Defaults[f] \in 0..C51AdcHigh
  /\ UpdateOutputs(C51FirstReading, C51Defaults) = {}

Bound51 == backlog < C51Backlog /\ backlog' = backlog + 1

\* handle_key_event: UP and DOWN on a page without a threshold enter the first
\* setting and adjust it at once; MODE leaves the settings.
KeyTask(event) ==
  /\ Bound51
  /\ LET field == IF c51page \in Thresholds THEN c51page ELSE NextItem(c51page)
     IN CASE event = "mode" ->
               /\ c51page' = NextPage51(c51page)
               /\ UNCHANGED <<thresholds51, c51outputs, adjusted>>
          [] event = "select" ->
               /\ c51page' = NextItem(c51page)
               /\ UNCHANGED <<thresholds51, c51outputs, adjusted>>
          [] OTHER ->
               /\ c51page' = field
               /\ thresholds51' =
                    Adjust51(thresholds51, field, IF event = "up" THEN 1 ELSE -1)
               /\ c51outputs' = UpdateOutputs(sensor, thresholds51')
               /\ adjusted' = TRUE
  /\ report' = <<>>
  /\ UNCHANGED <<sensor, c51pins, remembered, screen>>

Reading51(climate, soil) ==
  [temperature |-> climate.temperature, humidity |-> climate.humidity,
   air_quality |-> soil.air_quality, light |-> soil.light, soil |-> soil.soil]

\* Mutant: the pins are written before the outputs are worked out.
SensorTaskEarly(climate, soil) ==
  /\ Bound51
  /\ sensor' = Reading51(climate, soil)
  /\ c51pins' = c51outputs
  /\ c51outputs' = UpdateOutputs(sensor', thresholds51)
  /\ adjusted' = FALSE
  /\ report' = <<>>
  /\ UNCHANGED <<c51page, thresholds51, remembered, screen>>

\* read_sensors; a DHT11 that does not answer leaves the climate as it was.
SensorTask(climate, soil) ==
  /\ Bound51
  /\ sensor' = Reading51(climate, soil)
  /\ c51outputs' = UpdateOutputs(sensor', thresholds51)
  /\ c51pins' = c51outputs'
  /\ adjusted' = FALSE
  /\ report' = <<>>
  /\ UNCHANGED <<c51page, thresholds51, remembered, screen>>

\* The line display_update prints.
Line(page, s, t) ==
  CASE page = "values" ->
         <<page, s.temperature, s.humidity, s.air_quality, s.light, s.soil>>
    [] page = "thresholds" -> <<page>> \o [i \in 1..7 |-> t[SetPages[i]]]
    [] OTHER -> <<page, t[page]>>

\* Mutant: thresholds_changed is left out of the comparison.
SameAsRememberedPage(page, s, t) ==
  remembered # <<>> /\ remembered[1] = page /\ remembered[2] = s

\* Nothing differs from what display_update remembers, which at first is
\* nothing (g_cfg_valid).
SameAsRemembered(page, s, t) == remembered = <<page, s, t>>

DisplayTask ==
  /\ IF SameAsRemembered(c51page, sensor, thresholds51)
       THEN UNCHANGED <<screen, remembered>>
       ELSE /\ screen' = Line(c51page, sensor, thresholds51)
            /\ remembered' = <<c51page, sensor, thresholds51>>
  /\ backlog' = 0
  /\ report' = <<>>
  /\ UNCHANGED <<c51page, thresholds51, sensor, c51outputs, c51pins, adjusted>>

AlarmBits(on) ==
  {b \in 0..4 : CASE b = 0 -> on \cap {"led1_temp_high", "led2_temp_low"} # {}
                  [] b = 1 -> on \cap {"led3_humi_high", "led4_humi_low"} # {}
                  [] b = 2 -> "relay_fan" \in on
                  [] b = 3 -> "relay_light" \in on
                  [] OTHER -> "relay_pump" \in on}

SerialTask ==
  /\ report' = <<AlarmBits(c51outputs), c51outputs>>
  /\ UNCHANGED <<c51page, thresholds51, sensor, c51outputs, c51pins,
                 remembered, screen, adjusted, backlog>>

\* app_init and actuators_init, then nothing is shown.
C51AppInit ==
  /\ c51page = "values"
  /\ thresholds51 = C51Defaults
  /\ sensor = C51FirstReading
  /\ c51outputs = UpdateOutputs(sensor, thresholds51)
  /\ c51pins = {}
  /\ remembered = <<>> /\ screen = <<>> /\ report = <<>>
  /\ adjusted = FALSE /\ backlog = 1

LastClimate == [temperature |-> sensor.temperature, humidity |-> sensor.humidity]

C51AppNext ==
  \/ \E event \in {"mode", "select", "up", "down"} : KeyTask(event)
  \/ \E climate \in C51Climates \cup {LastClimate}, soil \in C51Soils :
       SensorTask(climate, soil)
  \/ DisplayTask
  \/ SerialTask

C51AppSpec == C51AppInit /\ [][C51AppNext]_c51appVars
-------------------------------------------------------------------------------
\* Whatever keys are pressed in whatever page, the thresholds stay within their
\* limits and a minimum never passes its maximum (app_adjust_selected).
C51ThresholdsOrdered ==
  /\ C51TempLow <= thresholds51.temp_min
  /\ thresholds51.temp_min <= thresholds51.temp_max
  /\ thresholds51.temp_max <= C51TempHigh
  /\ 0 <= thresholds51.humi_min
  /\ thresholds51.humi_min <= thresholds51.humi_max
  /\ thresholds51.humi_max <= C51HumiHigh
  /\ \A f \in Analog : thresholds51[f] \in 0..C51AdcHigh

\* The pins are what sensors and thresholds call for, and the line just sent to
\* the host tells what the pins drive, unless a key adjusted a threshold since
\* the sensors were last read: app_adjust_selected works the outputs out again
\* but leaves the pins to read_sensors.
C51ReportIsTrue ==
  adjusted \/ (/\ c51pins = UpdateOutputs(sensor, thresholds51)
               /\ report = <<>> \/ report = <<AlarmBits(c51pins), c51pins>>)

\* When nothing happened since display_update last ran, the line it last printed
\* is the page, the readings and the thresholds of now: what it remembers to
\* print only changes misses none (display.c).
C51ScreenIsCurrent ==
  backlog = 0 => screen = Line(c51page, sensor, thresholds51)
===============================================================================
