------------------------------- MODULE MCPanels -------------------------------
(***************************************************************************)
(* The panel's run for TLC: the STM32 panel, its display, and the keys, the*)
(* panel and the clock of the archived firmware it replaced.               *)
(*                                                                         *)
(* These five share no variable.  The initial state chooses one of them,   *)
(* `part', and only that one moves: the states are the sum of theirs, not  *)
(* the product, and each behaviour is one of the component's own.          *)
(***************************************************************************)
EXTENDS MCPanel, Oled, C51Keys, C51App, C51Tick

VARIABLE part

PanelsInit ==
  /\ part \in {"panel", "oled", "c51keys", "c51app", "c51tick"}
  /\ Init /\ OledInit /\ C51KeysInit /\ C51AppInit /\ C51TickInit
  /\ part = "oled" \/ view = "v1"

PanelsNext ==
  /\ UNCHANGED part
  /\ \/ /\ part = "panel" /\ Next
        /\ UNCHANGED <<oledVars, c51keyVars, c51appVars, c51tickVars>>
     \/ /\ part = "oled" /\ OledNext
        /\ UNCHANGED <<vars, c51keyVars, c51appVars, c51tickVars>>
     \/ /\ part = "c51keys" /\ C51KeysNext
        /\ UNCHANGED <<vars, oledVars, c51appVars, c51tickVars>>
     \/ /\ part = "c51app" /\ C51AppNext
        /\ UNCHANGED <<vars, oledVars, c51keyVars, c51tickVars>>
     \/ /\ part = "c51tick" /\ C51TickNext
        /\ UNCHANGED <<vars, oledVars, c51keyVars, c51appVars>>

PanelsSpec ==
  /\ PanelsInit
  /\ [][PanelsNext]_<<part, vars, oledVars, c51keyVars, c51appVars, c51tickVars>>

\* Three views of the application: the first two differ in one byte of a page,
\* the third in two pages.
MCGlyphs ==
  [v1 |-> <<<<1, 1>>, <<0, 0>>, <<2, 1>>>>,
   v2 |-> <<<<1, 2>>, <<0, 0>>, <<2, 1>>>>,
   v3 |-> <<<<3, 1>>, <<0, 0>>, <<2, 2>>>>]
MCTorn == <<9, 9>>

MCC51Keys == <<"mode", "select", "up">>

MCC51TempLow == 0
MCC51Defaults ==
  [temp_min |-> 0, temp_max |-> 0, humi_min |-> 0, humi_max |-> 0,
   air_quality_max |-> 0, light_min |-> 1, soil_min |-> 1]
MCC51FirstReading ==
  [temperature |-> 0, humidity |-> 0, air_quality |-> 0, light |-> 1, soil |-> 1]
MCC51Climates == {[temperature |-> 1, humidity |-> 1]}
\* Air quality and soil read one channel of the ADC0832 (adc0832.h).
MCC51Soils ==
  {[air_quality |-> 0, light |-> 1, soil |-> 0],
   [air_quality |-> 1, light |-> 0, soil |-> 1]}

MCPeriods51 == <<1, 3>>
===============================================================================
