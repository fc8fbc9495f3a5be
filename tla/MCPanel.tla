------------------------------- MODULE MCPanel -------------------------------
(***************************************************************************)
(* Panel for TLC: thresholds of two values each, a long press of 80 ms, and*)
(* SET commands below, above and beyond the type of a field.               *)
(***************************************************************************)
EXTENDS Panel

MCTempLow == -1

MCDefaults ==
  [f \in Fields |-> IF f \in {"temp_max", "humi_max"} THEN 1 ELSE 0]

MCRequests ==
  {[temp_min |-> 1, temp_max |-> 0], [temp_min |-> -2], [temp_max |-> 17],
   [humi_min |-> 5], [humi_max |-> -1], [humi_min |-> 1, humi_max |-> 0],
   [air_max |-> -1], [light_min |-> 17, soil_min |-> 1]}
===============================================================================
