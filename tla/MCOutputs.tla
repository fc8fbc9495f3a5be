------------------------------ MODULE MCOutputs ------------------------------
(***************************************************************************)
(* The actuator control's run for TLC: the control itself, the buzzer with *)
(* its timer, the pins at start-up, and the sensors control depends on.    *)
(*                                                                         *)
(* These five share no variable.  The initial state chooses one of them,   *)
(* `part', and only that one moves (see MCPanels).                         *)
(***************************************************************************)
EXTENDS MCAppControl, Buzzer, Board, Dht11, Adc

VARIABLE part

OutputsInit ==
  /\ part \in {"control", "buzzer", "board", "dht11", "adc"}
  /\ Init /\ BuzzerInit /\ BoardAtReset /\ DhtInit /\ AdcInit
  /\ part = "dht11" \/ dhtdriver = "stm32"

OutputsNext ==
  /\ UNCHANGED part
  /\ \/ /\ part = "control" /\ Next
        /\ UNCHANGED <<bzVars, boardVars, dhtVars, adcVars>>
     \/ /\ part = "buzzer" /\ BuzzerNext
        /\ UNCHANGED <<vars, boardVars, dhtVars, adcVars>>
     \/ /\ part = "board" /\ BoardNext
        /\ UNCHANGED <<vars, bzVars, dhtVars, adcVars>>
     \/ /\ part = "dht11" /\ DhtNext
        /\ UNCHANGED <<vars, bzVars, boardVars, adcVars>>
     \/ /\ part = "adc" /\ AdcNext
        /\ UNCHANGED <<vars, bzVars, boardVars, dhtVars>>

OutputsSpec ==
  OutputsInit /\ [][OutputsNext]_<<part, vars, bzVars, boardVars, dhtVars, adcVars>>

MCDhtWeights == <<2, 1>>
MCCoarseWeights == <<4, 2, 1>>

\* The pins of board_config.h.
MCRelays == <<"pump", "fan", "light">>
MCLeds   == <<"led1", "led2", "led3", "led4">>
MCInputs == <<"key1", "key2">>
==============================================================================
