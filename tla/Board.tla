-------------------------------- MODULE Board --------------------------------
(***************************************************************************)
(* Start-up: the pins from reset to the main loop (User/board.c, the       *)
(* initialisations main calls, User/board_config.h).                       *)
(*                                                                         *)
(* After a reset every pin is an input and every output latch is 0.  Each  *)
(* step of start-up is one register write; the outside sees the pins after *)
(* each.  A pin drives its latch from the moment it is an output, and a    *)
(* write to a port that has no clock yet is lost.  A reset may come at any *)
(* time.                                                                   *)
(***************************************************************************)
EXTENDS Integers, Sequences

CONSTANTS
  Relays,  \* the pins of board_config.h, named for what is at them
  Leds,
  Inputs   \* the keys

Of(names) == {names[i] : i \in DOMAIN names}

ActiveHigh == Of(Relays) \cup {"buzzer"}
Pulled     == Of(Inputs) \cup {"soil"}
Radios     == {"lora", "esp"}
BoardPins  == ActiveHigh \cup Of(Leds) \cup Pulled \cup Radios

ASSUME BoardAssumption ==
  /\ {Relays, Leds, Inputs} \subseteq Seq(STRING \ {"all"})
  /\ ActiveHigh \cap (Of(Leds) \cup Pulled \cup Radios) = {}
  /\ Of(Leds) \cap (Pulled \cup Radios) = {} /\ Pulled \cap Radios = {}

VARIABLES
  step,      \* the steps of start-up that are done
  clocked,   \* RCC->APB2ENR has the ports' clocks on
  latch,     \* the output latches, ODR
  direction  \* CRL and CRH: "input", "pulled" or "output"

boardVars == <<step, clocked, latch, direction>>

\* The level that turns the device at a pin on.
ActiveLevel(p) == IF p \in ActiveHigh THEN 1 ELSE 0

Each(op, names) == [i \in DOMAIN names |-> <<op, names[i]>>]

\* Mutant: board_init makes the pins outputs before it writes their latches.
BoardInitConfigFirst ==
  <<<<"clock", "all">>>>
  \o Each("output", Relays \o Leds) \o Each("low", Relays) \o Each("high", Leds)
  \o Each("high", Inputs) \o Each("pulled", Inputs \o <<"soil">>)
  \o Each("high", <<"soil">>)

\* board_init: the levels first, then the directions.
BoardInit ==
  <<<<"clock", "all">>>>
  \o Each("low", Relays) \o Each("high", Leds) \o Each("output", Relays \o Leds)
  \o Each("high", Inputs) \o Each("pulled", Inputs \o <<"soil">>)
  \o Each("high", <<"soil">>)

\* sx1278_init, wifi_service_init: the power pin is an output before it is written.
Supply(radio) == <<<<"output", radio>>, <<"high", radio>>>>

\* buzzer_init, actuators_init with all off, and the radios.
StartUp ==
  BoardInit
  \o Each("low", <<"buzzer">>) \o Each("output", <<"buzzer">>)
  \o Each("high", Leds) \o Each("low", Relays)
  \o Supply("lora") \o Supply("esp")

\* gpio_write, gpio_config_output, gpio_config_input.
BoardStep ==
  /\ step < Len(StartUp) /\ step' = step + 1
  /\ LET op  == StartUp[step + 1][1]
         pin == StartUp[step + 1][2]
     IN /\ clocked' = (clocked \/ pin = "all")
        /\ latch' = IF clocked /\ pin # "all" /\ op \in {"low", "high"}
                      THEN [latch EXCEPT ![pin] = IF op = "low" THEN 0 ELSE 1]
                      ELSE latch
        /\ direction' = IF clocked /\ pin # "all" /\ op \in {"output", "pulled"}
                          THEN [direction EXCEPT ![pin] = op] ELSE direction

\* Power-up, the reset button or a brown-out.
BoardReset ==
  /\ step' = 0 /\ clocked' = FALSE
  /\ latch' = [p \in BoardPins |-> 0]
  /\ direction' = [p \in BoardPins |-> "input"]

BoardAtReset ==
  /\ step = 0 /\ clocked = FALSE
  /\ latch = [p \in BoardPins |-> 0]
  /\ direction = [p \in BoardPins |-> "input"]

BoardNext == BoardStep \/ BoardReset

Drives(p) == direction[p] = "output" /\ latch[p] = ActiveLevel(p)
-------------------------------------------------------------------------------
\* From reset to the main loop no relay closes, no LED lights and the buzzer is
\* silent, at no instant between two register writes, and a radio is powered at
\* most between the two writes to its own pin; in the main loop all are off, and
\* keys and the soil contact are pulled up.
QuietStart ==
  /\ \A p \in BoardPins \ Radios : ~Drives(p)
  /\ \A p \in Radios : Drives(p) => StartUp[step] = <<"output", p>>
  /\ step = Len(StartUp) =>
       \A p \in BoardPins :
         IF p \in Pulled
           THEN direction[p] = "pulled" /\ latch[p] = 1
           ELSE direction[p] = "output" /\ ~Drives(p)
===============================================================================
