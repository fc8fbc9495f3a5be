-------------------------------- MODULE Buzzer --------------------------------
(***************************************************************************)
(* The buzzer and its timer (Drivers/buzzer.c, and what                    *)
(* Drivers/actuators.c does to the LED the timer's handler also drives).   *)
(*                                                                         *)
(* buzzer_set_mode2 is a sequence of writes to its variables and to the    *)
(* registers of TIM3.  The handler of TIM3 runs between any two of them    *)
(* and toggles the pin when mode and flags as it finds them say so.        *)
(***************************************************************************)
EXTENDS Integers, Sequences

VARIABLES
  g_mode, g_buzzer_on,  \* the variables both sides use
  cen, uie, uif,        \* TIM3: running, interrupt enabled, update pending
  bzpin,                \* the level of the buzzer's pin
  led3,                 \* the level of PC14, LED3's pin, low for on
  program, target       \* the writes still to be done, and the mode they set

bzVars == <<g_mode, g_buzzer_on, cen, uie, uif, bzpin, led3, program, target>>

BeepModes == 0..4

\* Mutant: the pin is written first and the mode last.
ProgramModeLast(m) ==
  (IF m = 0 THEN <<"low">> ELSE IF m = 2 THEN <<"high">> ELSE <<>>)
  \o (IF m \in {0, 2} THEN <<"stop", "mask", "clear">>
                      ELSE <<"update", "clear", "unmask", "start">>)
  \o <<"mode", "on">>

\* The writes of buzzer_set_mode2, in their order.
Program(m) ==
  <<"mode", "on">> \o
  CASE m = 0      -> <<"stop", "mask", "clear", "low">>
    [] m = 2      -> <<"stop", "mask", "clear", "high">>
    [] m = 4      -> <<"update", "clear", "unmask", "high", "start">>
    [] OTHER      -> <<"update", "clear", "unmask", "start">>

\* A call from actuators_apply, or from a BEEP command; silence and the steady
\* tone are not set twice.
SetMode2(m) ==
  /\ program = <<>>
  /\ ~(m = g_mode /\ m \in {0, 2})
  /\ program' = Program(m) /\ target' = m
  /\ UNCHANGED <<g_mode, g_buzzer_on, cen, uie, uif, bzpin, led3>>

\* The next write; "update" is EGR, which sets the update flag at once.
BuzzerWrite ==
  /\ program # <<>> /\ program' = Tail(program)
  /\ LET w == Head(program)
     IN /\ g_mode' = IF w = "mode" THEN target ELSE g_mode
        /\ g_buzzer_on' = IF w = "on" THEN target # 0 ELSE g_buzzer_on
        /\ cen' = IF w = "start" THEN TRUE ELSE IF w = "stop" THEN FALSE ELSE cen
        /\ uie' = IF w = "unmask" THEN TRUE ELSE IF w = "mask" THEN FALSE ELSE uie
        /\ uif' = IF w = "update" THEN TRUE ELSE IF w = "clear" THEN FALSE ELSE uif
        /\ bzpin' = IF w = "high" THEN 1 ELSE IF w = "low" THEN 0 ELSE bzpin
  /\ UNCHANGED <<led3, target>>

\* The timer reaches its reload value.
TimerUpdate ==
  /\ cen /\ ~uif /\ uif' = TRUE
  /\ UNCHANGED <<g_mode, g_buzzer_on, cen, uie, bzpin, led3, program, target>>

Toggles == g_buzzer_on /\ g_mode \in {1, 3, 4}

\* With the tone of modes 1 and 4 the handler toggles PC14, the pin of LED3.
Blinks == Toggles /\ g_mode # 3

TIM3_IRQHandler ==
  /\ uie /\ uif /\ uif' = FALSE
  /\ bzpin' = IF Toggles THEN 1 - bzpin ELSE bzpin
  /\ led3' = IF Blinks THEN 1 - led3 ELSE led3
  /\ UNCHANGED <<g_mode, g_buzzer_on, cen, uie, program, target>>

\* actuators_apply writes LED3, low for on, among its other outputs.
ApplyLed3(on) ==
  /\ program = <<>>
  /\ led3' = IF on THEN 0 ELSE 1
  /\ UNCHANGED <<g_mode, g_buzzer_on, cen, uie, uif, bzpin, program, target>>

\* buzzer_init, and actuators_init with all off.
BuzzerInit ==
  /\ g_mode = 0 /\ g_buzzer_on = FALSE
  /\ cen = FALSE /\ uie = FALSE /\ uif = FALSE
  /\ bzpin = 0 /\ led3 = 1
  /\ program = <<>> /\ target = 0

BuzzerNext ==
  \/ \E m \in BeepModes : SetMode2(m)
  \/ BuzzerWrite \/ TimerUpdate \/ TIM3_IRQHandler
  \/ \E on \in BOOLEAN : ApplyLed3(on)
-------------------------------------------------------------------------------
\* Between two calls, the buzzer does what it was last told: silence leaves the
\* pin low and the steady tone leaves it high, wherever the timer's handler came
\* in between the writes, and the other modes have the timer running.
BuzzerIsAsSet ==
  program = <<>> =>
    /\ g_mode = target
    /\ target = 0 => bzpin = 0
    /\ target = 2 => bzpin = 1
    /\ (target \in {1, 3, 4}) = (cen /\ uie)
===============================================================================
