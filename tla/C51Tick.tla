------------------------------- MODULE C51Tick -------------------------------
(***************************************************************************)
(* Time in the archived firmware (Legacy_C51/User/system_tick.c, the loop  *)
(* of main.c and the part of Drivers/dht11.c that runs with EA = 0).       *)
(*                                                                         *)
(* The tick counter is wider than what the 8051 reads at once, so that     *)
(* system_millis reads it in parts with interrupts off.  Timer 0 overflows *)
(* once a millisecond and latches one interrupt in TF0: an overflow that   *)
(* finds TF0 set is lost, which a DHT11 read of several milliseconds does. *)
(***************************************************************************)
EXTENDS Naturals, Sequences

CONSTANTS
  Byte51,      \* values of one part of the counter; the code has four of 256
  Periods51,   \* the periods of main's tasks, in ticks
  DhtTask      \* the task that reads the DHT11

Width51 == Byte51 * Byte51
Tasks51 == DOMAIN Periods51

ASSUME C51TickAssumption ==
  /\ Byte51 \in Nat \ {0}
  /\ Periods51 \in Seq(Nat) /\ DhtTask \in Tasks51
  /\ \A t \in Tasks51 : Periods51[t] \in 1..Width51 - 2

VARIABLES
  g_ms_ticks, tf0, ea,  \* the counter, the pending and the enable bit
  pc51, task,           \* where the loop is
  copied,               \* the parts of the counter system_millis has read
  last_tick,            \* g_last_key_tick and the others
  elapsed, missed,      \* history: overflows, lost ones, since a task's last run
  seen                  \* history: the same at the moment of the reading

c51tickVars == <<g_ms_ticks, tf0, ea, pc51, task, copied, last_tick,
                 elapsed, missed, seen>>

Since51(now, then) == (now + Width51 - then) % Width51

\* Timer 0.  The loop asks each task before the counter comes round, and no
\* two overflows fall into the few instructions of system_millis.
Overflow ==
  /\ \A t \in Tasks51 : elapsed[t] < Width51 - 2
  /\ tf0 => pc51 \in {"handshake", "frame"}
  /\ tf0' = TRUE
  /\ elapsed' = [t \in Tasks51 |-> elapsed[t] + 1]
  /\ missed' = [t \in Tasks51 |-> missed[t] + (IF tf0 THEN 1 ELSE 0)]
  /\ UNCHANGED <<g_ms_ticks, ea, pc51, task, copied, last_tick, seen>>

\* timer0_isr
Isr ==
  /\ ea /\ tf0
  /\ tf0' = FALSE
  /\ g_ms_ticks' = (g_ms_ticks + 1) % Width51
  /\ UNCHANGED <<ea, pc51, task, copied, last_tick, elapsed, missed, seen>>

Goto51(from, to) == pc51 = from /\ pc51' = to

\* Mutant: system_millis reads with interrupts enabled.
MaskNot == Goto51("mask", "high") /\ UNCHANGED <<ea, task, copied, last_tick, seen>>

\* system_millis
Mask ==
  /\ Goto51("mask", "high") /\ ea' = FALSE
  /\ UNCHANGED <<task, copied, last_tick, seen>>

ReadHigh ==
  /\ Goto51("high", "low")
  /\ copied' = (g_ms_ticks \div Byte51) * Byte51
  /\ seen' = <<elapsed[task], missed[task]>>
  /\ UNCHANGED <<ea, task, last_tick>>

ReadLow ==
  /\ Goto51("low", "unmask")
  /\ copied' = copied + (g_ms_ticks % Byte51)
  /\ UNCHANGED <<ea, task, last_tick, seen>>

Unmask ==
  /\ Goto51("unmask", "due") /\ ea' = TRUE
  /\ UNCHANGED <<task, copied, last_tick, seen>>

NextTask51 == IF task + 1 \in Tasks51 THEN task + 1 ELSE 1

\* system_due
Due ==
  /\ pc51 = "due"
  /\ IF Since51(copied, last_tick[task]) >= Periods51[task]
       THEN /\ last_tick' = [last_tick EXCEPT ![task] = copied]
            /\ pc51' = "run" /\ task' = task
       ELSE /\ pc51' = "mask" /\ task' = NextTask51
            /\ UNCHANGED last_tick
  /\ UNCHANGED <<ea, copied, seen>>

\* The task; dht11_read turns interrupts off for its handshake and its frame
\* and on again on both of its ways out.
Run ==
  /\ pc51 = "run"
  /\ IF task = DhtTask
       THEN ea' = FALSE /\ pc51' = "handshake" /\ task' = task
       ELSE pc51' = "mask" /\ task' = NextTask51 /\ UNCHANGED ea
  /\ UNCHANGED <<copied, last_tick, seen>>

DhtFrame ==
  /\ Goto51("handshake", "frame")
  /\ UNCHANGED <<ea, task, copied, last_tick, seen>>

DhtReturn ==
  /\ pc51 \in {"handshake", "frame"} /\ pc51' = "mask"
  /\ ea' = TRUE /\ task' = NextTask51
  /\ UNCHANGED <<copied, last_tick, seen>>

\* The processor takes a pending interrupt before its next instruction.
Loop51 ==
  /\ ~(ea /\ tf0)
  /\ Mask \/ ReadHigh \/ ReadLow \/ Unmask \/ Due \/ Run \/ DhtFrame \/ DhtReturn
  /\ LET fresh == pc51 = "due" /\ pc51' = "run"
         reset(f, n) == IF fresh THEN [f EXCEPT ![task] = @ - n] ELSE f
     IN elapsed' = reset(elapsed, seen[1]) /\ missed' = reset(missed, seen[2])
  /\ UNCHANGED <<g_ms_ticks, tf0>>

C51TickInit ==
  /\ g_ms_ticks = 0 /\ tf0 = FALSE /\ ea = TRUE
  /\ pc51 = "mask" /\ task = 1 /\ copied = 0
  /\ last_tick = [t \in Tasks51 |-> 0]
  /\ elapsed = [t \in Tasks51 |-> 0] /\ missed = elapsed
  /\ seen = <<0, 0>>

C51TickNext == Overflow \/ Isr \/ Loop51
-------------------------------------------------------------------------------
\* A task runs no earlier than its period after its last run, to the tick that
\* was pending, and no later than the first time it is asked after it, the ticks
\* lost to the DHT11 aside: no reading of the counter is torn, and its
\* wrap-around does no harm (system_millis, system_due).
C51DueOnTime ==
  [][pc51 = "due" /\ pc51' # "due" =>
       IF pc51' = "run" THEN seen[1] + 1 >= Periods51[task]
                        ELSE seen[1] - seen[2] <= Periods51[task]]_c51tickVars
===============================================================================
