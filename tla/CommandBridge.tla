---------------------------- MODULE CommandBridge ----------------------------
(***************************************************************************)
(* How the gateway executes a remote command exactly once, or tries to:    *)
(* CommandBridge.handle (dashboard/gateway/bridge.py), which paho's network*)
(* thread runs for every message on the command topic, and SerialTransport *)
(* (serial_transport.py), whose worker thread owns the serial port.        *)
(*                                                                         *)
(* The two threads share the request counter, the pending table, the       *)
(* `connected' event and the port object.  The port and the microcontroller*)
(* behind it are external: two FIFO lines that may lose what they carry.   *)
(* Publishing a result is one step here, the insertion into the spool      *)
(* (module Spool says what becomes of it); the broker may deliver a command*)
(* several times; the process may stop at any point, and then only the     *)
(* completed_commands table is left.                                       *)
(***************************************************************************)
EXTENDS Integers, Sequences, FiniteSets

CONSTANTS
  Requests,       \* request ids of the commands on the broker
  Invalid,        \* those _factory refuses (unknown command, bad thresholds...)
  Misaddressed,   \* those _request_id refuses, before the table is consulted
  KeepResults,    \* rows remember_completed keeps: 1000 in the code
  MaxDeliveries,  \* bound: deliveries by the broker
  MaxFailures,    \* bound: failures of an open serial port
  MaxCrashes,     \* bound: stops of the gateway process
  NoRequest       \* stands for "no request" (the worker's own GET)

ASSUME RequestsAssumption ==
  /\ Invalid \subseteq Requests
  /\ Misaddressed \subseteq Requests
  /\ NoRequest \notin Requests
ASSUME BoundsAssumption ==
  /\ KeepResults \in Nat \ {0}
  /\ MaxDeliveries \in Nat
  /\ MaxFailures \in Nat
  /\ MaxCrashes \in Nat

VARIABLES
  \* --- the gateway process, lost in a crash
  net,         \* the network thread: pc, request at hand, MCU id, answer, outcome
  worker,      \* pc of the serial worker; it holds the RLock in "allocate", "reread"
  port,        \* the object in self.serial: "none", "good" or "failed"
  connected,   \* the threading.Event
  counter,     \* SerialTransport.counter
  \* --- durable
  completed,   \* rows of completed_commands: request, status, completed_at
  \* --- outside the process
  toMcu,       \* lines written to the port and not read by the MCU yet
  toHost,      \* lines the MCU answered and the worker has not read yet
  deliveries,  \* how often the broker delivered a command
  failures,    \* how often the port failed
  crashes,     \* how often the process stopped
  \* --- history
  reported,    \* the status last inserted into the spool for each request
  sent,        \* every line ever written to the port
  acked,       \* the commands whose line the MCU acknowledged
  forgotten,   \* requests whose row remember_completed has pruned
  interrupted  \* requests that were being handled when the process stopped

processVars == <<net, worker, port, connected, counter>>
lineVars    == <<toMcu, toHost, acked>>
historyVars == <<reported, sent, forgotten, interrupted>>
vars == <<processVars, lineVars, historyVars,
          completed, deliveries, failures, crashes>>

Terminal == {"succeeded", "failed", "timed_out", "rejected"}
Status   == Terminal \cup {"none", "received"}

\* A line on the wire: the request id the host chose and, for the model only,
\* the command it stands for.
Line == [id : Nat, req : Requests \cup {NoRequest}]

\* ACK,<id>,... or ERR,<id>,...
Reply == [id : Nat, kind : {"ack", "err"}]

\* The network thread between two messages.
NetIdle ==
  [pc |-> "idle", req |-> NoRequest, id |-> 0, answer |-> "none", outcome |-> "none"]

Init ==
  /\ net = NetIdle
  /\ worker = "closed"
  /\ port = "none"
  /\ connected = FALSE
  /\ counter = 0
  /\ completed = {}
  /\ toMcu = <<>> /\ toHost = <<>>
  /\ deliveries = 0
  /\ failures = 0 /\ crashes = 0
  /\ reported = [r \in Requests |-> "none"]
  /\ sent = {} /\ acked = {}
  /\ forgotten = {} /\ interrupted = {}

-------------------------------------------------------------------------------
(* SQLiteSpool.completed_result and remember_completed.  completed_at is kept *)
(* as an age: how many results have been remembered since.                    *)

Remembered == {c.req : c \in completed}

\* DELETE ... NOT IN (SELECT ... ORDER BY completed_at DESC LIMIT 1000)
Prune(S) == {c \in S : Cardinality({d \in S : d.age < c.age}) < KeepResults}

\* INSERT OR REPLACE, then the pruning.
Remember(r, s) ==
  /\ completed' =
       Prune({[c EXCEPT !.age = @ + 1] : c \in {d \in completed : d.req # r}}
               \cup {[req |-> r, status |-> s, age |-> 0]})
  /\ forgotten' =
       forgotten \cup ((Remembered \cup {r}) \ {c.req : c \in completed'})

-------------------------------------------------------------------------------
(* The network thread: CommandBridge.handle and SerialTransport.execute      *)

Publish(r, s) == reported' = [reported EXCEPT ![r] = s]

\* The broker hands a command to on_message; paho is not in another callback.
Delivered ==
  /\ net.pc = "idle"
  /\ deliveries < MaxDeliveries
  /\ deliveries' = deliveries + 1
  /\ UNCHANGED <<worker, port, connected, counter, lineVars, sent, completed,
                 forgotten, interrupted, failures, crashes>>

\* The request was answered before: its stored result is published again.
AnswerFromTable(r) ==
  /\ Delivered
  /\ r \notin Misaddressed
  /\ \E c \in completed : c.req = r /\ Publish(r, c.status)
  /\ UNCHANGED net

\* ValueError from _request_id, or from _factory once the table was consulted.
Reject(r) ==
  /\ Delivered
  /\ r \in Misaddressed \cup (Invalid \ Remembered)
  /\ net' = [net EXCEPT !.pc = "remember", !.req = r, !.outcome = "rejected"]
  /\ UNCHANGED reported

\* A message that is none of the Requests: JSON but no object (AttributeError in
\* _request_id), a threshold of Infinity (OverflowError in _factory).  No handler
\* matches, paho raises the exception again and its network thread ends.
Stumble ==
  /\ net.pc = "idle"
  /\ net' = [net EXCEPT !.pc = "dead"]
  /\ UNCHANGED <<worker, port, connected, counter, lineVars, historyVars,
                 completed, deliveries, failures, crashes>>

\* Mutant: the table is not consulted.
UnknownAlways(r) == r \notin Misaddressed

\* completed_result(request_id) is None.
Unknown(r) == r \notin Misaddressed /\ r \notin Remembered

Accept(r) ==
  /\ Delivered
  /\ Unknown(r)
  /\ r \notin Invalid
  /\ Publish(r, "received")
  /\ net' = [net EXCEPT !.pc = "check", !.req = r]

\* The conditions of execute before it takes an id; without the lock.
PortLooksOpen == connected /\ port # "none"

CheckPort ==
  /\ net.pc = "check"
  /\ net' = IF PortLooksOpen
              THEN [net EXCEPT !.pc = "allocate"]
              ELSE [net EXCEPT !.pc = "remember", !.outcome = "failed"]
  /\ UNCHANGED <<worker, port, connected, counter, lineVars, historyVars,
                 completed, deliveries, failures, crashes>>

\* self.counter += 1, without the lock.
Increment ==
  /\ net.pc = "allocate"
  /\ counter' = counter + 1
  /\ net' = [net EXCEPT !.pc = "reread"]
  /\ UNCHANGED <<worker, port, connected, lineVars, historyVars, completed,
                 deliveries, failures, crashes>>

\* return str(self.counter), and the entry in the pending table.
TakeId ==
  /\ net.pc = "reread"
  /\ net' = [net EXCEPT !.pc = "write", !.id = counter]
  /\ UNCHANGED <<worker, port, connected, counter, lineVars, historyVars,
                 completed, deliveries, failures, crashes>>

LockFree == worker \notin {"allocate", "reread"}

Write ==
  /\ net.pc = "write"
  /\ LockFree
  /\ port = "good"
  /\ toMcu' = Append(toMcu, [id |-> net.id, req |-> net.req])
  /\ sent' = sent \cup {[id |-> net.id, req |-> net.req]}
  /\ net' = [net EXCEPT !.pc = "wait"]
  /\ UNCHANGED <<worker, port, connected, counter, toHost, acked, reported,
                 forgotten, interrupted, completed, deliveries, failures, crashes>>

\* serial.write raises SerialException, an OSError: neither ConnectionError nor
\* TimeoutError, so no handler of bridge.py matches, paho raises it again and its
\* network thread ends.
WriteRaises ==
  /\ net.pc = "write"
  /\ LockFree
  /\ port = "failed"
  /\ net' = [net EXCEPT !.pc = "dead"]
  /\ UNCHANGED <<worker, port, connected, counter, lineVars, historyVars,
                 completed, deliveries, failures, crashes>>

\* pending["event"] is set: succeeded for ACK, failed for ERR.
Answered ==
  /\ net.pc = "wait"
  /\ net.answer # "none"
  /\ net' = [net EXCEPT !.pc = "remember",
                        !.outcome = IF net.answer = "ack" THEN "succeeded" ELSE "failed"]
  /\ UNCHANGED <<worker, port, connected, counter, lineVars, historyVars,
                 completed, deliveries, failures, crashes>>

\* Mutant: one handler for ConnectionError and TimeoutError.
TimedOutAsFailed ==
  /\ net.pc = "wait"
  /\ net.answer = "none"
  /\ net' = [net EXCEPT !.pc = "remember", !.outcome = "failed"]
  /\ UNCHANGED <<worker, port, connected, counter, lineVars, historyVars,
                 completed, deliveries, failures, crashes>>

\* TimeoutError: no answer within command_timeout_seconds.
TimedOut ==
  /\ net.pc = "wait"
  /\ net.answer = "none"
  /\ net' = [net EXCEPT !.pc = "remember", !.outcome = "timed_out"]
  /\ UNCHANGED <<worker, port, connected, counter, lineVars, historyVars,
                 completed, deliveries, failures, crashes>>

\* Mutant: timed_out is missing from the statuses _result remembers.
RememberUnlessTimedOut ==
  /\ net.pc = "remember"
  /\ IF net.outcome = "timed_out"
       THEN UNCHANGED <<completed, forgotten>>
       ELSE Remember(net.req, net.outcome)
  /\ net' = [net EXCEPT !.pc = "publish"]
  /\ UNCHANGED <<worker, port, connected, counter, lineVars, reported, sent,
                 interrupted, deliveries, failures, crashes>>

\* _result, terminal status: first the table ...
RememberResult ==
  /\ net.pc = "remember"
  /\ Remember(net.req, net.outcome)
  /\ net' = [net EXCEPT !.pc = "publish"]
  /\ UNCHANGED <<worker, port, connected, counter, lineVars, reported, sent,
                 interrupted, deliveries, failures, crashes>>

\* Mutant: the terminal status is remembered and never published.
PublishResultNever ==
  /\ net.pc = "publish"
  /\ net' = NetIdle
  /\ UNCHANGED <<worker, port, connected, counter, lineVars, historyVars,
                 completed, deliveries, failures, crashes>>

\* ... then the spool.
PublishResult ==
  /\ net.pc = "publish"
  /\ Publish(net.req, net.outcome)
  /\ net' = NetIdle
  /\ UNCHANGED <<worker, port, connected, counter, lineVars, sent, forgotten,
                 interrupted, completed, deliveries, failures, crashes>>

-------------------------------------------------------------------------------
(* The serial worker: SerialTransport._worker and _handle                    *)

OpenPort ==
  /\ worker = "closed"
  /\ port' = "good"
  /\ connected' = TRUE
  /\ worker' = "allocate"
  /\ UNCHANGED <<net, counter, lineVars, historyVars, completed, deliveries,
                 failures, crashes>>

WorkerIncrement ==
  /\ worker = "allocate"
  /\ counter' = counter + 1
  /\ worker' = "reread"
  /\ UNCHANGED <<net, port, connected, lineVars, historyVars, completed,
                 deliveries, failures, crashes>>

\* The worker's own GET, written before it releases the lock.
WorkerWriteGet ==
  /\ worker = "reread"
  /\ port = "good"
  /\ toMcu' = Append(toMcu, [id |-> counter, req |-> NoRequest])
  /\ sent' = sent \cup {[id |-> counter, req |-> NoRequest]}
  /\ worker' = "reading"
  /\ UNCHANGED <<net, port, connected, counter, toHost, acked, reported,
                 forgotten, interrupted, completed, deliveries, failures, crashes>>

\* write or readline raises: connected is cleared, the failed object stays in
\* self.serial until the next open succeeds.
NoticeFailure ==
  /\ port = "failed"
  /\ worker \in {"reread", "reading"}
  /\ worker' = "closed"
  /\ connected' = FALSE
  /\ UNCHANGED <<net, port, counter, lineVars, historyVars, completed,
                 deliveries, failures, crashes>>

\* Mutant: the id of the answer is not compared.
PendingAny(id) == net.pc \in {"write", "wait"}

\* self.pending has an entry for the id of an ACK or ERR line.
Pending(id) == net.pc \in {"write", "wait"} /\ net.id = id

ReadAnswer ==
  /\ worker = "reading"
  /\ port = "good"
  /\ toHost # <<>>
  /\ toHost' = Tail(toHost)
  /\ net' = IF Pending(Head(toHost).id)
              THEN [net EXCEPT !.answer = Head(toHost).kind]
              ELSE net
  /\ UNCHANGED <<worker, port, connected, counter, toMcu, acked, historyVars,
                 completed, deliveries, failures, crashes>>

-------------------------------------------------------------------------------
(* Outside the process: the MCU, the cable, the operating system             *)

\* process() takes one line, or what noise left of it, and answers ACK, having
\* carried that out ...
McuAcknowledges ==
  /\ toMcu # <<>>
  /\ toMcu' = Tail(toMcu)
  /\ toHost' = Append(toHost, [id |-> Head(toMcu).id, kind |-> "ack"])
  /\ acked' = acked \cup ({Head(toMcu).req} \ {NoRequest})
  /\ UNCHANGED <<processVars, historyVars, completed, deliveries, failures, crashes>>

\* ... or answers ERR.
McuRefuses ==
  /\ toMcu # <<>>
  /\ toMcu' = Tail(toMcu)
  /\ toHost' = Append(toHost, [id |-> Head(toMcu).id, kind |-> "err"])
  /\ UNCHANGED <<processVars, acked, historyVars, completed, deliveries,
                 failures, crashes>>

\* Noise leaves no command of a line, or changes its id: lines have no checksum,
\* so the MCU carries out what is left, and answers under an id nobody waits for.
\* (Assumed: noise does not turn an id into another that is in use.)
LineToMcuGarbled ==
  /\ toMcu # <<>>
  /\ toMcu' = Tail(toMcu)
  /\ UNCHANGED <<processVars, toHost, acked, historyVars, completed, deliveries,
                 failures, crashes>>

LineToHostGarbled ==
  /\ toHost # <<>>
  /\ toHost' = Tail(toHost)
  /\ UNCHANGED <<processVars, toMcu, acked, historyVars, completed, deliveries,
                 failures, crashes>>

\* The adapter is unplugged: what was on the wire is gone.
PortFails ==
  /\ port = "good"
  /\ failures < MaxFailures
  /\ failures' = failures + 1
  /\ port' = "failed"
  /\ toMcu' = <<>> /\ toHost' = <<>>
  /\ UNCHANGED <<net, worker, connected, counter, acked, historyVars, completed,
                 deliveries, crashes>>

\* In the window in which a crash forgets that a command went out.
InDoubt == net.pc \in {"wait", "remember"}

\* The process stops and is started again.  The new counter comes from the
\* clock, which has moved past every id of the last run; opening the port
\* discards what it had received.
Crash ==
  /\ crashes < MaxCrashes
  /\ crashes' = crashes + 1
  /\ interrupted' = IF InDoubt THEN interrupted \cup {net.req} ELSE interrupted
  /\ net' = NetIdle
  /\ worker' = "closed"
  /\ port' = "none"
  /\ connected' = FALSE
  /\ toHost' = <<>>
  /\ UNCHANGED <<counter, toMcu, acked, reported, sent, forgotten, completed,
                 deliveries, failures>>

-------------------------------------------------------------------------------
NetThread ==
  \/ CheckPort \/ Increment \/ TakeId \/ Write \/ WriteRaises
  \/ Answered \/ TimedOut \/ RememberResult \/ PublishResult

\* Opening the port is not among the steps that must happen: the adapter may
\* stay away for ever.
WorkerThread ==
  WorkerIncrement \/ WorkerWriteGet \/ NoticeFailure \/ ReadAnswer

Environment ==
  \/ McuAcknowledges \/ McuRefuses \/ LineToMcuGarbled \/ LineToHostGarbled
  \/ PortFails \/ Crash

Next ==
  \/ \E r \in Requests : AnswerFromTable(r) \/ Reject(r) \/ Accept(r)
  \/ Stumble
  \/ NetThread
  \/ OpenPort
  \/ WorkerThread
  \/ Environment

Spec == Init /\ [][Next]_vars

\* The threads are scheduled; the broker, the MCU and the cable owe nothing.
FairSpec == Spec /\ WF_vars(NetThread) /\ WF_vars(WorkerThread)

-------------------------------------------------------------------------------
NetState ==
  [pc : {"idle", "check", "allocate", "reread", "write", "wait", "remember",
         "publish", "dead"},
   req : Requests \cup {NoRequest},
   id : Nat,
   answer : {"none", "ack", "err"},
   outcome : Terminal \cup {"none"}]

TypeOK ==
  /\ net \in NetState
  /\ worker \in {"closed", "allocate", "reread", "reading"}
  /\ port \in {"none", "good", "failed"}
  /\ connected \in BOOLEAN
  /\ counter \in Nat
  /\ completed \in SUBSET [req : Requests, status : Terminal, age : Nat]
  /\ toMcu \in Seq(Line)
  /\ toHost \in Seq(Reply)
  /\ deliveries \in Nat
  /\ failures \in Nat /\ crashes \in Nat
  /\ reported \in [Requests -> Status]
  /\ sent \in SUBSET Line
  /\ acked \in SUBSET Requests
  /\ forgotten \in SUBSET Requests /\ interrupted \in SUBSET Requests

\* However often the broker delivers a command, it is written to the MCU once.
\* The exceptions are the ones the design leaves: its row was pruned from
\* completed_commands, or the process stopped after the write and before
\* remember_completed.  "Duplicate controls are not sent to the MCU"
\* (README_V1.2_MQTT.md:25) holds up to these two.
AtMostOnce ==
  \A s, t \in sent :
    s.req = t.req /\ s # t /\ s.req # NoRequest
      => s.req \in forgotten \cup interrupted

\* Once a terminal status has gone into the spool, no later delivery, crash or
\* late answer makes the gateway report anything else about that request, unless
\* its row was pruned.  (_result remembers before it publishes)
TerminalIsStable ==
  [][\A r \in Requests :
       reported[r] \in Terminal
         => reported'[r] = reported[r] \/ r \in forgotten]_vars

\* The worker's GET carries the id of a line of r too: _next_request_id is not
\* atomic (serial_transport.py:41-42).
SharesId(r) == \E s, g \in sent : s.req = r /\ g.req = NoRequest /\ s.id = g.id

\* "Succeeded" means the MCU acknowledged the line of this very command: not the
\* late answer to an earlier one, nor one from before a restart.  The exception is
\* a command whose id the worker's GET carries too.
SucceededIsAcked ==
  \A r \in Requests :
    reported[r] = "succeeded" => r \in acked \/ SharesId(r)

\* "Failed" means nothing was acknowledged: the MCU has not acknowledged the
\* command and will not, unless it is executed again for want of its row or shares
\* its id with a GET.  When the outcome is unknown the status is timed_out.
FailedIsNotAcked ==
  \A r \in Requests :
    reported[r] = "failed" =>
      r \notin acked \/ r \in forgotten \cup interrupted \/ SharesId(r)

\* A command that was reported received gets a terminal status unless the process
\* stops or the network thread dies first; a silent MCU, a lost line or an absent
\* adapter never leaves it open.
ReceivedEnds ==
  \A r \in Requests :
    reported[r] = "received"
      ~> (reported[r] \in Terminal \/ net.pc = "dead" \/ crashes > 0)

-------------------------------------------------------------------------------
(* What the documents say and the code does not keep                         *)

\* "The gateway reports received, followed by succeeded, failed, timed_out, or
\* rejected" (README_V1.2_MQTT.md:25): refuted by a port that fails before the
\* write, without any crash.
ReceivedIsFollowed ==
  \A r \in Requests : reported[r] = "received" ~> reported[r] \in Terminal
===============================================================================
