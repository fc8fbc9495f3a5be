----------------------------- MODULE FlaskSerial -----------------------------
(***************************************************************************)
(* The serial side of the V1.1 local dashboard, FlaskSerialManager         *)
(* (dashboard/smartagri/flask_serial.py): request threads in command(), the*)
(* worker thread that owns the port, and a request thread in disconnect(). *)
(* Nothing but the write is under a lock, so every read and every write of *)
(* a shared attribute is a step of its own.  On the wire, and in the       *)
(* microcontroller, a line or its answer may be lost, or come after the    *)
(* four seconds.                                                           *)
(***************************************************************************)
EXTENDS Naturals, Sequences, FiniteSets, Functions

CONSTANTS
  Callers,         \* request threads, one command() each
  MaxLeavings,     \* bound: calls of disconnect()
  MaxOpens         \* bound: ports the worker opens

ASSUME CallersAssumption ==
  IsFiniteSet(Callers) /\ MaxLeavings \in Nat /\ MaxOpens \in Nat

VARIABLES
  call,       \* the request threads: pc, and what they read of the counter
  idOf,       \* the request id each caller was given; 0 before
  outcome,    \* what command() ended with
  waiting,    \* self.pending: request id |-> the caller whose event it holds
  allocated,  \* self.counter
  handle,     \* self.serial: "none", "open" or "closed"
  shown,      \* store.serial["connected"]
  owner,      \* the worker thread: pc, what it read of the counter, ports opened
  leaving,    \* pc of disconnect(), and how often it was called
  told,       \* the callers whose event is set
  wire,       \* lines written and not read by the microcontroller
  answers,    \* ACK and ERR lines on their way back, by request id
  answered,   \* history: the callers whose line was answered
  gets        \* history: the request ids of the worker's GETs

flaskVars == <<call, idOf, outcome, waiting, allocated, handle, shown, owner,
               leaving, told, wire, answers, answered, gets>>

lineVars  == <<wire, answers, answered, gets>>
ownerVars == <<owner, leaving, handle, shown>>

FlaskInit ==
  /\ call = [c \in Callers |-> [pc |-> "start", read |-> 0]]
  /\ idOf = [c \in Callers |-> 0]
  /\ outcome = [c \in Callers |-> "none"]
  /\ waiting = <<>> /\ allocated = 0
  /\ handle = "none" /\ shown = FALSE
  /\ owner = [pc |-> "open", read |-> 0, opens |-> 0]
  /\ leaving = [pc |-> "idle", calls |-> 0]
  /\ told = {} /\ wire = <<>> /\ answers = <<>> /\ answered = {} /\ gets = {}

-----------------------------------------------------------------------------
\* self.counter+=1;return str(self.counter): read, write, and read again.
NextRead(t, pc) == t.pc = pc /\ UNCHANGED allocated
NextWrite(t) == t.pc = "write" /\ allocated' = t.read + 1
NextReturn(t) == t.pc = "return" /\ UNCHANGED allocated

CallAt(c, pc, read) == call' = [call EXCEPT ![c] = [pc |-> pc, read |-> read]]

CallNext(c) ==
  /\ \/ NextRead(call[c], "start") /\ CallAt(c, "write", allocated) /\ UNCHANGED idOf
     \/ NextWrite(call[c]) /\ CallAt(c, "return", 0) /\ UNCHANGED idOf
     \/ /\ NextReturn(call[c])
        /\ idOf' = [idOf EXCEPT ![c] = allocated]
        /\ CallAt(c, "port?", 0)
  /\ UNCHANGED <<outcome, waiting, told, ownerVars, lineVars>>

\* The way out of command(); `finally' pops the id, whoever registered it.
Popped(id) == Restrict(waiting, DOMAIN waiting \ {id})
EndCommand(c, how) ==
  /\ outcome' = [outcome EXCEPT ![c] = how]
  /\ CallAt(c, "done", 0)

\* if not self.serial or not ...["connected"]: two reads, then 503 or on.
CallCheck(c) ==
  /\ \/ /\ call[c].pc = "port?"
        /\ IF handle = "none" THEN EndCommand(c, "503")
                              ELSE CallAt(c, "shown?", 0) /\ UNCHANGED outcome
     \/ /\ call[c].pc = "shown?"
        /\ IF shown THEN CallAt(c, "register", 0) /\ UNCHANGED outcome
                    ELSE EndCommand(c, "503")
  /\ UNCHANGED <<idOf, waiting, allocated, told, ownerVars, lineVars>>

CallRegister(c) ==
  /\ call[c].pc = "register"
  /\ waiting' = [i \in DOMAIN waiting \cup {idOf[c]} |->
                   IF i = idOf[c] THEN c ELSE waiting[i]]
  /\ CallAt(c, "send", 0)
  /\ UNCHANGED <<idOf, outcome, allocated, told, ownerVars, lineVars>>

\* self.lock, which the worker holds from before its GET has an id.
LockIsFree == owner.pc \notin {"write", "return"}

\* The write raises on a port that was closed or dropped since the check:
\* neither exception is one the route handles.
CallWrite(c) ==
  /\ call[c].pc = "send" /\ LockIsFree
  /\ IF handle = "open"
       THEN /\ wire' = Append(wire, [id |-> idOf[c], for |-> {c}])
            /\ CallAt(c, "wait", 0)
            /\ UNCHANGED <<outcome, waiting>>
       ELSE /\ EndCommand(c, "500")
            /\ waiting' = Popped(idOf[c])
            /\ UNCHANGED wire
  /\ UNCHANGED <<idOf, allocated, told, ownerVars, answers, answered, gets>>

\* p["event"].wait(timeout) gives up after four seconds.
CallTimeout(c) ==
  /\ call[c].pc = "wait" /\ c \notin told
  /\ EndCommand(c, "504")
  /\ waiting' = Popped(idOf[c])
  /\ UNCHANGED <<idOf, allocated, told, ownerVars, lineVars>>

\* The worker set the event: the answer is returned and the id popped.
CallReturn(c) ==
  /\ call[c].pc = "wait" /\ c \in told
  /\ EndCommand(c, "answer")
  /\ waiting' = Popped(idOf[c])
  /\ UNCHANGED <<idOf, allocated, told, ownerVars, lineVars>>

-----------------------------------------------------------------------------
\* _worker.  An exception anywhere in it: the status says so, sleep, open again.
OwnerAt(pc, read) == owner' = [owner EXCEPT !.pc = pc, !.read = read]
OwnerFails == shown' = FALSE /\ OwnerAt("open", 0)

OwnerOpen ==
  /\ owner.pc = "open"
  /\ \/ /\ owner.opens < MaxOpens
        /\ handle' = "open"
        /\ owner' = [owner EXCEPT !.pc = "show", !.opens = @ + 1]
        /\ UNCHANGED shown
     \/ OwnerFails /\ UNCHANGED handle
  /\ UNCHANGED <<call, idOf, outcome, waiting, allocated, leaving, told, lineVars>>

OwnerShow ==
  /\ owner.pc = "show"
  /\ shown' = TRUE
  /\ OwnerAt("start", 0)
  /\ UNCHANGED <<call, idOf, outcome, waiting, allocated, handle, leaving, told,
                 lineVars>>

\* The GET takes a request id too, and the microcontroller acknowledges it.
OwnerGet ==
  /\ \/ /\ NextRead(owner, "start") /\ OwnerAt("write", allocated)
        /\ UNCHANGED <<shown, wire, gets>>
     \/ /\ NextWrite(owner) /\ OwnerAt("return", 0)
        /\ UNCHANGED <<shown, wire, gets>>
     \/ /\ NextReturn(owner) /\ handle = "open"
        /\ wire' = Append(wire, [id |-> allocated, for |-> {}])
        /\ gets' = gets \cup {allocated}
        /\ OwnerAt("read", 0) /\ UNCHANGED shown
     \/ /\ NextReturn(owner) /\ handle # "open"
        /\ OwnerFails /\ UNCHANGED <<wire, gets>>
  /\ UNCHANGED <<call, idOf, outcome, waiting, handle, leaving, told, answers,
                 answered>>

\* The reading loop ends without an exception when the port was closed, with
\* one when it was dropped or readline failed.
OwnerStops ==
  /\ owner.pc = "read"
  /\ \/ handle = "closed" /\ OwnerAt("open", 0) /\ UNCHANGED shown
     \/ OwnerFails
  /\ UNCHANGED <<call, idOf, outcome, waiting, allocated, handle, leaving, told,
                 lineVars>>

\* Mutant: no look-up by request id.
HeardAny(id) == {waiting[i] : i \in DOMAIN waiting}

\* self.pending.get(event["request_id"]), and if it is there its event is set.
Heard(id) == {waiting[i] : i \in DOMAIN waiting \cap {id}}
OwnerHandle ==
  /\ owner.pc = "read" /\ handle = "open"
  /\ answers # <<>>
  /\ answers' = Tail(answers)
  /\ told' = told \cup Heard(Head(answers))
  /\ UNCHANGED <<call, idOf, outcome, waiting, allocated, ownerVars, wire, answered,
                 gets>>

-----------------------------------------------------------------------------
\* disconnect(): close, drop, and say so.  self.port stays, so that the worker
\* opens the port again.
FlaskDisconnect ==
  /\ \/ /\ leaving.pc = "idle" /\ leaving.calls < MaxLeavings
        /\ leaving' = [pc |-> "drop", calls |-> leaving.calls + 1]
        /\ handle' = IF handle = "open" THEN "closed" ELSE handle
        /\ UNCHANGED shown
     \/ /\ leaving.pc = "drop"
        /\ leaving' = [leaving EXCEPT !.pc = "say"]
        /\ handle' = "none"
        /\ UNCHANGED shown
     \/ /\ leaving.pc = "say"
        /\ leaving' = [leaving EXCEPT !.pc = "idle"]
        /\ shown' = FALSE
        /\ UNCHANGED handle
  /\ UNCHANGED <<call, idOf, outcome, waiting, allocated, owner, told, lineVars>>

\* process() answers a line, with the id on it, unless the line or the answer is
\* lost.
McuAnswers ==
  /\ wire # <<>>
  /\ wire' = Tail(wire)
  /\ \/ /\ answers' = Append(answers, Head(wire).id)
        /\ answered' = answered \cup Head(wire).for
     \/ UNCHANGED <<answers, answered>>
  /\ UNCHANGED <<call, idOf, outcome, waiting, allocated, ownerVars, told, gets>>

FlaskNext ==
  \/ \E c \in Callers :
       \/ CallNext(c) \/ CallCheck(c) \/ CallRegister(c) \/ CallWrite(c)
       \/ CallTimeout(c) \/ CallReturn(c)
  \/ OwnerOpen \/ OwnerShow \/ OwnerGet \/ OwnerStops \/ OwnerHandle
  \/ FlaskDisconnect \/ McuAnswers

FlaskSpec == FlaskInit /\ [][FlaskNext]_flaskVars

-----------------------------------------------------------------------------
\* A caller that gets an answer gets the one to its own line, as long as neither
\* another caller nor the worker's GET was given its request id (which the unlocked
\* counter allows).
FlaskAnswerIsOwn ==
  \A c \in Callers :
    outcome[c] = "answer" =>
      \/ c \in answered
      \/ idOf[c] \in gets \/ \E d \in Callers \ {c} : idOf[d] = idOf[c]

\* However command() ends, and whoever shares its id, it leaves nothing in the
\* table: what is there belongs to a caller that is still inside.
FlaskTableIsEmptied ==
  \A i \in DOMAIN waiting :
    \E c \in Callers : idOf[c] = i /\ call[c].pc \in {"send", "wait"}
==============================================================================
