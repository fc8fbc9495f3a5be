------------------------------ MODULE StateStore ------------------------------
(***************************************************************************)
(* How the V1.1 local dashboard tells its event streams of new telemetry:  *)
(* StateStore (dashboard/smartagri/state_store.py) and the stream of       *)
(* GET /api/v1/events (flask_app.py).  The serial worker and the request   *)
(* threads of the ingest route publish; what they publish is, for this     *)
(* model, the revision of the state.  The state is under a lock; the       *)
(* streams' queues, of two snapshots, are filled outside it, so that every *)
(* call on a queue is a step of its own and publishers and readers         *)
(* interleave between full(), get_nowait() and put_nowait().               *)
(***************************************************************************)
EXTENDS Naturals, Sequences, FiniteSets

CONSTANTS
  Publishers,     \* threads that call update_telemetry or update_remote
  Streams,        \* event streams; each is opened once
  MaxRevisions    \* bound: publications

ASSUME StoreAssumption ==
  /\ IsFiniteSet(Publishers) /\ IsFiniteSet(Streams)
  /\ MaxRevisions \in Nat

VARIABLES
  revision,      \* store.revision
  publishing,    \* a publisher's pc
  snapshot,      \* a publisher's snapshot
  unserved,      \* the queues it has still to serve, and the one it is serving
  serving,
  dead,          \* the queues it drops when it is done
  subscribers,   \* the streams whose queue is registered
  queued,        \* the queues
  stream,        \* a stream's pc: "none", "subscribed", "open" or "closed"
  yielded,       \* the revision a stream sent last
  overlapped     \* history: two publications have been under way at once

streamVars == <<subscribers, queued, stream, yielded>>
publisherVars == <<publishing, snapshot, unserved, serving, dead>>
storeVars == <<revision, publisherVars, streamVars, overlapped>>

QueueSize == 2

StoreInit ==
  /\ revision = 0
  /\ publishing = [p \in Publishers |-> "idle"]
  /\ snapshot = [p \in Publishers |-> 0]
  /\ unserved = [p \in Publishers |-> {}]
  /\ serving = unserved /\ dead = unserved
  /\ subscribers = {}
  /\ queued = [s \in Streams |-> <<>>]
  /\ stream = [s \in Streams |-> "none"]
  /\ yielded = [s \in Streams |-> 0]
  /\ overlapped = FALSE

Busy == {p \in Publishers : publishing[p] # "idle"}

GoesOn(p, from, to) ==
  publishing[p] = from /\ publishing' = [publishing EXCEPT ![p] = to]

\* The state and its revision change under the lock.
Update(p) ==
  /\ revision < MaxRevisions
  /\ GoesOn(p, "idle", "snapshot")
  /\ revision' = revision + 1
  /\ overlapped' = IF Busy = {} THEN overlapped ELSE TRUE
  /\ UNCHANGED <<snapshot, unserved, serving, dead, streamVars>>

\* Mutant: the snapshot shows what the state was.
SnapBefore(p) ==
  /\ GoesOn(p, "snapshot", "streams")
  /\ snapshot' = [snapshot EXCEPT ![p] = revision - 1]
  /\ UNCHANGED <<revision, unserved, serving, dead, streamVars, overlapped>>

\* snapshot() takes the lock again: another update may have come between.
Snap(p) ==
  /\ GoesOn(p, "snapshot", "streams")
  /\ snapshot' = [snapshot EXCEPT ![p] = revision]
  /\ UNCHANGED <<revision, unserved, serving, dead, streamVars, overlapped>>

\* list(self.subscribers)
Enumerate(p) ==
  /\ GoesOn(p, "streams", "full?")
  /\ unserved' = [unserved EXCEPT ![p] = subscribers]
  /\ UNCHANGED <<revision, snapshot, serving, dead, streamVars, overlapped>>

\* One queue at a time: full(), then get_nowait() if it was, then put_nowait().
LookAt(p, s) ==
  /\ GoesOn(p, "full?", IF Len(queued[s]) = QueueSize THEN "get" ELSE "put")
  /\ s \in unserved[p]
  /\ unserved' = [unserved EXCEPT ![p] = @ \ {s}]
  /\ serving' = [serving EXCEPT ![p] = {s}]
  /\ UNCHANGED <<revision, snapshot, dead, streamVars, overlapped>>

\* The oldest makes room, unless a reader emptied the queue meanwhile: that is
\* an exception, and the queue counts as dead.
Evict(p, s) ==
  /\ s \in serving[p]
  /\ IF queued[s] = <<>>
       THEN /\ GoesOn(p, "get", "full?")
            /\ dead' = [dead EXCEPT ![p] = @ \cup {s}]
            /\ UNCHANGED queued
       ELSE /\ GoesOn(p, "get", "put")
            /\ queued' = [queued EXCEPT ![s] = Tail(@)]
            /\ UNCHANGED dead
  /\ UNCHANGED <<revision, snapshot, unserved, serving, subscribers, stream, yielded,
                 overlapped>>

\* Another publisher may have filled the queue since full() was asked.
Put(p, s) ==
  /\ s \in serving[p]
  /\ GoesOn(p, "put", "full?")
  /\ IF Len(queued[s]) = QueueSize
       THEN /\ dead' = [dead EXCEPT ![p] = @ \cup {s}]
            /\ UNCHANGED queued
       ELSE /\ queued' = [queued EXCEPT ![s] = Append(@, snapshot[p])]
            /\ UNCHANGED dead
  /\ UNCHANGED <<revision, snapshot, unserved, serving, subscribers, stream, yielded,
                 overlapped>>

\* The queues that raised are no longer subscribed, their streams live or not;
\* the locals of _publish are gone.
DropDead(p) ==
  /\ GoesOn(p, "full?", "idle") /\ unserved[p] = {}
  /\ subscribers' = subscribers \ dead[p]
  /\ snapshot' = [snapshot EXCEPT ![p] = 0]
  /\ serving' = [serving EXCEPT ![p] = {}] /\ dead' = [dead EXCEPT ![p] = {}]
  /\ UNCHANGED <<revision, unserved, queued, stream, yielded, overlapped>>

-----------------------------------------------------------------------------
\* events(): the queue is registered when the request arrives, and the stream
\* starts with a snapshot of its own.
Subscribe(s) ==
  /\ stream[s] = "none"
  /\ stream' = [stream EXCEPT ![s] = "subscribed"]
  /\ subscribers' = subscribers \cup {s}
  /\ UNCHANGED <<revision, publisherVars, queued, yielded, overlapped>>

FirstYield(s) ==
  /\ stream[s] = "subscribed"
  /\ stream' = [stream EXCEPT ![s] = "open"]
  /\ yielded' = [yielded EXCEPT ![s] = revision]
  /\ UNCHANGED <<revision, publisherVars, subscribers, queued, overlapped>>

Yield(s) ==
  /\ stream[s] = "open" /\ queued[s] # <<>>
  /\ yielded' = [yielded EXCEPT ![s] = Head(queued[s])]
  /\ queued' = [queued EXCEPT ![s] = Tail(@)]
  /\ UNCHANGED <<revision, publisherVars, subscribers, stream, overlapped>>

\* The client goes.  `finally' runs only in a generator that was started: a
\* stream dropped before its first line stays registered.
Close(s) ==
  /\ stream[s] \in {"subscribed", "open"}
  /\ stream' = [stream EXCEPT ![s] = "closed"]
  /\ subscribers' = IF stream[s] = "open" THEN subscribers \ {s} ELSE subscribers
  /\ UNCHANGED <<revision, publisherVars, queued, yielded, overlapped>>

StoreNext ==
  \/ \E p \in Publishers :
       \/ Update(p) \/ Snap(p) \/ Enumerate(p) \/ DropDead(p)
       \/ \E s \in Streams : LookAt(p, s) \/ Evict(p, s) \/ Put(p, s)
  \/ \E s \in Streams : Subscribe(s) \/ FirstYield(s) \/ Yield(s) \/ Close(s)

StoreSpec == StoreInit /\ [][StoreNext]_storeVars

-----------------------------------------------------------------------------
\* When nothing is being published, a stream that is open and registered has
\* sent the newest state or has it in its queue, whenever it subscribed and
\* whatever was evicted: true as long as publications do not overlap.
StoreNewestIsSeen ==
  \A s \in subscribers :
    stream[s] = "open" /\ Busy = {} /\ ~overlapped =>
      \/ yielded[s] = revision
      \/ \E i \in DOMAIN queued[s] : queued[s][i] = revision
==============================================================================
