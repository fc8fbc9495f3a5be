---------------------------- MODULE MqttTransport ----------------------------
(***************************************************************************)
(* How spooled rows reach the broker: MqttTransport.publish and drain      *)
(* (dashboard/gateway/mqtt_transport.py), which two threads run against one*)
(* spool.  paho's network thread publishes from its callbacks (on_connect, *)
(* on_message); the serial worker publishes what it read (service.py       *)
(* _serial_event).  publish inserts a row and then drains: it takes a      *)
(* snapshot of the table and hands its rows to paho one by one, waiting up *)
(* to five seconds for the acknowledgement of each.                        *)
(*                                                                         *)
(* paho and the broker are external.  What the code relies on: only the    *)
(* network thread writes packets and reads acknowledgements, and not while *)
(* it is in a callback; a QoS 1 message stays in paho's queue until it is  *)
(* acknowledged, also when client.publish reports NO_CONN, and is sent     *)
(* again after a reconnection.                                             *)
(***************************************************************************)
EXTENDS Spool, SequencesExt

CONSTANTS
  PeekLimit,       \* rows peek returns at most: 100 in the code
  MaxDisconnects,  \* bound: losses of the broker connection
  MaxCrashes       \* bound: stops of the gateway process

ASSUME PeekAssumption == PeekLimit \in Nat \ {0}
ASSUME LimitsAssumption == MaxDisconnects \in Nat /\ MaxCrashes \in Nat

VARIABLES
  thr,          \* per thread: pc, publishes to do, snapshot left, row at hand
  sock,         \* paho has an established connection
  connected,    \* the threading.Event of MqttTransport
  out,          \* paho's queue of unacknowledged QoS 1 messages
  delivered,    \* rows the broker has received
  evicted,      \* rows _trim has discarded
  lastSeen,     \* per topic, the id of the row the broker received last
  disconnects, crashes

pahoVars == <<sock, out>>
brokerVars == <<delivered, lastSeen>>
vars == <<spoolVars, thr, connected, pahoVars, brokerVars, evicted,
          disconnects, crashes>>

Threads == {"net", "serial"}

ThreadIdle == [pc |-> "idle", script |-> <<>>, todo |-> {}, item |-> {}]

\* What each callback publishes.  _on_connect publishes the availability and
\* drains once more; a command publishes received and its terminal status, or
\* one status only; telemetry publishes itself and the retained state.
ConnectScript  == <<"availability", "drain">>
CommandScripts == {<<"result">>, <<"result", "result">>}
SerialScripts  == {<<"telemetry", "state">>, <<"availability">>}

\* Rows inserted so far and still to be inserted by the scripts under way.
Inserts(s) == Cardinality({i \in DOMAIN s : s[i] # "drain"})
Planned == (nextId - 1) + Inserts(thr["net"].script) + Inserts(thr["serial"].script)
WithinBound(s) == Planned + Inserts(s) <= MaxEnqueues

Init ==
  /\ InitSpool
  /\ thr = [t \in Threads |-> ThreadIdle]
  /\ sock = FALSE /\ connected = FALSE
  /\ out = <<>>
  /\ delivered = {} /\ evicted = {}
  /\ lastSeen = [k \in Kinds |-> 0]
  /\ disconnects = 0 /\ crashes = 0

Goto(t, pc) == thr' = [thr EXCEPT ![t].pc = pc]

\* Leave the loop over the snapshot: break, or its end.
Leave(t) == thr' = [thr EXCEPT ![t] = [@ EXCEPT !.pc = "next", !.todo = {}, !.item = {}]]

-------------------------------------------------------------------------------
(* The callbacks                                                             *)

Start(t, s) ==
  /\ thr[t].pc = "idle"
  /\ WithinBound(s)
  /\ thr' = [thr EXCEPT ![t].pc = "next", ![t].script = s]

\* _on_message: CommandBridge.handle publishes the results of a command.
OnMessage(s) ==
  /\ sock
  /\ Start("net", s)
  /\ UNCHANGED <<spoolVars, connected, pahoVars, brokerVars, evicted,
                 disconnects, crashes>>

\* The serial worker hands an event to GatewayService._serial_event.
SerialEvent(s) ==
  /\ Start("serial", s)
  /\ UNCHANGED <<spoolVars, connected, pahoVars, brokerVars, evicted,
                 disconnects, crashes>>

\* CONNACK: _on_connect sets the event and goes on to publish.
OnConnect ==
  /\ ~sock
  /\ Start("net", ConnectScript)
  /\ sock' = TRUE
  /\ connected' = TRUE
  /\ UNCHANGED <<spoolVars, out, brokerVars, evicted, disconnects, crashes>>

\* _on_disconnect, after the network thread has closed the socket.
OnDisconnect ==
  /\ thr["net"].pc = "lost"
  /\ Goto("net", "idle")
  /\ connected' = FALSE
  /\ UNCHANGED <<spoolVars, pahoVars, brokerVars, evicted, disconnects, crashes>>

-------------------------------------------------------------------------------
(* publish and drain, in thread t                                            *)

\* publish: enqueue (spool.py), or the bare drain of _on_connect.
PublishNext(t) ==
  /\ thr[t].pc = "next"
  /\ thr[t].script # <<>>
  /\ thr' = [thr EXCEPT ![t].pc = "drain", ![t].script = Tail(@)]
  /\ LET k == Head(thr[t].script) IN
       IF k = "drain"
         THEN UNCHANGED <<spoolVars, evicted>>
         ELSE /\ Enqueue(k)
              /\ evicted' = evicted \cup ((rows \cup {NewRow(k)}) \ rows')
  /\ UNCHANGED <<connected, pahoVars, brokerVars, disconnects, crashes>>

Return(t) ==
  /\ thr[t].pc = "next"
  /\ thr[t].script = <<>>
  /\ Goto(t, "idle")
  /\ UNCHANGED <<spoolVars, connected, pahoVars, brokerVars, evicted,
                 disconnects, crashes>>

DrainOffline(t) ==
  /\ thr[t].pc = "drain"
  /\ ~connected
  /\ Goto(t, "next")
  /\ UNCHANGED <<spoolVars, connected, pahoVars, brokerVars, evicted,
                 disconnects, crashes>>

\* Mutant: newest first.
PeekNewest == {r \in rows : Cardinality({s \in rows : s.id > r.id}) < 1}

Peek == {r \in rows : Cardinality({s \in rows : DrainedBefore(s, r)}) < PeekLimit}

DrainOnline(t) ==
  /\ thr[t].pc = "drain"
  /\ connected
  /\ thr' = [thr EXCEPT ![t].pc = "send", ![t].todo = Peek]
  /\ UNCHANGED <<spoolVars, connected, pahoVars, brokerVars, evicted,
                 disconnects, crashes>>

First(S) == {r \in S : \A s \in S \ {r} : DrainedBefore(r, s)}

\* client.publish(item): paho keeps the message in either case; without a
\* connection it reports NO_CONN and drain breaks off.
SendFirst(t) ==
  /\ thr[t].pc = "send"
  /\ \E r \in First(thr[t].todo) :
       IF sock
         THEN /\ out' = Append(out, [row |-> r, by |-> t, state |-> "queued"])
              /\ thr' = [thr EXCEPT ![t].pc = "wait", ![t].item = {r}]
         ELSE /\ out' = Append(out, [row |-> r, by |-> "nobody", state |-> "stale"])
              /\ Leave(t)
  /\ UNCHANGED <<spoolVars, connected, sock, brokerVars, evicted, disconnects,
                 crashes>>

DrainDone(t) ==
  /\ thr[t].pc = "send"
  /\ thr[t].todo = {}
  /\ Leave(t)
  /\ UNCHANGED <<spoolVars, connected, pahoVars, brokerVars, evicted,
                 disconnects, crashes>>

\* Mutant: the whole snapshot is acknowledged at once, evicted rows included.
AcknowledgeSnapshot(t) ==
  /\ thr[t].pc = "acked"
  /\ rows' = rows \ thr[t].todo
  /\ UNCHANGED nextId
  /\ thr' = [thr EXCEPT ![t].pc = "send", ![t].todo = {}, ![t].item = {}]
  /\ UNCHANGED <<connected, pahoVars, brokerVars, evicted, disconnects, crashes>>

\* wait_for_publish(5) returned because the message was acknowledged.
AcknowledgeItem(t) ==
  /\ thr[t].pc = "acked"
  /\ \E r \in thr[t].item : Acknowledge(r.id)
  /\ thr' = [thr EXCEPT ![t].pc = "send", ![t].todo = @ \ thr[t].item, ![t].item = {}]
  /\ UNCHANGED <<connected, pahoVars, brokerVars, evicted, disconnects, crashes>>

Disown(t) == [i \in DOMAIN out |-> IF out[i].by = t THEN [out[i] EXCEPT !.by = "nobody"]
                                                    ELSE out[i]]

\* Mutant: the row is acknowledged whatever is_published says.
WaitTimesOutAcknowledging(t) ==
  /\ thr[t].pc = "wait"
  /\ out' = Disown(t)
  /\ \E r \in thr[t].item : Acknowledge(r.id)
  /\ Leave(t)
  /\ UNCHANGED <<connected, sock, brokerVars, evicted, disconnects, crashes>>

\* It returned after five seconds: record_attempt, break.
WaitTimesOut(t) ==
  /\ thr[t].pc = "wait"
  /\ out' = Disown(t)
  /\ Leave(t)
  /\ UNCHANGED <<spoolVars, connected, sock, brokerVars, evicted, disconnects,
                 crashes>>

-------------------------------------------------------------------------------
(* paho's network loop, between callbacks; the broker; the process           *)

NetFree == thr["net"].pc = "idle"

\* Messages left over from an earlier connection and new ones each keep their
\* order; paho sends the new ones of on_connect before it repeats the old ones.
Flush ==
  /\ NetFree /\ sock
  /\ \E i \in DOMAIN out :
       /\ out[i].state # "sent"
       /\ \A j \in DOMAIN out : j < i => out[j].state # out[i].state
       /\ out' = [out EXCEPT ![i].state = "sent"]
       /\ delivered' = delivered \cup {out[i].row}
       /\ lastSeen' = [lastSeen EXCEPT ![out[i].row.kind] = out[i].row.id]
  /\ UNCHANGED <<spoolVars, thr, connected, sock, evicted, disconnects, crashes>>

\* PUBACK: the message leaves the queue and a thread that waits for it goes on.
PubAck ==
  /\ NetFree /\ sock
  /\ \E i \in DOMAIN out :
       /\ out[i].state = "sent"
       /\ out' = RemoveAt(out, i)
       /\ thr' = IF out[i].by \in Threads
                   THEN [thr EXCEPT ![out[i].by].pc = "acked"] ELSE thr
  /\ UNCHANGED <<spoolVars, connected, sock, brokerVars, evicted, disconnects,
                 crashes>>

\* The network thread finds the connection gone.
Disconnect ==
  /\ NetFree /\ sock
  /\ disconnects < MaxDisconnects
  /\ disconnects' = disconnects + 1
  /\ sock' = FALSE
  /\ out' = [i \in DOMAIN out |-> [out[i] EXCEPT !.state = "stale"]]
  /\ Goto("net", "lost")
  /\ UNCHANGED <<spoolVars, connected, brokerVars, evicted, crashes>>

\* The process stops and is started again: the table is all that is left.
Crash ==
  /\ crashes < MaxCrashes
  /\ crashes' = crashes + 1
  /\ thr' = [t \in Threads |-> ThreadIdle]
  /\ sock' = FALSE /\ connected' = FALSE
  /\ out' = <<>>
  /\ UNCHANGED <<spoolVars, brokerVars, evicted, disconnects>>

-------------------------------------------------------------------------------
Step(t) ==
  \/ PublishNext(t) \/ Return(t)
  \/ DrainOffline(t) \/ DrainOnline(t) \/ SendFirst(t) \/ DrainDone(t)
  \/ AcknowledgeItem(t) \/ WaitTimesOut(t)

NetLoop == Flush \/ PubAck

Next ==
  \/ \E s \in CommandScripts : OnMessage(s)
  \/ \E s \in SerialScripts : SerialEvent(s)
  \/ \E t \in Threads : Step(t)
  \/ OnConnect \/ OnDisconnect
  \/ NetLoop
  \/ Disconnect \/ Crash

Spec == Init /\ [][Next]_vars

\* The threads are scheduled and paho's loop runs between callbacks.  A timeout
\* is not urged (strong fairness of NetLoop lets an acknowledgement come first
\* again and again), nor is any event of the MCU, the broker or the cable.
FairSpec ==
  /\ Spec
  /\ \A t \in Threads : WF_vars(Step(t))
  /\ WF_vars(OnConnect) /\ WF_vars(OnDisconnect)
  /\ SF_vars(NetLoop)

-------------------------------------------------------------------------------
ThreadState ==
  [pc : {"idle", "next", "drain", "send", "wait", "acked", "lost"},
   script : Seq(Kinds \cup {"drain"}), todo : SUBSET Row, item : SUBSET Row]

Message == [row : Row, by : Threads \cup {"nobody"}, state : {"queued", "stale", "sent"}]

TypeOK ==
  /\ TypeOKSpool
  /\ thr \in [Threads -> ThreadState]
  /\ sock \in BOOLEAN /\ connected \in BOOLEAN
  /\ out \in Seq(Message)
  /\ delivered \in SUBSET Row /\ evicted \in SUBSET Row
  /\ lastSeen \in [Kinds -> Nat]
  /\ disconnects \in Nat /\ crashes \in Nat

Ids(S) == {r.id : r \in S}

\* Nothing is lost silently: every row ever inserted is in the table, or with
\* the broker, or was discarded by _trim from a full table - whatever the two
\* drains do with stale snapshots, and across disconnections and crashes.
NoSilentLoss ==
  \A i \in 1 .. (nextId - 1) : i \in Ids(rows) \cup Ids(delivered) \cup Ids(evicted)

\* On each topic the broker gets rows for the first time in the order in which
\* they were inserted, gaps by eviction excepted: a terminal status never
\* arrives before the received it follows.
FirstDeliveryInOrder ==
  \A r \in delivered : \A i \in 1 .. (r.id - 1) :
    \/ i \in Ids(delivered) \cup Ids(evicted)
    \/ \A s \in rows : s.id = i => s.kind # r.kind

\* "state - QoS 1, retained latest state" (dashboard/README_V1.2_MQTT.md:16): the retained
\* row is never replaced by an older one.
RetainedIsLatest == [][lastSeen'["state"] >= lastSeen["state"]]_vars

\* "A SQLite offline queue: telemetry and control results persist through a
\* network failure" (releases/v1.2.0.md:15): once the connection is back for good
\* the backlog is delivered.
BacklogIsDelivered ==
  <>[]sock => \A i \in 1 .. MaxEnqueues :
                i \in Ids(rows) ~> i \in Ids(delivered) \cup Ids(evicted)
===============================================================================
