---------------------------- MODULE RemoteCommands ----------------------------
(***************************************************************************)
(* A command seen from the server: the HTTP request that issues it         *)
(* (smartagri/remote_app.py, issue_command), the MQTT client it is         *)
(* published with (mqtt_publisher.py), and the worker process that files   *)
(* what the gateway reports (mqtt_worker.py).  The two processes share one *)
(* database row per command (remote_database.py, table commands).          *)
(*                                                                         *)
(* The web service runs as two processes (deploy/Dockerfile:12), each with *)
(* a client of its own, and both clients connect under one client id: the  *)
(* broker closes the connection of the one when the other connects.        *)
(*                                                                         *)
(* paho and the broker are external.  What the code relies on:             *)
(* client.publish queues the message, also when it reports NO_CONN; a      *)
(* queued message is sent when there is a connection and again after a     *)
(* reconnection until it is acknowledged; both subscribers use clean       *)
(* sessions, so what arrives while one is away is lost.                    *)
(*                                                                         *)
(* The gateway is CommandBridge.handle seen from here: it reports received *)
(* and one terminal status, which module CommandBridge shows, up to the    *)
(* pruning of its table, and may publish a result again, which module      *)
(* MqttTransport is about.                                                 *)
(***************************************************************************)
EXTENDS Integers, Sequences

CONSTANTS
  Processes,          \* the processes of the web service
  Commands,           \* request ids, one uuid4 per HTTP request
  DeviceOf,           \* the device each command is for
  MaxWebDisconnects,  \* bound: connections lost to the network
  MaxWebCrashes,      \* bound: stops of a web process
  MaxLosses,          \* bound: messages that arrive while a subscriber is away
  MaxRepeats,         \* bound: messages that are sent again
  MaxPending          \* bound: results the broker holds at a time

ASSUME ProcessesAssumption == Processes # {}
ASSUME DevicesAssumption == DOMAIN DeviceOf = Commands
ASSUME RemoteLimitsAssumption ==
  /\ MaxWebDisconnects \in Nat /\ MaxWebCrashes \in Nat
  /\ MaxLosses \in Nat /\ MaxRepeats \in Nat /\ MaxPending \in Nat

VARIABLES
  row,       \* commands.status of each command, "absent" when there is no row
  web,       \* issue_command for each command: where it is and in which process
  online,    \* per process: its paho client has a connection
  queue,     \* per process: commands paho has queued and nobody acknowledged
  gateway,   \* what the gateway has reported of each command
  results,   \* results the broker holds for the worker
  webDisconnects, webCrashes, losses, repeats

mqttVars   == <<online, queue>>
resultVars == <<gateway, results>>
countVars  == <<webDisconnects, webCrashes, losses, repeats>>
remoteVars == <<row, web, mqttVars, resultVars, countVars>>

Terminal == {"succeeded", "failed", "timed_out", "rejected"}
Reported == {"received"} \cup Terminal
RowStatus == {"absent", "queued", "published", "publish_failed"} \cup Reported

Result == [req : Commands, status : Reported]
Request ==
  [pc : {"idle", "done", "stopped"}]
    \cup [pc : {"recorded", "published", "refused"}, at : Processes]

RemoteInit ==
  /\ row = [c \in Commands |-> "absent"]
  /\ \E p \in Processes : online = [q \in Processes |-> q = p]
  /\ web = [c \in Commands |-> [pc |-> "idle"]]
  /\ queue = [p \in Processes |-> {}]
  /\ gateway = [c \in Commands |-> "none"]
  /\ results = <<>>
  /\ webDisconnects = 0 /\ webCrashes = 0 /\ losses = 0 /\ repeats = 0

SetRow(c, s)     == row' = [row EXCEPT ![c] = s]
RequestAt(c, pc) == web' = [web EXCEPT ![c] = [pc |-> pc, at |-> web[c].at]]
RequestEnds(c)   == web' = [web EXCEPT ![c] = [pc |-> "done"]]

-------------------------------------------------------------------------------
(* issue_command, one HTTP thread per command                                *)

\* Mutant: the row is added after publishing.
IssueUnrecorded(c, p) ==
  /\ web[c].pc = "idle"
  /\ web' = [web EXCEPT ![c] = [pc |-> "recorded", at |-> p]]
  /\ UNCHANGED <<row, mqttVars, resultVars, countVars>>

\* The payload is valid and the device known: the row is committed as queued.
Issue(c, p) ==
  /\ web[c].pc = "idle"
  /\ web' = [web EXCEPT ![c] = [pc |-> "recorded", at |-> p]]
  /\ SetRow(c, "queued")
  /\ UNCHANGED <<mqttVars, resultVars, countVars>>

\* publisher.publish: paho takes the message; NO_CONN raises RuntimeError.
PublishCommand(c) ==
  /\ web[c].pc = "recorded"
  /\ queue' = [queue EXCEPT ![web[c].at] = @ \cup {c}]
  /\ RequestAt(c, IF online[web[c].at] THEN "published" ELSE "refused")
  /\ UNCHANGED <<row, online, resultVars, countVars>>

\* Status 202.
MarkPublished(c) ==
  /\ web[c].pc = "published"
  /\ SetRow(c, "published")
  /\ RequestEnds(c)
  /\ UNCHANGED <<mqttVars, resultVars, countVars>>

\* Mutant: the exception leaves issue_command.
MarkPublishFailedNever(c) ==
  /\ web[c].pc = "refused"
  /\ RequestEnds(c)
  /\ UNCHANGED <<row, mqttVars, resultVars, countVars>>

\* Status 503.
MarkPublishFailed(c) ==
  /\ web[c].pc = "refused"
  /\ SetRow(c, "publish_failed")
  /\ RequestEnds(c)
  /\ UNCHANGED <<mqttVars, resultVars, countVars>>

-------------------------------------------------------------------------------
(* The worker: RemoteMqttWorker._message                                     *)

ResultTopic(d) == <<"smartagri", "v1", "devices", d, "command-results">>

\* message.topic.split("/")[4], which counts from 0.
TopicDevice(topic) == topic[5]

\* A message whose payload names another device than its topic is rejected.
Accepted(c) == TopicDevice(ResultTopic(DeviceOf[c])) = DeviceOf[c]

\* Mutant: a result always means that the command has succeeded.
FiledStatusSucceeded(m) == "succeeded"

\* payload.get("status", ...)
FiledStatus(m) == m.status

FileResult ==
  /\ results # <<>>
  /\ LET m == Head(results) IN
       /\ Accepted(m.req)
       /\ row[m.req] # "absent"
       /\ SetRow(m.req, FiledStatus(m))
  /\ results' = Tail(results)
  /\ UNCHANGED <<web, mqttVars, gateway, countVars>>

\* ValueError "topic/device mismatch", logged; or no such command.
DropResult ==
  /\ results # <<>>
  /\ ~Accepted(Head(results).req) \/ row[Head(results).req] = "absent"
  /\ results' = Tail(results)
  /\ UNCHANGED <<row, web, mqttVars, gateway, countVars>>

Worker == FileResult \/ DropResult

-------------------------------------------------------------------------------
(* paho, the broker, the gateway, the processes                              *)

Report(c, s) ==
  /\ Len(results) < MaxPending
  /\ results' = Append(results, [req |-> c, status |-> s])

\* The broker hands a queued command to the gateway, which reports received, or
\* the terminal status it remembers; it takes one command at a time.  When the
\* acknowledgement is lost with the connection, paho keeps the command.
Deliver(c, p) ==
  /\ online[p] /\ c \in queue[p]
  /\ \A d \in Commands : gateway[d] # "received"
  /\ IF gateway[c] = "none"
       THEN Report(c, "received") /\ gateway' = [gateway EXCEPT ![c] = "received"]
       ELSE Report(c, gateway[c]) /\ UNCHANGED gateway
  /\ \/ queue' = [queue EXCEPT ![p] = @ \ {c}] /\ UNCHANGED repeats
     \/ repeats < MaxRepeats /\ repeats' = repeats + 1 /\ UNCHANGED queue
  /\ UNCHANGED <<row, web, online, webDisconnects, webCrashes, losses>>

\* Two of the terminal statuses stand for all four.
GatewayFinishes(c) ==
  /\ gateway[c] = "received"
  /\ \E s \in {"succeeded", "timed_out"} :
       Report(c, s) /\ gateway' = [gateway EXCEPT ![c] = s]
  /\ UNCHANGED <<row, web, mqttVars, countVars>>

GatewayRepeats(c) ==
  /\ repeats < MaxRepeats
  /\ gateway[c] # "none"
  /\ \E s \in {"received", gateway[c]} : Report(c, s)
  /\ repeats' = repeats + 1
  /\ UNCHANGED <<row, web, mqttVars, gateway, webDisconnects, webCrashes, losses>>

\* A subscriber with a clean session is away.
LoseResult ==
  /\ losses < MaxLosses
  /\ results # <<>>
  /\ losses' = losses + 1
  /\ results' = Tail(results)
  /\ UNCHANGED <<row, web, mqttVars, gateway, webDisconnects, webCrashes, repeats>>

LoseCommand(c, p) ==
  /\ losses < MaxLosses
  /\ online[p] /\ c \in queue[p]
  /\ losses' = losses + 1
  /\ queue' = [queue EXCEPT ![p] = @ \ {c}]
  /\ UNCHANGED <<row, web, online, resultVars, webDisconnects, webCrashes, repeats>>

WebDisconnect(p) ==
  /\ online[p]
  /\ webDisconnects < MaxWebDisconnects
  /\ webDisconnects' = webDisconnects + 1
  /\ online' = [online EXCEPT ![p] = FALSE]
  /\ UNCHANGED <<row, web, queue, resultVars, webCrashes, losses, repeats>>

\* The broker takes the client id over from whoever had it.
WebConnect(p) ==
  /\ ~online[p]
  /\ online' = [q \in Processes |-> q = p]
  /\ UNCHANGED <<row, web, queue, resultVars, countVars>>

Running(c) == web[c].pc \in {"recorded", "published", "refused"}

\* A web process stops and is started again: start() connects anew, and what its
\* paho had queued is gone.
WebCrash(p) ==
  /\ webCrashes < MaxWebCrashes
  /\ webCrashes' = webCrashes + 1
  /\ web' = [c \in Commands |-> IF Running(c) /\ web[c].at = p
                                   THEN [pc |-> "stopped"] ELSE web[c]]
  /\ queue' = [queue EXCEPT ![p] = {}]
  /\ online' = [q \in Processes |-> q = p]
  /\ UNCHANGED <<row, resultVars, webDisconnects, losses, repeats>>

-------------------------------------------------------------------------------
HandleRequest(c) == PublishCommand(c) \/ MarkPublished(c) \/ MarkPublishFailed(c)

RemoteNext ==
  \/ \E c \in Commands, p \in Processes :
       Issue(c, p) \/ Deliver(c, p) \/ LoseCommand(c, p)
  \/ \E c \in Commands : HandleRequest(c) \/ GatewayFinishes(c) \/ GatewayRepeats(c)
  \/ \E p \in Processes : WebConnect(p) \/ WebDisconnect(p) \/ WebCrash(p)
  \/ Worker
  \/ LoseResult

RemoteSpec == RemoteInit /\ [][RemoteNext]_remoteVars

\* An HTTP thread that has begun runs on; paho reconnects and, while it has a
\* connection again and again, sends; the gateway answers; the worker handles what
\* the broker holds.
RemoteFairSpec ==
  /\ RemoteSpec
  /\ \A c \in Commands :
       /\ WF_remoteVars(HandleRequest(c))
       /\ WF_remoteVars(GatewayFinishes(c))
       /\ \A p \in Processes : SF_remoteVars(Deliver(c, p))
  /\ \A p \in Processes : WF_remoteVars(WebConnect(p))
  /\ WF_remoteVars(Worker)

-------------------------------------------------------------------------------
RemoteTypeOK ==
  /\ row \in [Commands -> RowStatus]
  /\ web \in [Commands -> Request]
  /\ online \in [Processes -> BOOLEAN]
  /\ queue \in [Processes -> SUBSET Commands]
  /\ gateway \in [Commands -> {"none"} \cup Reported]
  /\ results \in Seq(Result)
  /\ webDisconnects \in 0 .. MaxWebDisconnects /\ webCrashes \in 0 .. MaxWebCrashes
  /\ losses \in 0 .. MaxLosses /\ repeats \in 0 .. MaxRepeats

\* "records the audit entry, and returns HTTP 202 after publishing"
\* (dashboard/README_V1.2_MQTT.md:25): no command reaches the broker, let alone
\* the gateway, without its row, wherever the web process stops.
Audited ==
  \A c \in Commands :
    (\E p \in Processes : c \in queue[p]) \/ gateway[c] # "none" => row[c] # "absent"

\* A terminal status in the database is the one the gateway reached, whatever is
\* lost or published again on the way (mqtt_worker.py:77-81).
OutcomeIsTrue ==
  \A c \in Commands : row[c] \in Terminal => gateway[c] = row[c]

\* A row says "queued" only while the request that wrote it is still being handled,
\* or for good because its process stopped in the middle of it: issue_command files
\* either outcome of publishing (remote_app.py:168-182), whatever the two clients do
\* to each other's connection and whatever the worker files meanwhile.
QueuedIsHandled ==
  \A c \in Commands : row[c] = "queued" => Running(c) \/ web[c].pc = "stopped"

\* "returns HTTP 202 after publishing" (dashboard/README_V1.2_MQTT.md:25), and 503
\* publish_failed otherwise: a command reported so is not executed.
FailedIsUnsent ==
  \A c \in Commands : row[c] = "publish_failed" => gateway[c] = "none"

\* "the control API returns 202 Accepted and awaits the gateway's MCU ACK/ERR
\* result" (releases/v1.2.0.md:23): while nothing is lost, what the gateway
\* reports in the end is what the database says in the end.
OutcomeIsRecorded ==
  \A c \in Commands : gateway[c] \in Terminal ~> row[c] = gateway[c]
===============================================================================
