------------------------- MODULE RemoteCommandsProofs -------------------------
(***************************************************************************)
(* Proofs about the server's view of a command, for any number of commands,*)
(* web processes, losses and crashes.                                      *)
(*                                                                         *)
(* Audited holds because the row is committed before the request can reach *)
(* publisher.publish; OutcomeIsTrue because a terminal result that is on   *)
(* its way to the worker is the terminal status the gateway has reached,   *)
(* and the gateway never leaves it; QueuedIsHandled because a request      *)
(* cannot end without filing what became of it.                            *)
(***************************************************************************)
EXTENDS RemoteCommands, SequenceTheorems, TLAPS

\* Whatever has been done for a command was done after its row was committed.
RecordedInv ==
  \A c \in Commands :
    \/ row[c] # "absent"
    \/ /\ web[c].pc = "idle" /\ gateway[c] = "none"
       /\ \A p \in Processes : c \notin queue[p]

\* Terminal results under way are true.
ResultsInv ==
  \A i \in DOMAIN results :
    results[i].status \in Terminal => gateway[results[i].req] = results[i].status

IInv ==
  RemoteTypeOK /\ RecordedInv /\ ResultsInv /\ OutcomeIsTrue /\ QueuedIsHandled

-------------------------------------------------------------------------------
\* What a report and a read do to the results under way.
LEMMA ResultsAppend ==
  ASSUME results \in Seq(Result), NEW c \in Commands, NEW s \in Reported, Report(c, s)
  PROVE  /\ results' \in Seq(Result)
         /\ \A i \in DOMAIN results' :
              \/ i \in DOMAIN results /\ results'[i] = results[i]
              \/ results'[i] = [req |-> c, status |-> s]
<1> DEFINE m == [req |-> c, status |-> s]
<1>1. m \in Result
  BY DEF Result
<1>2. results' = Append(results, m)
  BY DEF Report
<1> HIDE DEF m
<1>3. /\ results' \in Seq(Result)
      /\ Len(results') = Len(results) + 1
      /\ \A i \in 1 .. Len(results) : results'[i] = results[i]
      /\ results'[Len(results) + 1] = m
  BY <1>1, <1>2, AppendProperties
<1>4. /\ DOMAIN results' = 1 .. (Len(results) + 1) /\ DOMAIN results = 1 .. Len(results)
      /\ Len(results) \in Nat
  BY <1>3
<1>5. \A i \in DOMAIN results' : i \in DOMAIN results \/ i = Len(results) + 1
  BY <1>4
<1> QED
  BY <1>3, <1>4, <1>5 DEF m

\* A read takes the first result and shifts the others.
LEMMA ResultsTail ==
  ASSUME results \in Seq(Result), results # <<>>, results' = Tail(results)
  PROVE  /\ results' \in Seq(Result)
         /\ \A i \in DOMAIN results' : i + 1 \in DOMAIN results /\ results'[i] = results[i + 1]
         /\ 1 \in DOMAIN results /\ Head(results) = results[1] /\ Head(results) \in Result
<1>1. /\ Tail(results) \in Seq(Result) /\ Len(Tail(results)) = Len(results) - 1
      /\ \A i \in 1 .. Len(Tail(results)) : Tail(results)[i] = results[i + 1]
  BY HeadTailProperties
<1>2. Len(results) \in Nat /\ Len(results) >= 1 /\ DOMAIN results = 1 .. Len(results)
  BY EmptySeq
<1>3. DOMAIN Tail(results) = 1 .. (Len(results) - 1)
  BY <1>1
<1>4. Head(results) = results[1] /\ 1 \in DOMAIN results
  BY <1>2
<1> QED
  BY <1>1, <1>2, <1>3, <1>4

\* The initial states satisfy the inductive invariant.
LEMMA RemoteInitial == RemoteInit => IInv
<1> SUFFICES ASSUME RemoteInit PROVE IInv
  OBVIOUS
<1>1. RemoteTypeOK
  <2>1. row \in [Commands -> RowStatus] /\ gateway \in [Commands -> {"none"} \cup Reported]
    BY DEF RemoteInit, RowStatus
  <2>2. web \in [Commands -> Request] /\ online \in [Processes -> BOOLEAN]
    BY DEF RemoteInit, Request
  <2>3. queue \in [Processes -> SUBSET Commands] /\ results \in Seq(Result)
    BY DEF RemoteInit
  <2>4. /\ webDisconnects \in 0 .. MaxWebDisconnects /\ webCrashes \in 0 .. MaxWebCrashes
        /\ losses \in 0 .. MaxLosses /\ repeats \in 0 .. MaxRepeats
    BY RemoteLimitsAssumption DEF RemoteInit
  <2> QED
    BY <2>1, <2>2, <2>3, <2>4 DEF RemoteTypeOK
<1>2. RecordedInv /\ ResultsInv /\ OutcomeIsTrue /\ QueuedIsHandled
  BY DEF RemoteInit, RecordedInv, ResultsInv, OutcomeIsTrue, QueuedIsHandled, Terminal
<1> QED
  BY <1>1, <1>2 DEF IInv

\* Every step of the requests, the worker and their environment keeps the types.
LEMMA RemoteTypeNext == RemoteTypeOK /\ [RemoteNext]_remoteVars => RemoteTypeOK'
<1> SUFFICES ASSUME RemoteTypeOK, [RemoteNext]_remoteVars PROVE RemoteTypeOK'
  OBVIOUS
<1>1. /\ row \in [Commands -> RowStatus] /\ web \in [Commands -> Request]
      /\ online \in [Processes -> BOOLEAN] /\ queue \in [Processes -> SUBSET Commands]
      /\ gateway \in [Commands -> {"none"} \cup Reported] /\ results \in Seq(Result)
      /\ webDisconnects \in 0 .. MaxWebDisconnects /\ webCrashes \in 0 .. MaxWebCrashes
      /\ losses \in 0 .. MaxLosses /\ repeats \in 0 .. MaxRepeats
  BY DEF RemoteTypeOK
<1>2. /\ MaxWebDisconnects \in Nat /\ MaxWebCrashes \in Nat
      /\ MaxLosses \in Nat /\ MaxRepeats \in Nat
  BY RemoteLimitsAssumption
<1>3. ASSUME NEW c \in Commands, NEW p \in Processes, Issue(c, p) PROVE RemoteTypeOK'
  <2>1. web' \in [Commands -> Request]
    BY <1>1, <1>3 DEF Issue, Request
  <2>2. row' \in [Commands -> RowStatus]
    BY <1>1, <1>3 DEF Issue, SetRow, RowStatus
  <2> QED
    BY <1>1, <1>3, <2>1, <2>2 DEF Issue, RemoteTypeOK, mqttVars, resultVars, countVars
<1>5. ASSUME NEW c \in Commands, PublishCommand(c) PROVE RemoteTypeOK'
  <2>1. web' \in [Commands -> Request]
    BY <1>1, <1>5 DEF PublishCommand, RequestAt, Request
  <2>2. queue' \in [Processes -> SUBSET Commands]
    BY <1>1, <1>5 DEF PublishCommand, Request
  <2> QED
    BY <1>1, <1>5, <2>1, <2>2 DEF PublishCommand, RemoteTypeOK, resultVars, countVars
<1>6. ASSUME NEW c \in Commands, MarkPublished(c) \/ MarkPublishFailed(c) PROVE RemoteTypeOK'
  <2>1. web' \in [Commands -> Request]
    BY <1>1, <1>6 DEF MarkPublished, MarkPublishFailed, RequestEnds, Request
  <2>2. row' \in [Commands -> RowStatus]
    BY <1>1, <1>6 DEF MarkPublished, MarkPublishFailed, SetRow, RowStatus
  <2> QED
    BY <1>1, <1>6, <2>1, <2>2 DEF MarkPublished, MarkPublishFailed, RemoteTypeOK, mqttVars,
       resultVars, countVars
<1>7. CASE FileResult
  <2>1. Head(results) \in Result /\ results' \in Seq(Result)
    BY <1>1, <1>7, ResultsTail DEF FileResult
  <2>2. row' \in [Commands -> RowStatus]
    BY <1>1, <1>7, <2>1 DEF FileResult, SetRow, FiledStatus, Result, RowStatus
  <2> QED
    BY <1>1, <1>7, <2>1, <2>2 DEF FileResult, RemoteTypeOK, mqttVars, countVars
<1>8. CASE DropResult
  <2>1. results' \in Seq(Result)
    BY <1>1, <1>8, ResultsTail DEF DropResult
  <2> QED
    BY <1>1, <1>8, <2>1 DEF DropResult, RemoteTypeOK, mqttVars, countVars
<1>9. ASSUME NEW c \in Commands, NEW p \in Processes, Deliver(c, p) PROVE RemoteTypeOK'
  <2>1. /\ gateway' \in [Commands -> {"none"} \cup Reported]
        /\ results' \in Seq(Result)
    <3>1. CASE gateway[c] = "none"
      BY <1>1, <1>9, <3>1, ResultsAppend DEF Deliver, Reported
    <3>2. CASE gateway[c] # "none"
      BY <1>1, <1>9, <3>2, ResultsAppend DEF Deliver
    <3> QED
      BY <3>1, <3>2
  <2>2. queue' \in [Processes -> SUBSET Commands]
    BY <1>1, <1>9 DEF Deliver
  <2>3. repeats' \in 0 .. MaxRepeats
    BY <1>1, <1>2, <1>9 DEF Deliver
  <2> QED
    BY <1>1, <1>9, <2>1, <2>2, <2>3 DEF Deliver, RemoteTypeOK
<1>10. ASSUME NEW c \in Commands, GatewayFinishes(c) PROVE RemoteTypeOK'
  <2>1. PICK s \in {"succeeded", "timed_out"} :
          Report(c, s) /\ gateway' = [gateway EXCEPT ![c] = s]
    BY <1>10 DEF GatewayFinishes
  <2>2. s \in Reported
    BY DEF Reported, Terminal
  <2>3. results' \in Seq(Result)
    BY <1>1, <2>1, <2>2, ResultsAppend
  <2> QED
    BY <1>1, <1>10, <2>1, <2>2, <2>3 DEF GatewayFinishes, RemoteTypeOK, mqttVars, countVars
<1>11. ASSUME NEW c \in Commands, GatewayRepeats(c) PROVE RemoteTypeOK'
  <2>1. PICK s \in {"received", gateway[c]} : Report(c, s)
    BY <1>11 DEF GatewayRepeats
  <2>2. s \in Reported
    BY <1>1, <1>11 DEF GatewayRepeats, Reported
  <2>3. results' \in Seq(Result)
    BY <1>1, <2>1, <2>2, ResultsAppend
  <2>4. repeats' \in 0 .. MaxRepeats
    BY <1>1, <1>2, <1>11 DEF GatewayRepeats
  <2> QED
    BY <1>1, <1>11, <2>3, <2>4 DEF GatewayRepeats, RemoteTypeOK, mqttVars
<1>12. CASE LoseResult
  <2>1. results' \in Seq(Result)
    BY <1>1, <1>12, ResultsTail DEF LoseResult
  <2>2. losses' \in 0 .. MaxLosses
    BY <1>1, <1>2, <1>12 DEF LoseResult
  <2> QED
    BY <1>1, <1>12, <2>1, <2>2 DEF LoseResult, RemoteTypeOK, mqttVars
<1>13. ASSUME NEW c \in Commands, NEW p \in Processes, LoseCommand(c, p) PROVE RemoteTypeOK'
  <2>1. queue' \in [Processes -> SUBSET Commands]
    BY <1>1, <1>13 DEF LoseCommand
  <2>2. losses' \in 0 .. MaxLosses
    BY <1>1, <1>2, <1>13 DEF LoseCommand
  <2> QED
    BY <1>1, <1>13, <2>1, <2>2 DEF LoseCommand, RemoteTypeOK, resultVars
<1>14. ASSUME NEW p \in Processes, WebConnect(p) PROVE RemoteTypeOK'
  <2>1. online' \in [Processes -> BOOLEAN]
    BY <1>14 DEF WebConnect
  <2> QED
    BY <1>1, <1>14, <2>1 DEF WebConnect, RemoteTypeOK, resultVars, countVars
<1>15. ASSUME NEW p \in Processes, WebDisconnect(p) PROVE RemoteTypeOK'
  <2>1. online' \in [Processes -> BOOLEAN]
    BY <1>1, <1>15 DEF WebDisconnect
  <2>2. webDisconnects' \in 0 .. MaxWebDisconnects
    BY <1>1, <1>2, <1>15 DEF WebDisconnect
  <2> QED
    BY <1>1, <1>15, <2>1, <2>2 DEF WebDisconnect, RemoteTypeOK, resultVars
<1>16. ASSUME NEW p \in Processes, WebCrash(p) PROVE RemoteTypeOK'
  <2>1. \A c \in Commands : [pc |-> "stopped"] \in Request
    BY <1>1 DEF Request
  <2>2. web' \in [Commands -> Request]
    BY <1>1, <1>16, <2>1 DEF WebCrash
  <2>3. online' \in [Processes -> BOOLEAN]
    BY <1>16 DEF WebCrash
  <2>4. queue' \in [Processes -> SUBSET Commands] /\ webCrashes' \in 0 .. MaxWebCrashes
    BY <1>1, <1>2, <1>16 DEF WebCrash
  <2> QED
    BY <1>1, <1>16, <2>2, <2>3, <2>4 DEF WebCrash, RemoteTypeOK, resultVars
<1>17. CASE UNCHANGED remoteVars
  BY <1>1, <1>17 DEF remoteVars, RemoteTypeOK, mqttVars, resultVars, countVars
<1> QED
  BY <1>3, <1>5, <1>6, <1>7, <1>8, <1>9, <1>10, <1>11, <1>12, <1>13, <1>14, <1>15,
     <1>16, <1>17 DEF RemoteNext, HandleRequest, Worker

-------------------------------------------------------------------------------
\* issue_command commits the row before the request can reach the publisher, and
\* no row is ever taken back (remote_app.py:157-168).
LEMMA RecordedNext == RemoteTypeOK /\ RecordedInv /\ [RemoteNext]_remoteVars => RecordedInv'
<1> SUFFICES ASSUME RemoteTypeOK, RecordedInv, [RemoteNext]_remoteVars, NEW c \in Commands
             PROVE  \/ row'[c] # "absent"
                    \/ /\ web'[c].pc = "idle" /\ gateway'[c] = "none"
                       /\ \A p \in Processes : c \notin queue'[p]
  BY DEF RecordedInv
<1> DEFINE Kept == row'[c] # "absent"
<1> DEFINE Untouched == /\ web'[c].pc = "idle" /\ gateway'[c] = "none"
                        /\ \A p \in Processes : c \notin queue'[p]
<1>1. /\ row \in [Commands -> RowStatus] /\ web \in [Commands -> Request]
      /\ queue \in [Processes -> SUBSET Commands]
      /\ gateway \in [Commands -> {"none"} \cup Reported] /\ results \in Seq(Result)
  BY DEF RemoteTypeOK
<1>2. \/ row[c] # "absent"
      \/ /\ web[c].pc = "idle" /\ gateway[c] = "none"
         /\ \A p \in Processes : c \notin queue[p]
  BY DEF RecordedInv
<1>3. ASSUME NEW d \in Commands, NEW p \in Processes, Issue(d, p) PROVE Kept \/ Untouched
  BY <1>1, <1>2, <1>3 DEF Issue, SetRow, mqttVars, resultVars
<1>4. ASSUME NEW d \in Commands, PublishCommand(d) PROVE Kept \/ Untouched
  <2>1. row' = row /\ gateway' = gateway /\ web[d].pc = "recorded"
    BY <1>4 DEF PublishCommand, resultVars
  <2>2. CASE d = c
    BY <1>2, <2>1, <2>2
  <2>3. CASE d # c
    <3>1. web'[c] = web[c]
      BY <1>1, <1>4, <2>3 DEF PublishCommand, RequestAt
    <3>2. \A p \in Processes : c \in queue'[p] => c \in queue[p]
      BY <1>1, <1>4, <2>3 DEF PublishCommand
    <3> QED
      BY <1>2, <2>1, <3>1, <3>2
  <2> QED
    BY <2>2, <2>3
<1>5. ASSUME NEW d \in Commands, MarkPublished(d) \/ MarkPublishFailed(d)
      PROVE  Kept \/ Untouched
  BY <1>1, <1>2, <1>5 DEF MarkPublished, MarkPublishFailed, SetRow, RequestEnds, mqttVars,
     resultVars
<1>6. CASE FileResult
  <2>1. Head(results) \in Result
    BY <1>1, <1>6, ResultsTail DEF FileResult
  <2>2. Head(results).status # "absent"
    BY <2>1 DEF Result, Reported, Terminal
  <2> QED
    BY <1>1, <1>2, <1>6, <2>1, <2>2 DEF FileResult, SetRow, FiledStatus, mqttVars
<1>7. ASSUME NEW d \in Commands, NEW p \in Processes, Deliver(d, p) PROVE Kept \/ Untouched
  <2>1. row' = row /\ web' = web /\ d \in queue[p]
    BY <1>7 DEF Deliver
  <2>2. \A q \in Processes : c \in queue'[q] => c \in queue[q]
    BY <1>1, <1>7 DEF Deliver
  <2>3. d # c => gateway'[c] = gateway[c]
    BY <1>1, <1>7 DEF Deliver
  <2> QED
    BY <1>2, <2>1, <2>2, <2>3
<1>8. ASSUME NEW d \in Commands, GatewayFinishes(d) PROVE Kept \/ Untouched
  BY <1>1, <1>2, <1>8 DEF GatewayFinishes, mqttVars
<1>9. ASSUME NEW d \in Commands, NEW p \in Processes, LoseCommand(d, p)
      PROVE  Kept \/ Untouched
  BY <1>1, <1>2, <1>9 DEF LoseCommand, resultVars
<1>10. ASSUME NEW p \in Processes, WebCrash(p) PROVE Kept \/ Untouched
  BY <1>1, <1>2, <1>10 DEF WebCrash, Running, resultVars
<1>11. CASE \/ \E d \in Commands : GatewayRepeats(d)
            \/ \E p \in Processes : WebConnect(p) \/ WebDisconnect(p)
            \/ DropResult \/ LoseResult \/ UNCHANGED remoteVars
  <2>1. row' = row /\ web' = web /\ gateway' = gateway /\ queue' = queue
    BY <1>11 DEF GatewayRepeats, WebConnect, WebDisconnect, DropResult, LoseResult, remoteVars,
       mqttVars, resultVars
  <2> QED
    BY <1>2, <2>1
<1> QED
  BY <1>3, <1>4, <1>5, <1>6, <1>7, <1>8, <1>9, <1>10, <1>11
     DEF RemoteNext, HandleRequest, Worker

\* A gateway that has reached a terminal status reports that status and no other,
\* so what is under way stays true and what the worker files is true.
LEMMA OutcomeNext ==
  RemoteTypeOK /\ ResultsInv /\ OutcomeIsTrue /\ [RemoteNext]_remoteVars => ResultsInv' /\ OutcomeIsTrue'
<1> SUFFICES ASSUME RemoteTypeOK, ResultsInv, OutcomeIsTrue, [RemoteNext]_remoteVars
             PROVE  ResultsInv' /\ OutcomeIsTrue'
  OBVIOUS
<1> DEFINE True(g, m) == m.status \in Terminal => g[m.req] = m.status
<1>1. /\ row \in [Commands -> RowStatus]
      /\ gateway \in [Commands -> {"none"} \cup Reported] /\ results \in Seq(Result)
  BY DEF RemoteTypeOK
<1>2. \A i \in DOMAIN results : results[i] \in Result /\ True(gateway, results[i])
  BY <1>1 DEF ResultsInv
<1>3. \A c \in Commands : row[c] \in Terminal => gateway[c] = row[c]
  BY DEF OutcomeIsTrue
<1>4. "received" \notin Terminal /\ "none" \notin Terminal
  BY DEF Terminal
<1>5. ASSUME gateway' = gateway, results' = results,
             \A c \in Commands : row'[c] = row[c] \/ row'[c] \notin Terminal
      PROVE  ResultsInv' /\ OutcomeIsTrue'
  BY <1>2, <1>3, <1>5 DEF ResultsInv, OutcomeIsTrue
<1>6. ASSUME gateway' = gateway, results # <<>>, results' = Tail(results), row' = row
      PROVE  ResultsInv' /\ OutcomeIsTrue'
  BY <1>1, <1>2, <1>3, <1>6, ResultsTail DEF ResultsInv, OutcomeIsTrue
<1>7. ASSUME NEW c \in Commands, NEW s \in Reported, Report(c, s), row' = row,
             s \in Terminal => gateway'[c] = s,
             \/ gateway' = gateway
             \/ \E v : gateway' = [gateway EXCEPT ![c] = v] /\ gateway[c] \notin Terminal
      PROVE  ResultsInv' /\ OutcomeIsTrue'
  <2>1. \A d \in Commands : gateway[d] \in Terminal => gateway'[d] = gateway[d]
    BY <1>1, <1>7
  <2>2. \A i \in DOMAIN results' :
          \/ i \in DOMAIN results /\ results'[i] = results[i]
          \/ results'[i] = [req |-> c, status |-> s]
    BY <1>1, <1>7, ResultsAppend
  <2>3. \A m \in Result : True(gateway, m) => True(gateway', m)
    BY <2>1 DEF Result
  <2>4. True(gateway', [req |-> c, status |-> s])
    BY <1>7
  <2>5. \A i \in DOMAIN results' : True(gateway', results'[i])
    BY <1>2, <2>2, <2>3, <2>4
  <2>6. ResultsInv'
    BY <2>5 DEF ResultsInv
  <2>7. OutcomeIsTrue'
    BY <1>3, <1>7, <2>1 DEF OutcomeIsTrue
  <2> QED
    BY <2>6, <2>7
<1>8. ASSUME NEW c \in Commands, NEW p \in Processes, Issue(c, p)
      PROVE  ResultsInv' /\ OutcomeIsTrue'
  BY <1>1, <1>5, <1>8 DEF Issue, SetRow, resultVars, Terminal
<1>9. ASSUME NEW c \in Commands, MarkPublished(c) \/ MarkPublishFailed(c)
      PROVE  ResultsInv' /\ OutcomeIsTrue'
  BY <1>1, <1>5, <1>9 DEF MarkPublished, MarkPublishFailed, SetRow, resultVars, Terminal
<1>10. CASE FileResult
  <2> DEFINE m == Head(results)
  <2>1. m \in Result /\ True(gateway, m) /\ m = results[1]
    BY <1>1, <1>2, <1>10, ResultsTail DEF FileResult
  <2>2. gateway' = gateway /\ row' = [row EXCEPT ![m.req] = m.status]
    BY <1>10 DEF FileResult, SetRow, FiledStatus
  <2>3. OutcomeIsTrue'
    BY <1>1, <1>3, <2>1, <2>2 DEF OutcomeIsTrue, Result
  <2>4. ResultsInv'
    BY <1>1, <1>2, <1>10, <2>2, ResultsTail DEF FileResult, ResultsInv
  <2> QED
    BY <2>3, <2>4
<1>11. ASSUME NEW c \in Commands, NEW p \in Processes, Deliver(c, p)
       PROVE  ResultsInv' /\ OutcomeIsTrue'
  <2>1. CASE gateway[c] = "none"
    <3>1. /\ Report(c, "received") /\ row' = row
          /\ gateway' = [gateway EXCEPT ![c] = "received"]
      BY <1>11, <2>1 DEF Deliver
    <3> QED
      BY <1>1, <1>4, <1>7, <2>1, <3>1 DEF Reported
  <2>2. CASE gateway[c] # "none"
    <3>1. Report(c, gateway[c]) /\ gateway' = gateway /\ row' = row
      BY <1>11, <2>2 DEF Deliver
    <3>2. gateway[c] \in Reported
      BY <1>1, <2>2
    <3> QED
      BY <1>7, <3>1, <3>2
  <2> QED
    BY <2>1, <2>2
<1>12. ASSUME NEW c \in Commands, GatewayFinishes(c) PROVE ResultsInv' /\ OutcomeIsTrue'
  <2>1. PICK s \in {"succeeded", "timed_out"} :
          Report(c, s) /\ gateway' = [gateway EXCEPT ![c] = s]
    BY <1>12 DEF GatewayFinishes
  <2>2. s \in Reported /\ gateway'[c] = s /\ gateway[c] \notin Terminal /\ row' = row
    BY <1>1, <1>4, <1>12, <2>1 DEF GatewayFinishes, Reported, Terminal
  <2> QED
    BY <1>7, <2>1, <2>2
<1>13. ASSUME NEW c \in Commands, GatewayRepeats(c) PROVE ResultsInv' /\ OutcomeIsTrue'
  <2>1. PICK s \in {"received", gateway[c]} : Report(c, s)
    BY <1>13 DEF GatewayRepeats
  <2>2. s \in Reported /\ gateway' = gateway /\ row' = row
    BY <1>1, <1>13 DEF GatewayRepeats, Reported
  <2>3. s \in Terminal => gateway'[c] = s
    BY <1>4, <2>1, <2>2
  <2> QED
    BY <1>7, <2>1, <2>2, <2>3
<1>14. CASE DropResult \/ LoseResult
  BY <1>6, <1>14 DEF DropResult, LoseResult
<1>15. CASE \/ \E c \in Commands : PublishCommand(c)
            \/ \E c \in Commands, p \in Processes : LoseCommand(c, p)
            \/ \E p \in Processes : WebConnect(p) \/ WebDisconnect(p) \/ WebCrash(p)
            \/ UNCHANGED remoteVars
  <2>1. gateway' = gateway /\ results' = results /\ row' = row
    BY <1>15 DEF PublishCommand, LoseCommand, WebConnect, WebDisconnect, WebCrash, remoteVars, resultVars
  <2> QED
    BY <1>5, <2>1
<1> QED
  BY <1>8, <1>9, <1>10, <1>11, <1>12, <1>13, <1>14, <1>15 DEF RemoteNext, HandleRequest, Worker

\* Issue writes "queued" and begins the request; what ends the request writes another
\* status; nobody else writes "queued" (remote_app.py:157-182).
LEMMA QueuedNext ==
  RemoteTypeOK /\ QueuedIsHandled /\ [RemoteNext]_remoteVars => QueuedIsHandled'
<1> SUFFICES ASSUME RemoteTypeOK, QueuedIsHandled, [RemoteNext]_remoteVars,
                    NEW c \in Commands, row'[c] = "queued"
             PROVE  Running(c)' \/ web'[c].pc = "stopped"
  BY DEF QueuedIsHandled
<1>1. /\ row \in [Commands -> RowStatus] /\ web \in [Commands -> Request]
      /\ results \in Seq(Result)
  BY DEF RemoteTypeOK
<1>2. row[c] = "queued" => Running(c) \/ web[c].pc = "stopped"
  BY DEF QueuedIsHandled
<1>3. ASSUME NEW d \in Commands, NEW p \in Processes, Issue(d, p)
      PROVE  Running(c)' \/ web'[c].pc = "stopped"
  BY <1>1, <1>2, <1>3 DEF Issue, SetRow, Running
<1>4. ASSUME NEW d \in Commands, PublishCommand(d)
      PROVE  Running(c)' \/ web'[c].pc = "stopped"
  <2>1. row' = row /\ web[d].pc = "recorded"
    BY <1>4 DEF PublishCommand
  <2>2. web'[c] = web[c] \/ web'[c].pc \in {"published", "refused"}
    BY <1>1, <1>4 DEF PublishCommand, RequestAt
  <2> QED
    BY <1>2, <2>1, <2>2 DEF Running
<1>5. ASSUME NEW d \in Commands, MarkPublished(d) \/ MarkPublishFailed(d)
      PROVE  Running(c)' \/ web'[c].pc = "stopped"
  <2>1. c # d
    BY <1>1, <1>5 DEF MarkPublished, MarkPublishFailed, SetRow
  <2> QED
    BY <1>1, <1>2, <1>5, <2>1 DEF MarkPublished, MarkPublishFailed, SetRow, RequestEnds,
       Running
<1>6. CASE FileResult
  <2>1. Head(results) \in Result
    BY <1>1, <1>6, ResultsTail DEF FileResult
  <2>2. Head(results).status # "queued"
    BY <2>1 DEF Result, Reported, Terminal
  <2> QED
    BY <1>1, <1>2, <1>6, <2>1, <2>2 DEF FileResult, SetRow, FiledStatus, Running
<1>7. ASSUME NEW p \in Processes, WebCrash(p)
      PROVE  Running(c)' \/ web'[c].pc = "stopped"
  BY <1>1, <1>2, <1>7 DEF WebCrash, Running
<1>8. CASE \/ \E d \in Commands : GatewayFinishes(d) \/ GatewayRepeats(d)
           \/ \E d \in Commands, p \in Processes : Deliver(d, p) \/ LoseCommand(d, p)
           \/ \E p \in Processes : WebConnect(p) \/ WebDisconnect(p)
           \/ DropResult \/ LoseResult \/ UNCHANGED remoteVars
  <2>1. row' = row /\ web' = web
    BY <1>8 DEF GatewayFinishes, GatewayRepeats, Deliver, LoseCommand, WebConnect,
       WebDisconnect, DropResult, LoseResult, remoteVars
  <2> QED
    BY <1>2, <2>1 DEF Running
<1> QED
  BY <1>3, <1>4, <1>5, <1>6, <1>7, <1>8 DEF RemoteNext, HandleRequest, Worker

\* The inductive invariant of the server's view of a command.
LEMMA RemoteInvariant == RemoteSpec => []IInv
<1>1. IInv /\ [RemoteNext]_remoteVars => IInv'
  BY RemoteTypeNext, RecordedNext, OutcomeNext, QueuedNext DEF IInv
<1> QED
  BY RemoteInitial, <1>1, PTL DEF RemoteSpec

-------------------------------------------------------------------------------
\* Rows, requests, queues and results keep their types, whatever crashes.
THEOREM RemoteTypeCorrect == RemoteSpec => []RemoteTypeOK
<1>1. IInv => RemoteTypeOK
  BY DEF IInv
<1> QED
  BY RemoteInvariant, <1>1, PTL

\* No command reaches the broker or the gateway without its row in the database
\* (README_V1.2_MQTT.md:25, "records the audit entry"), however many web
\* processes there are and wherever they stop.
THEOREM RemoteAudited == RemoteSpec => []Audited
<1>1. IInv => Audited
  BY DEF IInv, RecordedInv, Audited
<1> QED
  BY RemoteInvariant, <1>1, PTL

\* A terminal status in the database is the gateway's own (mqtt_worker.py:77-81),
\* whatever is lost, sent again or filed twice on the way.
THEOREM RemoteOutcomeIsTrue == RemoteSpec => []OutcomeIsTrue
<1>1. IInv => OutcomeIsTrue
  BY DEF IInv
<1> QED
  BY RemoteInvariant, <1>1, PTL

\* Only a stop of its own process in the middle of the request leaves a command
\* queued (remote_app.py:157-182), for any number of processes and commands.
THEOREM RemoteQueuedIsHandled == RemoteSpec => []QueuedIsHandled
<1>1. IInv => QueuedIsHandled
  BY DEF IInv
<1> QED
  BY RemoteInvariant, <1>1, PTL
===============================================================================
