------------------------- MODULE CommandBridgeProofs -------------------------
(***************************************************************************)
(* Proofs about the command bridge for any set of requests and any number  *)
(* of deliveries, port failures and crashes.                               *)
(*                                                                         *)
(* The argument for AtMostOnce: a request that has been written to the MCU *)
(* is in the table, or was pruned from it, or was in doubt when the process*)
(* stopped, or is the one in doubt now; and a request on its way to Write  *)
(* is not in the table and not in doubt.  For TerminalIsStable: the last   *)
(* status reported, when terminal, is the status in the table.             *)
(* For SucceededIsAcked and FailedIsNotAcked: the ids of commands grow, so *)
(* an answer to the line the thread waits for is about its own command, if *)
(* not about a GET of the same id; and what an answer means lasts.         *)
(***************************************************************************)
EXTENDS CommandBridge, FiniteSetTheorems, TLAPS

Row == [req : Requests, status : Terminal, age : Nat]

\* The table holds one row per request, "rejected" for every request that
\* _request_id refuses.
TableInv ==
  /\ \A c, d \in completed : c.req = d.req => c = d
  /\ \A c \in completed : c.req \in Misaddressed => c.status = "rejected"

HasRow(r, s) == \E c \in completed : c.req = r /\ c.status = s

\* What the network thread has established at each step of handle.
NetInv ==
  /\ net.pc \in {"check", "allocate", "reread", "write", "wait"}
       => net.req \in Requests /\ net.req \notin Misaddressed \cup Remembered
  /\ net.pc = "remember" =>
       /\ net.req \in Requests
       /\ net.outcome \in Terminal
       /\ net.req \notin Misaddressed => net.req \notin Remembered
       /\ net.req \in Misaddressed => net.outcome = "rejected"
  /\ net.pc = "publish" =>
       /\ net.req \in Requests
       /\ net.outcome \in Terminal
       /\ HasRow(net.req, net.outcome)

\* Every command ever written is accounted for.
SentInv ==
  \A s \in sent :
    \/ s.req \in {NoRequest} \cup Remembered \cup forgotten \cup interrupted
    \/ InDoubt /\ net.req = s.req

\* A terminal status that was reported is the one in the table.
ReportedInv ==
  \A r \in Requests :
    reported[r] \in Terminal => r \in forgotten \/ HasRow(r, reported[r])

IInv == TypeOK /\ TableInv /\ NetInv /\ SentInv /\ ReportedInv /\ AtMostOnce

-------------------------------------------------------------------------------
\* remember_completed: the request's row is in the table afterwards, every other
\* row is kept with its status or its request counted as forgotten.
LEMMA RememberTable ==
  ASSUME TypeOK, TableInv, NEW r \in Requests, NEW s \in Terminal, Remember(r, s),
         r \in Misaddressed => s = "rejected"
  PROVE  /\ completed' \in SUBSET Row
         /\ TableInv'
         /\ HasRow(r, s)'
         /\ \A q \in Requests, t \in Terminal :
              q # r /\ HasRow(q, t) => HasRow(q, t)' \/ q \in forgotten'
         /\ forgotten \subseteq forgotten' /\ forgotten' \in SUBSET Requests
         /\ Remembered' \subseteq Remembered \cup {r}
         /\ Remembered \cup {r} \subseteq Remembered' \cup forgotten'
<1> DEFINE new == [req |-> r, status |-> s, age |-> 0]
           old == {[c EXCEPT !.age = @ + 1] : c \in {d \in completed : d.req # r}}
           S   == old \cup {new}
<1>1. completed \in SUBSET Row
  BY DEF TypeOK, Row
<1>2. completed' = Prune(S)
  BY DEF Remember
<1>3. \A c \in old : \E d \in completed :
        d.req # r /\ c = [req |-> d.req, status |-> d.status, age |-> d.age + 1]
  BY <1>1 DEF Row
<1>4. S \in SUBSET Row
  BY <1>1, <1>3 DEF Row
<1>5. completed' \in SUBSET S
  BY <1>2 DEF Prune
<1>6. new \in completed'
  <2>1. {d \in S : d.age < new.age} = {}
    BY <1>4 DEF Row
  <2>2. Cardinality({d \in S : d.age < new.age}) < KeepResults
    BY <2>1, FS_EmptySet, BoundsAssumption
  <2> QED
    BY <1>2, <2>2 DEF Prune
<1>7. HasRow(r, s)'
  BY <1>6 DEF HasRow
<1>8. TableInv'
  <2>1. ASSUME NEW c \in completed', NEW d \in completed', c.req = d.req
        PROVE  c = d
    <3>1. CASE c.req = r
      BY <1>3, <1>5, <2>1, <3>1
    <3>2. CASE c.req # r
      BY <1>3, <1>5, <2>1, <3>2 DEF TableInv
    <3> QED
      BY <3>1, <3>2
  <2>2. ASSUME NEW c \in completed', c.req \in Misaddressed
        PROVE  c.status = "rejected"
    BY <1>3, <1>5, <2>2 DEF TableInv
  <2> QED
    BY <2>1, <2>2 DEF TableInv
<1>9. forgotten' = forgotten \cup ((Remembered \cup {r}) \ Remembered')
  BY DEF Remember, Remembered
<1>10. Remembered \in SUBSET Requests
  BY <1>1 DEF Remembered, Row
<1>11. Remembered' \subseteq Remembered \cup {r}
  BY <1>3, <1>5 DEF Remembered
<1>12. /\ forgotten \subseteq forgotten'
       /\ Remembered \cup {r} \subseteq Remembered' \cup forgotten'
       /\ forgotten' \in SUBSET Requests
  BY <1>9, <1>10 DEF TypeOK
<1>13. ASSUME NEW q \in Requests, NEW t \in Terminal, q # r, HasRow(q, t),
              q \notin forgotten'
       PROVE  HasRow(q, t)'
  <2>1. PICK d \in completed : d.req = q /\ d.status = t
    BY <1>13 DEF HasRow
  <2>2. q \in Remembered'
    BY <1>12, <1>13, <2>1 DEF Remembered
  <2>3. PICK c \in completed' : c.req = q
    BY <2>2 DEF Remembered
  <2>4. \E e \in completed : e.req = q /\ c.status = e.status
    BY <1>3, <1>5, <1>13, <2>3
  <2>5. c.status = t
    BY <2>1, <2>4 DEF TableInv
  <2> QED
    BY <2>3, <2>5 DEF HasRow
<1> QED
  BY <1>4, <1>5, <1>7, <1>8, <1>11, <1>12, <1>13

-------------------------------------------------------------------------------
(* Type correctness                                                          *)

LEMMA TypeInit == Init => TypeOK
<1> SUFFICES ASSUME Init PROVE TypeOK
  OBVIOUS
<1>1. net \in NetState
  BY DEF Init, NetIdle, NetState
<1>2. toMcu \in Seq(Line) /\ toHost \in Seq(Reply)
  BY DEF Init
<1>3. deliveries \in Nat /\ reported \in [Requests -> Status]
  BY DEF Init, Status
<1> QED
  BY <1>1, <1>2, <1>3 DEF Init, TypeOK

LEMMA TypeNext == IInv /\ [Next]_vars => TypeOK'
<1> SUFFICES ASSUME IInv, [Next]_vars PROVE TypeOK'
  OBVIOUS
<1>0. TypeOK /\ NetInv /\ TableInv
  BY DEF IInv
<1> USE DEF TypeOK, processVars, lineVars, historyVars
<1>1. ASSUME NEW r \in Requests, AnswerFromTable(r) PROVE TypeOK'
  BY <1>0, <1>1 DEF AnswerFromTable, Delivered, Publish, Status
<1>2. ASSUME NEW r \in Requests, Reject(r) PROVE TypeOK'
  <2>1. net' \in NetState
    BY <1>0, <1>2 DEF Reject, NetState, Terminal
  <2> QED
    BY <1>0, <1>2, <2>1 DEF Reject, Delivered
<1>3. ASSUME NEW r \in Requests, Accept(r) PROVE TypeOK'
  <2>1. net' \in NetState
    BY <1>0, <1>3 DEF Accept, NetState
  <2> QED
    BY <1>0, <1>3, <2>1 DEF Accept, Delivered, Publish, Status
<1>4. CASE CheckPort
  <2>1. net' \in NetState
    BY <1>0, <1>4 DEF CheckPort, NetState, Terminal
  <2> QED
    BY <1>0, <1>4, <2>1 DEF CheckPort
<1>5. CASE Increment
  <2>1. net' \in NetState
    BY <1>0, <1>5 DEF Increment, NetState, Terminal
  <2> QED
    BY <1>0, <1>5, <2>1 DEF Increment
<1>6. CASE TakeId
  <2>1. net' \in NetState
    BY <1>0, <1>6 DEF TakeId, NetState, Terminal
  <2> QED
    BY <1>0, <1>6, <2>1 DEF TakeId
<1>7. CASE Write
  <2>1. net' \in NetState
    BY <1>0, <1>7 DEF Write, NetState
  <2> QED
    BY <1>0, <1>7, <2>1 DEF Write, Line, NetState
<1>8. CASE WriteRaises
  <2>1. net' \in NetState
    BY <1>0, <1>8 DEF WriteRaises, NetState, Terminal
  <2> QED
    BY <1>0, <1>8, <2>1 DEF WriteRaises
<1>9. CASE Answered
  <2>1. net' \in NetState
    BY <1>0, <1>9 DEF Answered, NetState, Terminal
  <2> QED
    BY <1>0, <1>9, <2>1 DEF Answered
<1>10. CASE TimedOut
  <2>1. net' \in NetState
    BY <1>0, <1>10 DEF TimedOut, NetState, Terminal
  <2> QED
    BY <1>0, <1>10, <2>1 DEF TimedOut
<1>11. CASE RememberResult
  <2>1. /\ net.req \in Requests /\ net.outcome \in Terminal
        /\ net.req \in Misaddressed => net.outcome = "rejected"
    BY <1>0, <1>11 DEF RememberResult, NetInv
  <2>2. completed' \in SUBSET Row /\ forgotten' \in SUBSET Requests
    BY <1>0, <1>11, <2>1, RememberTable DEF RememberResult
  <2>3. net' \in NetState
    BY <1>0, <1>11 DEF RememberResult, NetState
  <2> QED
    BY <1>0, <1>11, <2>2, <2>3 DEF RememberResult, Row
<1>12. CASE PublishResult
  <2>1. net' \in NetState
    BY <1>12 DEF PublishResult, NetState, NetIdle
  <2> QED
    BY <1>0, <1>12, <2>1 DEF PublishResult, NetInv, Publish, Status
<1>13. CASE OpenPort
  BY <1>0, <1>13 DEF OpenPort
<1>14. CASE WorkerIncrement
  BY <1>0, <1>14 DEF WorkerIncrement
<1>15. CASE WorkerWriteGet
  BY <1>0, <1>15 DEF WorkerWriteGet, Line
<1>16. CASE NoticeFailure
  BY <1>0, <1>16 DEF NoticeFailure
<1>17. CASE ReadAnswer
  <2>1. Head(toHost) \in Reply /\ Tail(toHost) \in Seq(Reply)
    BY <1>0, <1>17 DEF ReadAnswer
  <2>2. net' \in NetState
    BY <1>0, <1>17, <2>1 DEF ReadAnswer, NetState, Reply
  <2> QED
    BY <1>0, <1>17, <2>1, <2>2 DEF ReadAnswer
<1>18. CASE McuAcknowledges
  <2>1. Head(toMcu) \in Line /\ Tail(toMcu) \in Seq(Line)
    BY <1>0, <1>18 DEF McuAcknowledges
  <2> QED
    BY <1>0, <1>18, <2>1 DEF McuAcknowledges, Line, Reply
<1>19. CASE McuRefuses
  <2>1. Head(toMcu) \in Line /\ Tail(toMcu) \in Seq(Line)
    BY <1>0, <1>19 DEF McuRefuses
  <2> QED
    BY <1>0, <1>19, <2>1 DEF McuRefuses, Line, Reply
<1>20. CASE LineToMcuGarbled
  BY <1>0, <1>20 DEF LineToMcuGarbled
<1>21. CASE LineToHostGarbled
  BY <1>0, <1>21 DEF LineToHostGarbled
<1>22. CASE PortFails
  BY <1>0, <1>22 DEF PortFails
<1>23. CASE Crash
  <2>1. net' \in NetState
    BY <1>0, <1>23 DEF Crash, NetState, NetIdle
  <2>2. interrupted' \in SUBSET Requests
    <3>1. InDoubt => net.req \in Requests
      BY <1>0 DEF InDoubt, NetInv
    <3>2. \/ interrupted' = interrupted
          \/ InDoubt /\ interrupted' = interrupted \cup {net.req}
      BY <1>23, Zenon DEF Crash
    <3> QED
      BY <1>0, <3>1, <3>2
  <2>3. toHost' \in Seq(Reply) /\ worker' = "closed" /\ port' = "none" /\ connected' = FALSE
    BY <1>23 DEF Crash
  <2>4. /\ crashes' \in Nat
        /\ UNCHANGED <<counter, toMcu, acked, reported, sent, forgotten, completed,
                       deliveries, failures>>
    BY <1>0, <1>23 DEF Crash
  <2> QED
    BY <1>0, <2>1, <2>2, <2>3, <2>4
<1>24. CASE UNCHANGED vars
  BY <1>0, <1>24 DEF vars
<1>25. CASE Stumble
  <2>1. net' \in NetState
    BY <1>0, <1>25 DEF Stumble, NetState
  <2> QED
    BY <1>0, <1>25, <2>1 DEF Stumble
<1> QED
  BY <1>1, <1>2, <1>3, <1>4, <1>5, <1>6, <1>7, <1>8, <1>9, <1>10, <1>11, <1>12,
     <1>13, <1>14, <1>15, <1>16, <1>17, <1>18, <1>19, <1>20, <1>21, <1>22, <1>23, <1>24,
     <1>25
     DEF Next, NetThread, WorkerThread, Environment

-------------------------------------------------------------------------------
(* The inductive invariant                                                   *)

Parts == TableInv /\ NetInv /\ SentInv /\ ReportedInv /\ AtMostOnce

LEMMA PartsInit == Init => Parts
<1> SUFFICES ASSUME Init PROVE Parts
  OBVIOUS
<1> QED
  BY DEF Init, Parts, TableInv, NetInv, SentInv, ReportedInv, AtMostOnce, NetIdle,
         Terminal

\* Steps that leave the table and the history alone only have to keep what the
\* network thread has established, and a command in doubt in doubt.
LEMMA PartsFrame ==
  ASSUME Parts,
         UNCHANGED <<completed, sent, reported, forgotten, interrupted>>,
         NetInv', InDoubt => InDoubt' /\ net'.req = net.req
  PROVE  Parts'
<1>1. TableInv'
  BY DEF Parts, TableInv
<1>2. SentInv'
  BY DEF Parts, SentInv, Remembered
<1>3. ReportedInv'
  BY DEF Parts, ReportedInv, HasRow
<1>4. AtMostOnce'
  BY DEF Parts, AtMostOnce
<1> QED
  BY <1>1, <1>2, <1>3, <1>4 DEF Parts

LEMMA PartsNext == IInv /\ [Next]_vars => Parts'
<1> SUFFICES ASSUME IInv, [Next]_vars PROVE Parts'
  OBVIOUS
<1>0. TypeOK /\ Parts /\ TableInv /\ NetInv /\ SentInv /\ ReportedInv /\ AtMostOnce
  BY DEF IInv, Parts
<1> USE DEF processVars, lineVars, historyVars
<1>1. ASSUME NEW r \in Requests, AnswerFromTable(r) PROVE Parts'
  <2>1. /\ UNCHANGED <<net, completed, sent, forgotten, interrupted>>
        /\ \E c \in completed : c.req = r /\ reported' = [reported EXCEPT ![r] = c.status]
    BY <1>1 DEF AnswerFromTable, Delivered, Publish
  <2>2. ReportedInv'
    BY <1>0, <2>1 DEF ReportedInv, HasRow, TypeOK
  <2>3. TableInv' /\ NetInv' /\ SentInv' /\ AtMostOnce'
    BY <1>0, <2>1
       DEF TableInv, NetInv, SentInv, AtMostOnce, HasRow, Remembered, InDoubt
  <2> QED
    BY <2>2, <2>3 DEF Parts
<1>2. ASSUME NEW r \in Requests, Reject(r) PROVE Parts'
  <2>1. /\ UNCHANGED <<completed, sent, reported, forgotten, interrupted>>
        /\ net.pc = "idle"
        /\ r \in Misaddressed \cup (Invalid \ Remembered)
        /\ net' = [net EXCEPT !.pc = "remember", !.req = r, !.outcome = "rejected"]
    BY <1>2 DEF Reject, Delivered
  <2>2. net'.pc = "remember" /\ net'.req = r /\ net'.outcome = "rejected"
    BY <1>0, <2>1 DEF TypeOK, NetState
  <2>3. NetInv'
    BY <2>1, <2>2 DEF NetInv, Remembered, Terminal
  <2> QED
    BY <1>0, <2>1, <2>3, PartsFrame DEF InDoubt
<1>3. ASSUME NEW r \in Requests, Accept(r) PROVE Parts'
  <2>1. /\ UNCHANGED <<completed, sent, forgotten, interrupted>>
        /\ net.pc = "idle"
        /\ r \notin Misaddressed \cup Remembered
        /\ net' = [net EXCEPT !.pc = "check", !.req = r]
        /\ reported' = [reported EXCEPT ![r] = "received"]
    BY <1>3 DEF Accept, Delivered, Unknown, Publish
  <2>2. net'.pc = "check" /\ net'.req = r
    BY <1>0, <2>1 DEF TypeOK, NetState
  <2>3. NetInv'
    BY <2>1, <2>2 DEF NetInv, Remembered
  <2>4. ReportedInv'
    BY <1>0, <2>1 DEF ReportedInv, HasRow, TypeOK, Terminal
  <2>5. TableInv' /\ SentInv' /\ AtMostOnce'
    BY <1>0, <2>1 DEF TableInv, SentInv, AtMostOnce, Remembered, InDoubt
  <2> QED
    BY <2>3, <2>4, <2>5 DEF Parts
<1>4. CASE CheckPort
  <2>1. /\ UNCHANGED <<completed, sent, reported, forgotten, interrupted>>
        /\ net.pc = "check" /\ net'.req = net.req
        /\ \/ net'.pc = "allocate"
           \/ net'.pc = "remember" /\ net'.outcome = "failed"
    BY <1>0, <1>4 DEF CheckPort, TypeOK, NetState
  <2>2. NetInv'
    BY <1>0, <2>1 DEF NetInv, Remembered, Terminal
  <2> QED
    BY <1>0, <2>1, <2>2, PartsFrame DEF InDoubt
<1>5. CASE Increment
  <2>1. /\ UNCHANGED <<completed, sent, reported, forgotten, interrupted>>
        /\ net.pc = "allocate" /\ net'.pc = "reread" /\ net'.req = net.req
    BY <1>0, <1>5 DEF Increment, TypeOK, NetState
  <2>2. NetInv'
    BY <1>0, <2>1 DEF NetInv, Remembered, Terminal
  <2> QED
    BY <1>0, <2>1, <2>2, PartsFrame DEF InDoubt
<1>6. CASE TakeId
  <2>1. /\ UNCHANGED <<completed, sent, reported, forgotten, interrupted>>
        /\ net.pc = "reread" /\ net'.pc = "write" /\ net'.req = net.req
    BY <1>0, <1>6 DEF TakeId, TypeOK, NetState
  <2>2. NetInv'
    BY <1>0, <2>1 DEF NetInv, Remembered, Terminal
  <2> QED
    BY <1>0, <2>1, <2>2, PartsFrame DEF InDoubt
<1>7. CASE Write
  <2> DEFINE l == [id |-> net.id, req |-> net.req]
  <2>1. /\ UNCHANGED <<completed, reported, forgotten, interrupted>>
        /\ net.pc = "write" /\ net'.pc = "wait" /\ net'.req = net.req
        /\ sent' = sent \cup {l}
    BY <1>0, <1>7 DEF Write, TypeOK, NetState
  <2>2. net.req \in Requests \ (Misaddressed \cup Remembered)
    BY <1>0, <2>1 DEF NetInv
  <2>3. \A s \in sent : s.req = net.req => s.req \in forgotten \cup interrupted
    BY <1>0, <2>1, <2>2, RequestsAssumption DEF SentInv, InDoubt
  <2>4. AtMostOnce'
    BY <1>0, <2>1, <2>3 DEF AtMostOnce
  <2>5. SentInv'
    BY <1>0, <2>1 DEF SentInv, InDoubt, Remembered
  <2>6. NetInv' /\ TableInv' /\ ReportedInv'
    BY <1>0, <2>1, <2>2 DEF NetInv, TableInv, ReportedInv, HasRow, Remembered
  <2> QED
    BY <2>4, <2>5, <2>6 DEF Parts
<1>8. CASE WriteRaises
  <2>1. /\ UNCHANGED <<completed, sent, reported, forgotten, interrupted>>
        /\ net.pc = "write" /\ net'.pc = "dead"
    BY <1>0, <1>8 DEF WriteRaises, TypeOK, NetState
  <2>2. NetInv'
    BY <1>0, <2>1 DEF NetInv, Remembered, Terminal
  <2> QED
    BY <1>0, <2>1, <2>2, PartsFrame DEF InDoubt
<1>9. CASE Answered
  <2>1. /\ UNCHANGED <<completed, sent, reported, forgotten, interrupted>>
        /\ net.pc = "wait" /\ net'.pc = "remember" /\ net'.req = net.req
        /\ net'.outcome \in {"succeeded", "failed"}
    BY <1>0, <1>9 DEF Answered, TypeOK, NetState
  <2>2. NetInv'
    BY <1>0, <2>1 DEF NetInv, Remembered, Terminal
  <2> QED
    BY <1>0, <2>1, <2>2, PartsFrame DEF InDoubt
<1>10. CASE TimedOut
  <2>1. /\ UNCHANGED <<completed, sent, reported, forgotten, interrupted>>
        /\ net.pc = "wait" /\ net'.pc = "remember" /\ net'.req = net.req
        /\ net'.outcome = "timed_out"
    BY <1>0, <1>10 DEF TimedOut, TypeOK, NetState
  <2>2. NetInv'
    BY <1>0, <2>1 DEF NetInv, Remembered, Terminal
  <2> QED
    BY <1>0, <2>1, <2>2, PartsFrame DEF InDoubt
<1>11. CASE RememberResult
  <2>1. /\ net.req \in Requests /\ net.outcome \in Terminal
        /\ net.req \in Misaddressed => net.outcome = "rejected"
        /\ net.req \notin Misaddressed => net.req \notin Remembered
    BY <1>0, <1>11 DEF RememberResult, NetInv
  <2>2. /\ Remember(net.req, net.outcome)
        /\ UNCHANGED <<reported, sent, interrupted>>
        /\ net'.pc = "publish" /\ net'.req = net.req /\ net'.outcome = net.outcome
    BY <1>0, <1>11 DEF RememberResult, TypeOK, NetState
  <2>3. /\ TableInv'
        /\ HasRow(net.req, net.outcome)'
        /\ \A q \in Requests, t \in Terminal :
             q # net.req /\ HasRow(q, t) => HasRow(q, t)' \/ q \in forgotten'
        /\ forgotten \subseteq forgotten'
        /\ Remembered \cup {net.req} \subseteq Remembered' \cup forgotten'
    BY <1>0, <2>1, <2>2, RememberTable
  <2>4. NetInv'
    BY <2>1, <2>2, <2>3 DEF NetInv, HasRow
  <2>5. SentInv'
    BY <1>0, <2>2, <2>3 DEF SentInv
  <2>6. AtMostOnce'
    BY <1>0, <2>2, <2>3 DEF AtMostOnce
  <2>7. ReportedInv'
    <3> SUFFICES ASSUME NEW r \in Requests, reported[r] \in Terminal, r \notin forgotten'
                 PROVE  HasRow(r, reported[r])'
      BY <2>2 DEF ReportedInv, HasRow
    <3>1. r \notin forgotten /\ HasRow(r, reported[r])
      BY <1>0, <2>3 DEF ReportedInv
    <3>2. CASE r # net.req
      BY <2>2, <2>3, <3>1, <3>2 DEF HasRow
    <3>3. CASE r = net.req
      <4>1. r \in Misaddressed /\ net.outcome = "rejected"
        BY <2>1, <3>1, <3>3 DEF HasRow, Remembered
      <4>2. reported[r] = "rejected"
        BY <1>0, <3>1, <4>1 DEF HasRow, TableInv
      <4> QED
        BY <2>2, <2>3, <3>3, <4>1, <4>2 DEF HasRow
    <3> QED
      BY <3>2, <3>3
  <2> QED
    BY <2>3, <2>4, <2>5, <2>6, <2>7 DEF Parts
<1>12. CASE PublishResult
  <2>1. /\ UNCHANGED <<completed, sent, forgotten, interrupted>>
        /\ net.pc = "publish" /\ net'.pc = "idle"
        /\ reported' = [reported EXCEPT ![net.req] = net.outcome]
    BY <1>12 DEF PublishResult, Publish, NetIdle
  <2>2. HasRow(net.req, net.outcome)
    BY <1>0, <2>1 DEF NetInv
  <2>3. ReportedInv'
    BY <1>0, <2>1, <2>2 DEF ReportedInv, HasRow, TypeOK
  <2>4. NetInv' /\ TableInv' /\ SentInv' /\ AtMostOnce'
    BY <1>0, <2>1 DEF NetInv, TableInv, SentInv, AtMostOnce, InDoubt, Remembered
  <2> QED
    BY <2>3, <2>4 DEF Parts
<1>13. CASE OpenPort
  <2>1. UNCHANGED <<net, completed, sent, reported, forgotten, interrupted>>
    BY <1>13 DEF OpenPort
  <2>2. NetInv'
    BY <1>0, <2>1 DEF NetInv, HasRow, Remembered
  <2> QED
    BY <1>0, <2>1, <2>2, PartsFrame DEF InDoubt
<1>14. CASE WorkerIncrement
  <2>1. UNCHANGED <<net, completed, sent, reported, forgotten, interrupted>>
    BY <1>14 DEF WorkerIncrement
  <2>2. NetInv'
    BY <1>0, <2>1 DEF NetInv, HasRow, Remembered
  <2> QED
    BY <1>0, <2>1, <2>2, PartsFrame DEF InDoubt
<1>15. CASE WorkerWriteGet
  <2>1. /\ UNCHANGED <<net, completed, reported, forgotten, interrupted>>
        /\ sent' = sent \cup {[id |-> counter, req |-> NoRequest]}
    BY <1>15 DEF WorkerWriteGet
  <2>2. NetInv' /\ TableInv' /\ ReportedInv'
    BY <1>0, <2>1 DEF NetInv, TableInv, ReportedInv, HasRow, Remembered
  <2>3. SentInv' /\ AtMostOnce'
    BY <1>0, <2>1 DEF SentInv, AtMostOnce, InDoubt, Remembered
  <2> QED
    BY <2>2, <2>3 DEF Parts
<1>16. CASE NoticeFailure
  <2>1. UNCHANGED <<net, completed, sent, reported, forgotten, interrupted>>
    BY <1>16 DEF NoticeFailure
  <2>2. NetInv'
    BY <1>0, <2>1 DEF NetInv, HasRow, Remembered
  <2> QED
    BY <1>0, <2>1, <2>2, PartsFrame DEF InDoubt
<1>17. CASE ReadAnswer
  <2>1. /\ UNCHANGED <<completed, sent, reported, forgotten, interrupted>>
        /\ net'.pc = net.pc /\ net'.req = net.req /\ net'.outcome = net.outcome
    BY <1>0, <1>17 DEF ReadAnswer, TypeOK, NetState
  <2>2. NetInv'
    BY <1>0, <2>1 DEF NetInv, HasRow, Remembered
  <2> QED
    BY <1>0, <2>1, <2>2, PartsFrame DEF InDoubt
<1>18. CASE McuAcknowledges
  <2>1. UNCHANGED <<net, completed, sent, reported, forgotten, interrupted>>
    BY <1>18 DEF McuAcknowledges
  <2>2. NetInv'
    BY <1>0, <2>1 DEF NetInv, HasRow, Remembered
  <2> QED
    BY <1>0, <2>1, <2>2, PartsFrame DEF InDoubt
<1>19. CASE McuRefuses
  <2>1. UNCHANGED <<net, completed, sent, reported, forgotten, interrupted>>
    BY <1>19 DEF McuRefuses
  <2>2. NetInv'
    BY <1>0, <2>1 DEF NetInv, HasRow, Remembered
  <2> QED
    BY <1>0, <2>1, <2>2, PartsFrame DEF InDoubt
<1>20. CASE LineToMcuGarbled
  <2>1. UNCHANGED <<net, completed, sent, reported, forgotten, interrupted>>
    BY <1>20 DEF LineToMcuGarbled
  <2>2. NetInv'
    BY <1>0, <2>1 DEF NetInv, HasRow, Remembered
  <2> QED
    BY <1>0, <2>1, <2>2, PartsFrame DEF InDoubt
<1>21. CASE LineToHostGarbled
  <2>1. UNCHANGED <<net, completed, sent, reported, forgotten, interrupted>>
    BY <1>21 DEF LineToHostGarbled
  <2>2. NetInv'
    BY <1>0, <2>1 DEF NetInv, HasRow, Remembered
  <2> QED
    BY <1>0, <2>1, <2>2, PartsFrame DEF InDoubt
<1>22. CASE PortFails
  <2>1. UNCHANGED <<net, completed, sent, reported, forgotten, interrupted>>
    BY <1>22 DEF PortFails
  <2>2. NetInv'
    BY <1>0, <2>1 DEF NetInv, HasRow, Remembered
  <2> QED
    BY <1>0, <2>1, <2>2, PartsFrame DEF InDoubt
<1>23. CASE Crash
  <2>1. /\ UNCHANGED <<completed, sent, reported, forgotten>>
        /\ net'.pc = "idle"
        /\ interrupted \subseteq interrupted'
    BY <1>23 DEF Crash, NetIdle
  <2>2. InDoubt => net.req \in interrupted'
    BY <1>23 DEF Crash
  <2>3. SentInv' /\ AtMostOnce'
    BY <1>0, <2>1, <2>2 DEF SentInv, AtMostOnce, Remembered
  <2>4. NetInv' /\ TableInv' /\ ReportedInv'
    BY <1>0, <2>1 DEF NetInv, TableInv, ReportedInv, HasRow
  <2> QED
    BY <2>3, <2>4 DEF Parts
<1>24. CASE UNCHANGED vars
  <2>1. UNCHANGED <<net, completed, sent, reported, forgotten, interrupted>>
    BY <1>24 DEF vars
  <2>2. NetInv'
    BY <1>0, <2>1 DEF NetInv, HasRow, Remembered
  <2> QED
    BY <1>0, <2>1, <2>2, PartsFrame DEF InDoubt
<1>25. CASE Stumble
  <2>1. /\ UNCHANGED <<completed, sent, reported, forgotten, interrupted>>
        /\ net.pc = "idle" /\ net' = [net EXCEPT !.pc = "dead"]
    BY <1>25 DEF Stumble
  <2>2. net'.pc = "dead"
    BY <1>0, <2>1 DEF TypeOK, NetState
  <2>3. NetInv'
    BY <2>2 DEF NetInv
  <2> QED
    BY <1>0, <2>1, <2>2, <2>3, PartsFrame DEF InDoubt
<1> QED
  BY <1>1, <1>2, <1>3, <1>4, <1>5, <1>6, <1>7, <1>8, <1>9, <1>10, <1>11, <1>12,
     <1>13, <1>14, <1>15, <1>16, <1>17, <1>18, <1>19, <1>20, <1>21, <1>22, <1>23, <1>24,
     <1>25
     DEF Next, NetThread, WorkerThread, Environment

\* The inductive invariant of the bridge.
THEOREM BridgeInvariant == Spec => []IInv
<1>1. Init => IInv
  BY TypeInit, PartsInit DEF IInv, Parts
<1>2. IInv /\ [Next]_vars => IInv'
  BY TypeNext, PartsNext DEF IInv, Parts
<1> QED
  BY <1>1, <1>2, PTL DEF Spec

\* Every variable keeps its type.
THEOREM BridgeTypeCorrect == Spec => []TypeOK
<1>1. IInv => TypeOK
  BY DEF IInv
<1> QED
  BY <1>1, BridgeInvariant, PTL

\* A command is written to the MCU once, however often it is delivered, unless
\* its row was pruned or the process stopped while it was in doubt.
THEOREM BridgeAtMostOnce == Spec => []AtMostOnce
<1>1. IInv => AtMostOnce
  BY DEF IInv
<1> QED
  BY <1>1, BridgeInvariant, PTL

\* A terminal status, once reported, is the only thing reported from then on,
\* across redeliveries and crashes, unless its row was pruned.
THEOREM BridgeTerminalIsStable == Spec => TerminalIsStable
<1> DEFINE Stable(r) ==
             reported[r] \in Terminal => reported'[r] = reported[r] \/ r \in forgotten
<1>1. ASSUME IInv, [Next]_vars, NEW r \in Requests PROVE Stable(r)
  <2>0. TypeOK /\ TableInv /\ NetInv /\ ReportedInv
    BY <1>1 DEF IInv
  <2> SUFFICES ASSUME reported[r] \in Terminal, r \notin forgotten
               PROVE  reported'[r] = reported[r]
    OBVIOUS
  <2>1. HasRow(r, reported[r])
    BY <2>0 DEF ReportedInv
  <2>2. ASSUME NEW q \in Requests, AnswerFromTable(q) PROVE reported'[r] = reported[r]
    BY <2>0, <2>1, <2>2 DEF AnswerFromTable, Publish, TypeOK, HasRow, TableInv
  <2>3. ASSUME NEW q \in Requests, Accept(q) PROVE reported'[r] = reported[r]
    BY <2>0, <2>1, <2>3 DEF Accept, Unknown, Publish, TypeOK, HasRow, Remembered
  <2>4. CASE PublishResult
    BY <2>0, <2>1, <2>4 DEF PublishResult, Publish, TypeOK, NetInv, HasRow, TableInv
  <2>5. CASE UNCHANGED reported
    BY <2>5
  <2>6. \/ \E q \in Requests : AnswerFromTable(q) \/ Accept(q)
        \/ PublishResult
        \/ UNCHANGED reported
    BY <1>1
       DEF Next, NetThread, WorkerThread, Environment, vars, processVars, lineVars,
           historyVars, Reject, Stumble, CheckPort, Increment, TakeId, Write, WriteRaises,
           Answered, TimedOut, RememberResult, OpenPort, WorkerIncrement,
           WorkerWriteGet, NoticeFailure, ReadAnswer, McuAcknowledges, McuRefuses,
           LineToMcuGarbled, LineToHostGarbled, PortFails, Crash
  <2> QED
    BY <2>2, <2>3, <2>4, <2>5, <2>6
<1>2. IInv /\ [Next]_vars
        => [\A r \in Requests : Stable(r)]_vars
  BY <1>1
<1> QED
  BY <1>2, BridgeInvariant, PTL DEF Spec, TerminalIsStable

-------------------------------------------------------------------------------
(* What the answers mean.  A line is confirmed when it is a GET or its command *)
(* was acknowledged, refused when it is a GET or nothing will make its command *)
(* acknowledged but a second execution.                                        *)

InFlight == {toMcu[n] : n \in 1..Len(toMcu)}
Answers  == {toHost[n] : n \in 1..Len(toHost)}

\* The exceptions of AtMostOnce: it may be written a second time.
Repeated(r) == r \in forgotten \cup interrupted

Confirmed(s) == s \in sent /\ (s.req = NoRequest \/ s.req \in acked)

Refused(s) ==
  /\ s \in sent
  /\ s.req # NoRequest => s \notin InFlight /\ (s.req \in acked => Repeated(s.req))

\* What a status says of a request.
Done(r) == r \in acked \/ SharesId(r)
Undone(r) ==
  Repeated(r) \/ SharesId(r) \/ (r \notin acked /\ \A l \in InFlight : l.req # r)
Claim(r, status) ==
  (status = "succeeded" => Done(r)) /\ (status = "failed" => Undone(r))

\* The answers that tell the truth.
Founded ==
  {[id |-> s.id, kind |-> "ack"] : s \in {t \in sent : Confirmed(t)}}
    \cup {[id |-> s.id, kind |-> "err"] : s \in {t \in sent : Refused(t)}}

\* A line in flight is on its way once, and the first to get its command done.
WireInv ==
  /\ \A l \in InFlight : l \in sent /\ (l.req \in acked => Repeated(l.req))
  /\ \A m, n \in 1..Len(toMcu) : m # n /\ toMcu[n].req # NoRequest => toMcu[m] # toMcu[n]
  /\ Answers \subseteq Founded
  /\ \A r \in acked : \E s \in sent : s.req = r

\* The ids of commands grow: the thread increments the counter after the last
\* command was written.
IdInv ==
  /\ \A s \in sent : s.id <= counter
  /\ net.pc = "reread" => \A s \in sent : s.req # NoRequest => s.id < counter
  /\ net.pc = "write" => /\ net.id <= counter
                         /\ \A s \in sent : s.req # NoRequest => s.id < net.id
  /\ net.pc = "wait" => /\ [id |-> net.id, req |-> net.req] \in sent
                        /\ \A s \in sent : s.req # NoRequest /\ s.id = net.id
                                             => s.req = net.req

AnswerInv ==
  /\ net.pc \in {"idle", "check", "allocate", "reread"} => net.answer = "none"
  /\ net.pc \in {"write", "wait"} =>
       net.answer = "none" \/ [id |-> net.id, kind |-> net.answer] \in Founded

\* The statuses in the table, last reported, or on their way there.
Claimed(r, t) ==
  \/ HasRow(r, t) \/ reported[r] = t
  \/ net.pc \in {"remember", "publish"} /\ net.req = r /\ net.outcome = t

ClaimInv == \A r \in Requests, t \in Terminal : Claimed(r, t) => Claim(r, t)

MeaningInv == WireInv /\ IdInv /\ AnswerInv /\ ClaimInv

-------------------------------------------------------------------------------
(* What a step does to the lines.  Nothing written, acknowledged, forgotten or *)
(* interrupted is ever undone.                                                 *)

Grow ==
  /\ sent \subseteq sent' /\ acked \subseteq acked'
  /\ \A r \in Requests : Repeated(r) => r \in forgotten' \cup interrupted'

\* A step that neither writes nor has the MCU acknowledge only takes lines away.
Quiet ==
  /\ UNCHANGED <<sent, acked>>
  /\ toMcu' \in {toMcu, <<>>} \/ (toMcu # <<>> /\ toMcu' = Tail(toMcu))
  /\ toHost' \in {toHost, <<>>} \/ (toHost # <<>> /\ toHost' = Tail(toHost))

LEMMA StepGrows == IInv /\ [Next]_vars => Grow
<1> SUFFICES ASSUME IInv, [Next]_vars PROVE Grow
  OBVIOUS
<1>1. CASE RememberResult
  <2>1. /\ TypeOK /\ TableInv
        /\ net.req \in Requests /\ net.outcome \in Terminal
        /\ net.req \in Misaddressed => net.outcome = "rejected"
    BY <1>1 DEF IInv, RememberResult, NetInv
  <2>2. forgotten \subseteq forgotten'
    BY <1>1, <2>1, RememberTable DEF RememberResult
  <2> QED
    BY <1>1, <2>2 DEF Grow, Repeated, RememberResult, lineVars
<1>2. CASE Crash
  BY <1>2 DEF Grow, Repeated, Crash
<1>3. CASE ~RememberResult /\ ~Crash
  <2>1. sent \subseteq sent'
    BY <1>3
    DEF Next, NetThread, WorkerThread, Environment, vars, processVars, lineVars,
        historyVars, AnswerFromTable, Reject, Stumble, Accept, Delivered, CheckPort,
        Increment, TakeId, Write, WriteRaises, Answered, TimedOut, PublishResult, OpenPort,
        WorkerIncrement, WorkerWriteGet, NoticeFailure, ReadAnswer, McuAcknowledges,
        McuRefuses, LineToMcuGarbled, LineToHostGarbled, PortFails
  <2>2. acked \subseteq acked'
    BY <1>3
    DEF Next, NetThread, WorkerThread, Environment, vars, processVars, lineVars,
        historyVars, AnswerFromTable, Reject, Stumble, Accept, Delivered, CheckPort,
        Increment, TakeId, Write, WriteRaises, Answered, TimedOut, PublishResult, OpenPort,
        WorkerIncrement, WorkerWriteGet, NoticeFailure, ReadAnswer, McuAcknowledges,
        McuRefuses, LineToMcuGarbled, LineToHostGarbled, PortFails
  <2>3. UNCHANGED <<forgotten, interrupted>>
    BY <1>3
    DEF Next, NetThread, WorkerThread, Environment, vars, processVars, lineVars,
        historyVars, AnswerFromTable, Reject, Stumble, Accept, Delivered, CheckPort,
        Increment, TakeId, Write, WriteRaises, Answered, TimedOut, PublishResult, OpenPort,
        WorkerIncrement, WorkerWriteGet, NoticeFailure, ReadAnswer, McuAcknowledges,
        McuRefuses, LineToMcuGarbled, LineToHostGarbled, PortFails
  <2> QED
    BY <2>1, <2>2, <2>3 DEF Grow, Repeated
<1> QED
  BY <1>1, <1>2, <1>3

LEMMA StepsOnLines ==
  [Next]_vars => Quiet \/ Write \/ WorkerWriteGet \/ McuAcknowledges \/ McuRefuses
BY DEF Quiet, Next, NetThread, WorkerThread, Environment, vars, processVars, lineVars,
       historyVars, AnswerFromTable, Reject, Stumble, Accept, Delivered, CheckPort,
       Increment, TakeId, WriteRaises, Answered, TimedOut, RememberResult, PublishResult, OpenPort,
       WorkerIncrement, NoticeFailure, ReadAnswer, LineToMcuGarbled, LineToHostGarbled,
       PortFails, Crash

-------------------------------------------------------------------------------
(* The lines in flight                                                         *)

LEMMA InFlightTail ==
  ASSUME toMcu \in Seq(Line), toMcu # <<>>, toMcu' = Tail(toMcu)
  PROVE  /\ InFlight' \subseteq InFlight /\ Head(toMcu) \in InFlight
         /\ Head(toMcu) \in Line
         /\ \A n \in 1..Len(toMcu') : n + 1 \in 1..Len(toMcu) /\ toMcu'[n] = toMcu[n + 1]
<1>1. Len(toMcu) \in Nat /\ Len(toMcu) >= 1
  OBVIOUS
<1>2. Head(toMcu) = toMcu[1] /\ Head(toMcu) \in Line
  BY <1>1
<1>3. Len(toMcu') = Len(toMcu) - 1
  BY <1>1
<1>4. \A n \in 1..Len(toMcu') : n + 1 \in 1..Len(toMcu) /\ toMcu'[n] = toMcu[n + 1]
  BY <1>1, <1>3
<1>5. 1 \in 1..Len(toMcu)
  BY <1>1
<1> QED
  BY <1>2, <1>4, <1>5 DEF InFlight

LEMMA InFlightAppend ==
  ASSUME toMcu \in Seq(Line), NEW l \in Line, toMcu' = Append(toMcu, l)
  PROVE  /\ InFlight' = InFlight \cup {l}
         /\ Len(toMcu') = Len(toMcu) + 1 /\ toMcu'[Len(toMcu) + 1] = l
         /\ \A n \in 1..Len(toMcu) : toMcu'[n] = toMcu[n]
<1>1. Len(toMcu) \in Nat
  OBVIOUS
<1>2. Len(toMcu') = Len(toMcu) + 1 /\ toMcu'[Len(toMcu) + 1] = l
  BY <1>1
<1>3. \A n \in 1..Len(toMcu) : toMcu'[n] = toMcu[n]
  BY <1>1
<1>4. 1..Len(toMcu') = (1..Len(toMcu)) \cup {Len(toMcu) + 1}
  BY <1>1, <1>2
<1> QED
  BY <1>2, <1>3, <1>4 DEF InFlight

LEMMA QuietShrinks ==
  ASSUME TypeOK, Quiet
  PROVE  /\ InFlight' \subseteq InFlight
         /\ \A m, n \in 1..Len(toMcu') :
              m # n => \E i, j \in 1..Len(toMcu) :
                         i # j /\ toMcu'[m] = toMcu[i] /\ toMcu'[n] = toMcu[j]
<1>1. CASE toMcu' = toMcu
  BY <1>1 DEF InFlight
<1>2. CASE toMcu' = <<>>
  BY <1>2 DEF InFlight
<1>3. CASE toMcu # <<>> /\ toMcu' = Tail(toMcu)
  <2>1. /\ InFlight' \subseteq InFlight
        /\ \A n \in 1..Len(toMcu') : n + 1 \in 1..Len(toMcu) /\ toMcu'[n] = toMcu[n + 1]
    BY <1>3, InFlightTail DEF TypeOK
  <2> SUFFICES ASSUME NEW m \in 1..Len(toMcu'), NEW n \in 1..Len(toMcu'), m # n
               PROVE  \E i, j \in 1..Len(toMcu) :
                        i # j /\ toMcu'[m] = toMcu[i] /\ toMcu'[n] = toMcu[j]
    BY <2>1
  <2>2. m + 1 # n + 1
    OBVIOUS
  <2> QED
    BY <2>1, <2>2
<1> QED
  BY <1>1, <1>2, <1>3 DEF Quiet

\* The line at the front is not in flight any more once it is taken: a command's
\* line is there once.
LEMMA HeadLeaves ==
  ASSUME TypeOK, WireInv, toMcu # <<>>, toMcu' = Tail(toMcu),
         Head(toMcu).req # NoRequest
  PROVE  Head(toMcu) \notin InFlight'
<1>1. /\ Len(toMcu) \in Nat /\ Len(toMcu) >= 1 /\ Head(toMcu) = toMcu[1]
      /\ \A n \in 1..Len(toMcu') : n + 1 \in 1..Len(toMcu) /\ toMcu'[n] = toMcu[n + 1]
  BY InFlightTail DEF TypeOK
<1>2. ASSUME NEW n \in 1..Len(toMcu'), toMcu'[n] = Head(toMcu) PROVE FALSE
  <2>1. n + 1 \in 1..Len(toMcu) /\ 1 \in 1..Len(toMcu) /\ n + 1 # 1
    BY <1>1
  <2>2. toMcu[n + 1] = toMcu[1] /\ toMcu[1].req # NoRequest
    BY <1>1, <1>2
  <2> QED
    BY <2>1, <2>2 DEF WireInv
<1> QED
  BY <1>2 DEF InFlight

\* Two lines of one command: the command was forgotten or interrupted.
LEMMA TwiceIsRepeated ==
  ASSUME AtMostOnce, NEW s \in sent, NEW t \in sent, s.req = t.req, s # t,
         s.req # NoRequest
  PROVE  Repeated(s.req)
BY DEF AtMostOnce, Repeated

\* What is acknowledged or in flight was written, and a command in hand that is not
\* in doubt was only written if it is being repeated.
LEMMA UnsentIsUndone ==
  ASSUME IInv, WireInv, NEW r \in Requests, r \notin Remembered, ~(InDoubt /\ net.req = r)
  PROVE  /\ \A s \in sent : s.req = r => Repeated(r)
         /\ r \in acked => Repeated(r)
         /\ \A l \in InFlight : l.req = r => Repeated(r)
<1>1. \A s \in sent : s.req = r => Repeated(r)
  BY RequestsAssumption DEF IInv, SentInv, Repeated
<1> QED
  BY <1>1 DEF WireInv

-------------------------------------------------------------------------------
(* The meanings of answers and statuses last                                   *)

LEMMA ConfirmedStays ==
  ASSUME IInv, [Next]_vars, NEW s, Confirmed(s)
  PROVE  Confirmed(s)'
BY StepGrows DEF Confirmed, Grow

LEMMA DoneStays ==
  ASSUME IInv, [Next]_vars, NEW r \in Requests, Done(r)
  PROVE  Done(r)'
BY StepGrows DEF Done, SharesId, Grow

LEMMA SharedStays ==
  ASSUME IInv, [Next]_vars, NEW r \in Requests, SharesId(r)
  PROVE  SharesId(r)'
BY StepGrows DEF SharesId, Grow

LEMMA RepeatedStays ==
  ASSUME IInv, [Next]_vars, NEW r \in Requests, Repeated(r)
  PROVE  Repeated(r)'
BY StepGrows DEF Repeated, Grow

\* The line the network thread writes is new: its id is above those of all commands.
LEMMA WrittenIsNew ==
  ASSUME IInv, IdInv, Write
  PROVE  /\ net.pc = "write" /\ net.req \in Requests /\ net.req \notin Remembered
         /\ [id |-> net.id, req |-> net.req] \in Line
         /\ [id |-> net.id, req |-> net.req] \notin sent
<1>1. net.pc = "write" /\ net.req \in Requests /\ net.req \notin Remembered /\ net.id \in Nat
  BY DEF IInv, NetInv, TypeOK, NetState, Write
<1>2. ASSUME [id |-> net.id, req |-> net.req] \in sent PROVE FALSE
  BY <1>1, <1>2, RequestsAssumption DEF IdInv
<1> QED
  BY <1>1, <1>2 DEF Line

LEMMA RefusedStays ==
  ASSUME IInv, MeaningInv, [Next]_vars, NEW s, Refused(s)
  PROVE  Refused(s)'
<1>a. CASE s.req = NoRequest
  BY <1>a, StepGrows DEF Refused, Grow
<1> SUFFICES ASSUME s.req # NoRequest PROVE Refused(s)'
  BY <1>a
<1>0. /\ TypeOK /\ AtMostOnce /\ WireInv /\ IdInv
      /\ s \in sent /\ s \in Line /\ s.req # NoRequest /\ s.req \in Requests
      /\ s \notin InFlight /\ (s.req \in acked => Repeated(s.req))
  BY DEF IInv, MeaningInv, Refused, TypeOK, Line
<1>1. s \in sent' /\ (Repeated(s.req) => Repeated(s.req)')
  BY <1>0, StepGrows, RepeatedStays DEF Grow
<1>2. CASE Quiet
  <2>1. InFlight' \subseteq InFlight
    BY <1>0, <1>2, QuietShrinks
  <2> QED
    BY <1>0, <1>1, <1>2, <2>1 DEF Refused, Quiet
<1>3. CASE Write
  <2> DEFINE l == [id |-> net.id, req |-> net.req]
  <2>1. l \in Line /\ l \notin sent
    BY <1>0, <1>3, WrittenIsNew
  <2>2. InFlight' = InFlight \cup {l} /\ acked' = acked
    BY <1>0, <1>3, <2>1, InFlightAppend DEF TypeOK, Write
  <2> QED
    BY <1>0, <1>1, <2>1, <2>2 DEF Refused
<1>4. CASE WorkerWriteGet
  <2> DEFINE l == [id |-> counter, req |-> NoRequest]
  <2>1. l \in Line
    BY <1>0 DEF TypeOK, Line
  <2>2. InFlight' = InFlight \cup {l} /\ acked' = acked
    BY <1>0, <1>4, <2>1, InFlightAppend DEF TypeOK, WorkerWriteGet
  <2> QED
    BY <1>0, <1>1, <2>2 DEF Refused
<1>5. CASE McuAcknowledges
  <2>1. /\ InFlight' \subseteq InFlight /\ Head(toMcu) \in InFlight
        /\ acked' = acked \cup ({Head(toMcu).req} \ {NoRequest})
    BY <1>0, <1>5, InFlightTail DEF TypeOK, McuAcknowledges
  <2>2. s.req = Head(toMcu).req => Repeated(s.req)
    BY <1>0, <2>1, TwiceIsRepeated DEF WireInv
  <2> QED
    BY <1>0, <1>1, <2>1, <2>2 DEF Refused
<1>6. CASE McuRefuses
  <2>1. InFlight' \subseteq InFlight /\ acked' = acked
    BY <1>0, <1>6, InFlightTail DEF TypeOK, McuRefuses
  <2> QED
    BY <1>0, <1>1, <2>1 DEF Refused
<1> QED
  BY <1>2, <1>3, <1>4, <1>5, <1>6, StepsOnLines

\* The exception is a command that is being written.
LEMMA UndoneStays ==
  ASSUME IInv, MeaningInv, [Next]_vars, NEW r \in Requests, Undone(r),
         Write => r # net.req \/ Repeated(r)
  PROVE  Undone(r)'
<1>0. TypeOK /\ AtMostOnce /\ WireInv /\ IdInv
  BY DEF IInv, MeaningInv
<1> SUFFICES ASSUME ~Repeated(r), ~SharesId(r)
             PROVE  r \notin acked' /\ \A l \in InFlight' : l.req # r
  BY RepeatedStays, SharedStays DEF Undone
<1>1. r \notin acked /\ \A l \in InFlight : l.req # r
  BY DEF Undone
<1>2. CASE Quiet
  <2>1. InFlight' \subseteq InFlight
    BY <1>0, <1>2, QuietShrinks
  <2> QED
    BY <1>1, <1>2, <2>1 DEF Quiet
<1>3. CASE Write
  <2> DEFINE l == [id |-> net.id, req |-> net.req]
  <2>1. l \in Line /\ l.req # r
    BY <1>0, <1>3, WrittenIsNew
  <2>2. InFlight' = InFlight \cup {l} /\ acked' = acked
    BY <1>0, <1>3, <2>1, InFlightAppend DEF TypeOK, Write
  <2> QED
    BY <1>1, <2>1, <2>2
<1>4. CASE WorkerWriteGet
  <2> DEFINE l == [id |-> counter, req |-> NoRequest]
  <2>1. l \in Line /\ l.req # r
    BY <1>0, RequestsAssumption DEF TypeOK, Line
  <2>2. InFlight' = InFlight \cup {l} /\ acked' = acked
    BY <1>0, <1>4, <2>1, InFlightAppend DEF TypeOK, WorkerWriteGet
  <2> QED
    BY <1>1, <2>1, <2>2
<1>5. CASE McuAcknowledges
  <2>1. /\ InFlight' \subseteq InFlight /\ Head(toMcu) \in InFlight
        /\ acked' = acked \cup ({Head(toMcu).req} \ {NoRequest})
    BY <1>0, <1>5, InFlightTail DEF TypeOK, McuAcknowledges
  <2> QED
    BY <1>1, <2>1
<1>6. CASE McuRefuses
  <2>1. InFlight' \subseteq InFlight /\ acked' = acked
    BY <1>0, <1>6, InFlightTail DEF TypeOK, McuRefuses
  <2> QED
    BY <1>1, <2>1
<1> QED
  BY <1>2, <1>3, <1>4, <1>5, <1>6, StepsOnLines

-------------------------------------------------------------------------------
(* Every step keeps the four parts                                             *)

LEMMA FoundedGrows == IInv /\ MeaningInv /\ [Next]_vars => Founded \subseteq Founded'
<1> SUFFICES ASSUME IInv, MeaningInv, [Next]_vars PROVE Founded \subseteq Founded'
  OBVIOUS
<1>1. ASSUME NEW s \in sent, Confirmed(s) PROVE s \in sent' /\ Confirmed(s)'
  BY <1>1, ConfirmedStays, StepGrows DEF Grow
<1>2. ASSUME NEW s \in sent, Refused(s) PROVE s \in sent' /\ Refused(s)'
  BY <1>2, RefusedStays, StepGrows DEF Grow
<1> QED
  BY <1>1, <1>2 DEF Founded

LEMMA AnswersTail ==
  ASSUME toHost \in Seq(Reply), toHost # <<>>
  PROVE  /\ Head(toHost) \in Answers
         /\ toHost' = Tail(toHost) => Answers' \subseteq Answers
<1>1. Len(toHost) \in Nat /\ Len(toHost) >= 1 /\ Head(toHost) = toHost[1]
  OBVIOUS
<1>2. ASSUME toHost' = Tail(toHost)
      PROVE  \A n \in 1..Len(toHost') : n + 1 \in 1..Len(toHost) /\ toHost'[n] = toHost[n + 1]
  BY <1>1, <1>2
<1>3. 1 \in 1..Len(toHost)
  BY <1>1
<1>4. Head(toHost) \in Answers
  BY <1>1, <1>3 DEF Answers
<1>5. ASSUME toHost' = Tail(toHost) PROVE Answers' \subseteq Answers
  <2>1. \A n \in 1..Len(toHost') : toHost'[n] \in Answers
    BY <1>2, <1>5 DEF Answers
  <2> QED
    BY <2>1 DEF Answers
<1> QED
  BY <1>4, <1>5

LEMMA AnswersAppend ==
  ASSUME toHost \in Seq(Reply), NEW a \in Reply, toHost' = Append(toHost, a)
  PROVE  Answers' = Answers \cup {a}
<1>1. Len(toHost') = Len(toHost) + 1 /\ toHost'[Len(toHost) + 1] = a /\ Len(toHost) \in Nat
  OBVIOUS
<1>2. \A n \in 1..Len(toHost) : toHost'[n] = toHost[n]
  BY <1>1
<1>3. 1..Len(toHost') = (1..Len(toHost)) \cup {Len(toHost) + 1}
  BY <1>1
<1> QED
  BY <1>1, <1>2, <1>3 DEF Answers

LEMMA WireNext == IInv /\ MeaningInv /\ [Next]_vars => WireInv'
<1> SUFFICES ASSUME IInv, MeaningInv, [Next]_vars PROVE WireInv'
  OBVIOUS
<1>0. TypeOK /\ AtMostOnce /\ WireInv /\ IdInv
  BY DEF IInv, MeaningInv
<1>1. /\ Grow
      /\ \A r \in Requests : Repeated(r) => Repeated(r)'
  BY StepGrows, RepeatedStays
<1>2. Answers \subseteq Founded'
  BY <1>0, FoundedGrows DEF WireInv
<1> DEFINE Fresh == \A l \in InFlight' : l \in sent' /\ (l.req \in acked' => Repeated(l.req)')
           Single == \A m, n \in 1..Len(toMcu') :
                       m # n /\ toMcu'[m] = toMcu'[n] => toMcu'[n].req = NoRequest
           Meant == Answers' \subseteq Founded'
           Known == \A r \in acked' : \E s \in sent' : s.req = r
<1>3. SUFFICES Fresh /\ Single /\ Meant /\ Known
  BY DEF WireInv
<1>4. CASE Quiet
  <2>1. Fresh /\ Known
    BY <1>0, <1>1, <1>4, QuietShrinks DEF Quiet, WireInv, TypeOK, Line
  <2>3. Single
    BY <1>0, <1>4, QuietShrinks DEF WireInv
  <2>2. Answers' \subseteq Answers
    <3>1. CASE toHost' = toHost
      BY <3>1 DEF Answers
    <3>2. CASE toHost' = <<>>
      BY <3>2 DEF Answers
    <3>3. CASE toHost # <<>> /\ toHost' = Tail(toHost)
      BY <1>0, <3>3, AnswersTail DEF TypeOK
    <3> QED
      BY <1>4, <3>1, <3>2, <3>3 DEF Quiet
  <2> QED
    BY <1>2, <2>1, <2>2, <2>3
<1>5. CASE Write
  <2> DEFINE l == [id |-> net.id, req |-> net.req]
  <2>1. /\ l \in Line /\ l \notin sent /\ net.req \in Requests /\ net.req \notin Remembered
        /\ ~InDoubt
    BY <1>0, <1>5, WrittenIsNew DEF InDoubt
  <2>2. /\ toMcu' = Append(toMcu, l) /\ sent' = sent \cup {l}
        /\ UNCHANGED <<acked, toHost>>
    BY <1>5 DEF Write
  <2>3. /\ InFlight' = InFlight \cup {l}
        /\ Len(toMcu') = Len(toMcu) + 1 /\ toMcu'[Len(toMcu) + 1] = l
        /\ \A n \in 1..Len(toMcu) : toMcu'[n] = toMcu[n]
    BY <1>0, <2>1, <2>2, InFlightAppend DEF TypeOK
  <2>4. net.req \in acked => Repeated(net.req)
    BY <1>0, <2>1, UnsentIsUndone
  <2>5. Fresh
    BY <1>0, <1>1, <2>1, <2>2, <2>3, <2>4 DEF WireInv, TypeOK, Line
  <2>6. Single
    <3>1. \A n \in 1..Len(toMcu) : toMcu[n] \in sent
      BY <1>0 DEF WireInv, InFlight
    <3>2. \A n \in 1..Len(toMcu') : n \in 1..Len(toMcu) \/ n = Len(toMcu) + 1
      BY <1>0, <2>3 DEF TypeOK
    <3> QED
      BY <1>0, <2>1, <2>3, <3>1, <3>2 DEF WireInv
  <2>7. Meant
    BY <1>2, <2>2 DEF Answers
  <2>8. Known
    BY <1>0, <2>2 DEF WireInv
  <2> QED
    BY <2>5, <2>6, <2>7, <2>8
<1>6. CASE WorkerWriteGet
  <2> DEFINE l == [id |-> counter, req |-> NoRequest]
  <2>1. l \in Line /\ NoRequest \notin acked'
    BY <1>0, <1>6, RequestsAssumption DEF TypeOK, Line, WorkerWriteGet
  <2>2. /\ toMcu' = Append(toMcu, l) /\ sent' = sent \cup {l}
        /\ UNCHANGED <<acked, toHost>>
    BY <1>6 DEF WorkerWriteGet
  <2>3. /\ InFlight' = InFlight \cup {l}
        /\ Len(toMcu') = Len(toMcu) + 1 /\ toMcu'[Len(toMcu) + 1] = l
        /\ \A n \in 1..Len(toMcu) : toMcu'[n] = toMcu[n]
    BY <1>0, <2>1, <2>2, InFlightAppend DEF TypeOK
  <2>5. Fresh
    BY <1>0, <1>1, <2>1, <2>2, <2>3 DEF WireInv, TypeOK, Line
  <2>6. Single
    <3>2. \A n \in 1..Len(toMcu') : n \in 1..Len(toMcu) \/ n = Len(toMcu) + 1
      BY <1>0, <2>3 DEF TypeOK
    <3> QED
      BY <1>0, <2>1, <2>3, <3>2 DEF WireInv
  <2>7. Meant
    BY <1>2, <2>2 DEF Answers
  <2>8. Known
    BY <1>0, <2>2 DEF WireInv
  <2> QED
    BY <2>5, <2>6, <2>7, <2>8
<1>7. CASE McuAcknowledges \/ McuRefuses
  <2>0. PICK h : h = Head(toMcu)
    OBVIOUS
  <2>1. toMcu # <<>> /\ toMcu' = Tail(toMcu) /\ sent' = sent
    BY <1>7 DEF McuAcknowledges, McuRefuses, historyVars
  <2>2. /\ InFlight' \subseteq InFlight /\ h \in InFlight /\ h \in Line
        /\ \A n \in 1..Len(toMcu') : n + 1 \in 1..Len(toMcu) /\ toMcu'[n] = toMcu[n + 1]
    BY <1>0, <2>0, <2>1, InFlightTail DEF TypeOK
  <2>3. h \in sent /\ (h.req \in acked => Repeated(h.req))
    BY <1>0, <2>2 DEF WireInv
  <2>4. acked' \subseteq acked \cup ({h.req} \ {NoRequest})
    BY <1>7, <2>0 DEF McuAcknowledges, McuRefuses
  <2>5. h.req # NoRequest => h \notin InFlight'
    BY <1>0, <2>0, <2>1, HeadLeaves
  <2>6. Fresh
    <3> SUFFICES ASSUME NEW l \in InFlight', l.req \in acked' PROVE Repeated(l.req)'
      BY <1>0, <2>1, <2>2 DEF WireInv
    <3>1. l \in sent /\ l \in Line
      BY <1>0, <2>2 DEF WireInv, TypeOK
    <3>2. CASE l.req \in acked
      BY <1>0, <1>1, <2>2, <3>2 DEF WireInv, TypeOK
    <3>3. CASE l.req = h.req /\ h.req # NoRequest
      BY <1>0, <1>1, <2>3, <2>5, <3>1, <3>3, TwiceIsRepeated DEF Line
    <3> QED
      BY <2>4, <3>2, <3>3
  <2>7. Single
    <3> SUFFICES ASSUME NEW m \in 1..Len(toMcu'), NEW n \in 1..Len(toMcu'), m # n,
                        toMcu'[m] = toMcu'[n]
                 PROVE  toMcu'[n].req = NoRequest
      OBVIOUS
    <3>1. m + 1 # n + 1
      OBVIOUS
    <3> QED
      BY <1>0, <2>2, <3>1 DEF WireInv
  <2>8. Known
    BY <1>0, <2>1, <2>3, <2>4 DEF WireInv
  <2>9. \E kind \in {"ack", "err"} :
          /\ toHost' = Append(toHost, [id |-> h.id, kind |-> kind])
          /\ [id |-> h.id, kind |-> kind] \in Founded'
    <3>1. CASE McuAcknowledges
      <4>1. Confirmed(h)'
        BY <2>0, <2>1, <2>3, <3>1 DEF McuAcknowledges, Confirmed
      <4>2. [id |-> h.id, kind |-> "ack"] \in Founded'
        BY <2>1, <2>3, <4>1 DEF Founded
      <4> QED
        BY <2>0, <3>1, <4>2 DEF McuAcknowledges
    <3>2. CASE McuRefuses
      <4>1. acked' = acked /\ (h.req # NoRequest => h.req \in Requests)
        BY <2>2, <3>2 DEF McuRefuses, Line
      <4>2. Refused(h)'
        BY <1>1, <2>1, <2>3, <2>5, <4>1 DEF Refused
      <4>3. [id |-> h.id, kind |-> "err"] \in Founded'
        BY <2>1, <2>3, <4>2 DEF Founded
      <4> QED
        BY <2>0, <3>2, <4>3 DEF McuRefuses
    <3> QED
      BY <1>7, <3>1, <3>2
  <2>10. PICK a \in Reply : toHost' = Append(toHost, a) /\ a \in Founded'
    BY <2>2, <2>9 DEF Line, Reply
  <2>11. Answers' = Answers \cup {a}
    BY <1>0, <2>10, AnswersAppend DEF TypeOK
  <2>12. Meant
    BY <1>2, <2>10, <2>11
  <2> QED
    BY <2>6, <2>7, <2>8, <2>12
<1> QED
  BY <1>4, <1>5, <1>6, <1>7, StepsOnLines

LEMMA IdNext == IInv /\ MeaningInv /\ [Next]_vars => IdInv'
<1> SUFFICES ASSUME IInv, MeaningInv, [Next]_vars PROVE IdInv'
  OBVIOUS
<1>0. TypeOK /\ IdInv /\ net \in NetState /\ sent \subseteq Line /\ counter \in Nat
  BY DEF IInv, MeaningInv, TypeOK
<1>1. CASE Increment
  <2>1. /\ sent' = sent /\ counter' = counter + 1 /\ net'.pc = "reread"
        /\ \A s \in sent : s.id \in Nat
    BY <1>0, <1>1 DEF Increment, NetState, historyVars, Line
  <2> QED
    BY <1>0, <2>1 DEF IdInv
<1>2. CASE WorkerIncrement
  <2>1. /\ sent' = sent /\ counter' = counter + 1 /\ net' = net
        /\ (\A s \in sent : s.id \in Nat) /\ net.id \in Nat
    BY <1>0, <1>2 DEF WorkerIncrement, NetState, historyVars, Line
  <2> QED
    BY <1>0, <2>1 DEF IdInv
<1>3. CASE TakeId
  <2>1. /\ sent' = sent /\ counter' = counter /\ net.pc = "reread"
        /\ net'.pc = "write" /\ net'.id = counter
    BY <1>0, <1>3 DEF TakeId, NetState, historyVars
  <2> QED
    BY <1>0, <2>1 DEF IdInv
<1>4. CASE Write
  <2>1. /\ sent' = sent \cup {[id |-> net.id, req |-> net.req]} /\ counter' = counter
        /\ net.pc = "write" /\ net'.pc = "wait" /\ net'.id = net.id /\ net'.req = net.req
        /\ net.id \in Nat /\ \A s \in sent : s.id \in Nat
    BY <1>0, <1>4 DEF Write, NetState, Line
  <2> QED
    BY <1>0, <2>1 DEF IdInv
<1>5. CASE WorkerWriteGet
  <2>1. /\ sent' = sent \cup {[id |-> counter, req |-> NoRequest]} /\ counter' = counter
        /\ net' = net
    BY <1>5 DEF WorkerWriteGet
  <2> QED
    BY <1>0, <2>1 DEF IdInv
<1>6. CASE UNCHANGED <<sent, counter>> /\ net'.pc \notin {"reread", "write", "wait"}
  BY <1>0, <1>6 DEF IdInv
<1>7. CASE UNCHANGED <<sent, counter>> /\ net'.pc = net.pc /\ net'.id = net.id
             /\ net'.req = net.req
  BY <1>0, <1>7 DEF IdInv
<1>8. CASE ReadAnswer
  <2>1. /\ UNCHANGED <<sent, counter>>
        /\ net'.pc = net.pc /\ net'.id = net.id /\ net'.req = net.req
    BY <1>0, <1>8 DEF ReadAnswer, NetState, historyVars
  <2> QED
    BY <1>7, <2>1
<1>9. CASE CheckPort \/ WriteRaises \/ Answered \/ TimedOut \/ RememberResult
  <2>1. UNCHANGED <<sent, counter>> /\ net'.pc \notin {"reread", "write", "wait"}
    BY <1>0, <1>9 DEF CheckPort, WriteRaises, Answered, TimedOut, RememberResult,
       historyVars, NetState
  <2> QED
    BY <1>6, <2>1
<1>10. CASE PublishResult \/ Crash
  <2>1. UNCHANGED <<sent, counter>> /\ net' = NetIdle
    BY <1>10 DEF PublishResult, Crash
  <2>2. net'.pc \notin {"reread", "write", "wait"}
    BY <2>1 DEF NetIdle
  <2> QED
    BY <1>6, <2>1, <2>2
<1>11. ASSUME NEW r \in Requests, AnswerFromTable(r) \/ Reject(r) \/ Accept(r)
       PROVE  IdInv'
  <2>1. UNCHANGED <<sent, counter>>
    BY <1>11 DEF AnswerFromTable, Reject, Accept, Delivered
  <2>2. net' = net \/ net'.pc \notin {"reread", "write", "wait"}
    BY <1>0, <1>11 DEF AnswerFromTable, Reject, Accept, Delivered, NetState
  <2> QED
    BY <1>6, <1>7, <2>1, <2>2
<1>12. CASE OpenPort \/ NoticeFailure \/ McuAcknowledges \/ McuRefuses
            \/ LineToMcuGarbled \/ LineToHostGarbled \/ PortFails \/ UNCHANGED vars
  <2>1. UNCHANGED <<sent, counter, net>>
    BY <1>12 DEF OpenPort, NoticeFailure, McuAcknowledges, McuRefuses,
       LineToMcuGarbled, LineToHostGarbled, PortFails, vars, processVars, historyVars
  <2> QED
    BY <1>7, <2>1
<1>13. CASE Stumble
  <2>1. UNCHANGED <<sent, counter>> /\ net'.pc \notin {"reread", "write", "wait"}
    BY <1>0, <1>13 DEF Stumble, historyVars, NetState
  <2> QED
    BY <1>6, <2>1
<1> QED
  BY <1>1, <1>2, <1>3, <1>4, <1>5, <1>8, <1>9, <1>10, <1>11, <1>12, <1>13
  DEF Next, NetThread, WorkerThread, Environment

LEMMA AnswerNext == IInv /\ MeaningInv /\ [Next]_vars => AnswerInv'
<1> SUFFICES ASSUME IInv, MeaningInv, [Next]_vars PROVE AnswerInv'
  OBVIOUS
<1>0. TypeOK /\ AnswerInv /\ WireInv /\ net \in NetState
  BY DEF IInv, MeaningInv, TypeOK
<1>1. Founded \subseteq Founded'
  BY FoundedGrows
<1>2. CASE /\ net'.answer = net.answer
           /\ \/ net'.pc \in {"remember", "publish", "dead"}
              \/ net'.pc = net.pc /\ net'.id = net.id
              \/ net.pc \in {"idle", "check", "allocate", "reread"}
              \/ net.pc = "write" /\ net'.pc = "wait" /\ net'.id = net.id
  BY <1>0, <1>1, <1>2 DEF AnswerInv
<1>3. CASE net' = NetIdle
  BY <1>3 DEF AnswerInv, NetIdle
<1>4. CASE ReadAnswer /\ Pending(Head(toHost).id)
  <2>1. Head(toHost) \in Answers /\ Head(toHost) \in Reply
    BY <1>0, <1>4, AnswersTail DEF TypeOK, ReadAnswer
  <2>2. Head(toHost) \in Founded'
    BY <1>0, <1>1, <2>1 DEF WireInv
  <2>3. /\ net.pc \in {"write", "wait"} /\ net.id = Head(toHost).id
        /\ net'.pc = net.pc /\ net'.id = net.id /\ net'.answer = Head(toHost).kind
    BY <1>0, <1>4 DEF ReadAnswer, Pending, NetState
  <2>4. [id |-> net'.id, kind |-> net'.answer] = Head(toHost)
    BY <2>1, <2>3 DEF Reply
  <2> QED
    BY <2>2, <2>3, <2>4 DEF AnswerInv
<1>5. CASE ReadAnswer /\ ~Pending(Head(toHost).id)
  BY <1>2, <1>5 DEF ReadAnswer
<1>6. CASE PublishResult \/ Crash
  BY <1>3, <1>6 DEF PublishResult, Crash
<1>7. CASE Stumble \/ CheckPort \/ Increment \/ TakeId \/ Write \/ WriteRaises
           \/ Answered \/ TimedOut \/ RememberResult
  <2>1. /\ net'.answer = net.answer
        /\ \/ net'.pc \in {"remember", "publish", "dead"}
           \/ net.pc \in {"idle", "check", "allocate", "reread"}
           \/ net.pc = "write" /\ net'.pc = "wait" /\ net'.id = net.id
    BY <1>0, <1>7 DEF Stumble, CheckPort, Increment, TakeId, Write, WriteRaises, Answered,
       TimedOut, RememberResult, NetState
  <2> QED
    BY <1>2, <2>1
<1>8. ASSUME NEW r \in Requests, AnswerFromTable(r) \/ Reject(r) \/ Accept(r)
      PROVE  AnswerInv'
  <2>1. net.pc = "idle" /\ net'.answer = net.answer
    BY <1>0, <1>8 DEF AnswerFromTable, Reject, Accept, Delivered, NetState
  <2> QED
    BY <1>2, <2>1
<1>9. CASE UNCHANGED net
  BY <1>2, <1>9
<1>10. \/ UNCHANGED net
       \/ \E r \in Requests : AnswerFromTable(r) \/ Reject(r) \/ Accept(r)
       \/ Stumble \/ CheckPort \/ Increment \/ TakeId \/ Write \/ WriteRaises
       \/ Answered \/ TimedOut \/ RememberResult
       \/ PublishResult \/ Crash \/ ReadAnswer
  BY DEF Next, NetThread, WorkerThread, Environment, OpenPort, WorkerIncrement,
         WorkerWriteGet, NoticeFailure, McuAcknowledges, McuRefuses,
         LineToMcuGarbled, LineToHostGarbled, PortFails, vars, processVars
<1> QED
  BY <1>4, <1>5, <1>6, <1>7, <1>8, <1>9, <1>10

\* remember_completed brings no other row into the table than the new one.
LEMMA RememberBrings ==
  ASSUME TypeOK, NEW r, NEW s, Remember(r, s), NEW q, NEW t, HasRow(q, t)'
  PROVE  HasRow(q, t) \/ (q = r /\ t = s)
<1>1. PICK c \in completed' : c.req = q /\ c.status = t
  BY DEF HasRow
<1>2. c \in {[d EXCEPT !.age = @ + 1] : d \in {e \in completed : e.req # r}}
              \cup {[req |-> r, status |-> s, age |-> 0]}
  BY <1>1 DEF Remember, Prune
<1>3. \/ c.req = r /\ c.status = s
      \/ \E d \in completed : c.req = d.req /\ c.status = d.status
  <2>1. completed \subseteq Row
    BY DEF TypeOK, Row
  <2> QED
    BY <1>2, <2>1 DEF Row
<1> QED
  BY <1>1, <1>3 DEF HasRow

\* The answer to the line the thread waits for is about its own command.
LEMMA AnswerIsClaim ==
  ASSUME IInv, MeaningInv, Answered
  PROVE  Claim(net.req, IF net.answer = "ack" THEN "succeeded" ELSE "failed")
<1>0. /\ TypeOK /\ AtMostOnce /\ WireInv /\ IdInv /\ AnswerInv
      /\ net.pc = "wait" /\ net.answer \in {"ack", "err"} /\ net.req \in Requests
  BY DEF IInv, MeaningInv, TypeOK, NetState, NetInv, Answered
<1>1. /\ [id |-> net.id, req |-> net.req] \in sent
      /\ \A s \in sent : s.req # NoRequest /\ s.id = net.id => s.req = net.req
      /\ [id |-> net.id, kind |-> net.answer] \in Founded
  BY <1>0 DEF IdInv, AnswerInv
<1>2. CASE net.answer = "ack"
  <2>1. PICK s \in sent : Confirmed(s) /\ s.id = net.id
    BY <1>1, <1>2 DEF Founded
  <2>2. CASE s.req = NoRequest
    BY <1>0, <1>1, <1>2, <2>1, <2>2 DEF Done, SharesId, Claim
  <2>3. CASE s.req # NoRequest
    BY <1>0, <1>1, <1>2, <2>1, <2>3 DEF Confirmed, Done, Claim
  <2> QED
    BY <2>2, <2>3
<1>3. CASE net.answer = "err"
  <2>1. PICK s \in sent : Refused(s) /\ s.id = net.id
    BY <1>1, <1>3 DEF Founded
  <2>2. ASSUME s.req = NoRequest PROVE Undone(net.req)
    BY <1>1, <2>1, <2>2 DEF SharesId, Undone
  <2>3. ASSUME s.req # NoRequest PROVE Undone(net.req)
    <3>1. s.req = net.req /\ s \notin InFlight
      BY <1>1, <2>1, <2>3 DEF Refused
    <3>2. \A l \in InFlight : l.req = net.req => Repeated(net.req)
      BY <1>0, <2>3, <3>1, TwiceIsRepeated DEF WireInv
    <3>3. net.req \in acked => Repeated(net.req)
      BY <2>1, <2>3, <3>1 DEF Refused
    <3> QED
      BY <3>2, <3>3 DEF Undone
  <2>4. Undone(net.req)
    BY <2>2, <2>3
  <2> QED
    BY <1>3, <2>4 DEF Claim
<1> QED
  BY <1>0, <1>2, <1>3

\* A claim lasts, but while its command is being written.
LEMMA ClaimStays ==
  ASSUME IInv, MeaningInv, [Next]_vars, NEW r \in Requests, NEW t, Claim(r, t),
         Write /\ t = "failed" => r # net.req \/ Repeated(r)
  PROVE  Claim(r, t)'
<1>1. CASE t = "succeeded"
  BY <1>1, DoneStays DEF Claim
<1>2. CASE t = "failed"
  <2>1. Undone(r)
    BY <1>2 DEF Claim
  <2>2. Undone(r)'
    BY <1>2, <2>1, UndoneStays
  <2> QED
    BY <1>2, <2>2 DEF Claim
<1>3. CASE t \notin {"succeeded", "failed"}
  BY <1>3 DEF Claim
<1> QED
  BY <1>1, <1>2, <1>3

\* The steps that make a claim: rejecting, finding no port, an answer, a timeout.
LEMMA NewClaims ==
  ASSUME IInv, [Next]_vars, NEW r \in Requests, NEW t \in Terminal, Claimed(r, t)'
  PROVE  \/ Claimed(r, t)
         \/ t \in {"rejected", "timed_out"}
         \/ CheckPort /\ net.req = r /\ t = "failed"
         \/ Answered /\ net.req = r
                     /\ t = (IF net.answer = "ack" THEN "succeeded" ELSE "failed")
<1>0. /\ net \in NetState /\ reported \in [Requests -> Status] /\ NetInv /\ TypeOK
  BY DEF IInv, TypeOK
<1> USE DEF processVars, lineVars, historyVars
<1>1. ASSUME NEW q \in Requests, AnswerFromTable(q) PROVE Claimed(r, t)
  BY <1>0, <1>1 DEF AnswerFromTable, Delivered, Publish, Claimed, HasRow
<1>2. ASSUME NEW q \in Requests, Reject(q) PROVE Claimed(r, t) \/ t = "rejected"
  BY <1>0, <1>2 DEF Reject, Delivered, Claimed, HasRow, NetState
<1>3. ASSUME NEW q \in Requests, Accept(q) PROVE Claimed(r, t)
  BY <1>0, <1>3 DEF Accept, Delivered, Publish, Claimed, HasRow, NetState, Terminal
<1>4. CASE CheckPort
  <2>1. /\ UNCHANGED <<completed, reported>> /\ net'.req = net.req
        /\ net'.pc \in {"remember", "publish"} => net'.outcome = "failed"
    BY <1>0, <1>4 DEF CheckPort, NetState
  <2> QED
    BY <1>4, <2>1 DEF Claimed, HasRow
<1>5. CASE Stumble \/ Increment \/ TakeId \/ Write \/ WriteRaises
  <2>1. /\ UNCHANGED <<completed, reported>>
        /\ net'.pc \notin {"remember", "publish"}
    BY <1>0, <1>5 DEF Stumble, Increment, TakeId, Write, WriteRaises, NetState
  <2> QED
    BY <2>1 DEF Claimed, HasRow
<1>6. CASE Answered
  <2>1. /\ UNCHANGED <<completed, reported>> /\ net'.req = net.req
        /\ net'.outcome = IF net.answer = "ack" THEN "succeeded" ELSE "failed"
    BY <1>0, <1>6 DEF Answered, NetState
  <2> QED
    BY <1>6, <2>1 DEF Claimed, HasRow
<1>7. CASE TimedOut
  BY <1>0, <1>7 DEF TimedOut, Claimed, HasRow, NetState
<1>8. CASE RememberResult
  <2>1. /\ Remember(net.req, net.outcome) /\ net.pc = "remember" /\ reported' = reported
        /\ net'.req = net.req /\ net'.outcome = net.outcome
    BY <1>0, <1>8 DEF RememberResult, NetState
  <2>2. HasRow(r, t)' => HasRow(r, t) \/ (r = net.req /\ t = net.outcome)
    BY <1>0, <2>1, RememberBrings
  <2> QED
    BY <2>1, <2>2 DEF Claimed
<1>9. CASE PublishResult
  BY <1>0, <1>9 DEF PublishResult, Publish, Claimed, HasRow, NetIdle, NetInv
<1>10. CASE Crash
  BY <1>0, <1>10 DEF Crash, Claimed, HasRow, NetIdle
<1>11. CASE ReadAnswer
  <2>1. /\ UNCHANGED <<completed, reported>>
        /\ net'.pc = net.pc /\ net'.req = net.req /\ net'.outcome = net.outcome
    BY <1>0, <1>11 DEF ReadAnswer, NetState
  <2> QED
    BY <2>1 DEF Claimed, HasRow
<1>12. CASE UNCHANGED <<net, completed, reported>>
  BY <1>12 DEF Claimed, HasRow
<1>13. \/ UNCHANGED <<net, completed, reported>>
       \/ \E q \in Requests : AnswerFromTable(q) \/ Reject(q) \/ Accept(q)
       \/ Stumble \/ CheckPort \/ Increment \/ TakeId \/ Write \/ WriteRaises
       \/ Answered \/ TimedOut \/ RememberResult
       \/ PublishResult \/ Crash \/ ReadAnswer
  BY DEF Next, NetThread, WorkerThread, Environment, OpenPort, WorkerIncrement,
         WorkerWriteGet, NoticeFailure, McuAcknowledges, McuRefuses,
         LineToMcuGarbled, LineToHostGarbled, PortFails, vars
<1> QED
  BY <1>1, <1>2, <1>3, <1>4, <1>5, <1>6, <1>7, <1>8, <1>9, <1>10, <1>11, <1>12, <1>13

LEMMA ClaimNext == IInv /\ MeaningInv /\ [Next]_vars => ClaimInv'
<1> SUFFICES ASSUME IInv, MeaningInv, [Next]_vars, NEW r \in Requests, NEW t \in Terminal,
                    Claimed(r, t)'
             PROVE  Claim(r, t)'
  BY DEF ClaimInv
<1>0. TypeOK /\ NetInv /\ ReportedInv /\ ClaimInv /\ WireInv
  BY DEF IInv, MeaningInv
<1>1. CASE Claimed(r, t)
  \* A command being written has no row, and no terminal status but a forgotten one.
  <2>1. Write => r # net.req \/ Repeated(r)
    BY <1>0, <1>1
    DEF Write, Claimed, NetInv, ReportedInv, HasRow, Remembered, Repeated
  <2> QED
    BY <1>0, <1>1, <2>1, ClaimStays DEF ClaimInv
<1>2. CASE t \in {"rejected", "timed_out"}
  BY <1>2 DEF Claim
<1>3. CASE CheckPort /\ net.req = r /\ t = "failed"
  <2>1. r \notin Remembered /\ ~InDoubt /\ net.pc = "check"
    BY <1>0, <1>3 DEF CheckPort, NetInv, InDoubt
  <2>2. Undone(r)
    BY <1>0, <2>1, UnsentIsUndone DEF Undone
  <2>3. Undone(r)'
    BY <2>1, <2>2, UndoneStays DEF Write
  <2> QED
    BY <1>3, <2>3 DEF Claim
<1>4. CASE Answered /\ net.req = r
           /\ t = (IF net.answer = "ack" THEN "succeeded" ELSE "failed")
  <2>1. Claim(r, t) /\ net.pc # "write"
    BY <1>4, AnswerIsClaim DEF Answered
  <2> QED
    BY <2>1, ClaimStays DEF Write
<1> QED
  BY <1>1, <1>2, <1>3, <1>4, NewClaims

-------------------------------------------------------------------------------
LEMMA MeaningInit == Init => MeaningInv
<1> SUFFICES ASSUME Init PROVE MeaningInv
  OBVIOUS
<1>1. WireInv
  BY DEF Init, WireInv, InFlight, Answers
<1>2. IdInv /\ AnswerInv
  BY DEF Init, NetIdle, IdInv, AnswerInv
<1>3. ClaimInv
  BY DEF Init, NetIdle, ClaimInv, Claimed, HasRow, Terminal
<1> QED
  BY <1>1, <1>2, <1>3 DEF MeaningInv

\* What the answers mean, and what the statuses claim.
THEOREM BridgeAnswers == Spec => []MeaningInv
<1>1. IInv /\ MeaningInv /\ [Next]_vars => MeaningInv'
  BY WireNext, IdNext, AnswerNext, ClaimNext DEF MeaningInv
<1> QED
  BY <1>1, MeaningInit, BridgeInvariant, PTL DEF Spec

\* For any number of commands, deliveries, failures and crashes, and over every
\* interleaving of the two threads, "succeeded" means that the MCU acknowledged this
\* command, unless its id was the worker's too (SerialTransport.execute, _handle).
THEOREM BridgeSucceededIsAcked == Spec => []SucceededIsAcked
<1>1. MeaningInv => SucceededIsAcked
  BY DEF MeaningInv, ClaimInv, Claimed, Claim, Done, SucceededIsAcked, Terminal
<1> QED
  BY <1>1, BridgeAnswers, PTL

\* "Failed" means that the MCU has not acknowledged the command, and no line on its
\* way will make it, unless it is executed a second time or its id was the worker's
\* too (CommandBridge.handle).
THEOREM BridgeFailedIsNotAcked == Spec => []FailedIsNotAcked
<1>1. MeaningInv => FailedIsNotAcked
  BY DEF MeaningInv, ClaimInv, Claimed, Claim, Undone, Repeated, FailedIsNotAcked, Terminal
<1> QED
  BY <1>1, BridgeAnswers, PTL
===============================================================================
