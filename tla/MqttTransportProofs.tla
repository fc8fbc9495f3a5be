------------------------- MODULE MqttTransportProofs -------------------------
(***************************************************************************)
(* Proofs about the transport for every size of the spool and any number   *)
(* of rows, disconnections and crashes: it uses the spool only through the *)
(* spool's operations, so it inherits what is proved of the spool, and no  *)
(* row is lost silently.                                                   *)
(*                                                                         *)
(* The argument for NoSilentLoss: a thread acknowledges the row at hand    *)
(* only after paho reported it published; paho reports that only of a      *)
(* message the thread itself waits for; and such a message has been sent.  *)
(* For FirstDeliveryInOrder: peek's snapshot holds every row of a kind     *)
(* before the ones it holds, and a thread goes through it in order, so all *)
(* earlier rows were delivered, or have left the table, when it sends one. *)
(***************************************************************************)
EXTENDS MqttTransport, SpoolProofs, SequenceTheorems

\* Every row a thread holds has been inserted.
IdInv ==
  /\ nextId >= 1
  /\ \A r \in rows : r.id \in 1 .. (nextId - 1)
  /\ \A t \in Threads : \A r \in thr[t].todo \cup thr[t].item :
       r.id \in 1 .. (nextId - 1)

\* A message that a thread waits for: the thread is in its wait for that row,
\* and there is one such message.
Owned(i) ==
  out[i].by \in Threads =>
    /\ thr[out[i].by].pc = "wait"
    /\ thr[out[i].by].item = {out[i].row}

\* The rows of two threads and of paho's queue hang together.
WaitInv ==
  /\ \A t \in Threads : thr[t].pc = "acked" => thr[t].item \subseteq delivered
  /\ \A i \in DOMAIN out : out[i].state = "sent" => out[i].row \in delivered
  /\ \A i \in DOMAIN out : Owned(i)
  /\ \A i, j \in DOMAIN out :
       out[i].by \in Threads /\ out[i].by = out[j].by => i = j

-------------------------------------------------------------------------------
\* What RemoveAt leaves of a sequence.
LEMMA Removed ==
  ASSUME NEW S, NEW s \in Seq(S), NEW i \in DOMAIN s
  PROVE  /\ RemoveAt(s, i) \in Seq(S)
         /\ Len(RemoveAt(s, i)) = Len(s) - 1
         /\ \A j \in DOMAIN RemoveAt(s, i) :
              RemoveAt(s, i)[j] = IF j < i THEN s[j] ELSE s[j + 1]
<1>1. i \in 1 .. Len(s) /\ Len(s) \in Nat
  OBVIOUS
<1> DEFINE a == SubSeq(s, 1, i - 1)
           b == SubSeq(s, i + 1, Len(s))
<1>2. a \in Seq(S) /\ Len(a) = i - 1 /\ \A j \in 1 .. (i - 1) : a[j] = s[j]
  BY <1>1
<1>3. /\ b \in Seq(S) /\ Len(b) = Len(s) - i
      /\ \A j \in 1 .. (Len(s) - i) : b[j] = s[i + j]
  BY <1>1
<1> HIDE DEF a, b
<1>4. /\ a \o b \in Seq(S) /\ Len(a \o b) = Len(a) + Len(b)
      /\ \A j \in 1 .. (Len(a) + Len(b)) :
           (a \o b)[j] = IF j <= Len(a) THEN a[j] ELSE b[j - Len(a)]
  BY <1>2, <1>3, ConcatProperties
<1>5. ASSUME NEW j \in 1 .. (Len(s) - 1)
      PROVE  (a \o b)[j] = IF j < i THEN s[j] ELSE s[j + 1]
  <2>1. (a \o b)[j] = IF j <= Len(a) THEN a[j] ELSE b[j - Len(a)]
    <3>1. Len(a) + Len(b) = Len(s) - 1
      BY <1>1, <1>2, <1>3
    <3> QED
      BY <1>4, <3>1
  <2>2. CASE j < i
    BY <1>1, <1>2, <2>1, <2>2
  <2>3. CASE ~(j < i)
    BY <1>1, <1>2, <1>3, <2>1, <2>3
  <2> QED
    BY <2>2, <2>3
<1>6. RemoveAt(s, i) = a \o b
  BY DEF RemoveAt, a, b
<1>7. Len(a \o b) = Len(s) - 1
  BY <1>1, <1>2, <1>3, <1>4
<1>8. DOMAIN (a \o b) = 1 .. (Len(s) - 1)
  BY <1>4, <1>7
<1> QED
  BY <1>4, <1>5, <1>6, <1>7, <1>8

LEMMA TransportTypeInit == Init => TypeOK
<1> SUFFICES ASSUME Init PROVE TypeOK
  OBVIOUS
<1>1. TypeOKSpool
  BY DEF Init, InitSpool, TypeOKSpool
<1>2. ThreadIdle \in ThreadState
  BY DEF ThreadIdle, ThreadState
<1>3. thr \in [Threads -> ThreadState]
  BY <1>2 DEF Init
<1>4. out \in Seq(Message)
  BY DEF Init
<1>5. lastSeen \in [Kinds -> Nat]
  BY DEF Init
<1> QED
  BY <1>1, <1>3, <1>4, <1>5 DEF Init, TypeOK

\* A spool operation keeps the types of the table.
LEMMA SpoolTypes ==
  ASSUME TypeOKSpool,
         \/ \E k \in Kinds : Enqueue(k)
         \/ \E i : Acknowledge(i)
         \/ UNCHANGED spoolVars
  PROVE  TypeOKSpool'
<1>1. ASSUME NEW k \in Kinds, Enqueue(k) PROVE TypeOKSpool'
  <2>1. NewRow(k) \in Row
    BY DEF TypeOKSpool, NewRow, Row
  <2>2. rows' \in SUBSET Row
    BY <1>1, <2>1 DEF Enqueue, Trim, TypeOKSpool
  <2> QED
    BY <1>1, <2>2 DEF Enqueue, NextRowId, TypeOKSpool
<1>2. ASSUME NEW i, Acknowledge(i) PROVE TypeOKSpool'
  BY <1>2 DEF Acknowledge, TypeOKSpool
<1>3. CASE UNCHANGED spoolVars
  BY <1>3 DEF spoolVars, TypeOKSpool
<1> QED
  BY <1>1, <1>2, <1>3
LEMMA TransportTypeNext == TypeOK /\ [Next]_vars => TypeOK'
<1> SUFFICES ASSUME TypeOK, [Next]_vars PROVE TypeOK'
  OBVIOUS
<1>1. /\ TypeOKSpool /\ thr \in [Threads -> ThreadState]
      /\ sock \in BOOLEAN /\ connected \in BOOLEAN /\ out \in Seq(Message)
      /\ delivered \in SUBSET Row /\ evicted \in SUBSET Row
      /\ lastSeen \in [Kinds -> Nat] /\ disconnects \in Nat /\ crashes \in Nat
  BY DEF TypeOK
<1>2. "net" \in Threads /\ "serial" \in Threads
  BY DEF Threads
<1>3. ASSUME NEW t \in Threads, NEW s \in Seq(Kinds \cup {"drain"}), Start(t, s)
      PROVE  thr' \in [Threads -> ThreadState]
  BY <1>1, <1>3 DEF Start, ThreadState
<1>4. ASSUME NEW t \in Threads, NEW pc, Goto(t, pc),
             pc \in {"idle", "next", "drain", "send", "wait", "acked", "lost"}
      PROVE  thr' \in [Threads -> ThreadState]
  BY <1>1, <1>4 DEF Goto, ThreadState
<1>5. ASSUME NEW t \in Threads, Leave(t)
      PROVE  thr' \in [Threads -> ThreadState]
  BY <1>1, <1>5 DEF Leave, ThreadState
<1>6. ASSUME NEW s \in CommandScripts, OnMessage(s) PROVE TypeOK'
  <2>1. s \in Seq(Kinds \cup {"drain"})
    <3>1. <<"result">> \in Seq(Kinds \cup {"drain"})
      BY DEF Kinds
    <3>2. <<"result", "result">> \in Seq(Kinds \cup {"drain"})
      BY DEF Kinds
    <3> QED
      BY <3>1, <3>2 DEF CommandScripts
  <2> QED
    BY <1>1, <1>2, <1>3, <1>6, <2>1 DEF OnMessage, TypeOK, TypeOKSpool, spoolVars,
       pahoVars, brokerVars
<1>7. ASSUME NEW s \in SerialScripts, SerialEvent(s) PROVE TypeOK'
  <2>1. s \in Seq(Kinds \cup {"drain"})
    <3>1. <<"availability">> \in Seq(Kinds \cup {"drain"})
      BY DEF Kinds
    <3>2. <<"telemetry", "state">> \in Seq(Kinds \cup {"drain"})
      BY DEF Kinds
    <3> QED
      BY <3>1, <3>2 DEF SerialScripts
  <2> QED
    BY <1>1, <1>2, <1>3, <1>7, <2>1 DEF SerialEvent, TypeOK, TypeOKSpool, spoolVars,
       pahoVars, brokerVars
<1>8. ASSUME OnConnect PROVE TypeOK'
  <2>1. ConnectScript \in Seq(Kinds \cup {"drain"})
    BY DEF ConnectScript, Kinds
  <2> QED
    BY <1>1, <1>2, <1>3, <1>8, <2>1 DEF OnConnect, TypeOK, TypeOKSpool, spoolVars,
       brokerVars
<1>9. ASSUME OnDisconnect PROVE TypeOK'
  BY <1>1, <1>2, <1>4, <1>9 DEF OnDisconnect, TypeOK, TypeOKSpool, spoolVars,
     pahoVars, brokerVars
<1>10. ASSUME NEW t \in Threads, PublishNext(t) PROVE TypeOK'
  <2> DEFINE k == Head(thr[t].script)
  <2>1. thr[t].script \in Seq(Kinds \cup {"drain"}) /\ thr[t].script # <<>>
    BY <1>1, <1>10 DEF PublishNext, ThreadState
  <2>2. k \in Kinds \cup {"drain"} /\ Tail(thr[t].script) \in Seq(Kinds \cup {"drain"})
    BY <2>1
  <2>3. thr' \in [Threads -> ThreadState]
    BY <1>1, <1>10, <2>2 DEF PublishNext, ThreadState
  <2>4. TypeOKSpool' /\ evicted' \in SUBSET Row
    <3>1. CASE k = "drain"
      BY <1>1, <1>10, <3>1, SpoolTypes DEF PublishNext, spoolVars
    <3>2. CASE k # "drain"
      <4>1. k \in Kinds /\ Enqueue(k)
        BY <1>10, <2>2, <3>2 DEF PublishNext
      <4>2. evicted' = evicted \cup ((rows \cup {NewRow(k)}) \ rows')
        BY <1>10, <3>2 DEF PublishNext
      <4>3. NewRow(k) \in Row
        BY <1>1, <4>1 DEF TypeOKSpool, NewRow, Row
      <4>4. TypeOKSpool'
        BY <1>1, <4>1, SpoolTypes
      <4> QED
        BY <1>1, <4>2, <4>3, <4>4 DEF TypeOKSpool
    <3> QED
      BY <3>1, <3>2
  <2> QED
    BY <1>1, <1>10, <2>3, <2>4 DEF PublishNext, TypeOK, pahoVars, brokerVars
<1>11. ASSUME NEW t \in Threads, Return(t) \/ DrainOffline(t) PROVE TypeOK'
  BY <1>1, <1>4, <1>11 DEF Return, DrainOffline, TypeOK, TypeOKSpool, spoolVars,
     pahoVars, brokerVars
<1>12. ASSUME NEW t \in Threads, DrainOnline(t) PROVE TypeOK'
  <2>1. Peek \in SUBSET Row
    BY <1>1 DEF Peek, TypeOKSpool
  <2>2. thr' \in [Threads -> ThreadState]
    BY <1>1, <1>12, <2>1 DEF DrainOnline, ThreadState
  <2> QED
    BY <1>1, <1>12, <2>2 DEF DrainOnline, TypeOK, TypeOKSpool, spoolVars, pahoVars,
       brokerVars
<1>13. ASSUME NEW t \in Threads, SendFirst(t) PROVE TypeOK'
  <2>1. PICK r \in First(thr[t].todo) :
          IF sock
            THEN /\ out' = Append(out, [row |-> r, by |-> t, state |-> "queued"])
                 /\ thr' = [thr EXCEPT ![t].pc = "wait", ![t].item = {r}]
            ELSE /\ out' = Append(out, [row |-> r, by |-> "nobody", state |-> "stale"])
                 /\ Leave(t)
    BY <1>13 DEF SendFirst
  <2>2. r \in Row
    BY <1>1 DEF First, ThreadState
  <2>3. /\ [row |-> r, by |-> t, state |-> "queued"] \in Message
        /\ [row |-> r, by |-> "nobody", state |-> "stale"] \in Message
    BY <2>2 DEF Message
  <2>4. out' \in Seq(Message)
    <3>1. \A m \in Message : Append(out, m) \in Seq(Message)
      BY <1>1, AppendProperties
    <3> QED
      BY <2>1, <2>3, <3>1
  <2>5. thr' \in [Threads -> ThreadState]
    <3>1. CASE sock
      <4>1. [thr[t] EXCEPT !.pc = "wait", !.item = {r}] \in ThreadState
        BY <1>1, <2>2 DEF ThreadState
      <4>2. thr' = [thr EXCEPT ![t] = [@ EXCEPT !.pc = "wait", !.item = {r}]]
        BY <2>1, <3>1
      <4> QED
        BY <1>1, <4>1, <4>2
    <3>2. CASE ~sock
      BY <1>5, <2>1, <3>2
    <3> QED
      BY <3>1, <3>2
  <2> QED
    BY <1>1, <1>13, <2>4, <2>5 DEF SendFirst, TypeOK, TypeOKSpool, spoolVars, brokerVars
<1>14. ASSUME NEW t \in Threads, DrainDone(t) PROVE TypeOK'
  BY <1>1, <1>5, <1>14 DEF DrainDone, TypeOK, TypeOKSpool, spoolVars, pahoVars,
     brokerVars
<1>15. ASSUME NEW t \in Threads, AcknowledgeItem(t) PROVE TypeOK'
  <2>1. TypeOKSpool'
    BY <1>1, <1>15, SpoolTypes DEF AcknowledgeItem
  <2>2. thr' \in [Threads -> ThreadState]
    BY <1>1, <1>15 DEF AcknowledgeItem, ThreadState
  <2> QED
    BY <1>1, <1>15, <2>1, <2>2 DEF AcknowledgeItem, TypeOK, pahoVars, brokerVars
<1>16. ASSUME NEW t \in Threads, WaitTimesOut(t) PROVE TypeOK'
  <2>1. \A i \in DOMAIN out : out[i] \in Message
    BY <1>1
  <2>2. \A i \in DOMAIN out : Disown(t)[i] \in Message
    BY <2>1 DEF Disown, Message
  <2>3. Len(out) \in Nat /\ DOMAIN out = 1 .. Len(out)
    BY <1>1
  <2>4. DOMAIN Disown(t) = 1 .. Len(out)
    BY <2>3 DEF Disown
  <2>5. Disown(t) \in Seq(Message)
    BY <2>2, <2>3, <2>4, IsASeq DEF Disown
  <2> QED
    BY <1>1, <1>5, <1>16, <2>5 DEF WaitTimesOut, TypeOK, TypeOKSpool, spoolVars,
       brokerVars
<1>17. ASSUME Flush PROVE TypeOK'
  <2>1. PICK i \in DOMAIN out :
          /\ out' = [out EXCEPT ![i].state = "sent"]
          /\ delivered' = delivered \cup {out[i].row}
          /\ lastSeen' = [lastSeen EXCEPT ![out[i].row.kind] = out[i].row.id]
    BY <1>17 DEF Flush
  <2>2. out[i] \in Message
    BY <1>1
  <2>3. out[i].row \in Row /\ out[i].row.id \in Nat
    BY <2>2 DEF Message, Row
  <2>4. [out[i] EXCEPT !.state = "sent"] \in Message
    BY <2>2 DEF Message
  <2>5. out' \in Seq(Message)
    BY <1>1, <2>1, <2>4, ExceptSeq
  <2>6. lastSeen' \in [Kinds -> Nat]
    BY <1>1, <2>1, <2>3
  <2> QED
    BY <1>1, <1>17, <2>1, <2>3, <2>5, <2>6 DEF Flush, TypeOK, TypeOKSpool, spoolVars
<1>18. ASSUME PubAck PROVE TypeOK'
  <2>1. PICK i \in DOMAIN out :
          /\ out' = RemoveAt(out, i)
          /\ thr' = IF out[i].by \in Threads
                      THEN [thr EXCEPT ![out[i].by].pc = "acked"] ELSE thr
    BY <1>18 DEF PubAck
  <2>2. out' \in Seq(Message)
    BY <1>1, <2>1, Removed
  <2>3. thr' \in [Threads -> ThreadState]
    <3>1. ASSUME NEW t \in Threads PROVE [thr[t] EXCEPT !.pc = "acked"] \in ThreadState
      BY <1>1 DEF ThreadState
    <3>2. CASE out[i].by \in Threads
      BY <1>1, <2>1, <3>1, <3>2
    <3>3. CASE out[i].by \notin Threads
      BY <1>1, <2>1, <3>3
    <3> QED
      BY <3>2, <3>3
  <2> QED
    BY <1>1, <1>18, <2>2, <2>3 DEF PubAck, TypeOK, TypeOKSpool, spoolVars, brokerVars
<1>19. ASSUME Disconnect PROVE TypeOK'
  <2>1. \A i \in DOMAIN out : [out[i] EXCEPT !.state = "stale"] \in Message
    <3>1. \A i \in DOMAIN out : out[i] \in Message
      BY <1>1
    <3> QED
      BY <3>1 DEF Message
  <2>2. Len(out) \in Nat /\ DOMAIN out = 1 .. Len(out)
    BY <1>1
  <2>3. out' \in Seq(Message)
    BY <1>19, <2>1, <2>2, IsASeq DEF Disconnect
  <2>4. thr' \in [Threads -> ThreadState]
    BY <1>2, <1>4, <1>19 DEF Disconnect
  <2>5. disconnects' \in Nat
    BY <1>1, <1>19 DEF Disconnect
  <2>6. sock' \in BOOLEAN
    BY <1>19 DEF Disconnect
  <2> QED
    BY <1>1, <1>19, <2>3, <2>4, <2>5, <2>6 DEF Disconnect, TypeOK, TypeOKSpool, spoolVars,
       brokerVars
<1>20. ASSUME Crash PROVE TypeOK'
  <2>1. thr' \in [Threads -> ThreadState]
    BY <1>20 DEF Crash, ThreadIdle, ThreadState
  <2>2. out' \in Seq(Message)
    BY <1>20 DEF Crash
  <2>3. crashes' \in Nat
    BY <1>1, <1>20 DEF Crash
  <2>4. sock' \in BOOLEAN /\ connected' \in BOOLEAN
    BY <1>20 DEF Crash
  <2> QED
    BY <1>1, <1>20, <2>1, <2>2, <2>3, <2>4 DEF Crash, TypeOK, TypeOKSpool, spoolVars, brokerVars
<1>21. CASE UNCHANGED vars
  BY <1>1, <1>21 DEF vars, TypeOK, TypeOKSpool, spoolVars, pahoVars, brokerVars
<1> QED
  BY <1>6, <1>7, <1>8, <1>9, <1>10, <1>11, <1>12, <1>13, <1>14, <1>15, <1>16, <1>17,
     <1>18, <1>19, <1>20, <1>21 DEF Next, Step, NetLoop
-------------------------------------------------------------------------------
\* Every step of the transport is a step of the spool or leaves it alone.
LEMMA StepIsSpoolStep == TypeOK /\ IdInv /\ [Next]_vars => [NextSpool]_spoolVars
<1> SUFFICES ASSUME TypeOK, IdInv, [Next]_vars PROVE [NextSpool]_spoolVars
  OBVIOUS
<1>1. ASSUME NEW t \in Threads, PublishNext(t) PROVE [NextSpool]_spoolVars
  <2>1. thr[t].script # <<>>
    BY <1>1 DEF PublishNext
  <2>2. CASE Head(thr[t].script) = "drain"
    BY <1>1, <2>2 DEF PublishNext, spoolVars
  <2>3. CASE Head(thr[t].script) # "drain"
    <3>1. Enqueue(Head(thr[t].script))
      BY <1>1, <2>3 DEF PublishNext
    <3>2. thr[t].script \in Seq(Kinds \cup {"drain"})
      BY DEF TypeOK, ThreadState
    <3>3. Head(thr[t].script) \in Kinds
      BY <2>1, <2>3, <3>2
    <3> QED
      BY <3>1, <3>3 DEF NextSpool
  <2> QED
    BY <2>2, <2>3
<1>2. ASSUME NEW t \in Threads, AcknowledgeItem(t) PROVE [NextSpool]_spoolVars
  <2>1. PICK r \in thr[t].item : Acknowledge(r.id)
    BY <1>2 DEF AcknowledgeItem
  <2>2. r.id \in 1 .. (nextId - 1)
    BY <2>1 DEF IdInv
  <2> QED
    BY <2>1, <2>2 DEF NextSpool
<1>3. ASSUME NEW t \in Threads,
             \/ Return(t) \/ DrainOffline(t) \/ DrainOnline(t) \/ SendFirst(t)
             \/ DrainDone(t) \/ WaitTimesOut(t)
      PROVE  [NextSpool]_spoolVars
  BY <1>3 DEF Return, DrainOffline, DrainOnline, SendFirst, DrainDone, WaitTimesOut,
     spoolVars
<1>4. CASE (\E s \in CommandScripts : OnMessage(s)) \/ (\E s \in SerialScripts : SerialEvent(s))
  BY <1>4 DEF OnMessage, SerialEvent, spoolVars
<1>5. CASE OnConnect \/ OnDisconnect \/ Flush \/ PubAck \/ Disconnect \/ Crash
  BY <1>5 DEF OnConnect, OnDisconnect, Flush, PubAck, Disconnect, Crash, spoolVars
<1>6. CASE UNCHANGED vars
  BY <1>6 DEF vars, spoolVars
<1> QED
  BY <1>1, <1>2, <1>3, <1>4, <1>5, <1>6 DEF Next, Step, NetLoop

LEMMA IdInit == Init => IdInv
BY DEF Init, InitSpool, IdInv, ThreadIdle

\* The rows of a thread are old ones or come from the table.
LEMMA IdNext == TypeOK /\ IdInv /\ [Next]_vars => IdInv'
<1> SUFFICES ASSUME TypeOK, IdInv, [Next]_vars PROVE IdInv'
  OBVIOUS
<1> DEFINE Held(t) == thr[t].todo \cup thr[t].item
           old     == 1 .. (nextId - 1)
<1>1. /\ nextId \in Nat /\ nextId >= 1
      /\ rows \in SUBSET Row
      /\ \A r \in rows : r.id \in old
      /\ \A t \in Threads : \A r \in Held(t) : r.id \in old
      /\ thr \in [Threads -> ThreadState]
  BY DEF TypeOK, TypeOKSpool, IdInv
<1>2. "net" \in Threads
  BY DEF Threads
<1>3. /\ nextId' \in Nat /\ nextId' >= nextId
      /\ \A r \in rows' : r.id \in 1 .. (nextId' - 1)
  <2> DEFINE Grown == /\ nextId' \in Nat /\ nextId' >= nextId
                      /\ \A r \in rows' : r.id \in 1 .. (nextId' - 1)
  <2>1. ASSUME NEW k \in Kinds, Enqueue(k) PROVE Grown
    <3>1. nextId' = nextId + 1 /\ rows' \in SUBSET (rows \cup {NewRow(k)})
      BY <2>1 DEF Enqueue, NextRowId, Trim
    <3>2. NewRow(k).id = nextId
      BY DEF NewRow
    <3> QED
      BY <1>1, <3>1, <3>2
  <2>2. ASSUME NEW i, Acknowledge(i) PROVE Grown
    BY <1>1, <2>2 DEF Acknowledge
  <2>3. CASE UNCHANGED spoolVars
    BY <1>1, <2>3 DEF spoolVars
  <2> QED
    BY <2>1, <2>2, <2>3, StepIsSpoolStep DEF NextSpool
<1>4. ASSUME NEW t \in Threads
      PROVE  thr'[t].todo \cup thr'[t].item \subseteq Held(t) \cup rows
  <2> DEFINE Kept == thr'[t].todo \cup thr'[t].item \subseteq Held(t) \cup rows
  <2> SUFFICES Kept
    OBVIOUS
  <2>1. ASSUME NEW u \in Threads, NEW s, Start(u, s) PROVE Kept
    BY <1>1, <2>1 DEF Start, ThreadState
  <2>2. ASSUME NEW u \in Threads, NEW pc, Goto(u, pc) PROVE Kept
    BY <1>1, <2>2 DEF Goto, ThreadState
  <2>3. ASSUME NEW u \in Threads, Leave(u) PROVE Kept
    BY <1>1, <2>3 DEF Leave, ThreadState
  <2>4. ASSUME NEW u \in Threads, PublishNext(u) PROVE Kept
    BY <1>1, <2>4 DEF PublishNext, ThreadState
  <2>5. ASSUME NEW u \in Threads, DrainOnline(u) PROVE Kept
    BY <1>1, <2>5 DEF DrainOnline, ThreadState, Peek
  <2>6. ASSUME NEW u \in Threads, SendFirst(u) PROVE Kept
    <3>1. PICK r \in First(thr[u].todo) :
            \/ thr' = [thr EXCEPT ![u].pc = "wait", ![u].item = {r}]
            \/ Leave(u)
      BY <2>6 DEF SendFirst
    <3>2. r \in Held(u)
      BY DEF First
    <3>3. CASE thr' = [thr EXCEPT ![u].pc = "wait", ![u].item = {r}]
      BY <1>1, <3>2, <3>3 DEF ThreadState
    <3> QED
      BY <2>3, <3>1, <3>3
  <2>7. ASSUME NEW u \in Threads, AcknowledgeItem(u) PROVE Kept
    BY <1>1, <2>7 DEF AcknowledgeItem, ThreadState
  <2>8. ASSUME PubAck PROVE Kept
    BY <1>1, <2>8 DEF PubAck, ThreadState
  <2>9. ASSUME Crash PROVE Kept
    BY <2>9 DEF Crash, ThreadIdle
  <2>10. CASE UNCHANGED thr
    BY <2>10
  <2>11. ASSUME NEW u \in Threads,
                Return(u) \/ DrainOffline(u) \/ DrainDone(u) \/ WaitTimesOut(u)
         PROVE Kept
    BY <2>2, <2>3, <2>11 DEF Return, DrainOffline, DrainDone, WaitTimesOut
  <2>12. CASE \/ \E s \in CommandScripts : OnMessage(s)
              \/ \E s \in SerialScripts : SerialEvent(s)
              \/ OnConnect \/ OnDisconnect \/ Disconnect
    BY <1>2, <2>1, <2>2, <2>12 DEF OnMessage, SerialEvent, OnConnect, OnDisconnect,
       Disconnect, Threads
  <2> QED
    BY <2>4, <2>5, <2>6, <2>7, <2>8, <2>9, <2>10, <2>11, <2>12
       DEF Next, Step, NetLoop, Flush, vars
<1>5. ASSUME NEW t \in Threads, NEW r \in Held(t)' PROVE r.id \in 1 .. (nextId' - 1)
  BY <1>1, <1>3, <1>4
<1> QED
  BY <1>1, <1>3, <1>5 DEF IdInv
LEMMA TransportTypeAndIds == Spec => [](TypeOK /\ IdInv)
<1>1. Init => TypeOK /\ IdInv
  BY TransportTypeInit, IdInit
<1>2. TypeOK /\ IdInv /\ [Next]_vars => (TypeOK /\ IdInv)'
  BY TransportTypeNext, IdNext
<1> QED
  BY <1>1, <1>2, PTL DEF Spec

\* The types of the transport's state, for every size of the spool.
THEOREM TransportTypeCorrect == Spec => []TypeOK
BY TransportTypeAndIds, PTL

\* publish and drain, run by two threads with stale snapshots, use the table
\* through the spool's operations only: the transport implements the spool, the
\* acknowledged ids being ids the table once gave out.
THEOREM TransportImplementsSpool == Spec => SpecSpool
<1>1. Init => InitSpool
  BY DEF Init
<1>2. TypeOK /\ IdInv /\ [Next]_vars => [NextSpool]_spoolVars
  BY StepIsSpoolStep
<1> QED
  BY <1>1, <1>2, TransportTypeAndIds, PTL DEF Spec, SpecSpool

\* So the bound and the eviction rule of the spool hold in the transport.
THEOREM TransportKeepsSpool == Spec => []SpoolBounded /\ EvictionIsJustified
BY TransportImplementsSpool, SpoolStaysBounded, SpoolEvictionIsJustified, PTL

-------------------------------------------------------------------------------
LEMMA WaitInit == Init => WaitInv
BY DEF Init, WaitInv, ThreadIdle

\* A thread that is not waiting owns no message.
LEMMA NotWaiting ==
  ASSUME WaitInv, NEW t \in Threads, thr[t].pc # "wait"
  PROVE  \A i \in DOMAIN out : out[i].by # t
BY DEF WaitInv, Owned

\* The clauses about paho's queue survive a step that changes thread t only,
\* while t owns no message.
LEMMA WaitThreadStep ==
  ASSUME TypeOK, WaitInv, NEW t \in Threads, thr[t].pc # "wait",
         UNCHANGED <<out, delivered>>,
         \A u \in Threads \ {t} : thr'[u] = thr[u],
         thr'[t].pc # "acked"
  PROVE  WaitInv'
<1>1. \A i \in DOMAIN out : out[i].by # t
  BY NotWaiting
<1>2. ASSUME NEW i \in DOMAIN out PROVE Owned(i)'
  BY <1>1 DEF WaitInv, Owned
<1> QED
  BY <1>2 DEF WaitInv

LEMMA WaitNext == TypeOK /\ WaitInv /\ [Next]_vars => WaitInv'
<1> SUFFICES ASSUME TypeOK, WaitInv, [Next]_vars PROVE WaitInv'
  OBVIOUS
<1>1. /\ thr \in [Threads -> ThreadState] /\ out \in Seq(Message)
      /\ "net" \in Threads /\ "serial" \in Threads
  BY DEF TypeOK, Threads
<1>2. ASSUME NEW s, OnMessage(s) \/ SerialEvent(s) \/ OnConnect PROVE WaitInv'
  <2>1. ASSUME NEW t \in Threads, NEW c, Start(t, c), UNCHANGED <<out, delivered>>
        PROVE  WaitInv'
    <3>1. thr[t].pc = "idle" /\ thr'[t].pc = "next"
      BY <1>1, <2>1 DEF Start, ThreadState
    <3>2. \A u \in Threads \ {t} : thr'[u] = thr[u]
      BY <1>1, <2>1 DEF Start
    <3> QED
      BY <2>1, <3>1, <3>2, WaitThreadStep
  <2> QED
    BY <1>1, <1>2, <2>1 DEF OnMessage, SerialEvent, OnConnect, pahoVars, brokerVars
<1>3. ASSUME NEW t \in Threads,
             \/ PublishNext(t) \/ Return(t) \/ DrainOffline(t) \/ DrainOnline(t)
             \/ DrainDone(t) \/ AcknowledgeItem(t)
      PROVE  WaitInv'
  <2>1. thr[t].pc \in {"next", "drain", "send", "acked"}
    BY <1>3 DEF PublishNext, Return, DrainOffline, DrainOnline, DrainDone, AcknowledgeItem
  <2>2. \A u \in Threads \ {t} : thr'[u] = thr[u]
    BY <1>1, <1>3 DEF PublishNext, Return, DrainOffline, DrainOnline, DrainDone,
       AcknowledgeItem, Goto, Leave
  <2>3. thr'[t].pc \in {"idle", "next", "drain", "send"}
    BY <1>1, <1>3 DEF PublishNext, Return, DrainOffline, DrainOnline, DrainDone,
       AcknowledgeItem, Goto, Leave, ThreadState
  <2>4. UNCHANGED <<out, delivered>>
    BY <1>3 DEF PublishNext, Return, DrainOffline, DrainOnline, DrainDone,
       AcknowledgeItem, pahoVars, brokerVars
  <2> QED
    BY <2>1, <2>2, <2>3, <2>4, WaitThreadStep
<1>4. CASE OnDisconnect
  <2>1. thr'["net"].pc = "idle" /\ \A u \in Threads \ {"net"} : thr'[u] = thr[u]
    BY <1>1, <1>4 DEF OnDisconnect, Goto, ThreadState
  <2> QED
    BY <1>1, <1>4, <2>1, WaitThreadStep DEF OnDisconnect, pahoVars, brokerVars
<1>5. ASSUME NEW t \in Threads, SendFirst(t) PROVE WaitInv'
  <2>1. PICK r \in First(thr[t].todo) :
          IF sock
            THEN /\ out' = Append(out, [row |-> r, by |-> t, state |-> "queued"])
                 /\ thr' = [thr EXCEPT ![t].pc = "wait", ![t].item = {r}]
            ELSE /\ out' = Append(out, [row |-> r, by |-> "nobody", state |-> "stale"])
                 /\ Leave(t)
    BY <1>5 DEF SendFirst
  <2>2. thr[t].pc = "send" /\ delivered' = delivered
    BY <1>5 DEF SendFirst, brokerVars
  <2>3. \A i \in DOMAIN out : out[i].by # t
    BY <2>2, NotWaiting
  <2> DEFINE n == Len(out) + 1
             m == IF sock THEN [row |-> r, by |-> t, state |-> "queued"]
                          ELSE [row |-> r, by |-> "nobody", state |-> "stale"]
  <2>4. out' = Append(out, m)
    BY <2>1
  <2>5. Len(out) \in Nat /\ DOMAIN out = 1 .. Len(out)
    BY <1>1
  <2> HIDE DEF m
  <2>6. /\ DOMAIN out' = DOMAIN out \cup {n}
        /\ out'[n] = m /\ \A i \in DOMAIN out : out'[i] = out[i]
    BY <1>1, <2>4, <2>5
  <2>7. /\ \A u \in Threads \ {t} : thr'[u] = thr[u]
        /\ thr'[t].pc # "acked"
    BY <1>1, <2>1 DEF Leave, ThreadState
  <2>8. ASSUME NEW i \in DOMAIN out' PROVE Owned(i)'
    <3>1. CASE i \in DOMAIN out
      BY <2>3, <2>6, <2>7, <3>1 DEF WaitInv, Owned
    <3>2. CASE i = n /\ sock
      <4>1. out'[i].by = t /\ out'[i].row = r
        BY <2>6, <3>2 DEF m
      <4>2. thr'[t].pc = "wait" /\ thr'[t].item = {r}
        BY <1>1, <2>1, <3>2 DEF ThreadState
      <4> QED
        BY <4>1, <4>2 DEF Owned
    <3>3. CASE i = n /\ ~sock
      BY <2>6, <3>3 DEF m, Owned, Threads
    <3> QED
      BY <2>6, <3>1, <3>2, <3>3
  <2>9. m.state # "sent" /\ m.by \in {t, "nobody"}
    BY DEF m
  <2>10. ASSUME NEW i \in DOMAIN out', NEW j \in DOMAIN out',
                out'[i].by \in Threads, out'[i].by = out'[j].by
         PROVE  i = j
    <3>1. CASE i \in DOMAIN out /\ j \in DOMAIN out
      BY <2>6, <2>10, <3>1 DEF WaitInv
    <3>2. CASE i = n /\ j = n
      BY <3>2
    <3>3. CASE (i = n /\ j \in DOMAIN out) \/ (i \in DOMAIN out /\ j = n)
      BY <2>3, <2>6, <2>9, <2>10, <3>3 DEF Threads
    <3> QED
      BY <2>6, <3>1, <3>2, <3>3
  <2>11. \A i \in DOMAIN out' : out'[i].state = "sent" => out'[i].row \in delivered'
    BY <2>2, <2>6, <2>9 DEF WaitInv
  <2>12. \A u \in Threads : thr'[u].pc = "acked" => thr'[u].item \subseteq delivered'
    BY <2>2, <2>7 DEF WaitInv
  <2> QED
    BY <2>8, <2>10, <2>11, <2>12 DEF WaitInv
<1>6. ASSUME NEW t \in Threads, WaitTimesOut(t) PROVE WaitInv'
  <2>1. /\ DOMAIN out' = DOMAIN out
        /\ \A i \in DOMAIN out :
             out'[i] = IF out[i].by = t THEN [out[i] EXCEPT !.by = "nobody"] ELSE out[i]
        /\ delivered' = delivered
    BY <1>6 DEF WaitTimesOut, Disown, brokerVars
  <2>2. \A i \in DOMAIN out : out[i] \in Message
    BY <1>1
  <2>3. \A i \in DOMAIN out :
          /\ out'[i].row = out[i].row /\ out'[i].state = out[i].state
          /\ out'[i].by = IF out[i].by = t THEN "nobody" ELSE out[i].by
    BY <2>1, <2>2 DEF Message
  <2>4. /\ \A u \in Threads \ {t} : thr'[u] = thr[u]
        /\ thr'[t].pc = "next"
    BY <1>1, <1>6 DEF WaitTimesOut, Leave, ThreadState
  <2>5. "nobody" \notin Threads
    BY DEF Threads
  <2>6. \A i \in DOMAIN out' : Owned(i)'
    BY <2>1, <2>3, <2>4, <2>5 DEF WaitInv, Owned
  <2> QED
    BY <2>1, <2>3, <2>4, <2>5, <2>6 DEF WaitInv
<1>7. CASE Flush
  <2>1. PICK k \in DOMAIN out :
          /\ out' = [out EXCEPT ![k].state = "sent"]
          /\ delivered' = delivered \cup {out[k].row}
    BY <1>7 DEF Flush
  <2>2. \A i \in DOMAIN out : out[i] \in Message
    BY <1>1
  <2>3. DOMAIN out' = DOMAIN out
    BY <2>1
  <2>4. \A i \in DOMAIN out :
          /\ out'[i].row = out[i].row /\ out'[i].by = out[i].by
          /\ i # k => out'[i].state = out[i].state
    BY <2>1, <2>2 DEF Message
  <2>5. thr' = thr
    BY <1>7 DEF Flush
  <2>6. \A i \in DOMAIN out' : Owned(i)'
    BY <2>3, <2>4, <2>5 DEF WaitInv, Owned
  <2>7. \A i \in DOMAIN out' : out'[i].state = "sent" => out'[i].row \in delivered'
    BY <2>1, <2>3, <2>4 DEF WaitInv
  <2> QED
    BY <2>1, <2>3, <2>4, <2>5, <2>6, <2>7 DEF WaitInv
<1>8. CASE PubAck
  <2>1. PICK k \in DOMAIN out :
          /\ out[k].state = "sent"
          /\ out' = RemoveAt(out, k)
          /\ thr' = IF out[k].by \in Threads
                      THEN [thr EXCEPT ![out[k].by].pc = "acked"] ELSE thr
    BY <1>8 DEF PubAck
  <2>2. delivered' = delivered
    BY <1>8 DEF PubAck, brokerVars
  <2> DEFINE At(i) == IF i < k THEN i ELSE i + 1
  <2>3. Len(out) \in Nat /\ DOMAIN out = 1 .. Len(out) /\ k \in 1 .. Len(out)
    BY <1>1
  <2>4. /\ DOMAIN out' = 1 .. (Len(out) - 1)
        /\ \A i \in DOMAIN out' : out'[i] = IF i < k THEN out[i] ELSE out[i + 1]
    <3>1. out' \in Seq(Message) /\ Len(out') = Len(out) - 1
      BY <1>1, <2>1, Removed
    <3> QED
      BY <1>1, <2>1, <3>1, Removed
  <2>5. \A i \in DOMAIN out' : At(i) \in DOMAIN out \ {k} /\ out'[i] = out[At(i)]
    BY <2>3, <2>4
  <2>6. \A i, j \in DOMAIN out' : At(i) = At(j) => i = j
    BY <2>3, <2>4
  <2> HIDE DEF At
  <2>7. /\ \A u \in Threads : thr'[u].item = thr[u].item
        /\ \A u \in Threads : u # out[k].by => thr'[u] = thr[u]
    BY <1>1, <2>1 DEF ThreadState
  <2>8. ASSUME NEW i \in DOMAIN out' PROVE Owned(i)'
    <3>1. out[At(i)].by \in Threads => out[At(i)].by # out[k].by
      BY <2>5 DEF WaitInv
    <3> QED
      BY <2>5, <2>7, <3>1 DEF WaitInv, Owned
  <2>9. \A i, j \in DOMAIN out' :
          out'[i].by \in Threads /\ out'[i].by = out'[j].by => i = j
    BY <2>5, <2>6 DEF WaitInv
  <2>10. \A i \in DOMAIN out' : out'[i].state = "sent" => out'[i].row \in delivered'
    BY <2>2, <2>5 DEF WaitInv
  <2>11. ASSUME NEW u \in Threads, thr'[u].pc = "acked"
         PROVE  thr'[u].item \subseteq delivered'
    <3>1. CASE u = out[k].by
      <4>1. thr[u].item = {out[k].row} /\ out[k].row \in delivered
        BY <2>1, <3>1 DEF WaitInv, Owned
      <4> QED
        BY <2>2, <2>7, <4>1
    <3>2. CASE u # out[k].by
      BY <2>2, <2>7, <2>11, <3>2 DEF WaitInv
    <3> QED
      BY <3>1, <3>2
  <2> QED
    BY <2>8, <2>9, <2>10, <2>11 DEF WaitInv
<1>9. CASE Disconnect
  <2>1. /\ DOMAIN out' = DOMAIN out
        /\ \A i \in DOMAIN out : out'[i] = [out[i] EXCEPT !.state = "stale"]
        /\ delivered' = delivered
    BY <1>9 DEF Disconnect, brokerVars
  <2>2. \A i \in DOMAIN out : out[i] \in Message
    BY <1>1
  <2>3. \A i \in DOMAIN out : /\ out'[i].row = out[i].row /\ out'[i].by = out[i].by
                               /\ out'[i].state = "stale"
    BY <2>1, <2>2 DEF Message
  <2>4. /\ thr["net"].pc = "idle" /\ thr'["net"].pc = "lost"
        /\ \A u \in Threads \ {"net"} : thr'[u] = thr[u]
    BY <1>1, <1>9 DEF Disconnect, NetFree, Goto, ThreadState
  <2>5. \A i \in DOMAIN out : out[i].by # "net"
    BY <1>1, <2>4, NotWaiting
  <2>6. \A i \in DOMAIN out' : Owned(i)'
    BY <2>1, <2>3, <2>4, <2>5 DEF WaitInv, Owned
  <2> QED
    BY <2>1, <2>3, <2>4, <2>6 DEF WaitInv
<1>10. CASE Crash
  <2>1. out' = <<>> /\ \A u \in Threads : thr'[u].pc = "idle"
    BY <1>10 DEF Crash, ThreadIdle
  <2> QED
    BY <2>1 DEF WaitInv
<1>11. CASE UNCHANGED vars
  BY <1>11 DEF vars, WaitInv, Owned, pahoVars, brokerVars
<1> QED
  BY <1>2, <1>3, <1>4, <1>5, <1>6, <1>7, <1>8, <1>9, <1>10, <1>11
     DEF Next, Step, NetLoop

\* Every row inserted so far stays accounted for: an insert adds the new row to
\* the table or to the evicted ones, and an acknowledgement removes a row that the
\* broker has.
LEMMA NoSilentLossNext ==
  TypeOK /\ WaitInv /\ NoSilentLoss /\ [Next]_vars => NoSilentLoss'
<1> SUFFICES ASSUME TypeOK, WaitInv, NoSilentLoss, [Next]_vars PROVE NoSilentLoss'
  OBVIOUS
<1> DEFINE Known == rows \cup delivered \cup evicted
<1>1. nextId \in Nat /\ \A i \in 1 .. (nextId - 1) : i \in Ids(Known)
  BY DEF TypeOK, TypeOKSpool, NoSilentLoss, Ids
<1>2. ASSUME nextId' = nextId, Ids(Known) \subseteq Ids(Known') PROVE NoSilentLoss'
  BY <1>1, <1>2 DEF NoSilentLoss, Ids
<1>3. ASSUME nextId' = nextId, Known \subseteq Known' PROVE NoSilentLoss'
  BY <1>2, <1>3 DEF Ids
<1>4. ASSUME NEW t \in Threads, PublishNext(t) PROVE NoSilentLoss'
  <2> DEFINE k == Head(thr[t].script)
  <2>1. CASE k = "drain"
    BY <1>3, <1>4, <2>1 DEF PublishNext, spoolVars, brokerVars
  <2>2. CASE k # "drain"
    <3>1. /\ nextId' = nextId + 1
          /\ evicted' = evicted \cup ((rows \cup {NewRow(k)}) \ rows')
          /\ delivered' = delivered
      BY <1>4, <2>2 DEF PublishNext, Enqueue, NextRowId, brokerVars
    <3>2. Known \subseteq Known' /\ NewRow(k) \in Known'
      BY <3>1
    <3>3. nextId \in Ids(Known') /\ Ids(Known) \subseteq Ids(Known')
      BY <3>2 DEF Ids, NewRow
    <3>4. \A i \in 1 .. (nextId' - 1) : i \in Ids(Known')
      <4> HIDE DEF Known
      <4>1. 1 .. (nextId' - 1) = 1 .. (nextId - 1) \cup {nextId} \/ nextId = 0
        BY <1>1, <3>1
      <4> QED
        BY <1>1, <3>1, <3>3, <4>1
    <3> QED
      BY <3>4 DEF NoSilentLoss, Ids
  <2> QED
    BY <2>1, <2>2
<1>5. ASSUME NEW t \in Threads, AcknowledgeItem(t) PROVE NoSilentLoss'
  <2>1. PICK r \in thr[t].item : Acknowledge(r.id)
    BY <1>5 DEF AcknowledgeItem
  <2>2. r \in delivered
    BY <1>5, <2>1 DEF AcknowledgeItem, WaitInv
  <2>3. /\ rows' = {s \in rows : s.id # r.id} /\ nextId' = nextId
        /\ delivered' = delivered /\ evicted' = evicted
    BY <1>5, <2>1 DEF AcknowledgeItem, Acknowledge, brokerVars
  <2>4. \A s \in Known : s \in Known' \/ s.id = r.id
    BY <2>3
  <2> QED
    BY <1>2, <2>2, <2>3, <2>4 DEF Ids
<1>6. ASSUME NEW t \in Threads,
             \/ Return(t) \/ DrainOffline(t) \/ DrainOnline(t) \/ SendFirst(t)
             \/ DrainDone(t) \/ WaitTimesOut(t)
      PROVE  NoSilentLoss'
  BY <1>3, <1>6 DEF Return, DrainOffline, DrainOnline, SendFirst, DrainDone,
     WaitTimesOut, spoolVars, brokerVars
<1>7. CASE Flush
  BY <1>3, <1>7 DEF Flush, spoolVars
<1>8. ASSUME NEW s, OnMessage(s) \/ SerialEvent(s) PROVE NoSilentLoss'
  BY <1>3, <1>8 DEF OnMessage, SerialEvent, spoolVars, brokerVars
<1>9. CASE OnConnect \/ OnDisconnect \/ PubAck \/ Disconnect \/ Crash
  BY <1>3, <1>9 DEF OnConnect, OnDisconnect, PubAck, Disconnect, Crash, spoolVars,
     brokerVars
<1>10. CASE UNCHANGED vars
  BY <1>3, <1>10 DEF vars, spoolVars, brokerVars
<1> QED
  BY <1>4, <1>5, <1>6, <1>7, <1>8, <1>9, <1>10 DEF Next, Step, NetLoop

\* No row is lost silently, for every size of the spool and of peek's snapshot and
\* any number of rows, disconnections and crashes.
THEOREM TransportNoSilentLoss == Spec => []NoSilentLoss
<1>1. Init => WaitInv /\ NoSilentLoss
  BY WaitInit DEF Init, InitSpool, NoSilentLoss
<1>2. TypeOK /\ WaitInv /\ NoSilentLoss /\ [Next]_vars => (WaitInv /\ NoSilentLoss)'
  BY WaitNext, NoSilentLossNext
<1> QED
  BY <1>1, <1>2, TransportTypeCorrect, PTL DEF Spec

-------------------------------------------------------------------------------
(* The order of delivery.  What is in the table before a row of its kind has  *)
(* been delivered, or stands in the snapshot the row is taken from.            *)

Earlier(r) == {s \in rows : s.kind = r.kind /\ s.id < r.id}

\* The rows that paho holds.
Queued == {out[i].row : i \in DOMAIN out}

OrderInv ==
  /\ \A r \in Queued \cup delivered : r \in Row /\ r.id < nextId
  /\ \A r \in Queued \cup delivered : Earlier(r) \subseteq delivered
  /\ \A t \in Threads : \A r \in thr[t].todo :
       Earlier(r) \subseteq thr[t].todo \cup delivered

LEMMA OrderInit == Init => OrderInv
<1> SUFFICES ASSUME Init PROVE OrderInv
  OBVIOUS
<1> QED
  BY DEF Init, OrderInv, Queued, ThreadIdle

\* A row inserted later is not earlier than one that exists.
LEMMA EarlierShrinks ==
  ASSUME TypeOK, IdInv, [Next]_vars, NEW r, r.id \in Nat, r.id < nextId
  PROVE  Earlier(r)' \subseteq Earlier(r)
<1>1. nextId \in Nat
  BY DEF TypeOK, TypeOKSpool
<1>2. ASSUME NEW s \in rows', s.id < r.id PROVE s \in rows
  <2>1. ASSUME NEW k \in Kinds, Enqueue(k) PROVE s \in rows
    <3>1. s \in rows \cup {NewRow(k)}
      BY <2>1 DEF Enqueue, Trim
    <3> QED
      BY <1>1, <1>2, <3>1 DEF NewRow
  <2>2. ASSUME NEW i, Acknowledge(i) PROVE s \in rows
    BY <2>2 DEF Acknowledge
  <2>3. CASE UNCHANGED spoolVars
    BY <2>3 DEF spoolVars
  <2> QED
    BY <2>1, <2>2, <2>3, StepIsSpoolStep DEF NextSpool
<1> QED
  BY <1>2 DEF Earlier

\* peek's snapshot holds the earlier rows of whatever it holds.
LEMMA PeekIsPrefix ==
  ASSUME SpoolInv, NEW r \in Peek
  PROVE  Earlier(r) \subseteq Peek
<1> DEFINE Before(x) == {q \in rows : DrainedBefore(q, x)}
<1>1. SUFFICES ASSUME NEW s \in Earlier(r) PROVE s \in Peek
  OBVIOUS
<1>2. s \in rows /\ r \in rows /\ s.kind = r.kind /\ s.id < r.id
  BY DEF Earlier, Peek
<1>3. \A q \in rows : q.id \in Nat /\ q.kind \in Kinds
  BY DEF SpoolInv, TypeOKSpool, Row
<1>4. \A k \in Kinds : Priority[k] \in Nat
  BY DEF Priority, Kinds
<1>5. Before(s) \subseteq Before(r)
  BY <1>2, <1>3, <1>4 DEF DrainedBefore
<1>6. IsFiniteSet(Before(r))
  BY FS_Subset DEF SpoolInv
<1>7. Cardinality(Before(s)) <= Cardinality(Before(r))
  BY <1>5, <1>6, FS_Subset
<1>8. Cardinality(Before(s)) \in Nat /\ Cardinality(Before(r)) \in Nat
  BY <1>5, <1>6, FS_Subset, FS_CardinalityType
<1>9. Cardinality(Before(r)) < PeekLimit
  BY DEF Peek
<1> QED
  BY <1>2, <1>7, <1>8, <1>9, PeekAssumption DEF Peek

\* The row a thread sends next: the earlier rows of its kind have been delivered.
LEMMA FirstIsNext ==
  ASSUME TypeOK, OrderInv, NEW t \in Threads, NEW r \in First(thr[t].todo)
  PROVE  r \in thr[t].todo /\ Earlier(r) \subseteq delivered
<1>1. r \in thr[t].todo /\ r \in Row
  BY DEF First, TypeOK, ThreadState
<1>2. SUFFICES ASSUME NEW s \in Earlier(r), s \in thr[t].todo PROVE FALSE
  BY <1>1 DEF OrderInv
<1>3. s \in Row /\ s.kind = r.kind /\ s.id < r.id
  BY DEF Earlier, TypeOK, TypeOKSpool
<1>4. DrainedBefore(r, s)
  BY <1>1, <1>2, <1>3 DEF First, Row
<1>5. Priority[s.kind] \in Nat
  BY <1>3 DEF Row, Priority, Kinds
<1> QED
  BY <1>1, <1>3, <1>4, <1>5 DEF DrainedBefore, Row

\* What a step does to the snapshots: nothing, an end, a new one, or the
\* removal of a row that was delivered.
LEMMA SnapshotStep ==
  ASSUME TypeOK, WaitInv, [Next]_vars, NEW t \in Threads
  PROVE  \/ thr'[t].todo \in {thr[t].todo, {}}
         \/ thr'[t].todo = Peek /\ UNCHANGED rows
         \/ \E S \in SUBSET delivered : thr'[t].todo = thr[t].todo \ S
<1>0. thr \in [Threads -> ThreadState] /\ "net" \in Threads /\ "serial" \in Threads
  BY DEF TypeOK, Threads
<1> DEFINE Same == thr'[t].todo \in {thr[t].todo, {}}
<1>1. ASSUME NEW u \in Threads, NEW c, Start(u, c) PROVE Same
  BY <1>0, <1>1 DEF Start, ThreadState
<1>2. ASSUME NEW u \in Threads, NEW pc, Goto(u, pc) PROVE Same
  BY <1>0, <1>2 DEF Goto, ThreadState
<1>3. ASSUME NEW u \in Threads, Leave(u) PROVE Same
  BY <1>0, <1>3 DEF Leave, ThreadState
<1>4. ASSUME NEW u \in Threads, PublishNext(u) PROVE Same
  BY <1>0, <1>4 DEF PublishNext, ThreadState
<1>5. ASSUME NEW u \in Threads, Return(u) \/ DrainOffline(u) \/ DrainDone(u) \/ WaitTimesOut(u)
      PROVE  Same
  BY <1>2, <1>3, <1>5 DEF Return, DrainOffline, DrainDone, WaitTimesOut
<1>6. ASSUME NEW u \in Threads, DrainOnline(u)
      PROVE  Same \/ (thr'[t].todo = Peek /\ UNCHANGED rows)
  BY <1>0, <1>6 DEF DrainOnline, spoolVars, ThreadState
<1>7. ASSUME NEW u \in Threads, SendFirst(u) PROVE Same
  <2>1. PICK r : \/ thr' = [thr EXCEPT ![u].pc = "wait", ![u].item = {r}]
                 \/ Leave(u)
    BY <1>7 DEF SendFirst
  <2>2. CASE thr' = [thr EXCEPT ![u].pc = "wait", ![u].item = {r}]
    BY <1>0, <2>2 DEF ThreadState
  <2> QED
    BY <1>3, <2>1, <2>2
<1>8. ASSUME NEW u \in Threads, AcknowledgeItem(u)
      PROVE  Same \/ \E S \in SUBSET delivered : thr'[t].todo = thr[t].todo \ S
  <2>1. thr[u].item \subseteq delivered
    BY <1>8 DEF AcknowledgeItem, WaitInv
  <2>2. thr'[u].todo = thr[u].todo \ thr[u].item /\ (u # t => thr'[t] = thr[t])
    BY <1>0, <1>8 DEF AcknowledgeItem, ThreadState
  <2> QED
    BY <2>1, <2>2
<1>9. CASE PubAck
  BY <1>0, <1>9 DEF PubAck, ThreadState
<1>10. CASE Crash
  BY <1>10 DEF Crash, ThreadIdle
<1>11. CASE UNCHANGED thr
  BY <1>11
<1>12. CASE \/ \E s \in CommandScripts : OnMessage(s)
            \/ \E s \in SerialScripts : SerialEvent(s)
            \/ OnConnect \/ OnDisconnect \/ Disconnect
  BY <1>0, <1>1, <1>2, <1>12 DEF OnMessage, SerialEvent, OnConnect, OnDisconnect, Disconnect
<1> QED
  BY <1>4, <1>5, <1>6, <1>7, <1>8, <1>9, <1>10, <1>11, <1>12
     DEF Next, Step, NetLoop, Flush, vars

\* What a step does to paho's queue and the broker: a row comes from a snapshot into
\* the queue, and from the queue to the broker.
LEMMA QueueStep ==
  ASSUME TypeOK, [Next]_vars
  PROVE  /\ delivered \subseteq delivered' /\ delivered' \subseteq delivered \cup Queued
         /\ \/ Queued' \subseteq Queued
            \/ \E t \in Threads : \E r \in First(thr[t].todo) : Queued' \subseteq Queued \cup {r}
<1>0. out \in Seq(Message)
  BY DEF TypeOK
<1>1. CASE UNCHANGED <<out, delivered>>
  BY <1>1 DEF Queued
<1>2. ASSUME NEW t \in Threads, SendFirst(t)
      PROVE  /\ delivered' = delivered
             /\ \E r \in First(thr[t].todo) : Queued' \subseteq Queued \cup {r}
  <2>1. PICK r \in First(thr[t].todo) :
          \E m : m.row = r /\ out' = Append(out, m)
    BY <1>2 DEF SendFirst
  <2>2. PICK m : m.row = r /\ out' = Append(out, m)
    BY <2>1
  <2>3. /\ Len(out) \in Nat /\ DOMAIN out = 1 .. Len(out)
        /\ DOMAIN out' = DOMAIN out \cup {Len(out) + 1}
        /\ out'[Len(out) + 1] = m /\ \A i \in DOMAIN out : out'[i] = out[i]
    BY <1>0, <2>2
  <2>4. Queued' \subseteq Queued \cup {r}
    BY <2>2, <2>3 DEF Queued
  <2> QED
    BY <1>2, <2>4 DEF SendFirst, brokerVars
<1>3. ASSUME NEW t \in Threads, WaitTimesOut(t)
      PROVE  delivered' = delivered /\ Queued' \subseteq Queued
  <2>1. /\ DOMAIN out' = DOMAIN out
        /\ \A i \in DOMAIN out :
             out'[i] = IF out[i].by = t THEN [out[i] EXCEPT !.by = "nobody"] ELSE out[i]
        /\ delivered' = delivered
    BY <1>3 DEF WaitTimesOut, Disown, brokerVars
  <2>2. \A i \in DOMAIN out : out[i] \in Message
    BY <1>0
  <2>3. \A i \in DOMAIN out : out'[i].row = out[i].row
    BY <2>1, <2>2 DEF Message
  <2> QED
    BY <2>1, <2>3 DEF Queued
<1>4. CASE Flush
  <2>1. PICK k \in DOMAIN out :
          /\ out' = [out EXCEPT ![k].state = "sent"]
          /\ delivered' = delivered \cup {out[k].row}
    BY <1>4 DEF Flush
  <2>2. \A i \in DOMAIN out : out[i] \in Message
    BY <1>0
  <2>3. DOMAIN out' = DOMAIN out /\ \A i \in DOMAIN out : out'[i].row = out[i].row
    BY <2>1, <2>2 DEF Message
  <2> QED
    BY <2>1, <2>3 DEF Queued
<1>5. CASE PubAck
  <2>1. PICK k \in DOMAIN out : out' = RemoveAt(out, k)
    BY <1>5 DEF PubAck
  <2>2. /\ out' \in Seq(Message) /\ Len(out') = Len(out) - 1
        /\ \A i \in DOMAIN out' : out'[i] = IF i < k THEN out[i] ELSE out[i + 1]
    BY <1>0, <2>1, Removed
  <2>3. \A i \in DOMAIN out' : i \in DOMAIN out /\ (i >= k => i + 1 \in DOMAIN out)
    BY <1>0, <2>2
  <2>4. \A i \in DOMAIN out' : \E j \in DOMAIN out : out'[i] = out[j]
    BY <1>0, <2>2, <2>3
  <2> QED
    BY <1>5, <2>4 DEF PubAck, brokerVars, Queued
<1>6. CASE Disconnect
  <2>1. /\ DOMAIN out' = DOMAIN out
        /\ \A i \in DOMAIN out : out'[i] = [out[i] EXCEPT !.state = "stale"]
        /\ delivered' = delivered
    BY <1>6 DEF Disconnect, brokerVars
  <2>2. \A i \in DOMAIN out : out[i] \in Message
    BY <1>0
  <2>3. \A i \in DOMAIN out : out'[i].row = out[i].row
    BY <2>1, <2>2 DEF Message
  <2> QED
    BY <2>1, <2>3 DEF Queued
<1>7. CASE Crash
  BY <1>7 DEF Crash, Queued, brokerVars
<1>8. ASSUME NEW t \in Threads,
             \/ PublishNext(t) \/ Return(t) \/ DrainOffline(t) \/ DrainOnline(t)
             \/ DrainDone(t) \/ AcknowledgeItem(t)
      PROVE  UNCHANGED <<out, delivered>>
  BY <1>8 DEF PublishNext, Return, DrainOffline, DrainOnline, DrainDone,
     AcknowledgeItem, pahoVars, brokerVars
<1>9. CASE \/ \E s \in CommandScripts : OnMessage(s)
           \/ \E s \in SerialScripts : SerialEvent(s)
           \/ OnConnect \/ OnDisconnect \/ UNCHANGED vars
  BY <1>1, <1>9 DEF OnMessage, SerialEvent, OnConnect, OnDisconnect, vars, pahoVars,
     brokerVars
<1> QED
  BY <1>1, <1>2, <1>3, <1>4, <1>5, <1>6, <1>7, <1>8, <1>9 DEF Next, Step, NetLoop

LEMMA OrderNext ==
  TypeOK /\ IdInv /\ WaitInv /\ SpoolInv /\ OrderInv /\ [Next]_vars => OrderInv'
<1> SUFFICES ASSUME TypeOK, IdInv, WaitInv, SpoolInv, OrderInv, [Next]_vars
             PROVE  OrderInv'
  OBVIOUS
<1>1. /\ delivered \subseteq delivered' /\ delivered' \subseteq delivered \cup Queued
      /\ \/ Queued' \subseteq Queued
         \/ \E t \in Threads : \E r \in First(thr[t].todo) : Queued' \subseteq Queued \cup {r}
  BY QueueStep
<1>2. /\ \A t \in Threads : \A r \in thr[t].todo : r \in Row /\ r.id < nextId
      /\ nextId \in Nat
      /\ \A r \in rows : r \in Row /\ r.id < nextId
  BY DEF IdInv, TypeOK, TypeOKSpool, ThreadState
<1>3. nextId' \in Nat /\ nextId' >= nextId
  <2>1. ASSUME NEW k \in Kinds, Enqueue(k) PROVE nextId' = nextId + 1
    BY <2>1 DEF Enqueue, NextRowId
  <2>2. ASSUME NEW i, Acknowledge(i) PROVE nextId' = nextId
    BY <2>2 DEF Acknowledge
  <2>3. nextId' \in {nextId, nextId + 1}
    BY <2>1, <2>2, StepIsSpoolStep DEF NextSpool, spoolVars
  <2> QED
    BY <1>2, <2>3
<1>4. \A r \in Row : r.id < nextId => Earlier(r)' \subseteq Earlier(r)
  BY EarlierShrinks DEF Row
<1>5. ASSUME NEW r \in Queued' \cup delivered'
      PROVE  r \in Row /\ r.id < nextId /\ Earlier(r) \subseteq delivered
  <2>1. CASE r \in Queued \cup delivered
    BY <2>1 DEF OrderInv
  <2>2. CASE \E t \in Threads : r \in First(thr[t].todo)
    BY <1>2, <2>2, FirstIsNext
  <2> QED
    BY <1>1, <1>5, <2>1, <2>2
<1>6. \A r \in Queued' \cup delivered' : r \in Row /\ r.id < nextId'
  BY <1>2, <1>3, <1>5 DEF Row
<1>7. \A r \in Queued' \cup delivered' : Earlier(r)' \subseteq delivered'
  BY <1>1, <1>4, <1>5
<1>8. ASSUME NEW t \in Threads, NEW r \in thr'[t].todo
      PROVE  Earlier(r)' \subseteq thr'[t].todo \cup delivered'
  <2>1. CASE thr'[t].todo = thr[t].todo
    BY <1>1, <1>2, <1>4, <1>8, <2>1 DEF OrderInv
  <2>2. CASE thr'[t].todo = {}
    BY <1>8, <2>2
  <2>3. CASE thr'[t].todo = Peek /\ UNCHANGED rows
    <3>1. Earlier(r) \subseteq Peek /\ r \in rows
      BY <1>8, <2>3, PeekIsPrefix DEF Peek
    <3> QED
      BY <1>2, <1>4, <2>3, <3>1
  <2>4. ASSUME NEW S \in SUBSET delivered, thr'[t].todo = thr[t].todo \ S
        PROVE  Earlier(r)' \subseteq thr'[t].todo \cup delivered'
    <3>1. r \in thr[t].todo
      BY <1>8, <2>4
    <3>2. Earlier(r)' \subseteq thr[t].todo \cup delivered
      BY <1>2, <1>4, <3>1 DEF OrderInv
    <3> QED
      BY <1>1, <2>4, <3>2
  <2> QED
    BY <2>1, <2>2, <2>3, <2>4, SnapshotStep
<1> QED
  BY <1>6, <1>7, <1>8 DEF OrderInv

\* On each topic the broker gets rows for the first time in the order of their
\* insertion: for every size of the spool and of peek's snapshot, whatever the two
\* threads do with stale snapshots, and across disconnections and crashes.
THEOREM TransportDeliversInOrder == Spec => []FirstDeliveryInOrder
<1>1. OrderInv => FirstDeliveryInOrder
  <2> SUFFICES ASSUME OrderInv, NEW r \in delivered, NEW i \in 1 .. (r.id - 1),
                      NEW s \in rows, s.id = i, s.kind = r.kind
               PROVE  i \in Ids(delivered)
    BY DEF FirstDeliveryInOrder
  <2>1. r.id \in Nat
    BY DEF OrderInv, Row
  <2>2. s \in Earlier(r)
    BY <2>1 DEF Earlier
  <2> QED
    BY <2>2 DEF OrderInv, Ids
<1>2. Init => WaitInv /\ OrderInv
  BY WaitInit, OrderInit
<1>3. TypeOK /\ IdInv /\ SpoolInv /\ WaitInv /\ OrderInv /\ [Next]_vars => (WaitInv /\ OrderInv)'
  BY WaitNext, OrderNext
<1>4. Spec => []SpoolInv
  BY TransportImplementsSpool, SpoolInvariant, PTL
<1> QED
  BY <1>1, <1>2, <1>3, <1>4, TransportTypeAndIds, PTL DEF Spec
===============================================================================
