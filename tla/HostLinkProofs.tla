---------------------------- MODULE HostLinkProofs ----------------------------
(***************************************************************************)
(* Proofs about HostLink, for every size of the ring and the line and any  *)
(* number of bytes: the ring implements a bounded queue that loses a byte  *)
(* only when it is full, and the lines cut from it are whole.              *)
(*                                                                         *)
(* Besides the types the invariant says that a byte half taken is the one  *)
(* at tail and that the ring is not empty then: the interrupt writes at    *)
(* head, which is another slot.  For the lines it says that the one under  *)
(* way is all that was taken since the last "lf", as long as it fits.      *)
(*                                                                         *)
(* The last two parts are about the WiFi link (Wifi), where a word of an   *)
(* earlier exchange is told from one of this, and about the numbers the    *)
(* archived firmware prints (C51Serial); neither shares state with         *)
(* HostLink.                                                               *)
(***************************************************************************)
EXTENDS HostLink, Wifi, C51Serial, SequenceTheorems, TLAPS

HalfTaken == pc = "take" => head # tail /\ byte = rx[tail]

IInv == TypeOK /\ HalfTaken

-------------------------------------------------------------------------------
\* (uint8_t)(i + 1) stays in the ring.
LEMMA NextSlotType ==
  ASSUME NEW i \in Slots
  PROVE  NextSlot(i) \in Slots
  BY SizeAssumption DEF NextSlot, Slots

\* A line without its carriage return is a line.
LEMMA StrippedType ==
  ASSUME NEW l \in Seq(Byte)
  PROVE  Stripped(l) \in Seq(Byte)
  <1>1. CASE l # <<>> /\ l[Len(l)].kind = "cr"
    <2>1. Len(l) \in Nat /\ Len(l) >= 1
      BY <1>1, EmptySeq, LenProperties
    <2>2. 1 \in 1 .. (Len(l) + 1) /\ Len(l) - 1 \in 0 .. Len(l)
      BY <2>1
    <2>3. SubSeq(l, 1, Len(l) - 1) \in Seq(Byte)
      BY <2>1, <2>2, SubSeqProperties
    <2> QED
      BY <1>1, <2>3 DEF Stripped
  <1>2. CASE ~(l # <<>> /\ l[Len(l)].kind = "cr")
    BY <1>2 DEF Stripped
  <1> QED
    BY <1>1, <1>2

LEMMA AssembleType ==
  ASSUME TypeOK, NEW b \in Byte, Assemble(b)
  PROVE  line' \in Seq(Byte) /\ dropping' \in BOOLEAN /\ processed' \in Seq(Seq(Byte))
  <1>0. line \in Seq(Byte) /\ dropping \in BOOLEAN /\ processed \in Seq(Seq(Byte))
    BY DEF TypeOK
  <1>1. CASE b.kind = "lf"
    <2>1. line' = <<>> /\ dropping' = FALSE
      BY <1>1 DEF Assemble
    <2>2. processed' = processed \/ processed' = Append(processed, Stripped(line))
      BY <1>1 DEF Assemble
    <2>3. Append(processed, Stripped(line)) \in Seq(Seq(Byte))
      BY <1>0, StrippedType, AppendProperties
    <2>4. line' \in Seq(Byte)
      BY <2>1
    <2>5. dropping' \in BOOLEAN
      BY <2>1
    <2>6. processed' \in Seq(Seq(Byte))
      BY <1>0, <2>2, <2>3
    <2> QED
      BY <2>4, <2>5, <2>6
  <1>2. CASE b.kind # "lf"
    <2>1. processed' = processed
      BY <1>2 DEF Assemble
    <2>2. (line' = Append(line, b) /\ dropping' = dropping) \/ (line' = line /\ dropping' = TRUE)
      BY <1>2 DEF Assemble
    <2>3. Append(line, b) \in Seq(Byte)
      BY <1>0, AppendProperties
    <2>4. line' \in Seq(Byte)
      BY <1>0, <2>2, <2>3
    <2>5. dropping' \in BOOLEAN
      BY <1>0, <2>2
    <2>6. processed' \in Seq(Seq(Byte))
      BY <1>0, <2>1
    <2> QED
      BY <2>4, <2>5, <2>6
  <1> QED
    BY <1>1, <1>2

LEMMA TypeInit == Init => TypeOK
  <1> SUFFICES ASSUME Init PROVE TypeOK
    OBVIOUS
  <1>1. [n |-> 0, kind |-> "char"] \in Byte
    BY DEF Byte, Kinds
  <1>2. 0 \in Slots
    BY SizeAssumption DEF Slots
  <1>3. rx \in [Slots -> Byte]
    BY <1>1 DEF Init
  <1>4. <<>> \in Seq(Byte) /\ <<>> \in Seq(Seq(Byte))
    OBVIOUS
  <1> QED
    BY <1>1, <1>2, <1>3, <1>4 DEF Init, TypeOK

LEMMA TypeNext == TypeOK /\ [Next]_vars => TypeOK'
  <1> SUFFICES ASSUME TypeOK, [Next]_vars PROVE TypeOK'
    OBVIOUS
  <1> USE DEF ringVars, mainVars
  <1>1. ASSUME NEW k \in Kinds, Receive(k) PROVE TypeOK'
    <2>1. arrived' \in Nat /\ Arrive(k) \in Byte
      BY <1>1 DEF Receive, Arrive, Byte, TypeOK
    <2>2. CASE NextSlot(head) = tail
      <3>1. lost' \in SUBSET Byte
        BY <1>1, <2>1, <2>2 DEF Receive, TypeOK
      <3>2. errors' \in SUBSET Flags /\ unreported' \in BOOLEAN
        BY <1>1, <2>2 DEF Receive, Flag, Flags, TypeOK
      <3> QED
        BY <1>1, <2>1, <2>2, <3>1, <3>2 DEF Receive, TypeOK
    <2>3. CASE NextSlot(head) # tail
      <3>1. rx' \in [Slots -> Byte]
        BY <1>1, <2>1, <2>3 DEF Receive, TypeOK
      <3>2. head' \in Slots
        BY <1>1, <2>3, NextSlotType DEF Receive, TypeOK
      <3> QED
        BY <1>1, <2>1, <2>3, <3>1, <3>2 DEF Receive, TypeOK
    <2> QED
      BY <2>2, <2>3
  <1>2. CASE ReceiveBad
    <2>1. errors' \in SUBSET Flags /\ unreported' \in BOOLEAN
      BY <1>2 DEF ReceiveBad, Flag, Flags, TypeOK
    <2>2. arrived' \in Nat
      BY <1>2 DEF ReceiveBad, TypeOK
    <2> QED
      BY <1>2, <2>1, <2>2 DEF ReceiveBad, TypeOK
  <1>3. CASE ReadErrors
    BY <1>3 DEF ReadErrors, TypeOK
  <1>4. CASE ClearErrors
    BY <1>4 DEF ClearErrors, TypeOK
  <1>5. CASE RingIsEmpty
    BY <1>5 DEF RingIsEmpty, TypeOK
  <1>6. CASE CopyByte
    BY <1>6 DEF CopyByte, TypeOK
  <1>7. CASE TakeByte
    <2>1. byte \in Byte /\ tail' \in Slots
      BY <1>7, NextSlotType DEF TakeByte, TypeOK
    <2>2. taken' \in Seq(Byte)
      BY <1>7, <2>1, AppendProperties DEF TakeByte, TypeOK
    <2>3. line' \in Seq(Byte) /\ dropping' \in BOOLEAN /\ processed' \in Seq(Seq(Byte))
      BY <1>7, <2>1, AssembleType DEF TakeByte
    <2> QED
      BY <1>7, <2>1, <2>2, <2>3 DEF TakeByte, TypeOK
  <1>8. CASE UNCHANGED vars
    BY <1>8 DEF vars, TypeOK
  <1> QED
    BY <1>1, <1>2, <1>3, <1>4, <1>5, <1>6, <1>7, <1>8 DEF Next, Poll

LEMMA HalfTakenNext == TypeOK /\ HalfTaken /\ [Next]_vars => HalfTaken'
  <1> SUFFICES ASSUME TypeOK, HalfTaken, [Next]_vars PROVE HalfTaken'
    OBVIOUS
  <1> USE DEF ringVars, mainVars
  <1>1. ASSUME NEW k \in Kinds, Receive(k) PROVE HalfTaken'
    BY <1>1 DEF Receive, HalfTaken, TypeOK
  <1>2. ReceiveBad \/ UNCHANGED vars => HalfTaken'
    BY DEF ReceiveBad, vars, HalfTaken
  <1>3. Poll => HalfTaken'
    BY DEF Poll, ReadErrors, ClearErrors, RingIsEmpty, CopyByte, TakeByte, HalfTaken
  <1> QED
    BY <1>1, <1>2, <1>3 DEF Next

LEMMA IInvInit == Init => IInv
  BY TypeInit DEF IInv, HalfTaken, Init

LEMMA IInvNext == IInv /\ [Next]_vars => IInv'
  BY TypeNext, HalfTakenNext DEF IInv

THEOREM LinkInvariant == Spec => []IInv
  BY IInvInit, IInvNext, PTL DEF Spec

\* Indices stay in the ring, flags, bytes and lines keep their types
\* (serial2_printf.c:9, command_protocol.c:12).
THEOREM LinkTypeCorrect == Spec => []TypeOK
  <1>1. IInv => TypeOK
    BY DEF IInv
  <1> QED
    BY <1>1, LinkInvariant, PTL

-------------------------------------------------------------------------------
\* How full the ring is: one slot stays free, and the interrupt finds no room
\* exactly when the others are in use.
LEMMA StoredBounds ==
  ASSUME TypeOK
  PROVE  /\ Stored \in 0 .. (RingSize - 1)
         /\ NextSlot(head) = tail <=> Stored = RingSize - 1
         /\ head = tail <=> Stored = 0
  BY SizeAssumption DEF TypeOK, Slots, Stored, NextSlot

LEMMA SlotAtType ==
  ASSUME TypeOK, NEW i \in 0 .. (RingSize - 1)
  PROVE  SlotAt(i) \in Slots
  BY SizeAssumption DEF TypeOK, Slots, SlotAt

ContentIsWhole ==
  /\ Content \in Seq(Byte) /\ Len(Content) = Stored
  /\ \A i \in 1 .. Stored : Content[i] = rx[SlotAt(i - 1)]

LEMMA ContentType == TypeOK => ContentIsWhole
  <1> SUFFICES ASSUME TypeOK PROVE ContentIsWhole
    OBVIOUS
  <1>1. Stored \in Nat /\ Stored =< RingSize - 1
    BY StoredBounds, SizeAssumption
  <1>2. ASSUME NEW i \in 1 .. Stored PROVE rx[SlotAt(i - 1)] \in Byte
    <2>1. i - 1 \in 0 .. (RingSize - 1)
      BY <1>1, SizeAssumption
    <2>2. SlotAt(i - 1) \in Slots
      BY <2>1, SlotAtType
    <2> QED
      BY <2>2 DEF TypeOK
  <1>3. Content \in [1 .. Stored -> Byte]
    BY <1>2 DEF Content
  <1>4. Content \in Seq(Byte) /\ Len(Content) = Stored
    BY <1>1, <1>3
  <1>5. ASSUME NEW i \in 1 .. Stored PROVE Content[i] = rx[SlotAt(i - 1)]
    BY DEF Content
  <1> QED
    BY <1>4, <1>5 DEF ContentIsWhole

LEMMA ContentTypeNext == TypeOK' => ContentIsWhole'
  BY ContentType, PTL

\* A byte the interrupt stores is the last one of the queue; no other moves.
LEMMA StoreAppends ==
  ASSUME TypeOK, TypeOK', NEW b \in Byte,
         NextSlot(head) # tail, head' = NextSlot(head), tail' = tail,
         rx' = [rx EXCEPT ![head] = b]
  PROVE  Content' = Append(Content, b)
  <1>1. Stored \in Nat /\ Stored < RingSize - 1
    BY StoredBounds, SizeAssumption
  <1>2. Stored' = Stored + 1
    BY SizeAssumption DEF TypeOK, Slots, Stored, NextSlot
  <1>3. SlotAt(Stored) = head
    BY SizeAssumption DEF TypeOK, Slots, Stored, SlotAt
  <1>4. \A i \in Nat : SlotAt(i)' = SlotAt(i)
    BY DEF SlotAt
  <1>5. ASSUME NEW i \in 0 .. (Stored - 1) PROVE SlotAt(i) # head /\ SlotAt(i) \in Slots
    <2>1. i \in Nat /\ i < Stored /\ i \in 0 .. (RingSize - 1)
      BY <1>1, SizeAssumption
    <2>2. SlotAt(i) \in Slots
      BY <2>1, SlotAtType
    <2>3. SlotAt(i) # head
      BY <2>1, SizeAssumption DEF TypeOK, Slots, Stored, SlotAt
    <2> QED
      BY <2>2, <2>3
  <1>6. Content' \in Seq(Byte) /\ Len(Content)' = Stored + 1
    BY <1>2, ContentTypeNext DEF ContentIsWhole
  <1>7. \A i \in 1 .. (Stored + 1) : Content'[i] = rx'[SlotAt(i - 1)]
    <2>1. (\A i \in 1 .. Stored : Content[i] = rx[SlotAt(i - 1)])'
      BY ContentTypeNext DEF ContentIsWhole
    <2>2. \A i \in 1 .. Stored' : Content'[i] = rx'[SlotAt(i - 1)']
      BY <2>1
    <2> QED
      BY <1>1, <1>2, <1>4, <2>2
  <1>8. rx'[head] = b /\ \A j \in Slots : j # head => rx'[j] = rx[j]
    BY DEF TypeOK
  <1>9. Content'[Stored + 1] = b
    BY <1>1, <1>3, <1>7, <1>8
  <1>10. ASSUME NEW i \in 1 .. Stored PROVE Content'[i] = Content[i]
    <2>1. i - 1 \in 0 .. (Stored - 1) /\ i \in 1 .. (Stored + 1)
      BY <1>1
    <2>2. Content'[i] = rx'[SlotAt(i - 1)]
      BY <1>7, <2>1
    <2>3. rx'[SlotAt(i - 1)] = rx[SlotAt(i - 1)]
      BY <1>5, <1>8, <2>1
    <2> QED
      BY <2>2, <2>3, ContentType DEF ContentIsWhole
  <1>11. /\ Append(Content, b) \in Seq(Byte) /\ Len(Append(Content, b)) = Stored + 1
         /\ \A i \in 1 .. Stored : Append(Content, b)[i] = Content[i]
         /\ Append(Content, b)[Stored + 1] = b
    BY ContentType, AppendProperties DEF ContentIsWhole
  <1>12. \A i \in 1 .. (Stored + 1) : Content'[i] = Append(Content, b)[i]
    BY <1>1, <1>9, <1>10, <1>11
  <1> QED
    BY <1>6, <1>11, <1>12, SeqEqual

\* The byte at tail is the first one of the queue; moving tail removes it.
LEMMA TakeRemoves ==
  ASSUME TypeOK, TypeOK',
         head # tail, tail' = NextSlot(tail), head' = head, rx' = rx
  PROVE  Content # <<>> /\ Head(Content) = rx[tail] /\ Content' = Tail(Content)
  <1>1. Stored \in Nat /\ Stored > 0 /\ Stored =< RingSize - 1
    BY StoredBounds, SizeAssumption
  <1>2. Stored' = Stored - 1
    BY SizeAssumption DEF TypeOK, Slots, Stored, NextSlot
  <1>3. SlotAt(0) = tail
    BY SizeAssumption DEF TypeOK, Slots, SlotAt
  <1>4. ASSUME NEW i \in 0 .. (Stored - 2) PROVE SlotAt(i)' = SlotAt(i + 1)
    <2>1. i \in Nat /\ i + 1 < RingSize
      BY <1>1, SizeAssumption
    <2> QED
      BY <2>1, SizeAssumption DEF TypeOK, Slots, SlotAt, NextSlot
  <1>5. Content \in Seq(Byte) /\ Len(Content) = Stored
    BY ContentType DEF ContentIsWhole
  <1>6. Content # <<>>
    BY <1>1, <1>5
  <1>7. Head(Content) = rx[tail]
    <2>1. 1 \in 1 .. Stored
      BY <1>1
    <2>2. Content[1] = rx[SlotAt(0)]
      BY <2>1, ContentType DEF ContentIsWhole
    <2> QED
      BY <1>3, <1>5, <1>6, <2>2, HeadTailProperties
  <1>8. /\ Tail(Content) \in Seq(Byte) /\ Len(Tail(Content)) = Stored - 1
        /\ \A i \in 1 .. (Stored - 1) : Tail(Content)[i] = Content[i + 1]
    BY <1>5, <1>6, HeadTailProperties
  <1>9. Content' \in Seq(Byte) /\ Len(Content)' = Stored - 1
    BY <1>2, ContentTypeNext DEF ContentIsWhole
  <1>10. ASSUME NEW i \in 1 .. (Stored - 1) PROVE Content'[i] = Content[i + 1]
    <2>1. (\A j \in 1 .. Stored : Content[j] = rx[SlotAt(j - 1)])'
      BY ContentTypeNext DEF ContentIsWhole
    <2>2. Content'[i] = rx'[SlotAt(i - 1)']
      BY <1>2, <2>1
    <2>3. SlotAt(i - 1)' = SlotAt(i)
      <3>1. i - 1 \in 0 .. (Stored - 2) /\ (i - 1) + 1 = i
        BY <1>1
      <3> QED
        BY <1>4, <3>1
    <2>4. i + 1 \in 1 .. Stored /\ (i + 1) - 1 = i
      BY <1>1
    <2> QED
      BY <2>2, <2>3, <2>4, ContentType DEF ContentIsWhole
  <1>11. Content' = Tail(Content)
    BY <1>8, <1>9, <1>10, SeqEqual
  <1> QED
    BY <1>6, <1>7, <1>11

-------------------------------------------------------------------------------
LEMMA FifoInit == Init => Fifo!InitFifo
  <1> SUFFICES ASSUME Init PROVE Fifo!InitFifo
    OBVIOUS
  <1>1. TypeOK
    BY TypeInit
  <1>2. Stored = 0
    BY DEF Init, Stored
  <1>3. Content = <<>>
    BY <1>1, <1>2, ContentType, EmptySeq DEF ContentIsWhole
  <1> QED
    BY <1>3 DEF Init, Fifo!InitFifo

\* A step that leaves the ring and what was taken from it alone is no step of the
\* queue.
LEMMA RingUnchanged == UNCHANGED ringVars => UNCHANGED Fifo!fifoVars
  BY DEF ringVars, Content, Stored, SlotAt, Fifo!fifoVars

\* The interrupt puts its byte into the queue, or loses it when the queue is full;
\* the main loop takes the first byte.
LEMMA FifoNext == IInv /\ [Next]_vars => [Fifo!NextFifo]_(Fifo!fifoVars)
  <1> SUFFICES ASSUME IInv, [Next]_vars PROVE [Fifo!NextFifo]_(Fifo!fifoVars)
    OBVIOUS
  <1>0. TypeOK /\ TypeOK' /\ HalfTaken
    BY TypeNext DEF IInv
  <1>1. ASSUME NEW k \in Kinds, Receive(k) PROVE Fifo!NextFifo
    <2>1. Arrive(k) \in [n : 1 .. MaxBytes, kind : Kinds] /\ Arrive(k) \in Byte
      BY <1>0, <1>1, SizeAssumption DEF Receive, Arrive, Byte, TypeOK
    <2>2. CASE NextSlot(head) = tail
      <3>1. Len(Content) = RingSize - 1
        BY <1>0, <2>2, StoredBounds, ContentType DEF ContentIsWhole
      <3>2. UNCHANGED <<head, tail, rx, taken>> /\ lost' = lost \cup {Arrive(k)}
        BY <1>1, <2>2 DEF Receive
      <3>3. Content' = Content
        BY <3>2 DEF Content, Stored, SlotAt
      <3>4. Fifo!Lose(Arrive(k))
        BY <3>1, <3>2, <3>3 DEF Fifo!Lose
      <3> QED
        BY <2>1, <3>4 DEF Fifo!NextFifo
    <2>3. CASE NextSlot(head) # tail
      <3>1. Len(Content) < RingSize - 1
        BY <1>0, <2>3, StoredBounds, ContentType, SizeAssumption DEF ContentIsWhole
      <3>2. /\ rx' = [rx EXCEPT ![head] = Arrive(k)] /\ head' = NextSlot(head)
            /\ UNCHANGED <<tail, taken, lost>>
        BY <1>1, <2>3 DEF Receive
      <3>3. Content' = Append(Content, Arrive(k))
        BY <1>0, <2>1, <2>3, <3>2, StoreAppends
      <3>4. Fifo!Put(Arrive(k))
        BY <3>1, <3>2, <3>3 DEF Fifo!Put
      <3> QED
        BY <2>1, <3>4 DEF Fifo!NextFifo
    <2> QED
      BY <2>2, <2>3
  <1>2. CASE ReceiveBad
    BY <1>2, RingUnchanged DEF ReceiveBad
  <1>3. CASE ReadErrors \/ ClearErrors \/ RingIsEmpty \/ CopyByte
    BY <1>3, RingUnchanged DEF ReadErrors, ClearErrors, RingIsEmpty, CopyByte
  <1>4. CASE TakeByte
    <2>1. head # tail /\ byte = rx[tail]
      BY <1>0, <1>4 DEF TakeByte, HalfTaken
    <2>2. /\ tail' = NextSlot(tail) /\ taken' = Append(taken, byte)
          /\ UNCHANGED <<head, rx, lost>>
      BY <1>4 DEF TakeByte
    <2>3. Content # <<>> /\ Head(Content) = rx[tail] /\ Content' = Tail(Content)
      BY <1>0, <2>1, <2>2, TakeRemoves
    <2>4. Fifo!Take
      BY <2>1, <2>2, <2>3 DEF Fifo!Take
    <2> QED
      BY <2>4 DEF Fifo!NextFifo
  <1>5. CASE UNCHANGED vars
    BY <1>5, RingUnchanged DEF vars
  <1> QED
    BY <1>1, <1>2, <1>3, <1>4, <1>5 DEF Next, Poll

\* The ring without a lock is a bounded queue: no byte is repeated, reordered or
\* overwritten, and one is lost only when the ring is full (serial2_printf.c:19-20).
THEOREM LinkRingIsFifo == Spec => RingIsFifo
  <1>1. Init => Fifo!InitFifo
    BY FifoInit
  <1>2. IInv /\ [Next]_vars => [Fifo!NextFifo]_(Fifo!fifoVars)
    BY FifoNext
  <1> QED
    BY <1>1, <1>2, LinkInvariant, PTL DEF Spec, RingIsFifo, Fifo!SpecFifo

\* A lost byte is reported to the host by the next poll, unless it is lost between
\* the reading of the flags and their clearing (serial2_printf.c:20).
THEOREM LinkLossIsReported == Spec => []LossIsReported
  <1>1. Init => LossIsReported
    BY DEF Init, LossIsReported
  <1>2. LossIsReported /\ [Next]_vars => LossIsReported'
    <2> SUFFICES ASSUME LossIsReported, [Next]_vars PROVE LossIsReported'
      OBVIOUS
    <2> USE DEF LossIsReported, mainVars
    <2>1. ASSUME NEW k \in Kinds, Receive(k) PROVE LossIsReported'
      BY <2>1 DEF Receive, Flag
    <2>2. CASE ReceiveBad
      BY <2>2 DEF ReceiveBad, Flag
    <2>3. CASE ReadErrors
      BY <2>3 DEF ReadErrors
    <2>4. CASE ClearErrors
      BY <2>4 DEF ClearErrors
    <2>5. CASE RingIsEmpty \/ CopyByte \/ TakeByte
      BY <2>5 DEF RingIsEmpty, CopyByte, TakeByte
    <2>6. CASE UNCHANGED vars
      BY <2>6 DEF vars
    <2> QED
      BY <2>1, <2>2, <2>3, <2>4, <2>5, <2>6 DEF Next, Poll
  <1> QED
    BY <1>1, <1>2, PTL DEF Spec

-------------------------------------------------------------------------------
(* The lines.  Every position has a beginning, which is unique.              *)

HasBegin(t) == \A i \in 1 .. (Len(t) + 1) : \E b \in 1 .. i : IsBegin(t, b, i)

LEMMA BeginIs ==
  ASSUME NEW t, NEW i \in Nat, NEW b \in 1 .. i, IsBegin(t, b, i)
  PROVE  Begin(t, i) = b
  <1>1. Begin(t, i) \in 1 .. i /\ IsBegin(t, Begin(t, i), i)
    BY DEF Begin
  <1>2. ASSUME NEW c \in 1 .. i, IsBegin(t, c, i), NEW d \in 1 .. i, IsBegin(t, d, i)
        PROVE  ~(c < d)
    <2> SUFFICES ASSUME c < d PROVE FALSE
      OBVIOUS
    <2>1. d - 1 \in c .. (i - 1) /\ d # 1
      OBVIOUS
    <2> QED
      BY <1>2, <2>1 DEF IsBegin
  <1> QED
    BY <1>1, <1>2

\* A byte more leaves the lines that have ended as they were.
LEMMA BeginStays ==
  ASSUME NEW t \in Seq(Byte), NEW e \in Byte, HasBegin(t), NEW i \in 1 .. (Len(t) + 1)
  PROVE  /\ Begin(t, i) \in 1 .. i /\ IsBegin(t, Begin(t, i), i)
         /\ IsBegin(Append(t, e), Begin(t, i), i)
         /\ Begin(Append(t, e), i) = Begin(t, i)
         /\ Segment(Append(t, e), i) = Segment(t, i)
         /\ Segment(t, i) \in Seq(Byte) /\ Len(Segment(t, i)) = i - Begin(t, i)
  <1> DEFINE u == Append(t, e)
  <1>1. /\ u \in Seq(Byte) /\ Len(u) = Len(t) + 1 /\ Len(t) \in Nat
        /\ DOMAIN t = 1 .. Len(t) /\ DOMAIN u = 1 .. (Len(t) + 1)
        /\ \A j \in 1 .. Len(t) : u[j] = t[j]
    BY AppendProperties, LenProperties
  <1>2. PICK b \in 1 .. i : IsBegin(t, b, i)
    BY DEF HasBegin
  <1>3. IsBegin(u, b, i)
    BY <1>1, <1>2 DEF IsBegin, Ends
  <1>4. Begin(t, i) = b /\ Begin(u, i) = b
    BY <1>2, <1>3, BeginIs
  <1>5. /\ \A j \in b .. (i - 1) : t[j] \in Byte /\ u[j] \in Byte /\ u[j] = t[j]
        /\ b \in Int /\ i - 1 \in Int /\ b <= i
    BY <1>1
  <1>6. /\ SubSeq(t, b, i - 1) \in Seq(Byte) /\ Len(SubSeq(t, b, i - 1)) = i - b
        /\ \A j \in 1 .. (i - b) : SubSeq(t, b, i - 1)[j] = t[b + j - 1]
    BY <1>5, SubSeqProperties
  <1>7. /\ SubSeq(u, b, i - 1) \in Seq(Byte) /\ Len(SubSeq(u, b, i - 1)) = i - b
        /\ \A j \in 1 .. (i - b) : SubSeq(u, b, i - 1)[j] = u[b + j - 1]
    BY <1>5, SubSeqProperties
  <1>8. \A j \in 1 .. (i - b) : u[b + j - 1] = t[b + j - 1]
    BY <1>5
  <1>9. SubSeq(u, b, i - 1) = SubSeq(t, b, i - 1)
    BY <1>6, <1>7, <1>8, SeqEqual
  <1> QED
    BY <1>2, <1>3, <1>4, <1>6, <1>9 DEF Segment

\* The next line begins behind an "lf", else where it began.
LEMMA BeginMoves ==
  ASSUME NEW t \in Seq(Byte), NEW e \in Byte, HasBegin(t)
  PROVE  LET u == Append(t, e)
         IN /\ HasBegin(u)
            /\ Begin(u, Len(u) + 1) = IF e.kind = "lf" THEN Len(u) + 1 ELSE Begin(t, Len(u))
            /\ Ends(u) = Ends(t) \cup (IF e.kind = "lf" THEN {Len(u)} ELSE {})
  <1> DEFINE u == Append(t, e)  n == Len(t)
             b == IF e.kind = "lf" THEN n + 2 ELSE Begin(t, n + 1)
  <1>1. /\ u \in Seq(Byte) /\ Len(u) = n + 1 /\ n \in Nat
        /\ DOMAIN t = 1 .. n /\ DOMAIN u = 1 .. (n + 1)
        /\ (\A j \in 1 .. n : u[j] = t[j]) /\ u[n + 1] = e
    BY AppendProperties, LenProperties
  <1>2. Begin(t, n + 1) \in 1 .. (n + 1) /\ IsBegin(u, Begin(t, n + 1), n + 1)
    BY <1>1, BeginStays
  <1> HIDE DEF n
  <1>3. Ends(u) = Ends(t) \cup (IF e.kind = "lf" THEN {n + 1} ELSE {})
    BY <1>1 DEF Ends
  <1>4. b \in 1 .. (n + 2)
    BY <1>1, <1>2
  <1>5. IsBegin(u, b, n + 2)
    <2>1. CASE e.kind = "lf"
      <3>1. n + 1 \in Ends(u) /\ b = n + 2
        BY <1>1, <1>3, <2>1
      <3> QED
        BY <1>1, <3>1 DEF IsBegin
    <2>2. CASE e.kind # "lf"
      <3>1. n + 1 \notin Ends(u) /\ b = Begin(t, n + 1)
        BY <1>1, <2>2 DEF Ends
      <3>2. \A j \in b .. (n + 1) : j \in b .. n \/ j = n + 1
        BY <1>1, <1>4
      <3> QED
        BY <1>1, <1>2, <3>1, <3>2 DEF IsBegin
    <2> QED
      BY <2>1, <2>2
  <1> HIDE DEF b
  <1>6. Begin(u, n + 2) = b
    BY <1>1, <1>4, <1>5, BeginIs
  <1>7. HasBegin(u)
    <2> SUFFICES ASSUME NEW i \in 1 .. (n + 2) PROVE \E c \in 1 .. i : IsBegin(u, c, i)
      BY <1>1 DEF HasBegin
    <2>1. CASE i = n + 2
      BY <1>4, <1>5, <2>1
    <2>2. CASE i \in 1 .. (n + 1)
      BY <2>2, BeginStays DEF n
    <2> QED
      BY <1>1, <2>1, <2>2
  <1> QED
    BY <1>1, <1>3, <1>6, <1>7 DEF b, n

-------------------------------------------------------------------------------
\* The line under way is all that came since the last one, as long as it fits.
LineInv ==
  LET b == Begin(taken, Len(taken) + 1)
  IN IF dropping
       THEN Len(taken) - b + 1 >= LineSize
       ELSE /\ line = SubSeq(taken, b, Len(taken))
            /\ Len(line) <= LineSize - 1

LinesInv == HasBegin(taken) /\ LineInv /\ LinesAreWhole

LEMMA LinesInit == Init => LinesInv
  <1> SUFFICES ASSUME Init PROVE LinesInv
    OBVIOUS
  <1>1. /\ taken = <<>> /\ line = <<>> /\ processed = <<>> /\ dropping = FALSE
        /\ Len(taken) = 0 /\ Len(line) = 0
        /\ DOMAIN taken = {} /\ DOMAIN processed = {}
    BY DEF Init
  <1>2. Ends(taken) = {} /\ Fitting(taken) = {}
    BY <1>1 DEF Ends, Fitting
  <1>3. HasBegin(taken) /\ IsBegin(taken, 1, 1)
    BY <1>1 DEF HasBegin, IsBegin
  <1>4. Begin(taken, Len(taken) + 1) = 1
    BY <1>1, <1>3, BeginIs
  <1>5. SubSeq(taken, 1, 0) = <<>>
    BY SubSeqEmpty
  <1>6. LineInv
    BY <1>1, <1>4, <1>5, SizeAssumption DEF LineInv
  <1>7. LinesAreWhole
    <2>1. [k \in {} |-> 0] \in [DOMAIN processed -> Fitting(taken)]
      BY <1>1
    <2> QED
      BY <1>1, <1>2, <2>1 DEF LinesAreWhole
  <1> QED
    BY <1>3, <1>6, <1>7 DEF LinesInv

\* What fitted still fits; the byte just taken may end a line that does.
LEMMA FittingGrows ==
  ASSUME NEW t \in Seq(Byte), NEW e \in Byte, HasBegin(t)
  PROVE  LET u == Append(t, e)
             n == Len(t) + 1
         IN /\ Fitting(t) \subseteq 1 .. Len(t)
            /\ Fitting(u) = Fitting(t) \cup
                 (IF e.kind = "lf" /\ Len(Segment(t, n)) \in 1 .. (LineSize - 1)
                    THEN {n} ELSE {})
  <1> DEFINE u == Append(t, e)  n == Len(t) + 1
  <1>1. Ends(u) = Ends(t) \cup (IF e.kind = "lf" THEN {n} ELSE {})
    BY BeginMoves, AppendProperties
  <1>2. \A i \in 1 .. n : Segment(u, i) = Segment(t, i)
    BY BeginStays
  <1>3. Ends(t) \subseteq 1 .. Len(t) /\ Len(t) \in Nat
    BY LenProperties DEF Ends
  <1> HIDE DEF u
  <1>4. Fitting(u) = Fitting(t) \cup
          (IF e.kind = "lf" /\ Len(Segment(t, n)) \in 1 .. (LineSize - 1) THEN {n} ELSE {})
    BY <1>1, <1>2, <1>3 DEF Fitting
  <1> QED
    BY <1>3, <1>4 DEF u, Fitting

LEMMA LineStep ==
  ASSUME TypeOK, LinesInv, TakeByte
  PROVE  LineInv'
  <1> DEFINE n == Len(taken)  b == Begin(taken, n + 1)
  <1>1. /\ taken \in Seq(Byte) /\ byte \in Byte /\ line \in Seq(Byte)
        /\ n \in Nat /\ DOMAIN taken = 1 .. n /\ Len(line) \in Nat
    BY LenProperties DEF TypeOK
  <1>2. taken' = Append(taken, byte) /\ Assemble(byte)
    BY DEF TakeByte
  <1>3. /\ taken' \in Seq(Byte) /\ Len(taken') = n + 1
        /\ (\A j \in 1 .. n : taken'[j] = taken[j]) /\ taken'[n + 1] = byte
    BY <1>1, <1>2, AppendProperties
  <1>4. b \in 1 .. (n + 1)
    BY <1>1, BeginStays DEF LinesInv
  <1>5. Begin(taken', Len(taken') + 1) =
          IF byte.kind = "lf" THEN n + 2 ELSE b
    BY <1>1, <1>2, <1>3, BeginMoves DEF LinesInv
  <1>6. CASE byte.kind = "lf"
    <2>1. line' = <<>> /\ dropping' = FALSE
      BY <1>2, <1>6 DEF Assemble
    <2>2. SubSeq(taken', n + 2, n + 1) = <<>>
      BY <1>1, SubSeqEmpty
    <2> QED
      BY <1>1, <1>3, <1>5, <1>6, <2>1, <2>2, SizeAssumption DEF LineInv
  <1>7. CASE byte.kind # "lf"
    <2>1. CASE dropping
      <3>1. dropping' = TRUE
        BY <1>2, <1>7, <2>1 DEF Assemble
      <3>2. n - b + 1 >= LineSize
        BY <2>1 DEF LinesInv, LineInv
      <3> QED
        BY <1>1, <1>3, <1>4, <1>5, <1>7, <3>1, <3>2, SizeAssumption DEF LineInv
    <2>2. CASE ~dropping
      <3> DEFINE old == SubSeq(taken, b, n)  new == SubSeq(taken', b, n + 1)
      <3>1. line = old /\ Len(line) <= LineSize - 1
        BY <2>2 DEF LinesInv, LineInv
      <3>2. /\ old \in Seq(Byte) /\ Len(old) = n + 1 - b
            /\ \A j \in 1 .. (n + 1 - b) : old[j] = taken[b + j - 1]
        <4>1. \A i \in b .. n : taken[i] \in Byte
          BY <1>1, <1>4
        <4> QED
          BY <1>1, <1>4, <4>1, SubSeqProperties
      <3>3. CASE Len(line) < LineSize - 1
        <4>1. line' = Append(line, byte) /\ dropping' = FALSE
          <5>1. dropping' = dropping /\ line' = Append(line, byte)
            BY <1>2, <1>7, <2>2, <3>3 DEF Assemble
          <5>2. dropping = FALSE
            BY <2>2 DEF TypeOK
          <5> QED
            BY <5>1, <5>2
        <4>2. /\ new \in Seq(Byte) /\ Len(new) = n + 2 - b
              /\ \A j \in 1 .. (n + 2 - b) : new[j] = taken'[b + j - 1]
          <5>1. \A i \in b .. (n + 1) : taken'[i] \in Byte
            BY <1>1, <1>3, <1>4
          <5> QED
            BY <1>1, <1>4, <5>1, SubSeqProperties
        <4>3. /\ Append(old, byte) \in Seq(Byte) /\ Len(Append(old, byte)) = n + 2 - b
              /\ \A j \in 1 .. (n + 1 - b) : Append(old, byte)[j] = old[j]
              /\ Append(old, byte)[n + 2 - b] = byte
          BY <1>1, <1>4, <3>2, AppendProperties
        <4> HIDE DEF old, new, n, b
        <4>4. \A j \in 1 .. (n + 2 - b) : Append(old, byte)[j] = new[j]
          <5> SUFFICES ASSUME NEW j \in 1 .. (n + 2 - b)
                       PROVE  Append(old, byte)[j] = new[j]
            OBVIOUS
          <5>1. CASE j = n + 2 - b
            <6>1. b + j - 1 = n + 1
              BY <1>1, <1>4, <5>1
            <6> QED
              BY <1>3, <4>2, <4>3, <5>1, <6>1
          <5>2. CASE j \in 1 .. (n + 1 - b)
            <6>1. b + j - 1 \in 1 .. n
              BY <1>1, <1>4, <5>2
            <6> QED
              BY <1>3, <3>2, <4>2, <4>3, <5>2, <6>1
          <5>3. n \in Int /\ b \in Int
            BY <1>1, <1>4
          <5>4. j = n + 2 - b \/ j \in 1 .. (n + 1 - b)
            BY <5>3
          <5> QED
            BY <5>1, <5>2, <5>4
        <4>5. line' = new
          BY <3>1, <4>1, <4>2, <4>3, <4>4, SeqEqual
        <4>6. Len(new) <= LineSize - 1
          BY <1>1, <1>4, <3>1, <3>2, <3>3, <4>2, SizeAssumption
        <4> QED
          BY <1>1, <1>3, <1>5, <1>7, <4>1, <4>5, <4>6 DEF LineInv, new
      <3>4. CASE ~(Len(line) < LineSize - 1)
        <4>1. dropping' = TRUE
          BY <1>2, <1>7, <2>2, <3>4 DEF Assemble
        <4> QED
          BY <1>1, <1>3, <1>4, <1>5, <1>7, <3>1, <3>2, <3>4, <4>1, SizeAssumption
          DEF LineInv
      <3> QED
        BY <3>3, <3>4
    <2> QED
      BY <2>1, <2>2
  <1> QED
    BY <1>6, <1>7

LEMMA WholeStep ==
  ASSUME TypeOK, LinesInv, TakeByte
  PROVE  LinesAreWhole'
  <1> DEFINE n == Len(taken)  b == Begin(taken, n + 1)  m == Len(processed)
  <1>1. /\ taken \in Seq(Byte) /\ byte \in Byte /\ line \in Seq(Byte)
        /\ n \in Nat /\ m \in Nat /\ DOMAIN processed = 1 .. m
        /\ HasBegin(taken)
    BY LenProperties DEF TypeOK, LinesInv
  <1>2. taken' = Append(taken, byte) /\ Assemble(byte)
    BY DEF TakeByte
  <1>3. /\ Segment(taken, n + 1) = SubSeq(taken, b, n)
        /\ Len(Segment(taken, n + 1)) = n + 1 - b /\ b \in 1 .. (n + 1)
    BY <1>1, BeginStays DEF Segment
  <1>4. PICK end \in [DOMAIN processed -> Fitting(taken)] :
          /\ \A i \in Fitting(taken) : \E k \in DOMAIN processed : end[k] = i
          /\ \A k, l \in DOMAIN processed : k < l => end[k] < end[l]
          /\ \A k \in DOMAIN processed : processed[k] = Stripped(Segment(taken, end[k]))
    BY DEF LinesInv, LinesAreWhole
  <1>5. \A i \in 1 .. (n + 1) : Segment(taken', i) = Segment(taken, i)
    BY <1>1, <1>2, BeginStays
  <1>6. /\ Fitting(taken) \subseteq 1 .. n
        /\ Fitting(taken') = Fitting(taken) \cup
             (IF byte.kind = "lf" /\ Len(Segment(taken, n + 1)) \in 1 .. (LineSize - 1)
                THEN {n + 1} ELSE {})
    BY <1>1, <1>2, FittingGrows
  <1>7. CASE byte.kind = "lf" /\ ~dropping /\ line # <<>>
    <2>1. line = Segment(taken, n + 1) /\ Len(line) <= LineSize - 1 /\ Len(line) >= 1
      <3>1. Len(line) >= 1
        BY <1>1, <1>7, EmptySeq, LenProperties
      <3> QED
        BY <1>3, <1>7, <3>1 DEF LinesInv, LineInv
    <2>2. Fitting(taken') = Fitting(taken) \cup {n + 1}
      BY <1>1, <1>3, <1>6, <1>7, <2>1, SizeAssumption
    <2>3. processed' = Append(processed, Stripped(line))
      BY <1>2, <1>7 DEF Assemble
    <2>4. /\ DOMAIN processed' = 1 .. (m + 1)
          /\ (\A k \in 1 .. m : processed'[k] = processed[k])
          /\ processed'[m + 1] = Stripped(line)
      <3>1. Stripped(line) \in Seq(Byte) /\ processed \in Seq(Seq(Byte))
        BY <1>1, StrippedType DEF TypeOK
      <3> QED
        BY <2>3, <3>1, AppendProperties, LenProperties
    <2> DEFINE next == [k \in 1 .. (m + 1) |-> IF k = m + 1 THEN n + 1 ELSE end[k]]
    <2> HIDE DEF n, m
    <2>5. \A k \in 1 .. m : end[k] \in Fitting(taken) /\ end[k] \in 1 .. n
      BY <1>1, <1>4, <1>6
    <2>6. /\ next \in [DOMAIN processed' -> Fitting(taken')]
          /\ next[m + 1] = n + 1 /\ \A k \in 1 .. m : next[k] = end[k]
      BY <1>1, <2>2, <2>4, <2>5
    <2> HIDE DEF next
    <2>7. m \in Nat /\ n \in Nat /\ DOMAIN processed = 1 .. m
      BY <1>1
    <2>8. \A i \in Fitting(taken') : \E k \in DOMAIN processed' : next[k] = i
      <3> SUFFICES ASSUME NEW i \in Fitting(taken')
                   PROVE  \E k \in 1 .. (m + 1) : next[k] = i
        BY <2>4
      <3>1. CASE i = n + 1
        BY <2>6, <2>7, <3>1
      <3>2. CASE i \in Fitting(taken)
        <4>1. PICK k \in 1 .. m : end[k] = i
          BY <1>4, <2>7, <3>2
        <4> QED
          BY <2>6, <2>7, <4>1
      <3> QED
        BY <2>2, <3>1, <3>2
    <2>9. \A k, l \in DOMAIN processed' : k < l => next[k] < next[l]
      <3> SUFFICES ASSUME NEW k \in 1 .. (m + 1), NEW l \in 1 .. (m + 1), k < l
                   PROVE  next[k] < next[l]
        BY <2>4
      <3>1. k \in 1 .. m /\ next[k] = end[k] /\ end[k] \in 1 .. n
        BY <2>5, <2>6, <2>7
      <3>2. CASE l = m + 1
        BY <2>6, <2>7, <3>1, <3>2
      <3>3. CASE l \in 1 .. m
        BY <1>4, <2>6, <2>7, <3>1, <3>3
      <3> QED
        BY <2>7, <3>2, <3>3
    <2>10. \A k \in DOMAIN processed' : processed'[k] = Stripped(Segment(taken', next[k]))
      BY <1>1, <1>4, <1>5, <2>1, <2>4, <2>5, <2>6
    <2> QED
      BY <2>6, <2>8, <2>9, <2>10 DEF LinesAreWhole
  <1>8. CASE ~(byte.kind = "lf" /\ ~dropping /\ line # <<>>)
    <2>1. processed' = processed
      BY <1>2, <1>8 DEF Assemble
    <2>2. Fitting(taken') = Fitting(taken)
      <3>1. CASE byte.kind # "lf"
        BY <1>6, <3>1
      <3>2. CASE dropping
        <4>1. n - b + 1 >= LineSize
          BY <3>2 DEF LinesInv, LineInv
        <4> QED
          BY <1>1, <1>3, <1>6, <4>1, SizeAssumption
      <3>3. CASE ~dropping /\ line = <<>>
        <4>1. Segment(taken, n + 1) = <<>>
          BY <1>3, <3>3 DEF LinesInv, LineInv
        <4> QED
          BY <1>6, <4>1
      <3> QED
        BY <1>8, <3>1, <3>2, <3>3
    <2>3. \A k \in DOMAIN processed : Segment(taken', end[k]) = Segment(taken, end[k])
      BY <1>1, <1>4, <1>5, <1>6
    <2> QED
      BY <1>4, <2>1, <2>2, <2>3 DEF LinesAreWhole
  <1> QED
    BY <1>7, <1>8

LEMMA LinesNext == TypeOK /\ LinesInv /\ [Next]_vars => LinesInv'
  <1> SUFFICES ASSUME TypeOK, LinesInv, [Next]_vars PROVE LinesInv'
    OBVIOUS
  <1>1. CASE TakeByte
    <2>1. HasBegin(taken')
      BY <1>1, BeginMoves DEF TakeByte, TypeOK, LinesInv
    <2> QED
      BY <1>1, <2>1, LineStep, WholeStep DEF LinesInv
  <1>2. CASE ~TakeByte
    <2>1. UNCHANGED <<taken, line, dropping, processed>>
      BY <1>2 DEF Next, Poll, Receive, ReceiveBad, ReadErrors, ClearErrors, RingIsEmpty,
                  CopyByte, vars, ringVars, mainVars
    <2> QED
      BY <2>1 DEF LinesInv, LineInv, LinesAreWhole
  <1> QED
    BY <1>1, <1>2

\* process gets every line of what was taken that fits, whole and in order, and no
\* part of one that does not, for any sizes of ring and line and any bytes
\* (command_protocol.c:32).
THEOREM LinkLinesAreWhole == Spec => []LinesAreWhole
  <1>1. LinesInv => LinesAreWhole
    BY DEF LinesInv
  <1> QED
    BY <1>1, LinesInit, LinesNext, LinkTypeCorrect, PTL DEF Spec

-------------------------------------------------------------------------------
(* The WiFi link.  The module answers in order, so that its prompt to the  *)
(* upload under way stands behind everything it still had to say of the    *)
(* ones before, and once the prompt is heard nothing of these comes.       *)

WifiWords ==
  {"OK", "FAIL", "ERROR", "CONNECT", ">", "SEND OK", "WIFI CONNECTED", "WIFI GOT IP",
   "WIFI DISCONNECT", "ALREADY CONNECTED", "SEND OK of before", "> of before"}

\* What only http_send makes of a word.
OldWords == {"SEND OK of before", "> of before"}

HasNoOld(q) == \A i \in DOMAIN q : q[i] \notin OldWords

WifiTypes ==
  /\ answers \in Seq(WifiWords)
  /\ response \subseteq WifiWords /\ uart \subseteq WifiWords
  /\ phase \in 0..2
  /\ prompted \in {"none", ">", "> of before"}

\* No old word stands behind a prompt, or comes after one that was heard.
PromptIsBehind ==
  /\ \A i, j \in DOMAIN answers : i < j /\ answers[i] = ">" => answers[j] \notin OldWords
  /\ ">" \in Heard => HasNoOld(answers)

\* A request that was sent on the prompt to it hears nothing old.
RequestIsAnswered ==
  phase = 2 =>
    /\ prompted # "none"
    /\ prompted = ">" => HasNoOld(answers) /\ "SEND OK of before" \notin Heard

WifiInv == WifiTypes /\ PromptIsBehind /\ RequestIsAnswered /\ UploadIsConfirmed

LEMMA WordsAreLine ==
  ASSUME NEW w \in WifiWords \ OldWords, NEW x \in WifiWords \ OldWords,
         NEW y \in WifiWords \ OldWords
  PROVE  /\ <<w>> \in Seq(WifiWords) /\ HasNoOld(<<w>>)
         /\ <<w, x>> \in Seq(WifiWords) /\ HasNoOld(<<w, x>>)
         /\ <<w, x, y>> \in Seq(WifiWords) /\ HasNoOld(<<w, x, y>>)
  BY DEF HasNoOld

LEMMA AnswersAreNew ==
  ASSUME NEW command \in {"AT", "ATE0", "CWJAP", "CIPSTART", "CIPSEND", "request"},
         NEW a \in Answers(command)
  PROVE  a \in Seq(WifiWords) /\ HasNoOld(a)
  <1>1. {"OK", "FAIL", "ERROR", "CONNECT", ">", "SEND OK", "WIFI CONNECTED",
         "WIFI GOT IP", "ALREADY CONNECTED"} \subseteq WifiWords \ OldWords
    BY DEF WifiWords, OldWords
  <1>2. CASE command \in {"AT", "ATE0"}
    <2>1. a = <<"OK">>
      BY <1>2 DEF Answers
    <2> QED
      BY <1>1, <2>1, WordsAreLine
  <1>3. CASE command = "CWJAP"
    <2>1. a = <<"WIFI CONNECTED", "WIFI GOT IP", "OK">> \/ a = <<"FAIL">>
      BY <1>3 DEF Answers
    <2> QED
      BY <1>1, <2>1, WordsAreLine
  <1>4. CASE command = "CIPSTART"
    <2>1. \/ a = <<"CONNECT", "OK">> \/ a = <<"ERROR">>
          \/ a = <<"ALREADY CONNECTED", "ERROR">>
      BY <1>4 DEF Answers
    <2> QED
      BY <1>1, <2>1, WordsAreLine
  <1>5. CASE command = "CIPSEND"
    <2>1. a = <<"OK", ">">> \/ a = <<"ERROR">>
      BY <1>5 DEF Answers
    <2> QED
      BY <1>1, <2>1, WordsAreLine
  <1>6. CASE command = "request"
    <2>1. a = <<"SEND OK">> \/ a = <<"ERROR">>
      BY <1>6 DEF Answers
    <2> QED
      BY <1>1, <2>1, WordsAreLine
  <1> QED
    BY <1>2, <1>3, <1>4, <1>5, <1>6

\* A line of answers that is put together of two.
LEMMA JoinedHasNoOld ==
  ASSUME NEW q \in Seq(WifiWords), NEW a \in Seq(WifiWords), HasNoOld(a)
  PROVE  /\ q \o a \in Seq(WifiWords)
         /\ HasNoOld(q) => HasNoOld(q \o a)
         /\ (\A i, j \in DOMAIN q : i < j /\ q[i] = ">" => q[j] \notin OldWords)
              => \A i, j \in DOMAIN (q \o a) :
                   i < j /\ (q \o a)[i] = ">" => (q \o a)[j] \notin OldWords
  <1>1. /\ q \o a \in Seq(WifiWords)
        /\ Len(q \o a) = Len(q) + Len(a)
        /\ Len(q) \in Nat /\ Len(a) \in Nat
        /\ \A i \in 1..Len(q) + Len(a) :
             (q \o a)[i] = IF i <= Len(q) THEN q[i] ELSE a[i - Len(q)]
    BY ConcatProperties
  <1>2. DOMAIN q = 1..Len(q) /\ DOMAIN a = 1..Len(a) /\ DOMAIN (q \o a) = 1..Len(q) + Len(a)
    BY <1>1
  <1>3. \A j \in DOMAIN (q \o a) : (q \o a)[j] \in OldWords => j \in DOMAIN q /\ q[j] \in OldWords
    BY <1>1, <1>2 DEF HasNoOld
  <1>4. \A i, j \in DOMAIN (q \o a) :
          i < j /\ j \in DOMAIN q => i \in DOMAIN q /\ (q \o a)[i] = q[i]
    BY <1>1, <1>2
  <1>5. HasNoOld(q) => HasNoOld(q \o a)
    BY <1>3 DEF HasNoOld
  <1>6. ASSUME \A i, j \in DOMAIN q : i < j /\ q[i] = ">" => q[j] \notin OldWords,
               NEW i \in DOMAIN (q \o a), NEW j \in DOMAIN (q \o a), i < j,
               (q \o a)[i] = ">", (q \o a)[j] \in OldWords
        PROVE  FALSE
    BY <1>3, <1>4, <1>6
  <1> QED
    BY <1>1, <1>5, <1>6

\* What the module may add to its line is new.
LEMMA SentKeepsOrder ==
  ASSUME NEW q \in Seq(WifiWords),
         NEW commands \in SUBSET {"AT", "ATE0", "CWJAP", "CIPSTART", "CIPSEND", "request"},
         Sent(q, commands)
  PROVE  /\ answers' \in Seq(WifiWords)
         /\ HasNoOld(q) => HasNoOld(answers')
         /\ (\A i, j \in DOMAIN q : i < j /\ q[i] = ">" => q[j] \notin OldWords)
              => \A i, j \in DOMAIN answers' :
                   i < j /\ answers'[i] = ">" => answers'[j] \notin OldWords
  <1>1. CASE answers' = q
    BY <1>1
  <1>2. CASE \E c \in commands : \E a \in Answers(c) : answers' = q \o a
    <2>1. PICK c \in commands : \E a \in Answers(c) : answers' = q \o a
      BY <1>2
    <2>2. PICK a \in Answers(c) : answers' = q \o a
      BY <2>1
    <2>3. a \in Seq(WifiWords) /\ HasNoOld(a)
      BY AnswersAreNew
    <2> QED
      BY <2>2, <2>3, JoinedHasNoOld
  <1> QED
    BY <1>1, <1>2 DEF Sent

LEMMA WifiStart == WifiInit => WifiInv
  BY DEF WifiInit, WifiInv, WifiTypes, PromptIsBehind, RequestIsAnswered, UploadIsConfirmed,
         HasNoOld, Heard

\* An upload starts: what is still to come is all of before.
LEMMA HttpSendStep == ASSUME WifiInv, HttpSend PROVE WifiInv'
  <1> DEFINE old == [i \in DOMAIN answers |-> OfBefore(answers[i])]
  <1>1. \A w \in WifiWords : OfBefore(w) \in WifiWords /\ OfBefore(w) # ">"
    BY DEF OfBefore, WifiWords
  <1>2. old \in Seq(WifiWords) /\ \A i \in DOMAIN old : old[i] # ">"
    <2>1. answers \in Seq(WifiWords)
      BY DEF WifiInv, WifiTypes
    <2>2. \A i \in 1..Len(answers) : answers[i] \in WifiWords
      BY <2>1
    <2>3. old = [i \in 1..Len(answers) |-> OfBefore(answers[i])] /\ Len(answers) \in Nat
      BY <2>1
    <2> QED
      BY <1>1, <2>2, <2>3
  <1>3. /\ Sent(old, {"CIPSTART"})
        /\ response' = {} /\ uart' = {} /\ phase' = 0
        /\ counted' = "none" /\ prompted' = "none"
    BY DEF HttpSend, Cleared
  <1> HIDE DEF old
  <1>4. /\ answers' \in Seq(WifiWords)
        /\ \A i, j \in DOMAIN answers' :
             i < j /\ answers'[i] = ">" => answers'[j] \notin OldWords
    BY <1>2, <1>3, SentKeepsOrder
  <1>5. Heard' = {}
    BY <1>3 DEF Heard
  <1>6. WifiTypes' /\ RequestIsAnswered' /\ UploadIsConfirmed'
    BY <1>3, <1>4 DEF WifiTypes, RequestIsAnswered, UploadIsConfirmed
  <1>7. PromptIsBehind'
    BY <1>4, <1>5 DEF PromptIsBehind
  <1> QED
    BY <1>6, <1>7 DEF WifiInv

\* The next phase: with the prompt everything old has come.
LEMMA SendPhaseStep == ASSUME WifiInv, SendPhase PROVE WifiInv'
  <1>1. /\ response' = {} /\ uart' = {} /\ counted' = "none" /\ phase' = phase + 1
    BY DEF SendPhase, Cleared
  <1>2. \E commands \in SUBSET {"AT", "ATE0", "CWJAP", "CIPSTART", "CIPSEND", "request"} :
          Sent(answers, commands)
    BY DEF SendPhase
  <1>3. /\ answers' \in Seq(WifiWords)
        /\ HasNoOld(answers) => HasNoOld(answers')
        /\ \A i, j \in DOMAIN answers' :
             i < j /\ answers'[i] = ">" => answers'[j] \notin OldWords
    BY <1>2, SentKeepsOrder DEF WifiInv, WifiTypes, PromptIsBehind
  <1>0. response' \subseteq WifiWords /\ uart' \subseteq WifiWords
    BY <1>1
  <1>4. PromptIsBehind' /\ UploadIsConfirmed' /\ Heard' = {}
    <2>1. Heard' = {}
      BY <1>1 DEF Heard
    <2> QED
      BY <1>1, <1>3, <2>1 DEF PromptIsBehind, UploadIsConfirmed
  <1>5. CASE phase = 0
    <2>1. Opened \/ Prompted
      BY DEF SendPhase
    <2>2. prompted' = prompted
      BY <1>5, <2>1 DEF SendPhase, Prompted
    <2>3. WifiTypes'
      <3>1. phase' \in 0..2
        BY <1>1, <1>5
      <3>2. prompted \in {"none", ">", "> of before"}
        BY DEF WifiInv, WifiTypes
      <3>3. prompted' \in {"none", ">", "> of before"}
        BY <2>2, <3>2
      <3> QED
        BY <1>0, <1>3, <3>1, <3>3 DEF WifiTypes
    <2> QED
      BY <1>1, <1>4, <1>5, <2>3 DEF WifiInv, RequestIsAnswered
  <1>6. CASE phase # 0
    <2>1. Prompted /\ phase = 1
      BY <1>6 DEF SendPhase, Opened, Prompted
    <2>2. prompted' = IF ">" \in Heard THEN ">" ELSE "> of before"
      BY <1>6 DEF SendPhase, Opened
    <2>3. prompted' \in {">", "> of before"} /\ (prompted' = ">" => HasNoOld(answers))
      BY <2>2 DEF WifiInv, PromptIsBehind
    <2>4. WifiTypes'
      <3>1. phase' \in 0..2
        BY <1>1, <2>1
      <3>2. prompted' \in {"none", ">", "> of before"}
        BY <2>3
      <3> QED
        BY <1>0, <1>3, <3>1, <3>2 DEF WifiTypes
    <2>5. RequestIsAnswered'
      BY <1>3, <1>4, <2>3 DEF RequestIsAnswered
    <2> QED
      BY <1>4, <2>4, <2>5 DEF WifiInv
  <1> QED
    BY <1>5, <1>6

\* The upload is counted: what was heard is no word of before unless the prompt was.
LEMMA UploadedStep == ASSUME WifiInv, Uploaded PROVE WifiInv'
  <1>1. /\ response' = Heard /\ uart' = {}
        /\ UNCHANGED <<prompted, phase, answers>>
    BY DEF Uploaded, Collected
  <1>2. Heard' = Heard
    BY <1>1 DEF Heard
  <1>3. phase = 2 /\ Heard \cap {"SEND OK", "SEND OK of before"} # {}
    BY DEF Uploaded, Done, Has, Within
  <1>4. counted' = "SEND OK of before" => "SEND OK of before" \in Heard
    BY <1>3 DEF Uploaded
  <1>5. counted' = "SEND OK of before" => prompted = "> of before"
    BY <1>3, <1>4 DEF WifiInv, WifiTypes, RequestIsAnswered
  <1>6. Heard \subseteq WifiWords
    BY DEF WifiInv, WifiTypes, Heard
  <1> QED
    BY <1>1, <1>2, <1>5, <1>6
    DEF WifiInv, WifiTypes, PromptIsBehind, RequestIsAnswered, UploadIsConfirmed

\* The module's next word is heard, or lost.
LEMMA ModuleWordStep == ASSUME WifiInv, ModuleWord PROVE WifiInv'
  <1>1. /\ answers # <<>> /\ answers' = Tail(answers)
        /\ uart' \in {uart, uart \cup {Head(answers)}} /\ counted' = "none"
        /\ UNCHANGED <<prompted, phase, response>>
    BY DEF ModuleWord, NoCount
  <1>2. answers \in Seq(WifiWords)
    BY DEF WifiInv, WifiTypes
  <1>3. /\ answers' \in Seq(WifiWords) /\ Head(answers) \in WifiWords
        /\ Head(answers) = answers[1] /\ 1 \in DOMAIN answers
        /\ \A i \in DOMAIN answers' :
             i + 1 \in DOMAIN answers /\ answers'[i] = answers[i + 1] /\ 1 < i + 1
    BY <1>1, <1>2
  <1>4. \A i, j \in DOMAIN answers' :
          i < j /\ answers'[i] = ">" => answers'[j] \notin OldWords
    <2> SUFFICES ASSUME NEW i \in DOMAIN answers', NEW j \in DOMAIN answers', i < j,
                        answers'[i] = ">"
                 PROVE  answers'[j] \notin OldWords
      OBVIOUS
    <2>1. i \in Nat /\ j \in Nat
      BY <1>3
    <2> QED
      BY <1>3, <2>1 DEF WifiInv, PromptIsBehind
  <1>5. HasNoOld(answers) => HasNoOld(answers') /\ Head(answers) \notin OldWords
    BY <1>3 DEF HasNoOld
  <1>6. Heard' \subseteq Heard \cup {Head(answers)}
    BY <1>1 DEF Heard
  <1>7. ">" \in Heard' => HasNoOld(answers')
    <2>1. Head(answers) = ">" => HasNoOld(answers')
      BY <1>3 DEF WifiInv, PromptIsBehind, HasNoOld
    <2> QED
      BY <1>5, <1>6, <2>1 DEF WifiInv, PromptIsBehind
  <1>8. RequestIsAnswered'
    BY <1>1, <1>5, <1>6 DEF WifiInv, RequestIsAnswered, OldWords
  <1> QED
    BY <1>1, <1>3, <1>4, <1>7, <1>8
    DEF WifiInv, WifiTypes, PromptIsBehind, UploadIsConfirmed

\* Every other action leaves the request alone; it may add new words to the
\* line, cut the line off, or forget what was heard.
LEMMA OtherWifiSteps ==
  ASSUME WifiInv, counted' = "none", UNCHANGED <<prompted, phase>>, Heard' \subseteq Heard,
         response' \subseteq WifiWords, uart' \subseteq WifiWords,
         answers' \in Seq(WifiWords),
         HasNoOld(answers) => HasNoOld(answers'),
         (\A i, j \in DOMAIN answers : i < j /\ answers[i] = ">" => answers[j] \notin OldWords)
           => \A i, j \in DOMAIN answers' :
                i < j /\ answers'[i] = ">" => answers'[j] \notin OldWords
  PROVE  WifiInv'
  BY DEF WifiInv, WifiTypes, PromptIsBehind, RequestIsAnswered, UploadIsConfirmed

\* Power is cut or given, and nothing is said.
LEMMA PowerAnswers ==
  ASSUME WifiInv, NEW on \in BOOLEAN, Power(on)
  PROVE  /\ answers' \in Seq(WifiWords)
         /\ HasNoOld(answers) => HasNoOld(answers')
         /\ (\A i, j \in DOMAIN answers : i < j /\ answers[i] = ">" => answers[j] \notin OldWords)
              => \A i, j \in DOMAIN answers' :
                   i < j /\ answers'[i] = ">" => answers'[j] \notin OldWords
         /\ UNCHANGED <<phase, response, uart>>
  <1>1. CASE on
    BY <1>1 DEF Power, WifiInv, WifiTypes
  <1>2. CASE ~on
    <2>1. answers' = <<>>
      BY <1>2 DEF Power
    <2>2. <<>> \in Seq(WifiWords) /\ DOMAIN <<>> = {}
      OBVIOUS
    <2>3. UNCHANGED <<phase, response, uart>>
      BY DEF Power
    <2> QED
      BY <2>1, <2>2, <2>3 DEF HasNoOld
  <1> QED
    BY <1>1, <1>2

LEMMA PowerStep ==
  ASSUME WifiInv, NEW on \in BOOLEAN, Power(on), NoCount
  PROVE  WifiInv'
  <1>1. Heard' = Heard
    BY DEF Power, Heard
  <1>2. response' \subseteq WifiWords /\ uart' \subseteq WifiWords
    BY DEF Power, WifiInv, WifiTypes
  <1>3. counted' = "none" /\ prompted' = prompted
    BY DEF NoCount
  <1> QED
    BY <1>1, <1>2, <1>3, PowerAnswers, OtherWifiSteps

\* The polls outside an upload.
LEMMA SyncStep == ASSUME WifiInv, Boot \/ Sync PROVE WifiInv'
  <1>1. /\ response' = {} /\ uart' = {} /\ counted' = "none"
        /\ UNCHANGED <<prompted, phase>>
    BY DEF Boot, Sync, Cleared, NoCount
  <1>2. Heard' = {}
    BY <1>1 DEF Heard
  <1>3. answers \in Seq(WifiWords)
    BY DEF WifiInv, WifiTypes
  <1>4. \E echo \in {<<>>, <<"OK">>} :
          \/ answers' = answers \o echo
          \/ Sent(answers \o echo, {"CWJAP"})
          \/ Sent(answers, {"AT"})
    BY DEF Boot, Sync
  <1>5. PICK echo \in {<<>>, <<"OK">>} :
          \/ answers' = answers \o echo
          \/ Sent(answers \o echo, {"CWJAP"})
          \/ Sent(answers, {"AT"})
    BY <1>4
  <1>6. echo \in Seq(WifiWords) /\ HasNoOld(echo)
    <2>1. "OK" \in WifiWords \ OldWords
      BY DEF WifiWords, OldWords
    <2>2. <<>> \in Seq(WifiWords) /\ HasNoOld(<<>>)
      BY DEF HasNoOld
    <2> QED
      BY <2>1, <2>2, WordsAreLine
  <1> DEFINE longer == answers \o echo
  <1>7. /\ longer \in Seq(WifiWords)
        /\ HasNoOld(answers) => HasNoOld(longer)
        /\ (\A i, j \in DOMAIN answers : i < j /\ answers[i] = ">" => answers[j] \notin OldWords)
             => \A i, j \in DOMAIN longer : i < j /\ longer[i] = ">" => longer[j] \notin OldWords
    BY <1>3, <1>6, JoinedHasNoOld
  <1> HIDE DEF longer
  <1>8. CASE answers' = longer
    BY <1>1, <1>2, <1>7, <1>8, OtherWifiSteps
  <1>9. CASE Sent(longer, {"CWJAP"})
    BY <1>1, <1>2, <1>7, <1>9, SentKeepsOrder, OtherWifiSteps
  <1>10. CASE Sent(answers, {"AT"})
    BY <1>1, <1>2, <1>3, <1>10, SentKeepsOrder, OtherWifiSteps
  <1> QED
    BY <1>5, <1>8, <1>9, <1>10 DEF longer

LEMMA CollectStep ==
  ASSUME WifiInv, SyncFailed \/ Joined \/ JoinFailed \/ SendFailed
  PROVE  WifiInv'
  <1>1. /\ Collected /\ NoCount /\ UNCHANGED <<phase, answers>>
    BY DEF SyncFailed, Joined, JoinFailed, SendFailed, Backoff
  <1>2. response' = Heard /\ uart' = {} /\ counted' = "none" /\ prompted' = prompted
    BY <1>1 DEF Collected, NoCount
  <1>3. Heard' = Heard /\ Heard \subseteq WifiWords
    BY <1>2 DEF Heard, WifiInv, WifiTypes
  <1> QED
    BY <1>1, <1>2, <1>3 DEF WifiInv, WifiTypes, PromptIsBehind, RequestIsAnswered,
                            UploadIsConfirmed

LEMMA NetworkLostStep == ASSUME WifiInv, NetworkLost PROVE WifiInv'
  <1>1. /\ answers' = Append(answers, "WIFI DISCONNECT") /\ NoCount
        /\ UNCHANGED <<phase, response, uart>>
    BY DEF NetworkLost
  <1>2. "WIFI DISCONNECT" \in WifiWords \ OldWords
    BY DEF WifiWords, OldWords
  <1>3. answers \in Seq(WifiWords)
    BY DEF WifiInv, WifiTypes
  <1>4. answers' = answers \o <<"WIFI DISCONNECT">>
    BY <1>1, <1>2, <1>3, AppendIsConcat
  <1>5. Heard' = Heard /\ response' \subseteq WifiWords /\ uart' \subseteq WifiWords
    BY <1>1 DEF Heard, WifiInv, WifiTypes
  <1>6. counted' = "none" /\ prompted' = prompted
    BY <1>1 DEF NoCount
  <1> QED
    BY <1>1, <1>2, <1>3, <1>4, <1>5, <1>6, WordsAreLine, JoinedHasNoOld, OtherWifiSteps

LEMMA WifiStep == WifiInv /\ [WifiNext]_wifiVars => WifiInv'
  <1> SUFFICES ASSUME WifiInv, [WifiNext]_wifiVars
               PROVE  WifiInv'
    OBVIOUS
  <1>1. CASE WifiPoll
    <2>1. ASSUME Retry PROVE WifiInv'
      BY <2>1, PowerStep DEF Retry
    <2> QED
      BY <1>1, <2>1, SyncStep, CollectStep, HttpSendStep, SendPhaseStep, UploadedStep
      DEF WifiPoll
  <1>2. CASE WifiTick
    <2>1. UNCHANGED <<answers, response, uart, phase, prompted>> /\ counted' = "none"
      BY <1>2 DEF WifiTick, NoCount
    <2> QED
      BY <2>1 DEF WifiInv, WifiTypes, PromptIsBehind, RequestIsAnswered, UploadIsConfirmed,
                  Heard
  <1>3. ASSUME NEW on \in BOOLEAN, WifiPower(on)
        PROVE  WifiInv'
    BY <1>3, PowerStep DEF WifiPower, Switched
  <1>4. CASE WifiConfigure
    <2>1. NoCount
      BY <1>4 DEF WifiConfigure, Switched
    <2>2. CASE wifienabled
      BY <1>4, <2>1, <2>2, PowerStep DEF WifiConfigure
    <2>3. CASE ~wifienabled
      <3>1. UNCHANGED <<answers, response, uart, phase, prompted>> /\ counted' = "none"
        BY <1>4, <2>1, <2>3 DEF WifiConfigure, NoCount
      <3> QED
        BY <3>1 DEF WifiInv, WifiTypes, PromptIsBehind, RequestIsAnswered,
                    UploadIsConfirmed, Heard
    <2> QED
      BY <2>2, <2>3
  <1>5. CASE UNCHANGED wifiVars
    BY <1>5 DEF wifiVars, WifiInv, WifiTypes, PromptIsBehind, RequestIsAnswered,
                UploadIsConfirmed, Heard
  <1> QED
    BY <1>1, <1>2, <1>3, <1>4, <1>5, ModuleWordStep, NetworkLostStep DEF WifiNext

\* Which SEND OK counts (wifi_service_poll): an upload that was sent on the prompt
\* to it is counted only on the SEND OK to it, for a module any number of words
\* behind, whatever is lost and however often the link is switched.
THEOREM UploadStaysConfirmed == WifiInit /\ [][WifiNext]_wifiVars => []UploadIsConfirmed
  <1>1. WifiInv => UploadIsConfirmed
    BY DEF WifiInv
  <1> QED
    BY <1>1, WifiStart, WifiStep, PTL

-------------------------------------------------------------------------------
(* Numbers in the archived firmware.  The buffer holds the remainders of   *)
(* the values the first loop went through; the second one multiplies them  *)
(* up again on the wire, and comes back through the same values.           *)

Chars51 == Int \ {Empty51}
Digits51 == 0..Radix - 1

\* The characters of the item that have been sent or are in the UART or `out'.
InUart51 == IF sbuf = Empty51 THEN <<>> ELSE <<sbuf>>
Spoken51 == wire \o InUart51 \o out

\* The number on the wire when the UART has sent what it has.
NumberSoon51 == IF sbuf >= 0 THEN Radix * number51 + sbuf ELSE number51

Magnitude51(i) == IF Negative51(i) THEN Word51 - i[2][1] ELSE i[2][1]

\* The value after so many turns of the loop.
ValueAt(i) == IF i < Len(values51) THEN values51[i + 1] ELSE value51

\* What it is below then.
ValueEnd(i) == IF i = 0 THEN Radix * DigitWeights[1] ELSE DigitWeights[i]

SerialShape ==
  /\ item \in Items51 \cup {<<"text", <<>>>>}
  /\ out \in Seq(Chars51) /\ wire \in Seq(Chars51)
  /\ value51 \in Nat /\ values51 \in Seq(Nat)
  /\ buffer51 \in Seq(Digits51) /\ storing \in BOOLEAN
  /\ sbuf \in Int /\ ti \in BOOLEAN /\ number51 \in Int

\* A character is in the UART, or TI is set, only while the driver waits.
Handshake51 ==
  /\ sending = "idle" => sbuf = Empty51 /\ ~ti
  /\ sending = "wait" => (ti <=> sbuf = Empty51)
  /\ sending \in {"idle", "wait"}

SaysText == Spoken51 = item[2] /\ ~storing /\ buffer51 = <<>>

\* The characters of a number so far.
IsBegun51(chars, negative) ==
  LET first == IF negative THEN 2 ELSE 1
  IN /\ Len(chars) >= first - 1
     /\ negative => chars[1] = Minus51
     /\ \A i \in first..Len(chars) : chars[i] \in Digits51

SaysDigits ==
  /\ IsBegun51(Spoken51, Negative51(item))
  /\ \/ IsNumeral51(Spoken51, Negative51(item))
     \/ buffer51 # <<>> \/ (storing /\ value51 > 0)
  /\ \A i \in 1..Len(out) : out[i] \in {Minus51, 0}

SaysNumber ==
  /\ ValueAt(0) = Magnitude51(item)
  /\ Len(buffer51) <= Len(values51) /\ Len(buffer51) <= BufferDigits
  /\ \A i \in 1..Len(buffer51) : values51[i] = Radix * ValueAt(i) + buffer51[i]
  /\ storing => Len(buffer51) = Len(values51) /\ value51 < ValueEnd(Len(buffer51))
  /\ NumberSoon51 = IF storing THEN 0 ELSE ValueAt(Len(buffer51))
  /\ ~storing => value51 = 0
  /\ out # <<>> => NumberSoon51 = 0

SerialInv ==
  /\ SerialShape
  /\ Handshake51
  /\ item[1] = "text" => SaysText
  /\ item[1] # "text" => SaysDigits /\ SaysNumber

-------------------------------------------------------------------------------
\* The quotient of a number and what is below it (value % 10, value /= 10).
LEMMA Divided51 ==
  ASSUME NEW v \in Nat
  PROVE  /\ v = Radix * (v \div Radix) + (v % Radix)
         /\ v \div Radix \in Nat /\ v % Radix \in Digits51
         /\ \A m \in Nat : v < Radix * m => v \div Radix < m
  <1>1. Radix \in Nat /\ Radix > 1
    BY C51SerialAssumption
  <1>2. v = Radix * (v \div Radix) + (v % Radix) /\ v \div Radix \in Nat /\ v % Radix \in Digits51
    BY <1>1, SMT DEF Digits51
  <1>3. ASSUME NEW m \in Nat, v < Radix * m PROVE v \div Radix < m
    BY <1>1, <1>2, <1>3, SMT
  <1> QED
    BY <1>2, <1>3

\* Each turn divides the bound by the radix, and the last leaves 1.
LEMMA ValueEnds ==
  /\ BufferDigits \in Nat \ {0}
  /\ \A i \in 0..BufferDigits : ValueEnd(i) \in Nat
  /\ \A i \in 0..BufferDigits - 1 : ValueEnd(i) = Radix * ValueEnd(i + 1)
  /\ ValueEnd(BufferDigits) = 1
  /\ Word51 \in Nat /\ Word51 <= ValueEnd(0)
  BY C51SerialAssumption DEF ValueEnd, BufferDigits

LEMMA ItemParts ==
  ASSUME NEW i \in Items51 \cup {<<"text", <<>>>>}
  PROVE  /\ i[1] = "text" => i[2] \in Seq(Chars51)
         /\ i[1] # "text" =>
              /\ i[1] \in {"d", "u"} /\ i[2][1] \in Nat /\ i[2][1] < Word51
              /\ i[2][1] \in Words51
  <1>1. CASE i \in {"d", "u"} \X {<<w>> : w \in Words51}
    <2>1. PICK k \in {"d", "u"}, w \in Words51 : i = <<k, <<w>>>>
      BY <1>1
    <2>2. i[1] = k /\ i[2] = <<w>> /\ i[2][1] = w /\ w \in Nat /\ w < Word51
      BY <2>1, ValueEnds DEF Words51
    <2> QED
      BY <2>2
  <1>2. CASE i \in {"text"} \X OtherItems
    <2>1. PICK t \in OtherItems : i = <<"text", t>>
      BY <1>2
    <2> QED
      BY <2>1, C51SerialAssumption DEF Chars51
  <1>3. CASE i = <<"text", <<>>>>
    BY <1>3
  <1> QED
    BY <1>1, <1>2, <1>3 DEF Items51

\* What is handed on from one place to the next is said all the same.
LEMMA OutMoves ==
  ASSUME NEW w \in Seq(Chars51), NEW o \in Seq(Chars51), o # <<>>
  PROVE  /\ Head(o) \in Chars51 /\ Tail(o) \in Seq(Chars51)
         /\ w \o <<>> \o o = w \o <<Head(o)>> \o Tail(o)
         /\ Head(o) = o[1] /\ \A i \in 1..Len(Tail(o)) : i + 1 \in 1..Len(o) /\ Tail(o)[i] = o[i + 1]
  <1>1. /\ Head(o) \in Chars51 /\ Tail(o) \in Seq(Chars51) /\ <<Head(o)>> \in Seq(Chars51)
        /\ \A i \in 1..Len(Tail(o)) : i + 1 \in 1..Len(o) /\ Tail(o)[i] = o[i + 1]
        /\ Head(o) = o[1]
    BY HeadTailProperties
  <1>2. o = <<Head(o)>> \o Tail(o)
    BY <1>1, HeadTailProperties, SMT
  <1>3. w \o <<Head(o)>> \o Tail(o) = w \o (<<Head(o)>> \o Tail(o))
    BY <1>1, ConcatAssociative
  <1>4. w \o <<>> = w
    BY ConcatEmptySeq
  <1> QED
    BY <1>1, <1>2, <1>3, <1>4

LEMMA SentMoves ==
  ASSUME NEW w \in Seq(Chars51), NEW o \in Seq(Chars51), NEW c \in Chars51
  PROVE  w \o <<c>> \o o = Append(w, c) \o <<>> \o o
  <1>1. Append(w, c) = w \o <<c>> /\ Append(w, c) \in Seq(Chars51)
    BY AppendIsConcat, AppendProperties
  <1>2. Append(w, c) \o <<>> = Append(w, c)
    BY <1>1, ConcatEmptySeq
  <1> QED
    BY <1>1, <1>2

LEMMA DigitIsSaid ==
  ASSUME NEW w \in Seq(Chars51), NEW c \in Chars51
  PROVE  w \o <<c>> \o <<>> = Append(w \o <<>> \o <<>>, c)
  <1>1. w \o <<c>> = Append(w, c) /\ Append(w, c) \in Seq(Chars51)
    BY AppendIsConcat, AppendProperties
  <1>2. w \o <<>> = w /\ Append(w, c) \o <<>> = Append(w, c)
    BY <1>1, ConcatEmptySeq
  <1> QED
    BY <1>1, <1>2

LEMMA DigitIsChar == Digits51 \subseteq Chars51 /\ 0 \in Digits51
  BY C51SerialAssumption DEF Digits51, Chars51, Empty51

LEMMA DigitAppends ==
  ASSUME NEW b \in Seq(Digits51), NEW d \in Digits51
  PROVE  /\ Append(b, d) \in Seq(Digits51) /\ Len(Append(b, d)) = Len(b) + 1
         /\ Append(b, d)[Len(b) + 1] = d
         /\ \A i \in 1..Len(b) : Append(b, d)[i] = b[i]
  OBVIOUS

\* How a number begins, and goes on by its digits.
LEMMA NumeralBegins ==
  ASSUME NEW negative \in BOOLEAN
  PROVE  /\ negative => IsBegun51(<<Minus51>>, negative)
         /\ ~negative => /\ IsBegun51(<<>>, negative)
                         /\ IsBegun51(<<0>>, negative) /\ IsNumeral51(<<0>>, negative)
  BY DigitIsChar DEF IsBegun51, IsNumeral51, Digits51

LEMMA NumeralGoesOn ==
  ASSUME NEW chars \in Seq(Chars51), NEW negative \in BOOLEAN, NEW d \in Digits51,
         IsBegun51(chars, negative)
  PROVE  IsBegun51(Append(chars, d), negative) /\ IsNumeral51(Append(chars, d), negative)
  <1> DEFINE first == IF negative THEN 2 ELSE 1
             more  == Append(chars, d)
  <1>1. /\ Len(more) = Len(chars) + 1 /\ Len(chars) \in Nat /\ more[Len(chars) + 1] = d
        /\ \A i \in 1..Len(chars) : more[i] = chars[i]
    OBVIOUS
  <1>2. first \in {1, 2} /\ Len(chars) >= first - 1
        /\ \A i \in first..Len(chars) : chars[i] \in Digits51
    BY DEF IsBegun51
  <1>3. negative => more[1] = Minus51
    BY <1>1, <1>2 DEF IsBegun51
  <1>4. \A i \in first..Len(more) : more[i] \in Digits51
    BY <1>1, <1>2
  <1> QED
    BY <1>1, <1>2, <1>3, <1>4 DEF IsBegun51, IsNumeral51, Digits51

-------------------------------------------------------------------------------
LEMMA SerialStart == C51SerialInit => SerialInv
  <1> SUFFICES ASSUME C51SerialInit PROVE SerialInv
    OBVIOUS
  <1>1. item[1] = "text" /\ item[2] = <<>>
    BY DEF C51SerialInit
  <1>2. SerialShape
    <2>1. item \in Items51 \cup {<<"text", <<>>>>}
      BY DEF C51SerialInit
    <2>2. /\ out \in Seq(Chars51) /\ wire \in Seq(Chars51)
          /\ values51 \in Seq(Nat) /\ buffer51 \in Seq(Digits51)
      BY DEF C51SerialInit
    <2>3. storing \in BOOLEAN /\ ti \in BOOLEAN
      BY DEF C51SerialInit
    <2>4. value51 \in Nat /\ sbuf \in Int /\ number51 \in Int
      BY DEF C51SerialInit, Empty51
    <2> QED
      BY <2>1, <2>2, <2>3, <2>4 DEF SerialShape
  <1>4. Handshake51
    BY DEF C51SerialInit, Handshake51
  <1>3. SaysText
    BY <1>1 DEF C51SerialInit, SaysText, Spoken51, InUart51
  <1> QED
    BY <1>1, <1>2, <1>3, <1>4 DEF SerialInv

\* The negation of a negative word does not wrap around.
LEMMA NegationFits ==
  ASSUME NEW w \in Nat, NEW m \in Nat, w < m, 2 * w >= m
  PROVE  m - w \in Nat /\ 0 < m - w /\ m - w < m /\ (m - w) % m = m - w
  BY SMT

LEMMA ConvertStep ==
  ASSUME SerialInv, NEW i \in Items51, Convert51(i)
  PROVE  SerialInv'
  <1>1. /\ item' = i /\ values51' = <<>> /\ wire' = <<>> /\ number51' = 0
        /\ buffer51' = <<>> /\ sending' = "idle" /\ sbuf' = Empty51 /\ ~ti'
        /\ storing \in BOOLEAN /\ ~storing /\ value51 \in Nat /\ ti' \in BOOLEAN
    BY DEF SerialInv, SerialShape, Handshake51, Convert51, Printed51
  <1>2. Handshake51'
    BY <1>1 DEF Handshake51
  <1>3. InUart51' = <<>> /\ NumberSoon51' = 0
    BY <1>1 DEF InUart51, NumberSoon51, Empty51
  <1>4. CASE i[1] = "text"
    <2>1. out' = i[2] /\ i[2] \in Seq(Chars51) /\ value51' = value51 /\ storing' = storing
      BY <1>4, ItemParts DEF Convert51, Negative51
    <2>2. Spoken51' = i[2]
      BY <1>1, <1>3, <2>1, SMT DEF Spoken51
    <2>3. SerialShape'
      BY <1>1, <2>1, SMT DEF SerialShape, Empty51
    <2> QED
      BY <1>1, <1>2, <1>4, <2>1, <2>2, <2>3 DEF SerialInv, SaysText
  <1>5. CASE i[1] # "text"
    <2>1. PICK v \in Nat : v = Magnitude51(i) /\ v < Word51 /\ (v = 0 => ~Negative51(i))
      <3>1. i[2][1] \in Nat /\ i[2][1] < Word51 /\ Word51 \in Nat
        BY <1>5, ItemParts, ValueEnds
      <3>2. CASE Negative51(i)
        <4>1. 2 * i[2][1] >= Word51
          BY <3>2 DEF Negative51
        <4> QED
          BY <3>1, <3>2, <4>1, NegationFits DEF Magnitude51
      <3>3. CASE ~Negative51(i)
        BY <3>1, <3>3 DEF Magnitude51
      <3> QED
        BY <3>2, <3>3
    <2>2. /\ out' = IF Negative51(i) THEN <<Minus51>> ELSE IF v = 0 THEN <<0>> ELSE <<>>
          /\ value51' = v /\ storing' \in BOOLEAN /\ (storing' <=> v # 0)
      <3>1. CASE Negative51(i)
        <4>1. (Word51 - i[2][1]) % Word51 = v
          <5>1. i[2][1] \in Nat /\ i[2][1] < Word51 /\ Word51 \in Nat /\ 2 * i[2][1] >= Word51
            BY <1>5, <3>1, ItemParts, ValueEnds DEF Negative51
          <5> QED
            BY <2>1, <3>1, <5>1, NegationFits DEF Magnitude51
        <4>2. SendUint(<<Minus51>>, v)
          BY <1>5, <3>1, <4>1 DEF Convert51
        <4>3. storing' = (v # 0) /\ out' = <<Minus51>> /\ value51' = v
          BY <2>1, <3>1, <4>2 DEF SendUint
        <4>4. storing' \in BOOLEAN /\ (storing' <=> v # 0)
          BY <4>3, Zenon
        <4> QED
          BY <3>1, <4>3, <4>4
      <3>2. CASE ~Negative51(i)
        <4>1. SendUint(<<>>, v)
          BY <1>5, <2>1, <3>2 DEF Convert51, Magnitude51
        <4>2. storing' = (v # 0) /\ value51' = v /\ out' = IF v = 0 THEN Append(<<>>, 0) ELSE <<>>
          BY <4>1 DEF SendUint
        <4>3. storing' \in BOOLEAN /\ (storing' <=> v # 0)
          BY <4>2, Zenon
        <4>4. Append(<<>>, 0) = <<0>>
          BY SMT
        <4> QED
          BY <3>2, <4>2, <4>3, <4>4
      <3> QED
        BY <3>1, <3>2
    <2>3. /\ out' \in Seq(Chars51) /\ Spoken51' = out'
          /\ \A k \in 1..Len(out') : out'[k] \in {Minus51, 0}
      <3>1. Minus51 \in Chars51 /\ 0 \in Chars51
        BY DEF Minus51, Chars51, Empty51
      <3>2. out' \in Seq(Chars51) /\ \A k \in 1..Len(out') : out'[k] \in {Minus51, 0}
        BY <2>2, <3>1
      <3> QED
        BY <1>1, <1>3, <3>2, SMT DEF Spoken51
    <2>4. SerialShape'
      BY <1>1, <2>1, <2>2, <2>3, SMT DEF SerialShape, Empty51
    <2>5. SaysDigits'
      <3>0. Negative51(item') \in BOOLEAN
        BY DEF Negative51
      <3>1. CASE Negative51(i)
        <4>1. Spoken51' = <<Minus51>> /\ storing' /\ value51' > 0
          BY <2>1, <2>2, <2>3, <3>1
        <4>2. Negative51(item')
          BY <1>1, <3>1
        <4>3. IsBegun51(Spoken51', Negative51(item'))
          BY <3>0, <4>1, <4>2, NumeralBegins
        <4> QED
          BY <2>3, <4>1, <4>3 DEF SaysDigits
      <3>2. CASE ~Negative51(i)
        <4>1. Spoken51' = IF v = 0 THEN <<0>> ELSE <<>>
          BY <2>2, <2>3, <3>2
        <4>2. v # 0 => storing' /\ value51' > 0
          BY <2>1, <2>2
        <4>3. ~Negative51(item')
          BY <1>1, <3>2
        <4>4. IsBegun51(Spoken51', Negative51(item'))
          BY <3>0, <4>1, <4>3, NumeralBegins
        <4>5. v = 0 => IsNumeral51(Spoken51', Negative51(item'))
          BY <3>0, <4>1, <4>3, NumeralBegins
        <4> QED
          BY <2>3, <4>2, <4>4, <4>5 DEF SaysDigits
      <3> QED
        BY <3>1, <3>2
    <2>6. SaysNumber'
      <3>1. ValueAt(0)' = v /\ ValueAt(Len(buffer51))' = v
            /\ Len(buffer51') = 0 /\ Len(values51') = 0
        BY <1>1, <2>2 DEF ValueAt
      <3>2. v < ValueEnd(0) /\ 0 <= BufferDigits
        BY <2>1, ValueEnds
      <3>3. Magnitude51(item') = v /\ ValueEnd(Len(buffer51))' = ValueEnd(0)
        BY <1>1, <2>1, <3>1
      <3>4. NumberSoon51' = IF storing' THEN 0 ELSE ValueAt(Len(buffer51))'
        BY <1>3, <2>2, <3>1
      <3> QED
        BY <1>1, <1>3, <2>2, <3>1, <3>2, <3>3, <3>4 DEF SaysNumber
    <2> QED
      BY <1>1, <1>2, <1>5, <2>4, <2>5, <2>6 DEF SerialInv
  <1> QED
    BY <1>4, <1>5

LEMMA StoreDigitStep ==
  ASSUME SerialInv, StoreDigit
  PROVE  SerialInv'
  <1>0. PICK n \in Nat : n = Len(buffer51)
    BY DEF SerialInv, SerialShape
  <1>1. /\ item' = item /\ out' = out /\ out = <<>> /\ wire' = wire /\ sbuf' = sbuf
        /\ ti' = ti /\ number51' = number51 /\ sending' = sending /\ storing' = storing
        /\ storing /\ sending = "idle"
        /\ item[1] # "text" /\ SerialShape /\ Handshake51 /\ SaysDigits /\ SaysNumber
    BY DEF StoreDigit, InLoop51, uartVars, SerialInv, SaysText
  <1>2. /\ value51 \in Nat /\ value51 > 0 /\ value51 < ValueEnd(n)
        /\ n \in 0..BufferDigits - 1 /\ n = Len(values51)
        /\ buffer51 \in Seq(Digits51) /\ values51 \in Seq(Nat)
        /\ buffer51' = Append(buffer51, value51 % Radix)
        /\ value51' = value51 \div Radix
        /\ values51' = Append(values51, value51)
    BY <1>0, <1>1, ValueEnds DEF StoreDigit, SerialShape, SaysNumber
  <1>3. /\ value51 = Radix * value51' + (value51 % Radix)
        /\ value51' \in Nat /\ value51 % Radix \in Digits51
        /\ value51' < ValueEnd(n + 1)
    <2>1. ValueEnd(n + 1) \in Nat /\ value51 < Radix * ValueEnd(n + 1)
      <3>1. n \in 0..BufferDigits - 1 /\ n + 1 \in 0..BufferDigits
        BY <1>2, ValueEnds
      <3>2. ValueEnd(n + 1) \in Nat /\ ValueEnd(n) = Radix * ValueEnd(n + 1)
        BY <3>1, ValueEnds, Zenon
      <3> QED
        BY <1>2, <3>2, Zenon
    <2>2. /\ value51 = Radix * (value51 \div Radix) + (value51 % Radix)
          /\ value51 \div Radix \in Nat /\ value51 % Radix \in Digits51
          /\ value51 \div Radix < ValueEnd(n + 1)
      BY <1>2, <2>1, Divided51, Zenon
    <2> QED
      BY <1>2, <2>2, Zenon
  <1>4. /\ buffer51' \in Seq(Digits51) /\ Len(buffer51') = n + 1
        /\ values51' \in Seq(Nat) /\ Len(values51') = n + 1
        /\ buffer51'[n + 1] = value51 % Radix /\ values51'[n + 1] = value51
        /\ \A i \in 1..n : buffer51'[i] = buffer51[i] /\ values51'[i] = values51[i]
    <2>1. PICK d \in Digits51 : d = value51 % Radix
      BY <1>3
    <2>2. /\ d \in Digits51 /\ n = Len(buffer51) /\ n = Len(values51) /\ buffer51 \in Seq(Digits51)
          /\ values51 \in Seq(Nat) /\ value51 \in Nat
          /\ buffer51' = Append(buffer51, d) /\ values51' = Append(values51, value51)
      BY <1>0, <1>2, <2>1
    <2>3. /\ buffer51' \in Seq(Digits51) /\ Len(buffer51') = n + 1 /\ buffer51'[n + 1] = d
          /\ \A i \in 1..n : buffer51'[i] = buffer51[i]
      <3>1. /\ Append(buffer51, d) \in Seq(Digits51)
            /\ Len(Append(buffer51, d)) = Len(buffer51) + 1
            /\ Append(buffer51, d)[Len(buffer51) + 1] = d
            /\ \A i \in 1..Len(buffer51) : Append(buffer51, d)[i] = buffer51[i]
        BY <2>2, DigitAppends, Zenon
      <3> QED
        BY <2>2, <3>1, Zenon
    <2>4. /\ values51' \in Seq(Nat) /\ Len(values51') = n + 1 /\ values51'[n + 1] = value51
          /\ \A i \in 1..n : values51'[i] = values51[i]
      BY <2>2, AppendProperties
    <2> QED
      BY <2>1, <2>3, <2>4
  <1>5. ValueAt(n + 1)' = value51' /\ \A i \in 0..n : ValueAt(i)' = ValueAt(i)
    BY <1>2, <1>4 DEF ValueAt
  <1>6. SerialShape'
    BY <1>1, <1>3, <1>4 DEF SerialShape
  <1>7. Handshake51' /\ Spoken51' = Spoken51 /\ NumberSoon51' = NumberSoon51
    BY <1>1 DEF Handshake51, Spoken51, InUart51, NumberSoon51
  <1>8. SaysDigits'
    <2>1. buffer51' # <<>>
      BY <1>2, <1>4
    <2> QED
      BY <1>1, <1>7, <2>1 DEF SaysDigits
  <1>9. SaysNumber'
    <2>1. \A i \in 1..n + 1 : values51'[i] = Radix * ValueAt(i)' + buffer51'[i]
      <3> SUFFICES ASSUME NEW i \in 1..n + 1
                   PROVE  values51'[i] = Radix * ValueAt(i)' + buffer51'[i]
        OBVIOUS
      <3>1. CASE i = n + 1
        BY <1>0, <1>3, <1>4, <1>5, <3>1
      <3>2. CASE i \in 1..n
        <4>1. values51[i] = Radix * ValueAt(i) + buffer51[i]
          BY <1>0, <1>1, <3>2 DEF SaysNumber
        <4> QED
          BY <1>0, <1>2, <1>4, <1>5, <3>2, <4>1
      <3> QED
        BY <1>0, <3>1, <3>2
    <2>2. ValueAt(0)' = Magnitude51(item) /\ NumberSoon51' = 0
      BY <1>0, <1>1, <1>2, <1>5, <1>7 DEF SaysNumber
    <2>3. ValueEnd(Len(buffer51))' = ValueEnd(n + 1)
      BY <1>4
    <2>4. /\ Len(buffer51') <= Len(values51') /\ Len(buffer51') <= BufferDigits
          /\ Len(buffer51') = Len(values51') /\ value51' < ValueEnd(Len(buffer51))'
      BY <1>0, <1>2, <1>3, <1>4, <2>3, ValueEnds
    <2>5. \A i \in 1..Len(buffer51') : values51'[i] = Radix * ValueAt(i)' + buffer51'[i]
      BY <1>4, <2>1
    <2>6. out' = <<>> /\ storing' /\ Magnitude51(item)' = Magnitude51(item)
      BY <1>1
    <2> QED
      BY <2>2, <2>4, <2>5, <2>6 DEF SaysNumber
  <1> QED
    BY <1>1, <1>6, <1>7, <1>8, <1>9 DEF SerialInv

LEMMA DigitsStoredStep ==
  ASSUME SerialInv, DigitsStored
  PROVE  SerialInv'
  <1>1. /\ item' = item /\ out' = out /\ wire' = wire /\ sbuf' = sbuf /\ ti' = ti
        /\ number51' = number51 /\ sending' = sending /\ value51' = value51
        /\ buffer51' = buffer51 /\ values51' = values51 /\ ~storing' /\ storing' \in BOOLEAN
        /\ storing /\ out = <<>>
        /\ item[1] # "text" /\ SerialShape /\ Handshake51 /\ SaysDigits /\ SaysNumber
    BY DEF DigitsStored, InLoop51, uartVars, SerialInv, SaysText
  <1>2. SerialShape' /\ Handshake51' /\ Spoken51' = Spoken51 /\ NumberSoon51' = NumberSoon51
    BY <1>1 DEF SerialShape, Handshake51, Spoken51, InUart51, NumberSoon51
  <1>3. /\ value51 = 0
        /\ Len(buffer51) = 0 => value51 = 0 /\ BufferDigits > 0
    <2>1. CASE Len(buffer51) = BufferDigits
      BY <1>1, <2>1, ValueEnds DEF SaysNumber, SerialShape
    <2> QED
      BY <1>1, <2>1, ValueEnds DEF DigitsStored
  <1>4. \A i \in 0..Len(values51) : ValueAt(i)' = ValueAt(i)
    BY <1>1 DEF ValueAt
  <1>5. SaysDigits'
    BY <1>1, <1>2, <1>3 DEF SaysDigits
  <1>6. SaysNumber'
    <2>1. /\ Len(values51) \in Nat /\ Len(buffer51) = Len(values51)
          /\ NumberSoon51 = 0 /\ ValueAt(Len(buffer51)) = 0
      BY <1>1, <1>3 DEF SaysNumber, SerialShape, ValueAt
    <2> QED
      BY <1>1, <1>2, <1>3, <1>4, <2>1 DEF SaysNumber
  <1> QED
    BY <1>1, <1>2, <1>5, <1>6 DEF SerialInv

LEMMA WriteNextStep ==
  ASSUME SerialInv, WriteNext
  PROVE  SerialInv'
  <1>1. PICK h : h = Head(out)
    OBVIOUS
  <1>2. /\ item' = item /\ wire' = wire /\ value51' = value51 /\ storing' = storing
        /\ values51' = values51 /\ ti' = ti /\ number51' = number51 /\ buffer51' = buffer51
        /\ out # <<>> /\ sending = "idle" /\ sending' = "wait"
        /\ sbuf' = h /\ out' = Tail(out)
        /\ SerialShape /\ Handshake51 /\ sbuf = Empty51 /\ ~ti
    BY <1>1 DEF WriteNext, WriteSbuf, SerialInv, Handshake51
  <1>3. /\ h \in Chars51 /\ out' \in Seq(Chars51) /\ h = out[1] /\ 1 \in 1..Len(out)
        /\ wire \o <<>> \o out = wire \o <<h>> \o out'
        /\ \A i \in 1..Len(out') : i + 1 \in 1..Len(out) /\ out'[i] = out[i + 1]
    <2>1. wire \in Seq(Chars51) /\ out \in Seq(Chars51)
      BY <1>2 DEF SerialShape
    <2>2. 1 \in 1..Len(out)
      BY <1>2, <2>1
    <2> QED
      BY <1>1, <1>2, <2>1, <2>2, OutMoves
  <1>4. SerialShape' /\ Handshake51'
    BY <1>2, <1>3 DEF SerialShape, Handshake51, Chars51
  <1>5. Spoken51' = Spoken51
    BY <1>2, <1>3 DEF Spoken51, InUart51, Chars51
  <1>6. CASE item[1] = "text"
    BY <1>2, <1>4, <1>5, <1>6 DEF SerialInv, SaysText
  <1>7. CASE item[1] # "text"
    <2>1. SaysDigits /\ SaysNumber
      BY <1>7 DEF SerialInv
    <2>2. h \in {Minus51, 0} /\ \A i \in 1..Len(out') : out'[i] \in {Minus51, 0}
      BY <1>3, <2>1 DEF SaysDigits
    <2>3. SaysDigits'
      BY <1>2, <1>5, <2>1, <2>2 DEF SaysDigits
    <2>4. number51 = 0 /\ NumberSoon51 = 0
      BY <1>2, <2>1 DEF SaysNumber, NumberSoon51, Empty51
    <2>5. NumberSoon51' = 0
      <3>1. CASE h = 0
        BY <1>2, <2>4, <3>1, C51SerialAssumption DEF NumberSoon51
      <3>2. CASE h = Minus51
        BY <1>2, <2>4, <3>2 DEF NumberSoon51, Minus51
      <3> QED
        BY <2>2, <3>1, <3>2
    <2>6. \A i \in Int : ValueAt(i)' = ValueAt(i)
      BY <1>2 DEF ValueAt
    <2>7. SaysNumber'
      BY <1>2, <2>1, <2>4, <2>5 DEF SaysNumber, ValueAt, Magnitude51, Negative51, ValueEnd
    <2> QED
      BY <1>2, <1>4, <1>7, <2>3, <2>7 DEF SerialInv
  <1> QED
    BY <1>6, <1>7

LEMMA WriteDigitStep ==
  ASSUME SerialInv, WriteDigit
  PROVE  SerialInv'
  <1>0. PICK n \in Nat : n = Len(buffer51)
    BY DEF SerialInv, SerialShape
  <1>1. PICK d : d = buffer51[n]
    OBVIOUS
  <1>2. /\ item' = item /\ wire' = wire /\ value51' = value51 /\ storing' = storing
        /\ values51' = values51 /\ ti' = ti /\ number51' = number51 /\ out' = out
        /\ out = <<>> /\ sending = "idle" /\ sending' = "wait" /\ ~storing
        /\ sbuf' = d /\ buffer51' = SubSeq(buffer51, 1, n - 1) /\ n > 0
        /\ SerialShape /\ Handshake51 /\ sbuf = Empty51 /\ ~ti
    BY <1>0, <1>1 DEF WriteDigit, WriteSbuf, SerialInv, Handshake51
  <1>3. /\ d \in Digits51 /\ d \in Chars51 /\ d # Empty51 /\ d \in Nat
        /\ buffer51' \in Seq(Digits51) /\ Len(buffer51') = n - 1
        /\ \A i \in 1..n - 1 : buffer51'[i] = buffer51[i]
    <2>1. buffer51 \in Seq(Digits51)
      BY <1>2 DEF SerialShape
    <2>2. d \in Digits51
      BY <1>0, <1>1, <1>2, <2>1
    <2>3. d \in Chars51 /\ d # Empty51 /\ d \in Nat
      BY <2>2, C51SerialAssumption DEF Digits51, Chars51, Empty51
    <2> QED
      BY <1>0, <1>2, <2>1, <2>2, <2>3
  <1>4. item[1] # "text" /\ SaysDigits /\ SaysNumber
    BY <1>0, <1>2 DEF SerialInv, SaysText
  <1>5. SerialShape' /\ Handshake51'
    BY <1>2, <1>3 DEF SerialShape, Handshake51, Chars51
  <1>6. Spoken51' = Append(Spoken51, d) /\ Spoken51 \in Seq(Chars51)
    <2>1. wire \in Seq(Chars51)
      BY <1>2 DEF SerialShape
    <2>2. Spoken51' = wire \o <<d>> \o <<>> /\ Spoken51 = wire \o <<>> \o <<>>
      BY <1>2, <1>3 DEF Spoken51, InUart51
    <2>3. wire \o <<>> \o <<>> \in Seq(Chars51)
      BY <2>1, SMT
    <2> QED
      BY <1>3, <2>1, <2>2, <2>3, DigitIsSaid
  <1>7. SaysDigits'
    <2>1. Negative51(item) \in BOOLEAN /\ Negative51(item') = Negative51(item)
      BY <1>2 DEF Negative51
    <2>2. /\ IsBegun51(Append(Spoken51, d), Negative51(item))
          /\ IsNumeral51(Append(Spoken51, d), Negative51(item))
      <3>1. IsBegun51(Spoken51, Negative51(item))
        BY <1>4 DEF SaysDigits
      <3> QED
        BY <1>3, <1>6, <2>1, <3>1, NumeralGoesOn
    <2>3. IsBegun51(Spoken51', Negative51(item')) /\ IsNumeral51(Spoken51', Negative51(item'))
      BY <1>6, <2>1, <2>2
    <2> QED
      BY <1>2, <2>3 DEF SaysDigits
  <1>8. SaysNumber'
    <2>1. /\ n <= Len(values51) /\ n <= BufferDigits /\ values51 \in Seq(Nat)
          /\ number51 \in Int /\ value51 \in Nat
          /\ number51 = ValueAt(n) /\ values51[n] = Radix * ValueAt(n) + d
      BY <1>0, <1>1, <1>2, <1>4 DEF SaysNumber, SerialShape, NumberSoon51, Empty51
    <2>2. NumberSoon51' = values51[n]
      BY <1>2, <1>3, <2>1 DEF NumberSoon51
    <2>3. ValueAt(n - 1) = values51[n]
      BY <1>2, <2>1 DEF ValueAt
    <2>4. \A i \in Int : ValueAt(i)' = ValueAt(i)
      BY <1>2 DEF ValueAt
    <2>5. ValueAt(Len(buffer51))' = values51[n]
      <3>1. ValueAt(Len(buffer51))' = IF n - 1 < Len(values51) THEN values51[(n - 1) + 1] ELSE value51
        BY <1>2, <1>3 DEF ValueAt
      <3> QED
        BY <2>1, <3>1
    <2>6. Magnitude51(item)' = Magnitude51(item)
      BY <1>2
    <2>7. \A i \in 1..n - 1 : values51'[i] = Radix * ValueAt(i)' + buffer51'[i]
      <3> SUFFICES ASSUME NEW i \in 1..n - 1
                   PROVE  values51'[i] = Radix * ValueAt(i)' + buffer51'[i]
        OBVIOUS
      <3>1. i \in 1..n /\ i \in Int
        OBVIOUS
      <3>2. values51[i] = Radix * ValueAt(i) + buffer51[i]
        BY <1>0, <1>4, <3>1 DEF SaysNumber
      <3> QED
        BY <1>2, <1>3, <2>4, <3>1, <3>2
    <2>8. ValueAt(0)' = Magnitude51(item)' /\ (~storing' => value51' = 0)
      BY <1>2, <1>4, <2>4, <2>6 DEF SaysNumber
    <2>9. Len(buffer51') <= Len(values51') /\ Len(buffer51') <= BufferDigits
      BY <1>2, <1>3, <2>1, ValueEnds
    <2> QED
      BY <1>2, <1>3, <2>2, <2>5, <2>7, <2>8, <2>9 DEF SaysNumber
  <1> QED
    BY <1>2, <1>4, <1>5, <1>7, <1>8 DEF SerialInv

LEMMA TiSeenStep ==
  ASSUME SerialInv, TiSeen
  PROVE  SerialInv'
  <1>1. /\ item' = item /\ wire' = wire /\ value51' = value51 /\ storing' = storing
        /\ values51' = values51 /\ number51' = number51 /\ buffer51' = buffer51
        /\ out' = out /\ sbuf' = sbuf /\ ~ti' /\ ti' \in BOOLEAN /\ sending' = "idle"
        /\ sending = "wait" /\ ti /\ SerialShape /\ Handshake51
    BY DEF TiSeen, uintVars, SerialInv
  <1>2. SerialShape' /\ Handshake51'
    BY <1>1 DEF SerialShape, Handshake51
  <1> QED
    BY <1>1, <1>2
    DEF SerialInv, SaysText, SaysDigits, SaysNumber, Spoken51, InUart51, NumberSoon51,
        ValueAt, ValueEnd, Magnitude51, Negative51

LEMMA UartSentStep ==
  ASSUME SerialInv, UartSent
  PROVE  SerialInv'
  <1>1. /\ item' = item /\ value51' = value51 /\ storing' = storing
        /\ values51' = values51 /\ buffer51' = buffer51 /\ out' = out
        /\ wire' = Append(wire, sbuf) /\ sbuf' = Empty51 /\ ti' /\ ti' \in BOOLEAN
        /\ number51' = NumberSoon51 /\ sending' = sending
        /\ sbuf # Empty51 /\ SerialShape /\ Handshake51
    BY DEF UartSent, uintVars, SerialInv, NumberSoon51
  <1>2. sbuf \in Chars51 /\ wire \in Seq(Chars51) /\ out \in Seq(Chars51)
    BY <1>1 DEF SerialShape, Chars51
  <1>3. NumberSoon51 \in Int /\ NumberSoon51' = NumberSoon51
    <2>1. Radix \in Nat /\ number51 \in Int /\ sbuf \in Int
      BY <1>1, C51SerialAssumption DEF SerialShape
    <2> QED
      BY <1>1, <2>1 DEF NumberSoon51, Empty51
  <1>4. wire' \in Seq(Chars51) /\ Spoken51' = Spoken51
    <2>1. wire' \in Seq(Chars51)
      BY <1>1, <1>2
    <2>2. Spoken51' = wire' \o <<>> \o out /\ Spoken51 = wire \o <<sbuf>> \o out
      BY <1>1 DEF Spoken51, InUart51
    <2> QED
      BY <1>1, <1>2, <2>1, <2>2, SentMoves
  <1>5. SerialShape' /\ Handshake51'
    BY <1>1, <1>3, <1>4 DEF SerialShape, Handshake51, Empty51
  <1> QED
    BY <1>1, <1>3, <1>4, <1>5
    DEF SerialInv, SaysText, SaysDigits, SaysNumber, ValueAt, ValueEnd, Magnitude51, Negative51

LEMMA SerialStep == SerialInv /\ [C51SerialNext]_c51serialVars => SerialInv'
  <1> SUFFICES ASSUME SerialInv, [C51SerialNext]_c51serialVars PROVE SerialInv'
    OBVIOUS
  <1>1. CASE C51SerialNext
    BY <1>1, ConvertStep, StoreDigitStep, DigitsStoredStep, WriteNextStep, WriteDigitStep,
       TiSeenStep, UartSentStep
    DEF C51SerialNext
  <1>2. CASE UNCHANGED c51serialVars
    BY <1>2
    DEF c51serialVars, uintVars, uartVars, SerialInv, SerialShape, Handshake51, SaysText,
        SaysDigits, SaysNumber, Spoken51, InUart51, NumberSoon51, ValueAt, ValueEnd,
        Magnitude51, Negative51
  <1> QED
    BY <1>1, <1>2

\* Whatever is printed in whatever base and width, the characters on the wire are
\* those of the item, and the digits of a number denote it: the second loop
\* undoes the first, and no character is written over another (printf_20).
THEOREM WireSaysItem ==
  C51SerialInit /\ [][C51SerialNext]_c51serialVars => []C51WireSaysItem
  <1>1. SerialInv => C51WireSaysItem
    <2> SUFFICES ASSUME SerialInv, Printed51 PROVE C51WireSaysItem
      BY DEF C51WireSaysItem
    <2>1. /\ out = <<>> /\ buffer51 = <<>> /\ ~storing /\ sbuf = Empty51
          /\ SerialShape /\ wire \in Seq(Chars51)
      BY DEF Printed51, SerialInv, Handshake51, SerialShape
    <2>2. Spoken51 = wire /\ NumberSoon51 = number51
      BY <2>1, SMT DEF Spoken51, InUart51, NumberSoon51, Empty51
    <2>3. CASE item[1] = "text"
      BY <2>2, <2>3 DEF SerialInv, SaysText, C51WireSaysItem
    <2>4. CASE item[1] # "text"
      <3>1. SaysDigits /\ SaysNumber
        BY <2>4 DEF SerialInv
      <3>2. IsNumeral51(wire, Negative51(item))
        BY <2>1, <2>2, <3>1 DEF SaysDigits
      <3>3. number51 = Magnitude51(item)
        BY <2>1, <2>2, <3>1 DEF SaysNumber
      <3>4. item[2][1] \in Nat /\ Word51 \in Nat
        BY <2>1, <2>4, ItemParts, ValueEnds DEF SerialShape
      <3> QED
        BY <2>4, <3>2, <3>3, <3>4 DEF C51WireSaysItem, Magnitude51
    <2> QED
      BY <2>3, <2>4
  <1> QED
    BY <1>1, SerialStart, SerialStep, PTL
===============================================================================
