------------------------------- MODULE HostLink -------------------------------
(***************************************************************************)
(* The firmware's end of the line to the host: the receive interrupt, the  *)
(* ring it shares with the main loop, and the assembly of command lines    *)
(* (Drivers/serial2_printf.c, command_protocol_poll of                     *)
(* User/command_protocol.c).                                               *)
(*                                                                         *)
(* The interrupt comes between any two steps of the main loop; no lock     *)
(* protects head, tail, the ring and the error flags.  The other           *)
(* activities of the main loop, and what process prints, take time in      *)
(* which more bytes come.  A byte is its number in the stream and the kind *)
(* of its character.                                                       *)
(***************************************************************************)
EXTENDS Naturals, Sequences

CONSTANTS
  RingSize,  \* 256 slots
  LineSize,  \* 320: sizeof(line)
  MaxBytes   \* bound: bytes the host sends

ASSUME SizeAssumption ==
  /\ RingSize \in Nat /\ RingSize >= 2
  /\ LineSize \in Nat \ {0} /\ MaxBytes \in Nat

VARIABLES
  head, tail, rx,    \* the ring of serial2_printf.c
  errors,            \* its error flags: "line" is 1, "overflow" is 2
  pc, code, byte,    \* the main loop in command_protocol_poll; e and c there
  line, dropping,    \* line[0 .. len-1] and dropping
  processed,         \* history: the lines given to process
  arrived,           \* history: bytes that have arrived
  taken, lost,       \* history: bytes read from the ring; bytes that found it full
  unreported         \* history: an error since the last report, set outside "clear"

ringVars == <<head, tail, rx, taken, lost>>
mainVars == <<pc, code, byte, line, dropping, processed>>
vars == <<ringVars, mainVars, errors, arrived, unreported>>

Kinds == {"char", "cr", "lf"}
Byte  == [n : Nat, kind : Kinds]
Slots == 0 .. (RingSize - 1)

Flags == {"line", "overflow"}

\* (uint8_t)(i + 1)
NextSlot(i) == IF i = RingSize - 1 THEN 0 ELSE i + 1

\* The bytes from tail up to head.
Stored == IF head >= tail THEN head - tail ELSE head - tail + RingSize
SlotAt(i) == IF tail + i < RingSize THEN tail + i ELSE tail + i - RingSize
Content == [i \in 1 .. Stored |-> rx[SlotAt(i - 1)]]

Init ==
  /\ head = 0 /\ tail = 0
  /\ rx = [i \in Slots |-> [n |-> 0, kind |-> "char"]]
  /\ errors = {} /\ code = {}
  /\ pc = "idle" /\ byte = [n |-> 0, kind |-> "char"]
  /\ line = <<>> /\ dropping = FALSE
  /\ processed = <<>> /\ arrived = 0 /\ taken = <<>> /\ lost = {}
  /\ unreported = FALSE

-------------------------------------------------------------------------------
(* USART1_IRQHandler                                                         *)

\* The flag is set; main has not read the flags or will not clear them unread.
Flag(f) ==
  /\ errors' = errors \cup {f}
  /\ unreported' = (unreported \/ pc # "clear")

Arrive(k) == [n |-> arrived + 1, kind |-> k]

\* Mutant: the ring is never taken to be full.
ReceiveOverwriting(k) ==
  /\ arrived < MaxBytes
  /\ arrived' = arrived + 1
  /\ rx' = [rx EXCEPT ![head] = Arrive(k)]
  /\ head' = NextSlot(head)
  /\ UNCHANGED <<tail, taken, lost, errors, unreported>>
  /\ UNCHANGED mainVars

Receive(k) ==
  /\ arrived < MaxBytes
  /\ arrived' = arrived + 1
  /\ IF NextSlot(head) = tail
       THEN /\ lost' = lost \cup {Arrive(k)}
            /\ Flag("overflow")
            /\ UNCHANGED <<head, rx>>
       ELSE /\ rx' = [rx EXCEPT ![head] = Arrive(k)]
            /\ head' = NextSlot(head)
            /\ UNCHANGED <<lost, errors, unreported>>
  /\ UNCHANGED <<tail, taken>>
  /\ UNCHANGED mainVars

\* A framing, noise, parity or overrun error: the byte is not stored.
ReceiveBad ==
  /\ arrived < MaxBytes
  /\ arrived' = arrived + 1
  /\ Flag("line")
  /\ UNCHANGED ringVars
  /\ UNCHANGED mainVars

-------------------------------------------------------------------------------
(* command_protocol_poll: serial2_rx_errors, then serial2_rx_get to the end  *)

\* Mutant: the flags are cleared first and read after.
ReadErrorsCleared ==
  /\ pc = "idle"
  /\ code' = {} /\ errors' = {}
  /\ pc' = "clear"
  /\ UNCHANGED ringVars
  /\ UNCHANGED <<byte, line, dropping, processed, arrived, unreported>>

\* e=errors
ReadErrors ==
  /\ pc = "idle"
  /\ code' = errors
  /\ pc' = "clear"
  /\ UNCHANGED ringVars
  /\ UNCHANGED <<errors, byte, line, dropping, processed, arrived, unreported>>

\* errors=0; what was read is reported when it is not zero.
ClearErrors ==
  /\ pc = "clear"
  /\ errors' = {}
  /\ unreported' = (unreported /\ code = {})
  /\ pc' = "next"
  /\ UNCHANGED ringVars
  /\ UNCHANGED <<code, byte, line, dropping, processed, arrived>>

\* head==tail: the loop and the poll are over.
RingIsEmpty ==
  /\ pc = "next"
  /\ head = tail
  /\ pc' = "idle"
  /\ UNCHANGED ringVars
  /\ UNCHANGED <<errors, code, byte, line, dropping, processed, arrived, unreported>>

\* *v=rx[tail]
CopyByte ==
  /\ pc = "next"
  /\ head # tail
  /\ byte' = rx[tail]
  /\ pc' = "take"
  /\ UNCHANGED ringVars
  /\ UNCHANGED <<errors, code, line, dropping, processed, arrived, unreported>>

\* The '\r' before the '\n' goes.
Stripped(l) ==
  IF l # <<>> /\ l[Len(l)].kind = "cr" THEN SubSeq(l, 1, Len(l) - 1) ELSE l

\* Mutant: what does not fit is cut off, what did fit is processed.
AssembleTruncating(b) ==
  IF b.kind = "lf"
    THEN /\ processed' = IF line # <<>> THEN Append(processed, Stripped(line)) ELSE processed
         /\ line' = <<>> /\ dropping' = FALSE
    ELSE /\ line' = IF Len(line) < LineSize - 1 THEN Append(line, b) ELSE line
         /\ UNCHANGED <<dropping, processed>>

Assemble(b) ==
  IF b.kind = "lf"
    THEN /\ processed' = IF ~dropping /\ line # <<>>
                           THEN Append(processed, Stripped(line)) ELSE processed
         /\ line' = <<>> /\ dropping' = FALSE
    ELSE /\ UNCHANGED processed
         /\ IF ~dropping /\ Len(line) < LineSize - 1
              THEN line' = Append(line, b) /\ UNCHANGED dropping
              ELSE dropping' = TRUE /\ UNCHANGED line

\* tail=tail+1, and the byte goes into the line or ends it.
TakeByte ==
  /\ pc = "take"
  /\ tail' = NextSlot(tail)
  /\ taken' = Append(taken, byte)
  /\ Assemble(byte)
  /\ pc' = "next"
  /\ UNCHANGED <<head, rx, lost, errors, code, byte, arrived, unreported>>

-------------------------------------------------------------------------------
Poll == ReadErrors \/ ClearErrors \/ RingIsEmpty \/ CopyByte \/ TakeByte

Next == (\E k \in Kinds : Receive(k)) \/ ReceiveBad \/ Poll

Spec == Init /\ [][Next]_vars

-------------------------------------------------------------------------------
TypeOK ==
  /\ head \in Slots /\ tail \in Slots /\ rx \in [Slots -> Byte]
  /\ errors \in SUBSET Flags /\ code \in SUBSET Flags
  /\ pc \in {"idle", "clear", "next", "take"} /\ byte \in Byte
  /\ line \in Seq(Byte) /\ dropping \in BOOLEAN
  /\ processed \in Seq(Seq(Byte))
  /\ arrived \in Nat /\ taken \in Seq(Byte) /\ lost \in SUBSET Byte
  /\ unreported \in BOOLEAN

\* The ring without a lock is a bounded queue: the interrupt moves only head, the
\* main loop only tail, and neither a byte half taken nor a full ring lets one
\* overwrite, repeat or reorder what the other is at (serial2_printf.c:19-20).
Fifo == INSTANCE LossyFifo
          WITH queue <- Content, Capacity <- RingSize - 1,
               Bytes <- [n : 1 .. MaxBytes, kind : Kinds]
RingIsFifo == Fifo!SpecFifo

\* The lines of a stream of bytes, cut at each "lf", of a length that fits.  The
\* line before i begins at the start, or behind the last "lf".
Ends(t) == {i \in DOMAIN t : t[i].kind = "lf"}
IsBegin(t, b, i) ==
  (b = 1 \/ b - 1 \in Ends(t)) /\ \A j \in b .. (i - 1) : j \notin Ends(t)
Begin(t, i) == CHOOSE b \in 1 .. i : IsBegin(t, b, i)
Segment(t, i) == SubSeq(t, Begin(t, i), i - 1)
Fitting(t) == {i \in Ends(t) : Len(Segment(t, i)) \in 1 .. (LineSize - 1)}

\* process gets every line that fits, whole and in order, and no part of a line
\* that does not: the tail of an overlong line is never taken for a command of its
\* own, however the bytes arrive (command_protocol.c:32).
LinesAreWhole ==
  \E end \in [DOMAIN processed -> Fitting(taken)] :
    /\ \A i \in Fitting(taken) : \E k \in DOMAIN processed : end[k] = i
    /\ \A k, m \in DOMAIN processed : k < m => end[k] < end[m]
    /\ \A k \in DOMAIN processed : processed[k] = Stripped(Segment(taken, end[k]))

\* A byte that is lost is reported to the host by the next poll, unless it is lost
\* in the one window the code leaves, between reading the flags and clearing
\* them (serial2_printf.c:20).
LossIsReported ==
  unreported => IF pc = "clear" THEN code # {} ELSE errors # {}
===============================================================================
