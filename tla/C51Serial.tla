------------------------------ MODULE C51Serial ------------------------------
(***************************************************************************)
(* Printing in the archived firmware (Legacy_C51/Drivers/serial2_printf.c).*)
(*                                                                         *)
(* printf_20 turns one item of its format after the other into characters  *)
(* and hands each to the UART, which sends it from SBUF and then sets TI.  *)
(* A character written while another is in SBUF takes its place.           *)
(* Characters are numbers: the digits themselves, and negative codes.      *)
(***************************************************************************)
EXTENDS Integers, Sequences

CONSTANTS
  Radix,        \* the base numbers are printed in: 10
  DigitWeights, \* the weights of the digits the loop has room for: 10000 to 1
  Word51,       \* the values of a u16: 2^16
  OtherItems    \* bound: the strings and characters printed, as sequences

Empty51 == -100
BufferDigits == Len(DigitWeights)

ASSUME C51SerialAssumption ==
  /\ Radix \in Nat /\ Radix > 1 /\ Word51 \in Nat
  /\ DigitWeights \in Seq(Nat) /\ BufferDigits > 0 /\ DigitWeights[BufferDigits] = 1
  /\ \A i \in 1..BufferDigits - 1 : DigitWeights[i] = Radix * DigitWeights[i + 1]
  /\ Word51 <= Radix * DigitWeights[1]
  /\ OtherItems \subseteq Seq(Int \ {Empty51})

VARIABLES
  item,         \* the item printf_20 is at, with its argument
  out,          \* the characters it has still to send before any digits
  value51,      \* serial2_send_uint: its value, its buffer up to index,
  buffer51,
  storing,      \* and whether it is in the loop that fills the buffer
  values51,     \* history: the value at each turn of that loop
  sending,      \* where serial2_send_char is
  sbuf, ti,     \* the character in the UART, and its flag
  wire,         \* the characters of the item that were sent,
  number51      \* history: and the number their digits denote

uintVars == <<value51, buffer51, storing, values51>>
uartVars == <<sbuf, ti, wire, number51>>
c51serialVars == <<item, out, uintVars, sending, uartVars>>

Minus51 == -1
Words51 == 0..Word51 - 1
Items51 == ({"d", "u"} \X {<<w>> : w \in Words51}) \cup ({"text"} \X OtherItems)

\* A negative s16, as the word that represents it.
Negative51(i) == i[1] = "d" /\ 2 * i[2][1] >= Word51

\* Mutant: nought is no case of its own.
SendUintPlain(sign, v) == out' = sign /\ value51' = v /\ storing' = TRUE

\* serial2_send_uint, behind a sign: nought is a character and a return.
SendUint(sign, v) ==
  /\ out' = IF v = 0 THEN Append(sign, 0) ELSE sign
  /\ value51' = v
  /\ storing' = (v # 0)

Printed51 == out = <<>> /\ buffer51 = <<>> /\ ~storing /\ sending = "idle"

\* printf_20 reaches its next item, when the last character has gone.  The
\* negation of serial2_send_int wraps around.
Convert51(i) ==
  /\ Printed51
  /\ item' = i
  /\ \/ i[1] = "text" /\ out' = i[2] /\ UNCHANGED <<value51, storing>>
     \/ Negative51(i) /\ SendUint(<<Minus51>>, (Word51 - i[2][1]) % Word51)
     \/ i[1] # "text" /\ ~Negative51(i) /\ SendUint(<<>>, i[2][1])
  /\ values51' = <<>> /\ wire' = <<>> /\ number51' = 0
  /\ UNCHANGED <<buffer51, sending, sbuf, ti>>

InLoop51 == storing /\ out = <<>> /\ sending = "idle"

\* A turn of the first loop, ...
StoreDigit ==
  /\ InLoop51 /\ value51 > 0 /\ Len(buffer51) < BufferDigits
  /\ buffer51' = Append(buffer51, value51 % Radix)
  /\ value51' = value51 \div Radix
  /\ values51' = Append(values51, value51)
  /\ UNCHANGED <<item, out, storing, sending, uartVars>>

\* ... and its end.
DigitsStored ==
  /\ InLoop51 /\ (value51 = 0 \/ Len(buffer51) = BufferDigits)
  /\ storing' = FALSE
  /\ UNCHANGED <<item, out, value51, buffer51, values51, sending, uartVars>>

\* serial2_send_char
WriteSbuf(char) ==
  /\ sending = "idle" /\ sending' = "wait"
  /\ sbuf' = char
  /\ UNCHANGED <<item, value51, storing, values51, ti, wire, number51>>

WriteNext ==
  /\ out # <<>> /\ WriteSbuf(Head(out)) /\ out' = Tail(out)
  /\ UNCHANGED buffer51

\* The second loop: the digits from the last to the first.
WriteDigit ==
  LET last == Len(buffer51)
  IN /\ out = <<>> /\ ~storing /\ last > 0
     /\ WriteSbuf(buffer51[last]) /\ buffer51' = SubSeq(buffer51, 1, last - 1)
     /\ UNCHANGED out

\* Mutant: TI stays set for the next character.
TiLeft ==
  /\ sending = "wait" /\ ti
  /\ sending' = "idle"
  /\ UNCHANGED <<item, out, uintVars, uartVars>>

TiSeen ==
  /\ sending = "wait" /\ ti
  /\ ti' = FALSE /\ sending' = "idle"
  /\ UNCHANGED <<item, out, uintVars, sbuf, wire, number51>>

\* The UART has sent what is in SBUF.
UartSent ==
  /\ sbuf # Empty51
  /\ wire' = Append(wire, sbuf) /\ sbuf' = Empty51 /\ ti' = TRUE
  /\ number51' = IF sbuf >= 0 THEN Radix * number51 + sbuf ELSE number51
  /\ UNCHANGED <<item, out, uintVars, sending>>

C51SerialInit ==
  /\ item = <<"text", <<>>>> /\ out = <<>> /\ wire = <<>>
  /\ value51 = 0 /\ buffer51 = <<>> /\ storing = FALSE /\ values51 = <<>>
  /\ sending = "idle" /\ sbuf = Empty51 /\ ti = FALSE /\ number51 = 0

C51SerialNext ==
  \/ \E i \in Items51 : Convert51(i)
  \/ StoreDigit \/ DigitsStored \/ WriteNext \/ WriteDigit \/ TiSeen \/ UartSent
-------------------------------------------------------------------------------
\* The characters of a number: a minus sign only when it is negative, and then
\* digits, at least one.
IsNumeral51(chars, negative) ==
  LET first == IF negative THEN 2 ELSE 1
  IN /\ Len(chars) >= first
     /\ negative => chars[1] = Minus51
     /\ \A i \in first..Len(chars) : chars[i] \in 0..Radix - 1

\* When an item is done, its characters are on the wire in order and none is
\* missing, and the digits of a number denote the word it was given: signed for
\* %d, unsigned for %u (printf_20).  Its callers print small numbers; any word
\* is printed here.
C51WireSaysItem ==
  Printed51 =>
    IF item[1] = "text"
      THEN wire = item[2]
      ELSE LET w == item[2][1]
           IN /\ IsNumeral51(wire, Negative51(item))
              /\ IF Negative51(item) THEN -number51 = w - Word51 ELSE number51 = w
===============================================================================
