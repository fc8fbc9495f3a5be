-------------------------------- MODULE Dht11 --------------------------------
(***************************************************************************)
(* Reading the DHT11 (Drivers/dht11.c, and the archived Drivers/dht11.c).  *)
(*                                                                         *)
(* The sensor answers a start signal with a handshake and five bytes, the  *)
(* last of them the sum of the others.  It may not answer, or stop at any  *)
(* bit, which leaves the line at a level; and one bit of a frame may be    *)
(* misread, when an interrupt handler runs while the driver times a pulse. *)
(* The two drivers differ in what they do when a level does not come: the  *)
(* current one gives the read up, the archived one goes on with the bit.   *)
(***************************************************************************)
EXTENDS Bits

CONSTANTS
  DhtWeights,  \* the weights of the bits of a byte: 128 to 1
  DhtDecimals  \* bound: the values of the decimal bytes, which are not used

DhtBits == Len(DhtWeights)
DhtByte == Scale(DhtWeights, 0)

ASSUME DhtAssumption == AreWeights(DhtWeights) /\ DhtDecimals \subseteq 0..DhtByte - 1

VARIABLES
  dhtdriver,   \* which driver reads: "stm32" or "c51"
  dhtbusy,     \* whether a read is under way
  dhtresult,   \* the pair the last read returned, or nothing
  dhtsent,     \* the bytes the sensor is sending
  dhtline,     \* 0 or 1 when the line stays at that level
  dhtleft,     \* what the sensor has still to send of the byte under way
  dhtbytes,    \* the bytes read so far
  dhtturn,     \* turns of the loop of read_byte, and its value
  dhtvalue,
  dhtwrong,    \* history: the byte a bit of which was misread, or 0, and what
  dhterror     \* the bit adds to it

sensorVars == <<dhtsent, dhtline, dhtleft>>
readVars == <<dhtbytes, dhtturn, dhtvalue, dhtwrong, dhterror>>
dhtVars == <<dhtdriver, dhtbusy, dhtresult, sensorVars, readVars>>

DhtLive == 2      \* the sensor drives the line

\* Mutant: the decimal bytes are left out of the sum.
ChecksumOfTwo(b) == (b[1] + b[3]) % DhtByte = b[5]

\* (u8)(b[0] + b[1] + b[2] + b[3]) == b[4]
Checksum(b) == (b[1] + b[2] + b[3] + b[4]) % DhtByte = b[5]

DhtFrames ==
  {<<h, hd, t, td, (h + hd + t + td) % DhtByte>> :
     h \in 0..DhtByte - 1, hd \in DhtDecimals,
     t \in 0..DhtByte - 1, td \in DhtDecimals}

\* The start signal; a read begins with the sensor's first answer awaited.
DhtStart(frame) ==
  /\ ~dhtbusy
  /\ dhtbusy' = TRUE /\ dhtresult' = <<>>
  /\ dhtsent' = frame /\ dhtline' = DhtLive /\ dhtleft' = frame[1]
  /\ dhtbytes' = <<>> /\ dhtturn' = 0 /\ dhtvalue' = 0
  /\ dhtwrong' = 0 /\ dhterror' = 0
  /\ UNCHANGED dhtdriver

\* The sensor stops, or did not answer at all.
SensorStops ==
  /\ dhtbusy /\ dhtline = DhtLive
  /\ dhtline' \in {0, 1}
  /\ UNCHANGED <<dhtdriver, dhtbusy, dhtresult, dhtsent, dhtleft, readVars>>

\* Mutant: the current driver goes on with the bit as well.
GivesUpNever == FALSE

\* Whether the driver leaves the read when a level does not come: both do in
\* the handshake, which is before the first bit.
GivesUp == (dhtbytes = <<>> /\ dhtturn = 0) \/ dhtdriver = "stm32"

\* dht11_read returns false: a wait_level ran into its timeout.
DhtTimeout ==
  /\ dhtbusy /\ dhtline # DhtLive /\ GivesUp
  /\ Len(dhtbytes) < 5
  /\ dhtbusy' = FALSE
  /\ UNCHANGED <<dhtdriver, dhtresult, sensorVars, readVars>>

\* value << 1 | bit; the last bit completes the byte.
Shift(bit) ==
  IF dhtturn + 1 < DhtBits
    THEN /\ dhtturn' = dhtturn + 1 /\ dhtvalue' = 2 * dhtvalue + bit
         /\ UNCHANGED dhtbytes
    ELSE /\ dhtturn' = 0 /\ dhtvalue' = 0
         /\ dhtbytes' = Append(dhtbytes, 2 * dhtvalue + bit)

SentWeight == DhtWeights[dhtturn + 1]
SentBit    == BitOf(dhtleft, SentWeight)

\* The sensor goes on to its next bit, or its next byte.
SentNext == IF Len(dhtbytes) < 4 THEN dhtsent[Len(dhtbytes) + 2] ELSE 0

SensorMoves ==
  dhtleft' = IF dhtturn + 1 < DhtBits THEN dhtleft - SentBit * SentWeight ELSE SentNext

\* One turn of read_byte: the bit the sensor sends, ...
ReadBit ==
  /\ dhtbusy /\ Len(dhtbytes) < 5 /\ dhtline = DhtLive
  /\ Shift(SentBit) /\ SensorMoves
  /\ UNCHANGED <<dhtdriver, dhtbusy, dhtresult, dhtsent, dhtline, dhtwrong, dhterror>>

\* ... the other one, once in a frame, ...
MisreadBit ==
  /\ dhtbusy /\ Len(dhtbytes) < 5 /\ dhtline = DhtLive
  /\ dhtwrong = 0
  /\ Shift(1 - SentBit) /\ SensorMoves
  /\ dhtwrong' = Len(dhtbytes) + 1
  /\ dhterror' = IF SentBit = 0 THEN SentWeight ELSE -SentWeight
  /\ UNCHANGED <<dhtdriver, dhtbusy, dhtresult, dhtsent, dhtline>>

\* ... or the level of a line nobody drives.
ReadLevel ==
  /\ dhtbusy /\ Len(dhtbytes) < 5 /\ dhtline # DhtLive
  /\ ~GivesUp
  /\ Shift(dhtline)
  /\ UNCHANGED <<dhtdriver, dhtbusy, dhtresult, sensorVars, dhtwrong, dhterror>>

\* The checksum decides; the pair is temperature and humidity.
DhtDecide ==
  /\ dhtbusy /\ Len(dhtbytes) = 5
  /\ dhtbusy' = FALSE
  /\ dhtresult' = IF Checksum(dhtbytes) THEN <<dhtbytes[3], dhtbytes[1]>> ELSE <<>>
  /\ UNCHANGED <<dhtdriver, sensorVars, readVars>>

DhtInit ==
  /\ dhtdriver \in {"stm32", "c51"}
  /\ dhtbusy = FALSE /\ dhtresult = <<>>
  /\ dhtsent = <<0, 0, 0, 0, 0>> /\ dhtline = DhtLive /\ dhtleft = 0
  /\ dhtbytes = <<>> /\ dhtturn = 0 /\ dhtvalue = 0
  /\ dhtwrong = 0 /\ dhterror = 0

DhtNext ==
  \/ \E frame \in DhtFrames : DhtStart(frame)
  \/ SensorStops \/ DhtTimeout \/ ReadBit \/ MisreadBit \/ ReadLevel \/ DhtDecide
-------------------------------------------------------------------------------
\* What dht11_read returns is what the sensor sent: a frame with a misread bit
\* is refused, and so is one the sensor stopped in.  The archived driver is held
\* to it only when the sensor sent all of its frame: it takes a line that stays
\* low for zeroes, and a frame of zeroes has the right checksum.
DhtAcceptedIsSent ==
  \/ dhtresult \in {<<>>, <<dhtsent[3], dhtsent[1]>>}
  \/ dhtdriver = "c51" /\ dhtline # DhtLive
===============================================================================
