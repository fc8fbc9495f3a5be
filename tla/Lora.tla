--------------------------------- MODULE Lora ---------------------------------
(***************************************************************************)
(* The LoRa link (User/lora_service.c, Drivers/sx1278.c) and the SX1278.   *)
(*                                                                         *)
(* The driver keeps a state of its own beside the mode of the chip, which  *)
(* works by itself: it leaves transmission when a packet is out, and takes *)
(* packets in while it receives, each over the one before.  Its events     *)
(* come between any two steps of lora_service_poll.  LORA commands are     *)
(* executed by the same main loop, between two polls.                      *)
(***************************************************************************)
EXTENDS Naturals

CONSTANT LoraPeriod  \* bound: ticks of cfg.period_s

ASSUME LoraAssumption == LoraPeriod \in Nat

VARIABLES
  lorastate,   \* status.state
  loraenabled, \* cfg.enabled
  lorawait,    \* ticks since last_tx, as far as LoraPeriod
  lorapc,      \* the next step of lora_service_poll
  flags,       \* of sx1278_poll_receive: the flags it read beside RxDone
  pinged,      \* whether the packet fetched in this poll is a ping
  chip,        \* the mode of the SX1278; "off" without power
  txdone, rxdone, crcerror,  \* its interrupt flags
  fifo,        \* the last packet it received
  unanswered    \* history: sx1278_send turned this poll's pong down

loraVars == <<lorastate, loraenabled, lorawait, lorapc, flags, pinged, chip, txdone,
              rxdone, crcerror, fifo, unanswered>>

LoraStates == {"OFF", "DETECTING", "READY", "TX", "RX", "ERROR"}
ChipModes  == {"off", "standby", "tx", "rx"}
ClearFlags == txdone' = FALSE /\ rxdone' = FALSE /\ crcerror' = FALSE

\* Mutant: a packet may be sent while another is on its way.
CanSendAlways == lorastate # "OFF"

CanSend == lorastate \in {"READY", "RX"}

\* sx1278_send when it accepts.
Transmit == chip' = "tx" /\ lorastate' = "TX" /\ ClearFlags

\* LORA POWER,ON=1: power, reset and detection, which an absent chip fails; then
\* sx1278_config with the valid defaults leaves the chip receiving.
LoraOn(found) ==
  /\ lorapc = "service"
  /\ loraenabled' = TRUE
  /\ lorastate' = IF found THEN "RX" ELSE "ERROR"
  /\ chip' = IF found THEN "rx" ELSE "off"
  /\ ClearFlags
  /\ UNCHANGED <<lorawait, lorapc, flags, pinged, fifo, unanswered>>

\* LORA POWER,ON=0
LoraOff ==
  /\ lorapc = "service"
  /\ loraenabled' = FALSE /\ lorastate' = "OFF" /\ chip' = "off"
  /\ ClearFlags
  /\ UNCHANGED <<lorawait, lorapc, flags, pinged, fifo, unanswered>>

\* LORA PING
LoraPing ==
  /\ lorapc = "service" /\ loraenabled /\ CanSend
  /\ Transmit
  /\ UNCHANGED <<loraenabled, lorawait, lorapc, flags, pinged, fifo, unanswered>>

\* lora_service_configure with valid values, which no command calls yet.
LoraConfigure ==
  /\ lorapc = "service" /\ chip # "off"
  /\ chip' = "rx" /\ lorastate' = "RX"
  /\ UNCHANGED <<loraenabled, lorawait, lorapc, flags, pinged, txdone, rxdone,
                 crcerror, fifo, unanswered>>

\* Mutant: a packet that is out leaves the chip in standby.
ServiceStandby ==
  /\ lorapc = "service" /\ lorapc' = IF loraenabled THEN "receive" ELSE "service"
  /\ IF lorastate = "TX" /\ txdone
       THEN txdone' = FALSE /\ lorastate' = "RX" /\ UNCHANGED chip
       ELSE UNCHANGED <<txdone, chip, lorastate>>
  /\ UNCHANGED <<loraenabled, lorawait, flags, pinged, rxdone, crcerror, fifo, unanswered>>

\* sx1278_service, and the poll goes on when the service is enabled.
Service ==
  /\ lorapc = "service" /\ lorapc' = IF loraenabled THEN "receive" ELSE "service"
  /\ IF lorastate = "TX" /\ txdone
       THEN txdone' = FALSE /\ chip' = "rx" /\ lorastate' = "RX"
       ELSE UNCHANGED <<txdone, chip, lorastate>>
  /\ UNCHANGED <<loraenabled, lorawait, flags, pinged, rxdone, crcerror, fifo, unanswered>>

\* sx1278_poll_receive reads the flags ...
LoraReceive ==
  /\ lorapc = "receive"
  /\ IF lorastate # "TX" /\ rxdone
       THEN /\ lorapc' = "clear"
            /\ flags' = (IF txdone THEN {"TxDone"} ELSE {})
                        \cup (IF crcerror THEN {"CrcError"} ELSE {})
       ELSE lorapc' = "due" /\ UNCHANGED flags
  /\ UNCHANGED <<lorastate, loraenabled, lorawait, pinged, chip, txdone, rxdone,
                 crcerror, fifo, unanswered>>

\* ... and writes back the ones it read, which clears them, also when another packet
\* has set them again meanwhile.  A bad checksum it read goes no further.
LoraClear ==
  /\ lorapc = "clear"
  /\ lorapc' = IF "CrcError" \in flags THEN "due" ELSE "fetch"
  /\ rxdone' = FALSE
  /\ txdone' = (txdone /\ "TxDone" \notin flags)
  /\ crcerror' = (crcerror /\ "CrcError" \notin flags)
  /\ flags' = {}
  /\ UNCHANGED <<lorastate, loraenabled, lorawait, pinged, chip, fifo, unanswered>>

\* ... and reads the packet, which may be a later one by now.
Fetch ==
  /\ lorapc = "fetch" /\ lorapc' = "pong"
  /\ pinged' = (fifo = "ping")
  /\ UNCHANGED <<lorastate, loraenabled, lorawait, flags, chip, txdone, rxdone,
                 crcerror, fifo, unanswered>>

\* A ping is answered.
Pong ==
  /\ lorapc = "pong" /\ lorapc' = "due"
  /\ IF pinged /\ CanSend THEN Transmit
                          ELSE UNCHANGED <<chip, lorastate, txdone, rxdone, crcerror>>
  /\ unanswered' = (pinged /\ ~CanSend)
  /\ UNCHANGED <<loraenabled, lorawait, flags, pinged, fifo>>

\* Telemetry, when its time has come: last_tx and sequence move on even when
\* sx1278_send turns it down, as it does behind a pong of the same poll.
Telemetry ==
  /\ lorapc = "due" /\ lorapc' = "service"
  /\ lorawait' = IF lorawait = LoraPeriod THEN 0 ELSE lorawait
  /\ IF lorawait = LoraPeriod /\ CanSend
       THEN Transmit
       ELSE UNCHANGED <<chip, lorastate, txdone, rxdone, crcerror>>
  /\ UNCHANGED <<loraenabled, flags, pinged, fifo, unanswered>>

LoraTick ==
  /\ lorawait < LoraPeriod /\ lorawait' = lorawait + 1
  /\ UNCHANGED <<lorastate, loraenabled, lorapc, flags, pinged, chip, txdone, rxdone,
                 crcerror, fifo, unanswered>>

\* The chip has sent its packet and goes to standby.
ChipSent ==
  /\ chip = "tx" /\ chip' = "standby" /\ txdone' = TRUE
  /\ UNCHANGED <<lorastate, loraenabled, lorawait, lorapc, flags, pinged, rxdone,
                 crcerror, fifo, unanswered>>

\* The chip has received a packet; a flag it has set stays until it is cleared.
ChipReceived(packet, damaged) ==
  /\ chip = "rx" /\ rxdone' = TRUE /\ crcerror' = (crcerror \/ damaged)
  /\ fifo' = packet
  /\ UNCHANGED <<lorastate, loraenabled, lorawait, lorapc, flags, pinged, chip, txdone,
                 unanswered>>

LoraInit ==
  /\ lorastate = "OFF" /\ loraenabled = FALSE /\ lorawait = 0
  /\ lorapc = "service" /\ flags = {} /\ pinged = FALSE /\ unanswered = FALSE
  /\ chip = "off" /\ fifo = "other"
  /\ txdone = FALSE /\ rxdone = FALSE /\ crcerror = FALSE

LoraPoll == Service \/ LoraReceive \/ LoraClear \/ Fetch \/ Pong \/ Telemetry

LoraNext ==
  \/ LoraPoll \/ LoraOff \/ LoraPing \/ LoraConfigure \/ LoraTick \/ ChipSent
  \/ \E found \in BOOLEAN : LoraOn(found)
  \/ \E packet \in {"ping", "other"}, damaged \in BOOLEAN :
       ChipReceived(packet, damaged)
-------------------------------------------------------------------------------
\* The driver's state is the chip's, at every step: a node that believes to be
\* receiving is listening, and one that believes to be transmitting is, or will
\* see that it is done, so that no packet is cut off by another (sx1278.c).
LoraChipAgrees ==
  /\ lorastate = "RX" => chip = "rx"
  /\ lorastate = "TX" => chip = "tx" \/ txdone
  /\ chip # "off" => loraenabled

\* A ping that was read is always answered: no transmission is under way when a
\* packet has been fetched (lora_service_poll).
PongIsSent == ~unanswered

\* A transmission ends, given that the chip reports it and the loop polls.
LoraTxEnds == lorastate = "TX" ~> lorastate # "TX"
===============================================================================
