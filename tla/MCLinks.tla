------------------------------- MODULE MCLinks -------------------------------
(***************************************************************************)
(* The links' run for TLC: the serial line to the host, the WiFi and the   *)
(* LoRa link, and the serial line of the archived firmware.                *)
(*                                                                         *)
(* These four share no variable.  The initial state chooses one of them,   *)
(* `part', and only that one moves (see MCPanels); what the main loop, the *)
(* clock and the radio owe is owed in the part they belong to.             *)
(***************************************************************************)
EXTENDS HostLink, C51Serial, Wifi, Lora

VARIABLE part

LinksInit ==
  /\ part \in {"hostlink", "wifi", "lora", "c51serial"}
  /\ Init /\ WifiInit /\ LoraInit /\ C51SerialInit

LinksNext ==
  /\ UNCHANGED part
  /\ \/ /\ part = "hostlink" /\ Next
        /\ UNCHANGED <<wifiVars, loraVars, c51serialVars>>
     \/ /\ part = "wifi" /\ WifiNext
        /\ UNCHANGED <<vars, loraVars, c51serialVars>>
     \/ /\ part = "lora" /\ LoraNext
        /\ UNCHANGED <<vars, wifiVars, c51serialVars>>
     \/ /\ part = "c51serial" /\ C51SerialNext
        /\ UNCHANGED <<vars, wifiVars, loraVars>>

LinksSpec ==
  /\ LinksInit
  /\ [][LinksNext]_<<part, vars, wifiVars, loraVars, c51serialVars>>
  /\ WF_wifiVars(part = "wifi" /\ WifiPoll)
  /\ WF_wifiVars(part = "wifi" /\ WifiTick)
  /\ WF_loraVars(part = "lora" /\ LoraPoll)
  /\ WF_loraVars(part = "lora" /\ ChipSent)

\* A text, a minus sign by itself, and one between texts.
MCDigitWeights == <<81, 27, 9, 3, 1>>

MCOtherItems == {<<>>, <<-2>>, <<-2, -3, -2>>}
==============================================================================
