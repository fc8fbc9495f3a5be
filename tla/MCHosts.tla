------------------------------- MODULE MCHosts -------------------------------
(***************************************************************************)
(* The run of the programs on the hosts: the gateway's spool and transport,*)
(* the serial manager and the event streams of the local dashboard, and a  *)
(* command as the remote server sees it.                                   *)
(*                                                                         *)
(* These four share no variable.  The initial state chooses one of them,   *)
(* `part', and only that one moves (see MCPanels).                         *)
(***************************************************************************)
EXTENDS MqttTransport, FlaskSerial, StateStore, MCRemoteCommands

VARIABLE part

HostsInit ==
  /\ part \in {"transport", "serial", "store", "remote"}
  /\ Init /\ FlaskInit /\ StoreInit /\ RemoteInit
  /\ part = "remote" \/ online[CHOOSE p \in Processes : TRUE]

HostsNext ==
  /\ UNCHANGED part
  /\ \/ part = "transport" /\ Next /\ UNCHANGED <<flaskVars, storeVars, remoteVars>>
     \/ part = "serial" /\ FlaskNext /\ UNCHANGED <<vars, storeVars, remoteVars>>
     \/ part = "store" /\ StoreNext /\ UNCHANGED <<vars, flaskVars, remoteVars>>
     \/ part = "remote" /\ RemoteNext /\ UNCHANGED <<vars, flaskVars, storeVars>>

HostsSpec ==
  HostsInit /\ [][HostsNext]_<<part, vars, flaskVars, storeVars, remoteVars>>
==============================================================================
