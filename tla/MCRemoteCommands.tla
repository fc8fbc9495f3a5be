--------------------------- MODULE MCRemoteCommands ---------------------------
(***************************************************************************)
(* Commands for TLC: one for the device of the documentation, and one for a*)
(* device whose id is the name of the channel.                             *)
(***************************************************************************)
EXTENDS RemoteCommands, TLC

MCCommands == {"c1", "c2"}
MCDeviceOf == ("c1" :> "greenhouse-001") @@ ("c2" :> "command-results")

MCOneCommand == {"c1"}
MCOneDevice  == "c1" :> "greenhouse-001"
===============================================================================
