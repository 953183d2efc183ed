--------------------------- MODULE MCPowerControl ---------------------------
(* Small instances of PowerControl for TLC.                                 *)
EXTENDS PowerControl

ProfileThenTransitions == 1 :> "profile" @@ 2 :> "suspend" @@ 3 :> "reboot"
StatusThenReboot == 1 :> "status" @@ 2 :> "reboot"
ResumeThenReboot == 1 :> "suspend" @@ 2 :> "reboot"
===========================================================================
