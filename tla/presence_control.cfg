SPECIFICATION FairSpec
CONSTANTS
    Holder <- TwoHolders
    Voice = "voice"
    MaxCorrupt = 2
    LegacyPeer = FALSE
    InitMayFail = TRUE
    MaxFaults = 1
    MaxJobs = 0
PROPERTIES
    ControlPlaneStaysUp
CHECK_DEADLOCK FALSE
