SPECIFICATION Spec
CONSTANTS
    Holder <- TwoHolders
    Voice = "voice"
    MaxCorrupt = 2
    LegacyPeer = FALSE
    InitMayFail = FALSE
    MaxFaults = 1
    MaxJobs = 1
INVARIANTS
    HoldKeepsBusy
CHECK_DEADLOCK FALSE
