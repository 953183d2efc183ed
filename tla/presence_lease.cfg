SPECIFICATION FairSpec
CONSTANTS
    Holder <- TwoHolders
    Voice = "voice"
    MaxCorrupt = 2
    LegacyPeer = TRUE
    InitMayFail = TRUE
    MaxFaults = 2
    MaxJobs = 2
INVARIANTS
    TypeOK
    SharedLease
PROPERTIES
    NoReadyAcrossReboot
    ModeWaitersReturn
    ServesAgain
CHECK_DEADLOCK FALSE
