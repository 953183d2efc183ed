SPECIFICATION Spec
CONSTANTS
    Id = {1, 2}
    Kind <- ResumeThenReboot
    Enabled = TRUE
    AllowSuspend = TRUE
    Retransmit = {"pending"}
    QueueSize = 2
    CacheSize = 2
    MaxAckRetries = 1
    MaxReadyRetries = 1
    MaxEvts = 1
    MaxFaults = 1
INVARIANTS
    NoClaimOverAccepted
CHECK_DEADLOCK FALSE
