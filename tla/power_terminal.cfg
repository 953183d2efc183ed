SPECIFICATION Spec
CONSTANTS
    Id = {1, 2, 3}
    Kind <- ProfileThenTransitions
    Enabled = TRUE
    AllowSuspend = TRUE
    Retransmit = {"pending"}
    QueueSize = 2
    CacheSize = 2
    MaxAckRetries = 1
    MaxReadyRetries = 1
    MaxEvts = 1
    MaxFaults = 1
INVARIANTS
    TerminalHasTerminalAck
CHECK_DEADLOCK FALSE
