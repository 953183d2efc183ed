SPECIFICATION FairSpec
CONSTANTS
    Id = {1, 2}
    Kind <- StatusThenReboot
    Enabled = TRUE
    AllowSuspend = TRUE
    Retransmit = {"pending", "accepted"}
    QueueSize = 3
    CacheSize = 3
    MaxAckRetries = 1
    MaxReadyRetries = 1
    MaxEvts = 1
    MaxFaults = 1
PROPERTIES
    RequestsSettle
CHECK_DEADLOCK FALSE
