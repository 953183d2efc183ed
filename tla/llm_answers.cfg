SPECIFICATION FairSpec
CONSTANTS
    Model <- ThreeModels
    OnHost <- TwoOnHost
    Configured = "small"
    QueueSize = 1
    CancelMemory = 1
    MaxAsks = 2
    MaxSelects = 0
    MaxPushes = 2
    MaxFaults = 2
INVARIANTS
    TypeOK
    TextInOrder
    WholeAnswer
PROPERTIES
    AdmittedAsksEnd
CHECK_DEADLOCK FALSE
