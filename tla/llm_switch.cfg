SPECIFICATION Spec
CONSTANTS
    Model <- ThreeModels
    OnHost <- TwoOnHost
    Configured = "small"
    QueueSize = 1
    CancelMemory = 1
    MaxAsks = 1
    MaxSelects = 2
    MaxPushes = 1
    MaxFaults = 2
PROPERTY ReportsLoaded
CHECK_DEADLOCK FALSE
