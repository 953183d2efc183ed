SPECIFICATION Spec
CONSTANTS
    Model <- ThreeModels
    OnHost <- TwoOnHost
    Configured = "small"
    QueueSize = 2
    CancelMemory = 2
    MaxAsks = 1
    MaxSelects = 1
    MaxPushes = 1
    MaxFaults = 1
PROPERTY ReadyMeansHealthy
CHECK_DEADLOCK FALSE
