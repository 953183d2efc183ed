SPECIFICATION MCFairSpec
CONSTANTS
    MCParts = {"fan", "dictation", "link", "exchange", "lease", "capture", "worker", "tally"}
    FanId = {f1, f2}
    FanEnabled = TRUE
    FanQueueSize = 1
    FanCacheSize = 1
    FanRetries = 1
    MaxFanEvents = 3
    MaxFanFaults = 1
    DictId = {i1, i2}
    RecentLimit = 2
    MaxDictEvents = 3
    MaxDictFaults = 1
    Plain = {p}
    Single = {}
    Bound = {}
    Streams = {v}
    MaxLinkCalls = 2
    MaxLinkPushes = 1
    MaxLinkFaults = 1
    ExId = {x1}
    NoEx = none
    TombLimit = 2
    MaxParts = 2
    MaxExFaults = 2
    ArmFailureLimit = 2
    BeginTimeoutLimit = 2
    VerifyEvery = 2
    MaxLvArms = 2
    MaxLvFaults = 3
    LcEx = {1}
    LcSpoken = 2
    LcSeqMod = 4
    LcQueueMax = 1
    LcTombs = 2
    MaxLcFaults = 1
    LwCaptures = {1}
    LwFrames = 3
    LwChunk = 2
    LwQueueMax = 1
    WarmFailureLimit = 2
    MaxLwBuilds = 2
    MaxLwFaults = 1
    RcFrames = 2
    RcTransfer = "auto"
    RcKnowsVad = FALSE
    RcChunks = 2
    MaxRcJobs = 2
    MaxRcFaults = 2
    WireLength = 2
    WireLineMax = 3
    WireFrameMax = 3
    WireQueueMax = 2
    MaxWireSends = 3
    MaxWireFaults = 1
    MaxWireOpens = 2
    UkPeers = {TRUE, FALSE}
    MaxUkTallied = 3
    MaxUkFaults = 2
    TxWord = {w1}
    TxLineLength = 2
    TxHistoryMax = 4
    MaxTxUpdates = 3
    LocModel = {1, 2}
    LocFirst = 1
    LocFastDeaths = 2
    LocTurns = 1
    MaxLocSwitches = 2
    MaxLocAsks = 2
    MaxLocFaults = 1
    FcCurve <- MCFcCurve
    FcCurveHyst = 1
    FcSafeTemp = 2
    FcSafeHyst = 1
    FcHottest = 2
    FcQuiet = 1
    FcBoost = 2
    FcMaxPwm = 2
    MaxFcCommands = 1
    MaxFcMoves = 1
    MaxFcFaults = 2
PROPERTIES
    FanSettles DictServed ExSettles LvKept UkTallied WaitsEnd
CHECK_DEADLOCK FALSE
