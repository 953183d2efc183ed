SPECIFICATION MCSpec
CONSTANTS
    MCParts = {"fan", "dictation", "link", "login", "exchange", "lease", "capture", "worker", "recording",
               "wire", "upkeep", "transcript", "words", "llama", "controller"}
    FanId = {f1, f2}
    FanEnabled = TRUE
    FanQueueSize = 1
    FanCacheSize = 1
    FanRetries = 1
    MaxFanEvents = 2
    MaxFanFaults = 2
    DictId = {i1, i2}
    RecentLimit = 1
    MaxDictEvents = 3
    MaxDictFaults = 1
    Plain = {p}
    Single = {s}
    Bound = {b}
    Streams = {v}
    MaxLinkCalls = 2
    MaxLinkPushes = 1
    MaxLinkFaults = 3
    ExId = {x1, x2}
    NoEx = none
    TombLimit = 1
    MaxParts = 1
    MaxExFaults = 1
    ArmFailureLimit = 2
    BeginTimeoutLimit = 2
    VerifyEvery = 2
    MaxLvArms = 3
    MaxLvFaults = 3
    LcEx = {1, 2}
    LcSpoken = 2
    LcSeqMod = 4
    LcQueueMax = 1
    LcTombs = 2
    MaxLcFaults = 1
    LwCaptures = {1, 2}
    LwFrames = 3
    LwChunk = 2
    LwQueueMax = 1
    WarmFailureLimit = 2
    MaxLwBuilds = 2
    MaxLwFaults = 1
    RcFrames = 2
    RcTransfer = "auto"
    RcKnowsVad = FALSE
    RcChunks = 2
    MaxRcJobs = 2
    MaxRcFaults = 3
    WireLength = 2
    WireLineMax = 3
    WireFrameMax = 3
    WireQueueMax = 2
    MaxWireSends = 3
    MaxWireFaults = 1
    MaxWireOpens = 2
    UkPeers = {TRUE, FALSE}
    MaxUkTallied = 1
    MaxUkFaults = 2
    TxWord = {w1, w2}
    TxLineLength = 2
    TxHistoryMax = 4
    MaxTxUpdates = 3
    LocModel = {1, 2}
    LocFirst = 1
    LocFastDeaths = 2
    LocTurns = 1
    MaxLocSwitches = 2
    MaxLocAsks = 2
    MaxLocFaults = 1
    FcCurve <- MCFcCurve
    FcCurveHyst = 1
    FcSafeTemp = 2
    FcSafeHyst = 1
    FcHottest = 2
    FcQuiet = 1
    FcBoost = 2
    FcMaxPwm = 2
    MaxFcCommands = 1
    MaxFcMoves = 1
    MaxFcFaults = 2
INVARIANTS
    DaemonTypeOK FanSafe LinkRunsOnce ExPaints ExServedOnce LcSound LwGiven
    LwOwned RcSafe WireHeard WireRetired UkAnchored TxSound LocSafe FcSafe
PROPERTIES
    DictKept LinkCallsOwn
CHECK_DEADLOCK FALSE
