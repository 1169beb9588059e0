SPECIFICATION MCSpec
CONSTANTS
    Parts = {"discovery", "silence"}
    WorkerThreads = {t1, t2}
    Threshold = 2
    OtherHandshakes = {0, 2}
    CookiesExpire = FALSE
    Failures = {}
    DatagramsRepeat = FALSE
    ZeroPositions = {0}
    MaxIncarnations = 2
    MaxSyns = 3
    MaxKeepAlives = 0
    Last = 3
    MaxNumRetries = 2
    MaxChanges = 1
    SuspendTimeout = 1
    SuspendTimeoutMargin = 1
    MaxSuspendDuration = 2
    Delay = 0
    MaxLosses = 1
    MaxMoves = 1
INVARIANTS MTUIsRight SuspensionIsSound
PROPERTY UpkeepSettles
CHECK_DEADLOCK FALSE
