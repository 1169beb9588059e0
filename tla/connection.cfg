SPECIFICATION MCSpec
CONSTANTS
    Parts = {"uncrowded", "crowded", "fair"}
    WorkerThreads = {t1, t2}
    Threshold = 2
    OtherHandshakes = {0, 2}
    CookiesExpire = FALSE
    Failures = {}
    DatagramsRepeat = FALSE
    ZeroPositions = {0, 1}
    MaxIncarnations = 2
    MaxSyns = 3
    MaxKeepAlives = 0
    Last = 3
    MaxNumRetries = 2
    MaxChanges = 1
    SuspendTimeout = 1
    SuspendTimeoutMargin = 1
    MaxSuspendDuration = 2
    Delay = 0
    MaxLosses = 1
    MaxMoves = 1
INVARIANTS OneConnection NumbersAgree
PROPERTY BothConnect
CHECK_DEADLOCK FALSE
