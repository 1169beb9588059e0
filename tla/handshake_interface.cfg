SPECIFICATION Spec
CONSTANTS
    WorkerThreads = {t1, t2}
    Threshold = 2
    OtherHandshakes = {0}
    CookiesExpire = FALSE
    Failures = {}
    DatagramsRepeat = FALSE
    ZeroPositions = {0, 1}
    MaxIncarnations = 1
    MaxSyns = 1
    MaxKeepAlives = 1
INVARIANT NoUnknownMessage
CHECK_DEADLOCK FALSE
