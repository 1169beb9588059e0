SPECIFICATION Spec
CONSTANTS
    WorkerThreads = {t1, t2}
    Threshold = 2
    OtherHandshakes = {2}
    CookiesExpire = FALSE
    Failures = {}
    DatagramsRepeat = FALSE
    ZeroPositions = {1}
    MaxIncarnations = 1
    MaxSyns = 3
    MaxKeepAlives = 0
INVARIANT SynToConnectionIsDuplicate
CHECK_DEADLOCK FALSE
