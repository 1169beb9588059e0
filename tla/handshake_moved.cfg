SPECIFICATION Spec
CONSTANTS
    WorkerThreads = {t1, t2}
    Threshold = 2
    OtherHandshakes = {2}
    CookiesExpire = FALSE
    Failures = {}
    DatagramsRepeat = FALSE
    ZeroPositions = {1}
    MaxIncarnations = 2
    MaxSyns = 2
    MaxKeepAlives = 1
INVARIANT OnlyPeerIsEstablished
CHECK_DEADLOCK FALSE
