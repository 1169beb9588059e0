SPECIFICATION MCSpec
CONSTANTS
    Parts = {"session", "mutex", "group"}
    None = None
    CounterModulus = 4
    CounterStarts = {3}
    ReceiveRoom = 1
    Priorities = {"normal", "delayed"}
    LateMessages = FALSE
    Scenarios <- MCScenarios
    Threads = {t1, t2, t3}
    NoThread = NoThread
    MaxNumLocks = 2
    MaxRequests = 2
INVARIANTS NoHonestPeerIsDropped EndsAgree KeysSettle ExtendersAgree Exclusion
PROPERTIES SessionExchangesEnd MutexIsGot GroupWorks
CHECK_DEADLOCK FALSE
