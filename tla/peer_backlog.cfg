SPECIFICATION MCSpec
CONSTANTS
    Parts = {"session"}
    None = None
    CounterModulus = 4
    CounterStarts = {3}
    ReceiveRoom = 1
    Priorities = {"normal", "delayed"}
    LateMessages = FALSE
    Scenarios <- Backlog
    Threads = {t1}
    NoThread = NoThread
    MaxNumLocks = 1
    MaxRequests = 1
INVARIANT NoHonestPeerIsDropped
CHECK_DEADLOCK FALSE
