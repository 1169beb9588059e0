SPECIFICATION FairSpec
CONSTANTS
    Algorithms = {ntru}
    None = None
    NumWorkers = 1
    NumPreGenerated = 1
    MayFail = {}
    MaxTaken = 1
    MaxStartups = 1
PROPERTY QueueIsFilledAgain
CHECK_DEADLOCK FALSE
