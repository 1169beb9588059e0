SPECIFICATION MCSpec
CONSTANTS
    Parts = {"local"}
    Algorithms = {ntru, newhope}
    None = None
    NumWorkers = 2
    NumPreGenerated = 2
    MayFail = {ntru}
    MaxTaken = 1
    MaxStartups = 1
    NoItem = NoItem
    Peers = {"p1"}
    Messages <- ExtenderMessages
    MaxBurst = 2
    Settings <- ExtenderSettings
    Nobody = Nobody
    Callers = {"app", "app2"}
    ExtenderThreads = {"ext"}
    Scenarios <- LocalScenarios
INVARIANT EnvironmentIsInitialized
CHECK_DEADLOCK FALSE
