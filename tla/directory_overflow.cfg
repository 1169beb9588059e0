SPECIFICATION MCFairSpec
CONSTANTS
    Parts = {"directory"}
    Interval = 2
    MaxTime = 6
    ImproveInterval = 3
    AttemptInterval = 2
    MaxAttempts = 1
    MaxUpdates = 1
    MaxAmount = 6
    MaxPasses = 6
    Width = 3
    PeerIds = {1, 2}
    Pools = {1, 2}
    Scenarios <- LimitedScenarios
    Managers = {"TCP", "UDP", "BTH"}
    Addresses = {1, 2}
    Ports = {80, 81}
    Remotes = {7}
    MaxFaults = 1
    MaxChanges = 2
    MaxArrivals = 1
    MaxStarts = 2
    PublicAddresses = {"a1", "a2", "a3"}
    Ours = {"a1"}
    Bluetooth = {"a3"}
    Reporters <- MCReporters
    MaxEndpoints = 2
    MaxReportingPeerNetworks = 1
    NeededNetworks = 1
    NoAddress = "none"
    MaxReports = 3
    MaxTries = 1
    MaxRestarts = 1
PROPERTY OverflowIsRemoved
CHECK_DEADLOCK FALSE
