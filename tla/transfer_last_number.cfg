SPECIFICATION MCSpec
CONSTANTS
    Scenarios = {"fair"}
    Outbound = Outbound
    Inbound = Inbound
    MaxSequenceNumber = 5
    SynOfOutbound = 3
    SynOfInbound = 5
    InitialSequence <- MCInitialSequence
    MaxPayloads <- MCMaxPayloads
    MaxStateUpdates <- MCMaxStateUpdates
    WindowSizes = {2}
    MaxInFlight = 1
    Outcomes = {"carried", "lost"}
    DatagramsRepeat = FALSE
PROPERTY QueuesDrain
CHECK_DEADLOCK FALSE
