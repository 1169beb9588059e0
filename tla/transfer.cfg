SPECIFICATION MCSpec
CONSTANTS
    Scenarios = {"one way", "around", "both ways", "fair"}
    Outbound = Outbound
    Inbound = Inbound
    MaxSequenceNumber = 5
    SynOfOutbound = 5
    SynOfInbound = 4
    InitialSequence <- MCInitialSequence
    MaxPayloads <- MCMaxPayloads
    MaxStateUpdates <- MCMaxStateUpdates
    WindowSizes = {2}
    MaxInFlight = 1
    Outcomes = {"carried", "lost"}
    DatagramsRepeat = FALSE
INVARIANTS NoFalseAck ReceiveQueueIsAhead SendQueueIsSuffix
PROPERTIES ImplementsChannel SentIsDelivered QueuesDrain
CHECK_DEADLOCK FALSE
