SPECIFICATION ChannelSpec
CONSTANTS
    GiveUp = 2
    Connections = {"none"}
    MaxMessages = 3
    MaxSplit = 1
    MaxStage = 3
    MaxWire = 4
    MaxGenerations = 0
    BufferLimit = 4
    MaxFlows = 1
    Reliabilities = {TRUE, FALSE}
    Mixing = FALSE
    Closing = TRUE
CHECK_DEADLOCK FALSE
INVARIANTS
    ForgottenWasReceived
PROPERTIES
    KeepsPromise
