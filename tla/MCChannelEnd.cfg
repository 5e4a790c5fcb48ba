SPECIFICATION ChannelSpec
CONSTANTS
    GiveUp = 2
    Connections = {"none"}
    MaxMessages = 2
    MaxSplit = 0
    MaxStage = 3
    MaxWire = 4
    MaxGenerations = 0
    BufferLimit = 4
    MaxFlows = 2
    Reliabilities = {TRUE}
    Mixing = FALSE
    Closing = TRUE
CHECK_DEADLOCK FALSE
INVARIANTS
    DeliveredOnce
