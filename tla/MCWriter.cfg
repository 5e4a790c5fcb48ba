SPECIFICATION FairSpec
CONSTANTS
    GiveUp = 2
    Connections = {"none", "before"}
    Reliabilities = {TRUE, FALSE}
    MaxMessages = 2
    MaxSplit = 1
    MaxStage = 3
    MaxWire = 4
    MaxGenerations = 1
CHECK_DEADLOCK FALSE
INVARIANTS
    TypeOK
    WindowAligned
    WireWellFormed
    AccountsRight

    
