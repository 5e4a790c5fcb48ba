SPECIFICATION FairSpec
CHECK_DEADLOCK FALSE
CONSTANTS
    Kinds = {"main"}
    FailSignals = 1
    Keepalives = 1
    MaxWriters = 1
    MaxIds = 1
PROPERTY ClosingEnds
