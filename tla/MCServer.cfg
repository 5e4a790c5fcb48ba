SPECIFICATION FairSpec
CONSTANTS
    Workers = {"w1", "w2"}
    Threads = {"w1", "w2", "manager", "sockets"}
    MaxPieces = 1
    MaxEvents = 2
    MaxJobs = 2
    MaxStarts = 1
CHECK_DEADLOCK FALSE
INVARIANTS
    TypeOK
    HandOverSound
    DownIsQuiet
PROPERTIES
    ShutdownEnds
