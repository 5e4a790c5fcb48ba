SPECIFICATION Spec
CONSTANTS
    Workers = {"w1"}
    Threads = {"w1", "manager", "sockets"}
    MaxPieces = 1
    MaxEvents = 1
    MaxJobs = 1
    MaxStarts = 2
CHECK_DEADLOCK FALSE
INVARIANT
    HandledWhileWaiting
