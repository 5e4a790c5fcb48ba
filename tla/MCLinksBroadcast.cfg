SPECIFICATION Spec
CONSTANTS
    Links = {"l", "m"}
    Handlers = {"h"}
    MaxSent = 2
CHECK_DEADLOCK FALSE
INVARIANTS
    HandledAsSent
