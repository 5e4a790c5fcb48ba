SPECIFICATION FairSpec
CONSTANTS
    Callers = {p, q, c}
    Pushers = {p, q}
    Joiners = {c}
    MaxPushes = 3
    MaxJoins = 2
    p = p
    q = q
    c = c
CHECK_DEADLOCK FALSE
INVARIANTS
    TypeOK
    JobsKept
PROPERTIES
    NothingElseHangs
