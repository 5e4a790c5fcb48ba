SPECIFICATION FairSpec
CONSTANTS
    Socks = {s1, s2}
    s1 = s1
    s2 = s2
    Size = 2
    Room = 3
    MaxPackets = 2
CHECK_DEADLOCK FALSE
INVARIANTS
    TypeOK
    InOrder
    ClosedIsLeft
PROPERTIES
    EverySentLeaves
