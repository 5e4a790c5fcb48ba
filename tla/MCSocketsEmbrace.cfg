SPECIFICATION Spec
CONSTANTS
    Socks = {s1, s2}
    s1 = s1
    s2 = s2
    Size = 2
    Room = 2
    MaxPackets = 2
CHECK_DEADLOCK FALSE
INVARIANTS
    NoEmbrace
