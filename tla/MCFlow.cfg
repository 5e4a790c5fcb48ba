SPECIFICATION Spec
CONSTANTS
    BufferLimit = 3
    MaxStage = 4
    MaxFlows = 1
INVARIANTS
    TypeOK
    BufferedAhead
    DeliveredRight
    ReportsTrue
