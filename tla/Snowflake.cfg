CONSTANTS
    SeqSpan = 8
    WorkerSpan = 2
    Worker = 1
    MinSeq = 5
    MaxSeq = 6
    TopOverCost = 2
    ClockStart = 10
    ClockEnd = 13
    MaxCalls = 14
SPECIFICATION Spec
INVARIANTS
    UniqueUpToFourTurnBacks
PROPERTIES
    Increasing
CHECK_DEADLOCK FALSE
