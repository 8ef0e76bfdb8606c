CONSTANTS
    SeqSpan = 8
    WorkerSpan = 2
    Worker = 1
    MinSeq = 5
    MaxSeq = 7
    TopOverCost = 2
    ClockStart = 10
    ClockEnd = 12
    MaxCalls = 8
SPECIFICATION Spec
INVARIANTS
    SeqWithinOptions
CHECK_DEADLOCK FALSE
