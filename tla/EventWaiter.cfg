CONSTANTS
    Waiters = {w1, w2}
    Contexts = {w1}
    e1 = e1
    e2 = e2
    Queue <- MCQueue
    Permits = 1
    MaxTime = 1
    Never = Never
SPECIFICATION Spec
INVARIANTS
    TypeOK
    ResultInTime
    FirstEventIsKept
PROPERTIES
    WaitEnds
CHECK_DEADLOCK FALSE
