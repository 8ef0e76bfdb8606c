CONSTANTS
    N = 2
SPECIFICATION Spec
INVARIANTS
    OnlyUpstreamErrorsReported
CHECK_DEADLOCK FALSE
