CONSTANTS
    N = 3
SPECIFICATION Spec
INVARIANTS
    CalledOnce
    UpstreamErrorsAreReported
    AcceptanceStopsLaterCores
    CancellationReachesTheChain
CHECK_DEADLOCK FALSE
