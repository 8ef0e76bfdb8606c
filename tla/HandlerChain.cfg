CONSTANTS
    Chains = {c1, c2}
    Branches = {b1, b2}
    Dispatch = b1
    Consumer = Consumer
    NoChain = NoChain
    Permits = 1
    Users <- MCUsers
SPECIFICATION FairSpec
INVARIANTS
    PermitConservation
    SuspendedChainLendsPermit
    ResumedChainHoldsPermit
PROPERTIES
    PoolSpec
    ResumeCompletes
    ConsumerServed
CHECK_DEADLOCK FALSE
