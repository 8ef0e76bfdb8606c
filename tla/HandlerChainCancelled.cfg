CONSTANTS
    Chains = {c1, c2}
    Branches = {b1}
    Dispatch = b1
    Consumer = Consumer
    NoChain = NoChain
    Permits = 1
    Users <- MCUsers
SPECIFICATION Spec
INVARIANTS
    ReacquiresBeforeContinuing
CHECK_DEADLOCK FALSE
