CONSTANTS
    Nodes = {n1, n2}
    Interrupting = {n1}
    MaxCancels = 1
SPECIFICATION Spec
INVARIANTS
    NothingOutlivesTheBatch
    NoOrphanBlock
    AbortIsAsked
    CancelledBlockStopsTheNode
PROPERTIES
    InterruptionEnds
