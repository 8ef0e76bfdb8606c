CONSTANTS
    g1 = g1
    g2 = g2
    c1 = c1
    c2 = c2
    Graphs = {g1}
    Contexts = {c1, c2}
    GraphOf <- MCTogether
    Slots = {s1, s2}
    None = None
    MaxSteps = 2
    Snapshots = TRUE
    Batch = 2
SPECIFICATION Spec
SYMMETRY Symmetry
INVARIANTS
    OneCarrier
    CheckpointsAreWhole
    CallersGetWholeStates
PROPERTIES
    AttemptSpec
    LateResultsNeverCommit
CHECK_DEADLOCK FALSE
