CONSTANTS
    g1 = g1
    g2 = g2
    c1 = c1
    c2 = c2
    Graphs = {g1, g2}
    Contexts = {c1}
    GraphOf <- MCAlone
    Slots = {s1, s2, s3}
    None = None
    MaxSteps = 2
    Snapshots = FALSE
    Batch = 2
SPECIFICATION FairSpec
INVARIANTS
    GraphsManageRunning
PROPERTIES
    LateResultsNeverCommit
    InvocationEnds
CHECK_DEADLOCK FALSE
