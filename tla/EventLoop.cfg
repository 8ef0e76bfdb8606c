CONSTANTS
    e1 = e1
    e2 = e2
    e3 = e3
    e4 = e4
    Events <- MCEvents
    Parent <- MCParent
    External = External
    QueueSize = 1
    Consumers = {k1, k2}
    None = None
    MaxStops = 1
    Permits = 1
    Users <- MCUsers
SPECIFICATION FairSpec
INVARIANTS
    TypeOK
    OnlyCurrentConsumes
    PendingAwaitsPermit
    UnfinishedMatchesQueue
    BackpressureHolds
PROPERTIES
    DeliverySpec
    EveryEventFinishes
CHECK_DEADLOCK FALSE
