CONSTANTS
    Names = {h1, h2, h3}
    EventNames = {x, y}
    Priorities = {1, 2}
    Between = Between
    NoName = NoName
SPECIFICATION RegistrySpec
SYMMETRY NameSymmetry
INVARIANTS
    CacheCoherent
    BucketsMatchRegistry
PROPERTIES
    OthersKeepOrder
    BetweenHonoured
CHECK_DEADLOCK FALSE
