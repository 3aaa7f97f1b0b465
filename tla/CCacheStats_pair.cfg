SPECIFICATION Spec
CONSTANTS
    p1 = p1
    p2 = p2
    a = a
    b = b
    c = c
    Nobody = Nobody
    Proc <- Pair
    File <- OneName
    Size <- Sizes
    DefaultMax = 1
    FLimits <- None
    MLimits <- None
    NoStats <- None
    Faults = TRUE
    MaxCount = 1
INVARIANTS
    EveryUpdateCounts
PROPERTIES
    EveryProcessEnds
CHECK_DEADLOCK FALSE
