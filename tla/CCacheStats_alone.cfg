SPECIFICATION Spec
CONSTANTS
    p1 = p1
    p2 = p2
    a = a
    b = b
    c = c
    Nobody = Nobody
    Proc <- Alone
    File <- ThreeFiles
    Size <- Sizes
    DefaultMax = 5
    FLimits <- TwoEach
    MLimits <- ThreeKB
    NoStats <- None
    Faults = FALSE
    MaxCount = 4
INVARIANTS TypeOK SizesCoverFiles
PROPERTIES KeepsBelowLimits OldestFirst
CHECK_DEADLOCK FALSE
