SPECIFICATION Spec
CONSTANTS
    t1 = t1
    t2 = t2
    Tasks <- TwoTasks
    HostCount = 2
    MaxVersion = 2
    Served = 1
    MaxHistory = 1
    MaxTasks = 2
    MaxClears = 1
SYMMETRY TaskSymmetry
CHECK_DEADLOCK FALSE
INVARIANTS TypeOK ClearedOnlyOld Reached OldIsPrevious PartOnlyInPlace
