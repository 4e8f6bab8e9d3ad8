CONSTANTS
    s1 = s1
    b1 = b1
    l1 = l1
    Jobs = {s1, b1, l1}
    Kind <- MCKind
    PoolSize = 2
    Items = 3
    MaxPending = 3
    MaxDispatches = 1
SPECIFICATION JobLiveSpec
INVARIANTS CapacityIsHonest CountsReturnToZero
PROPERTIES CancelEndsItsJob AbandonedWorkEnds
