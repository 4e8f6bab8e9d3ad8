CONSTANTS
    s1 = s1
    b1 = b1
    l1 = l1
    Jobs = {s1, b1}
    Kind <- MCKind
    PoolSize = 2
    Items = 2
    MaxPending = 2
    MaxDispatches = 2
SPECIFICATION JobSpec
INVARIANT CancelIsForThisDispatch
