CONSTANTS
    m1 = m1
    m2 = m2
    l1 = l1
    l2 = l2
    a1 = a1
    a2 = a2
    u1 = u1
    b1 = b1
    Models = {m1}
    Loads = {l1}
    Benches = {b1}
    Assigns = {a1}
    Unloads = {}
    ModelOf <- OneModelOf
    PoolCap = 2
SPECIFICATION LiveSpec
PROPERTIES TeardownCompletes StopEndsSession EveryJobAnswered
