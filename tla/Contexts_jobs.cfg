CONSTANTS
    Jobs = {1, 2}
    Instances = {1, 2}
    MaxPool = 2
    NCtx = 2
    NBatch = 1
    Requests <- SomeRequests
    MaxRequests = 3
    MaxCancels = 1
SPECIFICATION LiveSpec
INVARIANTS SlotIsPrivate UnloadKeepsRunningJobs CapacityAcrossReloads
PROPERTIES EveryRequestEnds
CHECK_DEADLOCK FALSE
