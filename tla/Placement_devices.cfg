CONSTANTS
    Backends <- Machines
    Ids = {"m1", "m2"}
    Weights = 2
    Vision = {"m1"}
    Projector = 1
    Slot = 1
    FirstExtra = 1
    Graph = 1
    Scratch = 1
    Total = 10
    HeadroomPct = 75
    EnabledSets <- SomeEnabled
    Requests <- SomeRequests
    MaxFrames = 3
    MaxQueue = 1
    MaxSets = 1
    MaxPool = 6
SPECIFICATION LiveSpec
INVARIANTS MemoryAccounted GrowthStopsInTime LoadsStayOnEnabled PricedPoolFits EveryDeviceReported
PROPERTIES AbandonedWorkStops
CHECK_DEADLOCK FALSE
