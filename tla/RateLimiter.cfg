SPECIFICATION FairSpec
CONSTANTS
    Key = {"c1", "c2"}
    Kinds = {"bucket", "window", "adaptive"}
    Unit = 10
    Rate = 7
    Burst = 1
    MaxRequests = 2
    WindowLength = 1
    InitialRate = 20
    MinRate = 19
    MaxRate = 20
    AdjustInterval = 1
    LowThreshold = 100
    HighThreshold = 1000
    Depths = {0, 1000}
    Horizon = 2
INVARIANT TypeOK
INVARIANT RateBound
INVARIANT WindowBound
PROPERTY KeepsAdmitting
