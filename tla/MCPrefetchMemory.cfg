SPECIFICATION Spec
CONSTANTS
    NFiles = 4
    Size <- SmallSizes
    Start <- SmallStart
    Url <- OwnUrls
    Windows <- SmallWindows
    Depth = 2
    MaxFile = 2
    Budget = 3
    GapFetches = TRUE
    ColdFiles = {0}
    RunFaults = {"error", "short", "long"}
    LiveFaults = TRUE
    ClientMayLeave = TRUE
    NoUrl = NoUrl
    Total <- SumOfSizes
INVARIANT MemoryCap
