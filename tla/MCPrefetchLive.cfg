SPECIFICATION AnsweredSpec
CONSTANTS
    NFiles = 4
    Size <- SmallSizes
    Start <- SmallStart
    Url <- TwinUrls
    Windows <- SomeWindows
    Depth = 2
    MaxFile = 2
    Budget = 4
    GapFetches = TRUE
    ColdFiles = {0, 1, 2, 3, 4}
    RunFaults = {"error", "short", "long"}
    LiveFaults = TRUE
    ClientMayLeave = TRUE
    NoUrl = NoUrl
    Total <- SumOfSizes
INVARIANT PlanNeverLost
PROPERTY Transparent
PROPERTY Completes
PROPERTY NothingOutlives
PROPERTY ColdFileBlocksNoOther
