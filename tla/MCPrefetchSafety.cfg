SPECIFICATION Spec
CONSTANTS
    NFiles = 9
    Size <- MixedSizes
    Start <- MixedStart
    Url <- OwnUrls
    Windows <- MixedWindows
    Depth = 2
    MaxFile = 2
    Budget = 5
    GapFetches = TRUE
    ColdFiles = {0}
    RunFaults = {"error", "short", "long"}
    LiveFaults = TRUE
    ClientMayLeave = TRUE
    NoUrl = NoUrl
    Total <- SumOfSizes
INVARIANT BudgetExact
INVARIANT BodyIsTheFile
INVARIANT NeverFetchedTwice
INVARIANT NoLeak
INVARIANT BoundedAhead
INVARIANT FailuresAreOwn
