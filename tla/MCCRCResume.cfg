SPECIFICATION Spec
CONSTANTS
    Requests = {r1, r2, r3}
    Len = 5
    Interval = 2
    MaxGap = 2
    MaxChunk = 1
    Upstream = {"refuse", "break", "short"}
    Store = {"fail", "forget"}
    Others <- SomeOthers
    AtOnce = 2
    NoRequest = NoRequest
SYMMETRY Interchangeable
INVARIANT TypeOK
INVARIANT StoreTrue
INVARIANT DirectoryNeverWrong
INVARIANT ChecksumSurvives
