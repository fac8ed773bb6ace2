SPECIFICATION FairSpec
CONSTANTS
    NEntries = 4
    Dirs <- MCDirs
    HeaderLen <- MCHeaderLen
    Size <- MCSize
    Place <- MCPlace
    Meta <- MCMeta
    BlockSize = 2
    MaxName = 4
    MaxOctal = 35
    Frame = 2
    WriterBuf = 2
    NetBuf = 3
    MaxResumes = 0
    Upstream = {"refuse"}
INVARIANT FlushedBeforeBlocking
