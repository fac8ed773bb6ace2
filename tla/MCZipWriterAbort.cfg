SPECIFICATION FairSpec
CONSTANTS
    NEntries = 4
    Dirs <- MCDirs
    HeaderLen <- MCHeaderLen
    Size <- MCSize
    Place <- MCPlace
    DescriptorLen <- MCDescriptorLen
    EndingLen <- MCEndingLen
    WriterBuf = 2
    NetBuf = 3
    MaxResumes = 0
    Upstream = {"refuse", "break"}
INVARIANT RightBytes
