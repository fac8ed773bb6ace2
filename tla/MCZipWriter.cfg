SPECIFICATION FairSpec
CONSTANTS
    NEntries = 4
    Dirs <- MCDirs
    HeaderLen <- MCHeaderLen
    Size <- MCSize
    Place <- MCPlace
    DescriptorLen <- MCDescriptorLen
    EndingLen <- MCEndingLen
    WriterBuf = 1
    NetBuf = 2
    MaxResumes = 1
    Upstream = {"refuse", "break", "short", "whole"}
INVARIANT LittleHeldBack
INVARIANT AnnouncedLength
INVARIANT OutcomeTold
PROPERTY Delivers
PROPERTY OnlyTheAbortMisplaces
PROPERTY Ends
