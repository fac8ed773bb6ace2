SPECIFICATION FairSpec
CONSTANTS
    NEntries = 4
    Dirs <- MCDirs
    HeaderLen <- MCHeaderLen
    Size <- MCSize
    Place <- MCPlace
    Meta <- MCMeta
    BlockSize = 2
    MaxName = 4
    MaxOctal = 35
    Frame = 2
    WriterBuf = 1
    NetBuf = 2
    MaxResumes = 1
    Upstream = {"refuse", "break", "whole"}
INVARIANT LittleHeldBack
INVARIANT AnnouncedLength
INVARIANT OnlyBodiesMisplace
INVARIANT OutcomeTold
INVARIANT HeadersReadBack
PROPERTY Delivers
PROPERTY Ends
