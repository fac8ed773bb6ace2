SPECIFICATION FairSpec
CONSTANTS
    Nul = 0
    Slash = 1
    PadDir = 2
    PadPrefix = 3
    Marker = 4
    MaxSelected = 3
    Empty = Empty
    Malformed = Malformed
    MaxInt = 90
    Requests = {1, 2}
    Asks <- MCAsks
    Torrents <- MCTorrents
    Defaults = {"token", "key"}
    MaxName = 4
    Faults = {"bind", "dial", "pull", "upstream", "reset"}
INVARIANT TypeOK
INVARIANT SelectedExactly
INVARIANT FoldersOnce
INVARIANT EtagTellsApart
INVARIANT RangeAnswered
INVARIANT DrainedBeforeClosing
 
INVARIANT LeaverCostsNobody
PROPERTY Answered
PROPERTY Stops
