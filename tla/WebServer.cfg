SPECIFICATION FairSpec
CONSTANTS
    MaxFd = 3
    NumCandidates = 2
    BufSize = 3
    MaxPieces = 2
INVARIANTS
    TypeOK
    ForeignOnlyInUnload
    NothingLeaks
    SplitBodiesAreWhole
PROPERTIES
    EveryRequestEnds
    UnloadStopsServer
