SPECIFICATION Spec
CONSTANTS
    MaxFd = 3
    NumCandidates = 2
    BufSize = 3
    MaxPieces = 2
INVARIANT SafeShutdown
