SPECIFICATION FairSpec
CONSTANTS
    PeersCount = 2
    PiecesCount = 3
    Length = 7
    PieceLength = 3
    MaxBlockLen = 2
    SizeModulus = 64
    MaxUnanswered = 1
    HavePeers = {}
    CorruptPeers = {}
    MaxRuns = 2
    DiskFails = FALSE
INVARIANTS
    OutputIsFile
    NoPieceTwice
    OutputOfThisDownload
PROPERTIES
    ImplementsFileDownload
    Termination
