SPECIFICATION FairSpec
CONSTANTS
    PeersCount = 2
    PiecesCount = 2
    Length = 5
    PieceLength = 3
    MaxBlockLen = 2
    SizeModulus = 64
    MaxUnanswered = 1
    HavePeers = {1}
    CorruptPeers = {2}
    MaxRuns = 1
    DiskFails = TRUE
INVARIANTS
    TypeOK
    ProtocolKept
    NoThreadLeft
    TakenPieceIsRight
    
PROPERTIES
    StoredPieceStays
    DrivesWorkers
    EveryDownloadAwaited
