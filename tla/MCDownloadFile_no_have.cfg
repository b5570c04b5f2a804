SPECIFICATION Spec
CONSTANTS
    PeersCount = 2
    PiecesCount = 2
    Length = 5
    PieceLength = 3
    MaxBlockLen = 2
    SizeModulus = 64
    MaxUnanswered = 0
    HavePeers = {1}
    CorruptPeers = {}
    MaxRuns = 1
    DiskFails = FALSE
INVARIANTS
    CompleteTransferHasData
