SPECIFICATION Spec
CONSTANTS
    PeersCount = 1
    PiecesCount = 2
    Length = 5
    PieceLength = 3
    MaxBlockLen = 2
    SizeModulus = 16
    MaxUnanswered = 2
    HavePeers = {1}
    CorruptPeers = {}
    HeaderSize = 3
    HandshakeSize = 2
    PieceOverhead = 1
    HaveSize = 1
    MaxBitfield = 1
    MaxMessages = 8
INVARIANTS
    TypeOK
    OthersInStep
    CleanTransferIsRight
PROPERTIES
    FrameKept
    ImplementsWorker
CHECK_DEADLOCK FALSE
