SPECIFICATION FairSpec
CONSTANTS
    PeersCount = 1
    PiecesCount = 3
    Length = 13
    PieceLength = 5
    MaxBlockLen = 2
    SizeModulus = 64
    MaxUnanswered = 0
    HavePeers = {1}
    CorruptPeers = {}
INVARIANTS
    TypeOK
    OutputIsPiece
PROPERTIES
    EndsProperly
