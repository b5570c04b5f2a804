SPECIFICATION Spec
CONSTANTS
    IntegerMax = 10
    PieceHashLength = 2
    PeerBytes = 3
    Radix = 18
    MaxTokens = 4
    Tokens <- MCTokens
    Beginnings <- MCBeginnings
INVARIANTS
    RoundTrip
    DecodesCanonical
    EncodesCanonical
    ConsumedDecides
    HashIsOfFile
    PiecesAreOfFile
    PeersAreOfAnswer
    UnpackedIsPacked
CHECK_DEADLOCK FALSE
