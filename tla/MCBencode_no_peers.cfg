SPECIFICATION Spec
CONSTANTS
    IntegerMax = 10
    PieceHashLength = 2
    PeerBytes = 3
    Radix = 18
    MaxTokens = 4
    Tokens <- MCTokens
    Beginnings <- MCBeginnings
INVARIANTS
    EmptyListIsNoPeers
CHECK_DEADLOCK FALSE
