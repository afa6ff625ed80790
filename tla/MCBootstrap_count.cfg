CONSTANTS
    a = a
    b = b
    c = c
    NoId = NoId
    Id = {a, b, c}
    hashPeer <- Hashes
    MaxFound <- Once
    PeerCountCap = 2
    MaxLost = 0
    Electing = {}
SPECIFICATION FairSpec
PROPERTIES
    CountsEveryPeer
CHECK_DEADLOCK FALSE
