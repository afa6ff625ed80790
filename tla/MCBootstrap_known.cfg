CONSTANTS
    a = a
    b = b
    c = c
    NoId = NoId
    Id = {a, b}
    hashPeer <- Hashes
    MaxFound <- Once
    PeerCountCap = 2
    MaxLost = 0
    Electing = {a, b}
SPECIFICATION Spec
PROPERTIES
    StatusOnlyFromKnownPeer
CHECK_DEADLOCK FALSE
