SPECIFICATION FairSpec
CONSTANTS
    Fallback = 1
    Retry = 1
    QueryInterval = 2
    Keepalive = 2
    ConnectTimeout = 2
    PeerTimeout = 3
    EventCapacity = 1
    CommandCapacity = 1
    SocketCapacity = 1
    MaxBurst = 0
    MaxRpcs = 1
    Cookie = TRUE
    Quits = FALSE
    Freezes = TRUE
INVARIANTS
    TriedBeforeTimeout
PROPERTIES
    FrozenPeerIsNoticed
    HandshakeDecides
CHECK_DEADLOCK FALSE
