SPECIFICATION Spec
CONSTANTS
    Fallback = 1
    Retry = 1
    QueryInterval = 2
    Keepalive = 2
    ConnectTimeout = 2
    PeerTimeout = 3
    EventCapacity = 1
    CommandCapacity = 1
    SocketCapacity = 1
    MaxBurst = 0
    MaxRpcs = 2
    Cookie = FALSE
    Quits = FALSE
    Freezes = FALSE
PROPERTIES
    TimeoutMeansSilence
CHECK_DEADLOCK FALSE
