CONSTANTS
    Channels <- OneChannel
    OrderWindow = 4
    DedupWindow = 9
    MaxSplitCount = 2
    MaxConcurrentSplits = 1
    MaxAckSpan = 1
    SplitIdMod = 65536
    Outgoing <- PlainReliable
    MaxMessages = 3
    MaxNumbers = 3
    MaxAcks = 1
    LossyData = 0
    LossyAcks = 9
SPECIFICATION Spec
CHECK_DEADLOCK FALSE
PROPERTIES
    AckFreesResend
