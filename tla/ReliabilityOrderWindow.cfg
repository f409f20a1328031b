CONSTANTS
    Channels <- OneChannel
    OrderWindow = 1
    DedupWindow = 9
    MaxSplitCount = 2
    MaxConcurrentSplits = 1
    MaxAckSpan = 9
    SplitIdMod = 65536
    Outgoing <- OrderedSingle
    MaxMessages = 3
    MaxNumbers = 3
    MaxAcks = 1
    LossyData = 0
    LossyAcks = 9
SPECIFICATION Spec
CHECK_DEADLOCK FALSE
INVARIANTS
    HoleIsOwed
