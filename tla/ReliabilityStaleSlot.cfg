CONSTANTS
    Channels <- OneChannel
    OrderWindow = 4
    DedupWindow = 9
    MaxSplitCount = 2
    MaxConcurrentSplits = 1
    MaxAckSpan = 9
    SplitIdMod = 65536
    Outgoing <- OrderedShort
    MaxMessages = 1
    MaxNumbers = 4
    MaxAcks = 1
    LossyData = 0
    LossyAcks = 9
SPECIFICATION Spec
CHECK_DEADLOCK FALSE
INVARIANTS
    SlotsAreInProgress
