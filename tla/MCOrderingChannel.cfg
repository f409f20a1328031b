CONSTANTS
    Payload = {p, q}
    OrderWindow = 2
    MaxIndex = 3
SPECIFICATION Spec
INVARIANTS
    TypeOK
    InOrderAtMostOnce
    PassedIsExplained
    NothingDeliverableWaits
PROPERTIES
    ImplementsStream
