SPECIFICATION FairSpec
CONSTANTS
    QueueLen = 3
    ReadMax = 2
    MaxTyped = 5
    Keycodes <- QueueKeys
INVARIANTS
    TypeOK
    ReadWithinQueue
    OnlyTypedDelivered
    DeliveredInOrder
    NoSilentLoss
    LossBoundedByRaces
PROPERTIES
    EventuallyRead
