SPECIFICATION Spec
CONSTANTS
    BlkSize = 2
    Buffers <- SomeBuffers
    MaxPos = 3
    MaxLen = 4
INVARIANTS
    BlocksHoldFile
    ReadOverrunBounded
PROPERTIES
    ImplementsByteFile
CHECK_DEADLOCK FALSE
