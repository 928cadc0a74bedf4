SPECIFICATION Spec
CONSTANTS
    QueueLen = 3
    ReadMax = 2
    MaxTyped = 3
    Keycodes <- OneKey
INVARIANTS
    EveryInputAccounted
