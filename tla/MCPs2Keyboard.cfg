SPECIFICATION Ps2Spec
CONSTANTS
    QueueLen = 1
    ReadMax = 1
    MaxTyped = 2
    MaxWire <- WireBound
    MaxHeld = 2
    Keycodes <- Keys
    ScancodeSets <- AllSets
INVARIANTS
    ModifiersMatchKeys
PROPERTIES
    ReportedAsSent
    TypedAsMeant
    NoStuckModifier
