SPECIFICATION Spec
CONSTANTS
    MajorMod = 3
    SerialMinors = 4
    MAX_RAMDISK = 2
    WordMod = 16
    PortMod = 4
    Values = {1}
    Disks <- MCDisks
    Positions = {0, 1, 2, 3, 8, 16}
    Lengths = {1, 3}
    Minors = {0, 1, 2, 3, 4, 5, 6}
    MaxRequests = 2
INVARIANTS
    BootRequestsSucceed
    DisksHoldWritten
    ReadsBounded
PROPERTIES
    PortsWrittenExactly
CHECK_DEADLOCK FALSE
