SPECIFICATION Spec
CONSTANTS
    TableSize = 3
    Dirs = 8
    PhysFrames = 16
    OneMeg = 2
    ProtEnd = 10
    KernelFrames <- Kernel
    K_MEM_START = 0
    K_MEM_HEAP_START = 9
    K_MEM_HEAP_END = 20
    K_MEM_DEV_START = 21
    VgaFrame = 1
    LowerSizes <- Lower
    UpperSizes <- Upper
    Reserved <- Regions
    Ramdisks <- Modules
    MaxGrow = 4
INVARIANTS
    FramesOwnedOnce
    FaultsOnlyWhenExhausted
PROPERTIES
    MappingsKept
    AllocRespectsMap
CHECK_DEADLOCK FALSE
