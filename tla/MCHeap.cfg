SPECIFICATION Spec
CONSTANTS
    PageUnits = 4
    HeapPages = 3
    Sizes <- SizesAndNone
INVARIANTS
    BlocksTileHeap
    AllocationsDisjoint
CHECK_DEADLOCK FALSE
