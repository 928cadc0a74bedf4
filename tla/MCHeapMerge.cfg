SPECIFICATION Spec
CONSTANTS
    PageUnits = 4
    HeapPages = 2
    Sizes <- SomeSizes
INVARIANTS
    FreedHeapIsOneBlock
CHECK_DEADLOCK FALSE
