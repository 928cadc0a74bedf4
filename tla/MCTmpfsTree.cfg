SPECIFICATION Spec
CONSTANTS
    Names <- SomeNames
    MaxInodes = 4
    MaxMounts = 2
    NlinkMod = 3
INVARIANTS
    NlinkCountsEntries
    NamesUnique
    DirectoriesFormTree
PROPERTIES
    EntriesKept
CHECK_DEADLOCK FALSE
