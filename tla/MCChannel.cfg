SPECIFICATION FairSpec
CONSTANTS
    Nodes = {n1, n2, n3, n4}
    Null = null
INVARIANTS
    ListsAreWellFormed
    NothingLeaks
PROPERTIES
    IsOwnedFifo
    ReclaimIsComplete
    ValuesArrive
CHECK_DEADLOCK FALSE
