SPECIFICATION Spec
CONSTANTS
    MaxValue = 4
    BlockSize = 2
    TimePeriod = 3
    MaxNow = 4
INVARIANTS
    AvailableAgrees
    RoomToFree
PROPERTIES
    IsIdPool
    OldestFirst
