SPECIFICATION Spec
CONSTANTS
    MaxObjects = 3
    InitialUnused = 1
    KeepUnused = 1
    Clients = {c1, c2}
    None = none
    PatientLeavers = FALSE
INVARIANTS
    PoolIntegrity
    OneStaleEvent
SYMMETRY ClientSymmetry
VIEW QueueView
CHECK_DEADLOCK FALSE
