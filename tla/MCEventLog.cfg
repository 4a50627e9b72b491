SPECIFICATION FairSpec
CONSTANTS
    MaxObjects = 2
    InitialUnused = 2
    KeepUnused = 2
    Clients = {c1, c2}
    None = none
    PatientLeavers = TRUE
PROPERTIES
    IsEventLog
    LeaversServed
CHECK_DEADLOCK FALSE
