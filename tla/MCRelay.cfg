SPECIFICATION FairSpec
CONSTANTS
    Admins = {a}
    Suspects = {s1, s2}
    Proxies = 2
    Binders = 2
    FileSize <- TwoFiles
    MaxChunk = 2
    MaxPackets = 1
    AnySize <- Sizes
    None = none
    Torn = torn
PROPERTIES
    SessionsEnd
INVARIANTS
    OneUser
    RelayWithinFile
    SavedFilesAreWhole
CHECK_DEADLOCK FALSE
