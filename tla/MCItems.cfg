SPECIFICATION Spec
CONSTANTS
    Ids = {i1, i2, i3, i4, i5}
    Clients = {c1}
    SvClient = sv
    NoId = noId
    NoClient = noClient
    MaxCorpses = 0
    Loadouts <- SomeLoadouts
    FreshGameIds <- UnsetGameId
    RestartAnyTime = FALSE
    MaxLeaving = 1
SYMMETRY IdSymmetry
INVARIANTS
    VerifyEntities
    HeldBagIsFirst
CHECK_DEADLOCK FALSE
