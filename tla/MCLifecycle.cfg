SPECIFICATION FairSpec
CONSTANTS
    Ids = {i1, i2, i3}
    Clients = {c1}
    SvClient = sv
    NoId = noId
    NoClient = noClient
    MaxCorpses = 0
    Loadouts <- BareHands
    FreshGameIds <- UnsetGameId
    RestartAnyTime = TRUE
    MaxLeaving = 1
PROPERTIES
    CorpseRemovalTerminates
    LeaversAreForgotten
CHECK_DEADLOCK FALSE
