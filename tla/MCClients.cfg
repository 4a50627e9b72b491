SPECIFICATION Spec
CONSTANTS
    Ids = {i1, i2, i3, i4}
    Clients = {c1, c2}
    SvClient = sv
    NoId = noId
    NoClient = noClient
    MaxCorpses = 0
    Loadouts <- BareHands
    FreshGameIds <- UnsetGameId
    RestartAnyTime = FALSE
    MaxLeaving = 1
SYMMETRY ClientSymmetry
INVARIANTS
    CorpsesAreNotPlayers
    ServerMayDestroy
    MainEntityIsOwn
    LivingPlayerHasActor
    NothingLeftBehind
CHECK_DEADLOCK FALSE
