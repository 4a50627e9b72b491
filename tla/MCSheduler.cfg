SPECIFICATION FairSpec
CONSTANTS
    manager = manager
    actor = actor
    monster = monster
    Objects <- MCObjects
    Priorities <- MCPriorities
    NoObject = noObject
    CheckEvery = 1
    MaxInterval = 2
    MaxItems = 4
INVARIANTS
    OnePlace
    OwnersAreHeard
    NothingFreedIsTouched
    ErasingSkipsOne
PROPERTIES
    IsUpdateSchedule
    EveryoneIsUpdated
