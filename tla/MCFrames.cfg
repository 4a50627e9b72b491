SPECIFICATION FairSpec
CONSTANTS
    MaxFrames = 2
    Tasks <- MCTasks
    Batches <- MCBatches
    Nobody = nobody
    Drawers = {"main", "worker"}
    Free = free
    Bullets = {1, 2}
    MaxViews = 1
INVARIANTS
    WorkIsExclusive
    TestsUseAWholeMap
    GrassIsFilledOnce
    GrassIsCurrent
    RemovalsAreExact
PROPERTIES
    IsFrameWork
    FramesFinish
    BothEnd
