SPECIFICATION Spec
CONSTANTS
    MaxFrames = 2
    Tasks <- MCTasks
    Batches <- MCBatches
    Nobody = nobody
    Drawers = {"main", "worker"}
    Free = free
    Bullets = {}
    MaxViews = 0
INVARIANTS
    ShadowsAreNotOccluded
