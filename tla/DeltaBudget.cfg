SPECIFICATION FairSpec
CONSTANTS
    Items = {i1, i2}
    MaxEvents = 3
    PageSize = 2
    MaxDownloads = 2
    MaxPages = 2
    LoopThreshold = 2
    GhostThreshold = 1
    StaleThreshold = 1
    Faults = {}
    MaxFaults = 0
    None = None
INVARIANT BudgetCutsNothing
CHECK_DEADLOCK FALSE
