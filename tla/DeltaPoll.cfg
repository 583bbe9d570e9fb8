SPECIFICATION FairSpec
CONSTANTS
    Items = {i1, i2}
    MaxEvents = 2
    PageSize = 2
    MaxDownloads = 1
    MaxPages = 2
    LoopThreshold = 2
    GhostThreshold = 1
    StaleThreshold = 1
    Faults = {"crash", "error", "runtime", "ghost", "cycle", "no_link", "expire"}
    MaxFaults = 3
    None = None
INVARIANTS TypeOK CursorBehindIngest
PROPERTY EventuallyDealtWith
CHECK_DEADLOCK FALSE
