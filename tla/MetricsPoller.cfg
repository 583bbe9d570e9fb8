SPECIFICATION Spec
CONSTANTS
    Processes = {timer, manual}
    Timer = timer
    MaxRetries = 1
    MaxHistory = 1
    MaxCommits = 2
    MaxManual = 1
    MaxFaults = 2
INVARIANTS TypeOK PublishedIsSound LatestHasHistory
PROPERTY HeadIsMeasured
CHECK_DEADLOCK FALSE
