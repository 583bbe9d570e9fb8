CONSTANTS
    N = 2
    CanRefresh = TRUE
    MaxAttempts = 3
    BaseDelay = 1
    MaxDelay = 3
    Jitters = {0, 1}
    RetryAfters = {0, 9}
    MaxRuns = 2
SPECIFICATION DownloadSpec
INVARIANTS DownloadTypeOK FinalIsComplete NothingLeftBehind EffortBounded
CHECK_DEADLOCK FALSE
