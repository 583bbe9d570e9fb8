SPECIFICATION Spec
CONSTANTS
    Dirs = 2
    Files = 2
    Contents = {a, b}
    ChunkSize = 2
    MaxChanges = 2
    MaxRuns = 2
    None = None
INVARIANTS TypeOK RowsAreCurrent DryRunTells SyncAuditedOnce
PROPERTY CompleteAtTheEnd
SYMMETRY Symmetry
CHECK_DEADLOCK FALSE
