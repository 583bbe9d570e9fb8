CONSTANTS
    c1 = c1
    c2 = c2
    Contents = {c1, c2}
    Names = {"img", "copy"}
    NamesOf <- SharedNames
    MaxAttempts = 2
    DeviceOf <- OneDevice
    Items = {i1, i2}
    Procs = {p1}
    Ops = {"ingest", "accept", "reject", "trash", "purge"}
    Env = {"trash_copy"}
    PollWorkers = 1
    NoFile = NoFile
    NoPath = NoPath
    NoContent = NoContent
SPECIFICATION Spec
INVARIANTS TypeOK LocationMatchesStatus AuditTellsStatus
PROPERTIES NoOverwrite OwnFilesOnly
