CONSTANTS
    c1 = c1
    c2 = c2
    Contents = {c1, c2}
    Names = {"img_c1", "img_c2"}
    NamesOf <- OwnName
    MaxAttempts = 1
    DeviceOf <- TwoDevices
    Items = {i1}
    Procs = {p1}
    Ops = {"ingest", "accept", "reject", "trash", "purge"}
    Env = {"crash", "trash_copy"}
    PollWorkers = 1
    NoFile = NoFile
    NoPath = NoPath
    NoContent = NoContent
SPECIFICATION Spec
PROPERTIES NothingLost ReviewQueueSpec
