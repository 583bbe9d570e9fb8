CONSTANTS
    c1 = c1
    c2 = c2
    Contents = {c1}
    Names = {"img_c1"}
    NamesOf <- OwnName
    MaxAttempts = 1
    DeviceOf <- OneDevice
    Items = {i1}
    Procs = {p1, p2}
    Ops = {"ingest", "accept", "trash", "purge"}
    Env = {"trash_move", "library_move", "triage", "block_rules"}
    PollWorkers = 2
    NoFile = NoFile
    NoPath = NoPath
    NoContent = NoContent
SPECIFICATION Spec
PROPERTIES NothingLost
SYMMETRY ProcSymmetry
VIEW WhatStepsRead
