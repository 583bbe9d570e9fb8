CONSTANTS
    c1 = c1
    Contents = {c1}
    Items = {i1, i2}
    Delivers <- CopiesOfOne
    Names = {"img"}
    NamesOf <- OneName
    MaxAttempts = 2
    DeviceOf <- OneDevice
    SamePool = FALSE
    MaxRecords = 3
    MaxRounds = 2
    MaxCrashes = 2
    NoFile = NoFile
    NoPath = NoPath
    NoContent = NoContent
SPECIFICATION FairSpec
INVARIANT TypeOK
PROPERTIES ReplayIsComplete NothingVanishes PassedIsRecorded EventuallyPassed
CHECK_DEADLOCK FALSE
