SPECIFICATION Spec
CONSTANTS
    Items = {i1}
    Keys = {k1, k2}
    Patterns = {p1, p2}
    MaxRules = 1
    MaxLocked = 1
    MaxCrashes = 1
    None = None
INVARIANTS ReplaySafe AuditClosed
PROPERTY ThumbnailsSwept
