SPECIFICATION Spec
CONSTANTS
    N = 2
    Identities = {x, y}
    MaxSetups = 2
    MaxTears = 1
    Processes = {p1, p2}
    Budget = 1
    MaxStarts = 2
    None = None
INVARIANTS PollingIsCovered SetupHeals
PROPERTIES  RunsFinish
