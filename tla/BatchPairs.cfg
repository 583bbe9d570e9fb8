SPECIFICATION Spec
CONSTANTS
    N = 3
    Stems = {s}
    Tolerance = 1
    Workers = 2
    Rejecters = {r1, r2}
    MaxCommands = 3
    MaxFaults = 1
INVARIANTS TypeOK PairingIsComplete EventsFollowBatch RejectedPairIsRejected
SYMMETRY Symmetry
CHECK_DEADLOCK FALSE
