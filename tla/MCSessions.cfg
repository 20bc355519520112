SPECIFICATION SpecPrompt
CONSTANTS
    c1 = c1
    c2 = c2
    r1 = r1
    r2 = r2
    Client = {c1, c2}
    Replica = {r1, r2}
    None = None
    SkipThreshold = 1
    MaxCalls = 3
    MaxLog = 3
    MaxFaults = 1
    SnapshotThreshold = 1
    MaxOutstanding = 2
    ToIndex = {1}
SYMMETRY SessionSymmetry
INVARIANTS
    ReplicaIsReplay
    SongsConserved
PROPERTY
    ImplementsSessionModel
CHECK_DEADLOCK FALSE
