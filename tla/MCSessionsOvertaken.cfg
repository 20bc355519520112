SPECIFICATION Spec
CONSTANTS
    c1 = c1
    r1 = r1
    Client = {c1}
    Replica = {r1}
    None = None
    SkipThreshold = 1
    MaxCalls = 2
    MaxLog = 2
    MaxFaults = 0
    SnapshotThreshold = 1
    MaxOutstanding = 2
    ToIndex = {1}
PROPERTY
    ImplementsQueueModel
CHECK_DEADLOCK FALSE
