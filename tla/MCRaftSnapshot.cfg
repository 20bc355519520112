SPECIFICATION SpecCrowded
CONSTANTS
    n1 = n1
    n2 = n2
    n3 = n3
    Node = {n1, n2, n3}
    None = None
    MaxTerm = 2
    MaxIndex = 2
    MaxRounds = 1
    MaxVoteMsgs = 2
    MaxMsgs = 2
    MaxFaults = 1
    SnapshotThreshold = 1
    MayDuplicate = TRUE
    DisablePreVote = TRUE
    StorageMayFail = FALSE
SYMMETRY NodeSymmetry
VIEW RaftView
INVARIANTS
    TypeOK
    StateMachineSafety
    StateIsReplay
    IndicesInLog
    AckedIsDurable
PROPERTY
    CommittedStays
CHECK_DEADLOCK FALSE
