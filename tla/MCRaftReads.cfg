SPECIFICATION ReadSpecPrompt
CONSTANTS
    n1 = n1
    n2 = n2
    n3 = n3
    Node = {n1, n2, n3}
    None = None
    MaxTerm = 2
    MaxIndex = 1
    MaxRounds = 1
    MaxVoteMsgs = 2
    MaxMsgs = 1
    MaxFaults = 1
    SnapshotThreshold = 0
    MayDuplicate = FALSE
    DisablePreVote = FALSE
    StorageMayFail = FALSE
SYMMETRY NodeSymmetry
VIEW OpenReadView
INVARIANTS
    NoReadByDeposedLeader
PROPERTY
    ImplementsElection
CHECK_DEADLOCK FALSE
