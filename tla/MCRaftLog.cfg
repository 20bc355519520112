SPECIFICATION SpecPrompt
CONSTANTS
    n1 = n1
    n2 = n2
    n3 = n3
    Node = {n1, n2, n3}
    None = None
    MaxTerm = 3
    MaxIndex = 3
    MaxRounds = 1
    MaxVoteMsgs = 2
    MaxMsgs = 1
    MaxFaults = 2
    SnapshotThreshold = 0
    MayDuplicate = FALSE
    DisablePreVote = TRUE
    StorageMayFail = FALSE
SYMMETRY NodeSymmetry
VIEW RaftView
INVARIANTS
    LogMatching
    LeaderCompleteness
    StateMachineSafety
    StateIsReplay
CHECK_DEADLOCK FALSE
