SPECIFICATION SpecPreVote
CONSTANTS
    n1 = n1
    n2 = n2
    n3 = n3
    Node = {n1, n2, n3}
    None = None
    MaxTerm = 2
    MaxIndex = 1
    MaxRounds = 1
    MaxVoteMsgs = 2
    DisablePreVote = FALSE
    StorageMayFail = FALSE
SYMMETRY NodeSymmetry
VIEW ElectionView
INVARIANTS
    TypeOK
    ElectionSafety
    VoteDurable
PROPERTY
    VoteStable
CHECK_DEADLOCK FALSE
