SPECIFICATION FairSpec
CONSTANTS
    n1 = n1
    n2 = n2
    n3 = n3
    Node = {n1, n2, n3}
    None = None
    Alive = {n1, n2}
    MaxTerm = 3
    MaxIndex = 1
    MaxRounds = 1
    MaxVoteMsgs = 2
    DisablePreVote = FALSE
    StorageMayFail = FALSE
PROPERTY
    Recovers
CHECK_DEADLOCK FALSE
