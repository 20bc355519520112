SPECIFICATION RoutingSpecWhole
CONSTANTS
    n1 = n1
    n2 = n2
    n3 = n3
    Node = {n1, n2, n3}
    None = None
    MaxTerm = 2
    MaxIndex = 2
    MaxRounds = 1
    MaxVoteMsgs = 2
    DisablePreVote = TRUE
    StorageMayFail = FALSE
SYMMETRY NodeSymmetry
VIEW RoutingView
INVARIANTS
    ElectionSafety
    VoteDurable
    NoForwardingCycle
    NeverBackwards
CHECK_DEADLOCK FALSE
