SPECIFICATION Spec
CONSTANTS
    a = a
    b = b
    Call = {a, b}
    None = None
    MaxTerm = 3
    MaxIndex = 3
    Alone = FALSE
INVARIANTS
    TypeOK
    OwnAnswer
    WaitersAreCurrent
    OnlyLateCancelAbandons
PROPERTIES
    CommittedIsApplied
    CommittedIsAnswered
CHECK_DEADLOCK FALSE
