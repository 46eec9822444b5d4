SPECIFICATION Spec
CONSTANTS
    VoteRequests = {r1, r2}
    Voters = {v1, v2}
    Options = {o1}
    UnknownOption = x
    OwnerRequests = {a1, a2}
    Readers = {q1}
    Users = {u1, u2}
    Creator = u1
    MaxLosses = 1
    MaxRetries = 0
SYMMETRY RequestSymmetry
INVARIANTS
    CountedAtMostTwice
    ClosedEventFollowsClose
PROPERTIES
    TallyNeverGoesBack
    DrainedPollIsFrozen
    OnlyCreatorModifies
    DeletedStaysDeleted
CHECK_DEADLOCK FALSE
