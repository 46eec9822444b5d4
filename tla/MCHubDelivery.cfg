SPECIFICATION Spec
CONSTANTS
    Conns = {c1, c2}
    Polls = {p1, p2}
    NoSub = NoSub
    Free = Free
    BufSize = 1
    MaxEvents = 3
    SubscribeMayFail = TRUE
SYMMETRY ConnSymmetry
INVARIANTS
    TypeOK
    NoSilentGap
    OnlyOwnPoll
    NoLeakedSubscription
    NoOrphanBridge
CHECK_DEADLOCK FALSE
