SPECIFICATION Spec
CONSTANTS
    Conns = {c1, c2}
    Polls = {p1}
    NoSub = NoSub
    Free = Free
    BufSize = 1
    MaxEvents = 0
    SubscribeMayFail = FALSE
INVARIANT ViewersAreSubscribed
CHECK_DEADLOCK FALSE
