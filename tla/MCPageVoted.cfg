SPECIFICATION Spec
CONSTANTS
    p1 = p1
    p2 = p2
    b1 = b1
    b2 = b2
    Polls = {p1}
    Sockets = {s1}
    Bridges = {b1}
    PollOf <- OneBridge
    None = None
    MaxTimers = 1
    MaxEvents = 0
    Loads = {l1, vl}
    VoteLoad = vl
    HasToken = FALSE
INVARIANT VotedViewerIsTold
CHECK_DEADLOCK FALSE
