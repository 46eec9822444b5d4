SPECIFICATION PageSocketFairSpec
CONSTANTS
    p1 = p1
    p2 = p2
    b1 = b1
    b2 = b2
    Polls = {p1, p2}
    Sockets = {s1, s2}
    Bridges = {b1, b2}
    PollOf <- TwoBridges
    None = None
    MaxTimers = 3
    MaxEvents = 2
INVARIANTS
    PageSocketTypeOK
    OneLiveSocket
    ConnectedMeansSocket
PROPERTIES
    LiveNeverGoesBack
    Reconnects
CHECK_DEADLOCK FALSE
