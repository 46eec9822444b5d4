SPECIFICATION FairSpec
CONSTANTS
    Conns = {c1, c2}
    Polls = {p1}
    NoSub = NoSub
    Free = Free
    BufSize = 1
    MaxEvents = 2
    SubscribeMayFail = TRUE
PROPERTIES
    ClosedConnectionsEnd
    CancelledBridgesEnd
    
CHECK_DEADLOCK FALSE
