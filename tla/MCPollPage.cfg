SPECIFICATION FairSpec
CONSTANTS
    p1 = p1
    p2 = p2
    b1 = b1
    b2 = b2
    Polls = {p1, p2}
    Sockets = {s1}
    Bridges = {b1, b2}
    PollOf <- BridgeEach
    None = None
    MaxTimers = 2
    MaxEvents = 1
    Loads = {l1, vl}
    VoteLoad = vl
    HasToken = TRUE
INVARIANTS
    TypeOK
    
 
CHECK_DEADLOCK FALSE
