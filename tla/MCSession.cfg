SPECIFICATION Spec
CONSTANTS
    Words <- MCWords
    Blank = ""
    Length <- MCLength
    Addresses <- MCAddresses
    Tokens = {k1, k2}
    VoterIds = {v1}
    None = None
    Tabs = {t1, t2}
    Slots = {s1, s2}
    Free = Free
    Typed <- MCTyped
    Drafts <- MCDrafts
    Undefined = Undefined
SYMMETRY Symmetry
INVARIANTS
    SessionTypeOK
    OnlyOthersMakeStale
    VoterIsWhoThePageSays
    
    OneAccountPerAddress
    
PROPERTIES
    LiveSessionKept
CHECK_DEADLOCK FALSE
