SPECIFICATION Spec
CONSTANTS
    VoteRequests = {r1, r2, r3}
    Voters = {v1, v2}
    Options = {o1, o2}
    UnknownOption = x
    OwnerRequests = {}
    Readers = {q1}
    Users = {u1}
    Creator = u1
    MaxLosses = 0
    MaxRetries = 1
SYMMETRY RequestSymmetry
INVARIANTS
    TypeOK
    OneVotePerVoter
    AnswersAreTruthful
    TallyAccountsForVotes
    PublishedTalliesAreConsistent
    SettledTallyIsPublished
CHECK_DEADLOCK FALSE
PROPERTIES
    ImplementsContract
