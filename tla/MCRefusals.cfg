SPECIFICATION Spec
CONSTANTS
    w1 = w1
    w2 = w2
    w3 = w3
    anon = anon
    Names = {w1, w2}
    NoName = NoName
    Nameless = {NoName, anon}
    MaxUsers = 2
    Capacities = {1}
    MaxChannel = 2
    ChanNames = {x}
    ChanIds = {id1, id2}
    NoChan = NoChan
    Keys = {NoKey, k1}
    NoKey = NoKey
    Topics = {t1}
    NoTopic = NoTopic
    Masks <- MCMasks
    LimitArgs = {1, 65536}
    MaxBans = 1
    Commands = {"JOIN", "PART", "INVITE", "MODE", "INVITEONLY", "PRIVATE", "l", "b", "k", "TOPIC", "TOPICSET"}
SYMMETRY IdSymmetry
CHECK_DEADLOCK FALSE
INVARIANTS
    RecordsAgree
    PowersByRight
    UndefinedOnlyAfter
PROPERTY
    AddedOnlyByRight
