SPECIFICATION Spec
CONSTANTS
    w1 = w1
    w2 = w2
    w3 = w3
    anon = anon
    Names = {w1, w2, w3}
    NoName = NoName
    Nameless = {NoName, anon}
    MaxUsers = 3
    Capacities = {3}
    MaxChannel = 2
    ChanNames = {x}
    ChanIds = {id1}
    NoChan = NoChan
    Keys = {NoKey}
    NoKey = NoKey
    Topics = {}
    NoTopic = NoTopic
    Masks = {}
    LimitArgs = {}
    MaxBans = 0
    Commands = {"JOIN", "PART", "KICK", "MODE", "+o", "-o", "v"}
SYMMETRY Symmetry
CONSTRAINT Few
CHECK_DEADLOCK FALSE
INVARIANTS
    TypeOK
    MembersDistinct
    EmptyOnlyByKick
    AlwaysAnOperator
    MembersKnowChannel
    UndefinedOnlyAfter
PROPERTIES
    ImplementsMembership
    RemovedOnlyByRight
