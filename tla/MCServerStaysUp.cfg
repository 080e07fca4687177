SPECIFICATION Spec
CONSTANTS
    w1 = w1
    w2 = w2
    w3 = w3
    anon = anon
    Names = {w1, w2}
    NoName = NoName
    Nameless = {NoName}
    MaxUsers = 2
    Capacities = {2}
    MaxChannel = 2
    ChanNames = {x}
    ChanIds = {id1, id2}
    NoChan = NoChan
    Keys = {NoKey}
    NoKey = NoKey
    Topics = {}
    NoTopic = NoTopic
    Masks = {}
    LimitArgs = {}
    MaxBans = 0
    Commands = {"JOIN", "PART"}
CHECK_DEADLOCK FALSE
INVARIANT
    ServerStaysUp
