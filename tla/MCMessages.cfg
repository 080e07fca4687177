SPECIFICATION MsgSpec
CONSTANTS
    anon = anon
    Names = {w1, w2}
    NoName = NoName
    Nameless = {NoName, anon}
    MaxUsers = 2
    Capacities = {1}
    MaxChannel = 2
    ChanNames = {x, y}
    ChanIds = {id1, id2}
    NoChan = NoChan
    Keys = {NoKey}
    NoKey = NoKey
    Topics = {}
    NoTopic = NoTopic
    Masks = {}
    LimitArgs = {}
    MaxBans = 0
    Commands = {"JOIN", "PART", "KICK", "PRIVMSG", "NOTICE", "WHO", "SECRET", "PRIVATE", "MODERATED", "v"}
    UserFlags = {"INVISIBLE"}
SYMMETRY Symmetry
CONSTRAINT Brief
CHECK_DEADLOCK FALSE
INVARIANTS
    RecordsAgree
    UndefinedOnlyAfter
    MessagesReachMembers
    SecretsKept
    ShownIsMember
PROPERTIES
    ModesFollowClient
