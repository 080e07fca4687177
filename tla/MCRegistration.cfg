SPECIFICATION Spec
CONSTANTS
    c1 = c1
    c2 = c2
    secret = secret
    NoConn = NoConn
    BadNick = BadNick
    NoName = NoName
    NoText = NoText
    Conns = {c1, c2}
    Nicks = {n1, n2}
    UserNames = {u1, u2}
    Texts = {NoText, secret}
    ServerPass <- MCServerPass
    MaxBatch = 2
    MaxClients = 2
INVARIANTS
    TypeOK
    NickUnique
    AuthGate
    PassMandatory
PROPERTIES
    IdentityFrozen
