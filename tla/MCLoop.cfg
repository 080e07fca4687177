SPECIFICATION FairSpec
CONSTANTS
    Conns = {c1, c2}
    MaxClients = 2
    Reserved = 1
    MaxInbox = 2
    MaxLines = 3
    MaxInactive = 0
    MaxResponse = 1
    Unreliable = {c1}
INVARIANTS
    TypeOK
    LinesStayWithClient
    NoLineForgotten
PROPERTIES
    NoLineLost
    Heard
    FirstHeard
    SilentDropped
