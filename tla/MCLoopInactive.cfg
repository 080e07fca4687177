SPECIFICATION Spec
CONSTANTS
    Conns = {c1, c2}
    MaxClients = 2
    Reserved = 1
    MaxInbox = 1
    MaxLines = 2
    MaxInactive = 0
    MaxResponse = 1
    Unreliable = {}
PROPERTY
    DroppedOnlyIfInactive
