SPECIFICATION FairSpec
CONSTANTS
    a = a
    b = b
    Letters = {a, b}
    Pong = b
    Blank = Blank
    CR = CR
    LF = LF
    NUL = NUL
    MaxInput = 4
    MaxStream = 5
CHECK_DEADLOCK FALSE
INVARIANTS
    TypeOK
    WholeLines
    NothingLost
    StopsOnlyAtBlank
PROPERTY
    LoopsEnd
