SPECIFICATION FairSpec
CONSTANTS
    a = a
    b = b
    Letters = {a, b}
    Star = Star
    MaxMask = 5
    MaxText = 5
INVARIANTS
    ReadsInBounds
    Correct
PROPERTIES
    Ascends
    Terminates
