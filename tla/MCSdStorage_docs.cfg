CONSTANTS
    v = v
    w = w
    a = a
    d = d
    Cards = {4}
    Pins = {0, 4}
    Handles = {v}
    Paths <- OneFile
    Bytes = {1}
    MaxLen = 3
    MaxFiles = 1

SPECIFICATION Spec

\* TLC stops at the first property that is violated: leave in the one to look at.
INVARIANTS
    NoSuchDevice
    AvailableIsHonest
    BlocksFollow

PROPERTY
    PeekKeepsCursor
