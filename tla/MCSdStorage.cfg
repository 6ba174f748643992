CONSTANTS
    v = v
    w = w
    a = a
    d = d
    Cards = {0, 4}
    Pins = {4}
    Handles = {v, w}
    Paths <- Tree
    Bytes = {1}
    MaxLen = 3
    MaxFiles = 1

SPECIFICATION Spec

SYMMETRY HandleSymmetry

INVARIANTS
    SdInv
    ReadsInOrder

PROPERTY
    DeadAfterEnd
