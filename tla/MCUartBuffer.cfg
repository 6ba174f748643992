CONSTANTS
    h1 = h1
    h2 = h2
    k = k
    NoThread = NoThread
    DeadThread = DeadThread
    Writers = {h1, h2}
    Readers = {k}
    Mortal = {k}
    Requested = 65538
    Width = 65536
    MaxChunk = 3
    MaxBytes = 3

SPECIFICATION FairSpec

INVARIANTS
    IInv
    WritesStayWhole
    NoSurprise

PROPERTIES
    FifoSpec
    CallsReturn

\* At the bound, with the sketch dead, nobody is left to do anything.
CHECK_DEADLOCK FALSE
