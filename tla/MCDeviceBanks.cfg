CONSTANTS
    h = h
    k = k
    NoOne = NoOne
    MaxCount = 2
    HostThreads = {h}
    SketchThreads = {k}
    Configs <- MixedAndMutexes
    Known <- AllAndM
    LongNames = {}
    Probes <- Asked
    Values <- Signs

SPECIFICATION BankFairSpec

INVARIANTS
    DevicesInv
    FieldsKeepTheirValues

PROPERTY
    LocksReturn

\* The sketch may be killed with all that is locked, or the host be done.
CHECK_DEADLOCK FALSE
