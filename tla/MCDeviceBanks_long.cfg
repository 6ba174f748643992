CONSTANTS
    h = h
    k = k
    NoOne = NoOne
    MaxCount = 2
    HostThreads = {h}
    SketchThreads = {k}
    Configs <- LongOne
    Known <- JustLong
    LongNames = {9}
    Probes = {}
    Values = {1}

SPECIFICATION BankSpec

INVARIANT
    AcceptedIsConstructed

\* The host may be terminated.
CHECK_DEADLOCK FALSE
