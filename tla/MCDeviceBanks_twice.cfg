CONSTANTS
    h = h
    k = k
    NoOne = NoOne
    MaxCount = 2
    HostThreads = {h}
    SketchThreads = {k}
    Configs <- Twice
    Known <- TwiceKnown
    LongNames = {}
    Probes = {}
    Values = {1, 2}

SPECIFICATION BankSpec

INVARIANT
    FieldsKeepTheirValues

\* The sketch may be killed.
CHECK_DEADLOCK FALSE
