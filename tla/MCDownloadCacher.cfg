CONSTANTS
    p = p
    q = q
    r = r
    Procs = {p, q}
    MaxCalls = 2
    Forces = {FALSE, TRUE}
    GivesResult = {FALSE, TRUE}
    Fails = TRUE
    Crashes = TRUE
    Clears = TRUE

SPECIFICATION CacherFairSpec

INVARIANTS
    CacherInv
    FetchedOnce

PROPERTY
    CallsReturn

\* The processes have made all their calls.
CHECK_DEADLOCK FALSE
