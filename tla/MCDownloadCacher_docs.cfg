CONSTANTS
    p = p
    q = q
    r = r
    Procs = {p, q, r}
    MaxCalls = 2
    Forces = {FALSE, TRUE}
    GivesResult = {TRUE}
    Fails = TRUE
    Crashes = TRUE
    Clears = FALSE

SPECIFICATION CacherSpec

\* TLC stops at the first property that is violated: leave in the one to look at.
INVARIANTS
    OneDownloadAtATime
    ForcedIsFetched
    CachedWasDownloaded

\* The processes have made all their calls.
CHECK_DEADLOCK FALSE
