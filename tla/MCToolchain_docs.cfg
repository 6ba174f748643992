CONSTANTS
    t = t
    u = u
    a = a
    b = b
    c = c
    NoThread = NoThread
    Threads = {t}
    Sketches = {a}
    Copied <- NoCopies
    NoFqbn = {}
    BadPlugin = {}
    PipeCap = 1
    MaxLines = 1
    Compiles <- Everything
    MaxLog = 4
    ResDirs = {"good"}
    Provided <- Anywhere
    Versions = {"ok"}
    CMakes = {"path"}
    Movable = {}
    Disposable = {a}
    PluginSpeaks = FALSE

SPECIFICATION Spec

\* TLC stops at the first property that is violated: leave in the one to look at.
INVARIANTS
    CheckIsRight
    ConfigureFailureIsTold
    OnlyPathIsSearched

\* The host may be terminated.
CHECK_DEADLOCK FALSE
