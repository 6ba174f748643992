CONSTANTS
    t = t
    u = u
    a = a
    b = b
    c = c
    NoThread = NoThread
    Threads = {t, u}
    Sketches = {a, b}
    Copied <- NoCopies
    NoFqbn = {}
    BadPlugin = {}
    PipeCap = 1
    MaxLines = 1
    Compiles <- ItsOwn
    MaxLog = 0
    ResDirs = {"good"}
    Provided = {{"path"}}
    CMakes = {}
    Versions = {"ok"}
    Movable = {}
    Disposable = {}
    PluginSpeaks = FALSE

SPECIFICATION FairSpec

INVARIANT
    LinesStayWhole

PROPERTY
    CompileReturns

\* The host may be terminated.
CHECK_DEADLOCK FALSE
