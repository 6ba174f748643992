CONSTANTS
    t = t
    u = u
    a = a
    b = b
    c = c
    NoThread = NoThread
    Threads = {t}
    Sketches = {a, c}
    Copied <- CopyOfA
    NoFqbn = {}
    BadPlugin = {}
    PipeCap = 1
    MaxLines = 1
    Compiles <- Everything
    MaxLog = 0
    ResDirs = {"empty", "good"}
    Provided <- Anywhere
    Versions = {"ok", "cmake_failing", "cmake_unknown_output"}
    CMakes = {"path"}
    Movable = {a}
    Disposable = {a, c}
    PluginSpeaks = TRUE

SPECIFICATION Spec

INVARIANT
    ToolchainInv

\* The host may be terminated.
CHECK_DEADLOCK FALSE
