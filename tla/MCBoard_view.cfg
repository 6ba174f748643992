CONSTANTS
    s1 = s1
    s2 = s2
    c1 = c1
    c2 = c2
    d = d
    NoSketch = NoSketch
    NoConf = NoConf
    Sketches = {s1}
    Confs = {c1}
    Devices = {d}
    Required <- MCRequired
    Provided <- MCProvided
    SuspendSignals = TRUE
    PipeCap = 1

SPECIFICATION Spec

INVARIANT
    ViewNeverDangles

\* An aborted host and a destroyed board take no further step, and a call that
\* waits for an orphaned mutex never returns.
CHECK_DEADLOCK FALSE
