CONSTANTS
    s1 = s1
    s2 = s2
    c1 = c1
    c2 = c2
    d = d
    NoSketch = NoSketch
    NoConf = NoConf
    Sketches = {s1, s2}
    Confs = {c1, c2}
    Devices = {d}
    Required <- MCRequired
    Provided <- MCProvided
    SuspendSignals = TRUE
    PipeCap = 2

SPECIFICATION FairSpec

INVARIANTS
    NothingLeftBehind
    BoardDataIntact
    LaunchWasChecked
    LogComplete
    NoticeMeansSelfExit
    IInv

PROPERTIES
    ContractSpec
    CallsReturn
    ExitIsReported
    StopIsObeyed

\* An aborted host and a destroyed board take no further step, and a call that
\* waits for an orphaned mutex never returns.
CHECK_DEADLOCK FALSE
