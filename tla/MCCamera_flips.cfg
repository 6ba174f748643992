CONSTANTS
    h1 = h1
    k = k
    NoThread = NoThread
    Hosts = {h1}
    Sketch = k
    Flags = {"horiz", "vert"}
    FlipSetters = {h1, k}
    Sized = {1}
    Dims = {1}
    Conf <- CameraAndScreen
    Colours <- OneColour
    Keys = {2}
    FirstKey = 2
    Resolutions <- Small
    Rates = {0}
    Lengths = {1, 2}

SPECIFICATION Spec

PROPERTY
    OtherFlagKept

\* The sketch may die and every call of the host's wait for its mutex.
CHECK_DEADLOCK FALSE
