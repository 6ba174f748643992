CONSTANTS
    Confs <- AllConfs
    TestConf <- Test
    Numbers <- SomeNumbers
    AnalogValues = {0, 1, 256, 65535}
    ByteValues = {0, 3}
    HostDirects = FALSE

SPECIFICATION PinsSpec

INVARIANTS
    PinsInv
    LevelsCarry

PROPERTIES
    SketchDrivesOutputs
    PinFollows
