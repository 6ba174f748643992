CONSTANTS
    Channels = 1
    RxMax = 3
    TxMax = 2
    Bytes = {32, 45, 46, 49}
    Texts <- Short
    Limits = {1}
    MaxBytes = 3
    CharSigned = TRUE
    LongMax = 60
    Garbage = {0, 7}
    TimeOuts = {TRUE}

SPECIFICATION Spec

INVARIANT
    SerialInv

PROPERTY
    WritesFit
