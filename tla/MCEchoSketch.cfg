CONSTANTS
    Channels = 1
    RxMax = 2
    TxMax = 3
    Bytes = {1, 72, 73, 200}
    Texts <- NoTexts
    Limits = {}
    MaxBytes = 5
    CharSigned = TRUE
    LongMax = 60
    Garbage = {0}
    TimeOuts = {TRUE, FALSE}

SPECIFICATION EchoFairSpec

INVARIANTS
    EchoInv

PROPERTIES
    EchoArrives
