SPECIFICATION Spec
CONSTANTS
    MaxTry = 3
    MaxStart = 3
    Chunk = 5
    Word = 100
    MaxCount = 7
    RespLen = 4
    NavLen = 6
    LineLen = 6
    MaxEpoch = 2
INVARIANTS
    TypeOK
    ClientsReleased
    SuccessIsTrue
    ReadsAreFull
    EveryOkIsOwed
    OkIsTrue
    PortsClosed
PROPERTIES
    SerialSpec
    FramesInOrder
    CallsReturn
CHECK_DEADLOCK FALSE
