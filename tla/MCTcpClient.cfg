SPECIFICATION FairSpec
CONSTANTS
    MaxAttempts = 3
    MaxRecnt = 2
    MaxFrames = 2
    QueueSize = 1
CHECK_DEADLOCK FALSE
INVARIANTS
    TypeOK
    OrderlyIsSafe
    SentInOrder
PROPERTIES
    KeepsConnecting
