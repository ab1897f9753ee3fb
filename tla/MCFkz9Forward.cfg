SPECIFICATION FairSpec
CONSTANTS
    MaxMessages = 2
    MaxParts = 2
    MaxLosses = 1
    QueueSize = 1
INVARIANTS
    TypeOK
    DevInfoOnce
    FlagMeansLink
    SubscribedUnlessLost
PROPERTIES
    WaysKeepOrder
    LongPayloadWhole
    CallbackReturns
