SPECIFICATION FairSpec
CONSTANTS
    MaxRecnt = 2
INVARIANTS
    TypeOK
    ThreadsAccountedFor
    DeathsExplained
PROPERTIES
    ShutdownEnds
CHECK_DEADLOCK FALSE
