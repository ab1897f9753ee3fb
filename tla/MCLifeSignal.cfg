SPECIFICATION FairSpec
CONSTANTS
    MaxRecnt = 2
PROPERTIES
    SignalQuits
CHECK_DEADLOCK FALSE
