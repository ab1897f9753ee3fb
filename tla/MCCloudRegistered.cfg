SPECIFICATION Spec
CONSTANTS
    wave = wave
    refs = refs
    switch = switch
    other = other
    Frames <- MCFrames
    Sign <- MCSign
    QueueSize = 2
    SlotParts = 3
    MaxSent = 3
    MaxRead = 4
INVARIANT
    RegisteredIsHandled
CHECK_DEADLOCK FALSE
