SPECIFICATION Spec
CONSTANTS
    p1 = p1
    p2 = p2
    c1 = c1
    c2 = c2
    f1 = f1
    f2 = f2
    Producers <- MCProducers
    Consumers <- MCConsumers
    Frames <- MCFrames
    MAX_SEGMENTS = 3
    SlotSize = 256
    NoThread = NoThread
    NoFrame = NoFrame
SYMMETRY MCSymmetry
INVARIANTS
    TypeOK
    MutualExclusion
    CallsIntact
PROPERTIES
    ImplementsFifo
