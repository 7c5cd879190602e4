SPECIFICATION Spec
CONSTANTS
    Conns = {c1, c2}
    MaxFrames = 2
    QueueCap = 1
    BatchThreshold = 2
SYMMETRY Symmetry
CHECK_DEADLOCK FALSE
INVARIANTS
    TypeOK
    AckMeansCommitted
    AtMostOnce
    Fifo
    DrainLosesNothing
    WriterOutlivesSenders
    DepthAccounting
