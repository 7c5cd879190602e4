SPECIFICATION FairSpec
CONSTANTS
    Conns = {c1, c2}
    MaxFrames = 1
    QueueCap = 1
    BatchThreshold = 2
CHECK_DEADLOCK FALSE
PROPERTIES
    ServiceRefined
    EveryRequestSettles
    DrainTerminates
    EnqueuedGetsProcessed
