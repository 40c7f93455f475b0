\* NewController, one key, two workers: the queue's per-event guarantees,
\* the startup filter on the initial list, delivery and shutdown.
CONSTANTS
    k1 = k1
    k2 = k2
    w1 = w1
    w2 = w2
    None = None
    Keys <- MCKeys1
    Workers <- MCWorkers2
    MaxRetries = 2
    TicksPerSecond = 2
    MaxTick = 2
    MaxChanges = 2
    MaxRelists = 1
    Dynamic = FALSE
    ObjTypeKnown = TRUE
SPECIFICATION Spec
INVARIANT TypeOK
INVARIANT NoEventProcessedConcurrently
PROPERTY NotificationsReachWorkers
PROPERTY StopTerminates EveryCachedStateProcessed
