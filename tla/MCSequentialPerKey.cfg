\* Two workers may hold events of one key with different event types.
CONSTANTS
    k1 = k1
    k2 = k2
    w1 = w1
    w2 = w2
    None = None
    Keys <- MCKeys1
    Workers <- MCWorkers2
    MaxRetries = 2
    TicksPerSecond = 2
    MaxTick = 2
    MaxChanges = 3
    MaxRelists = 0
    Dynamic = FALSE
    ObjTypeKnown = TRUE
SPECIFICATION Spec
INVARIANT SequentialPerKey
