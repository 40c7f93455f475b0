\* NewDynamicController, whole-second clock: its indexer is never filled.
CONSTANTS
    k1 = k1
    k2 = k2
    w1 = w1
    w2 = w2
    None = None
    Keys <- MCKeys1
    Workers <- MCWorkers1
    MaxRetries = 2
    TicksPerSecond = 1
    MaxTick = 2
    MaxChanges = 3
    MaxRelists = 0
    Dynamic = TRUE
    ObjTypeKnown = TRUE
SPECIFICATION Spec
INVARIANT FilterSkipsOnlyPreexisting
