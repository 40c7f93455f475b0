\* The retry budget of handleErr (5) against a delayed retry that outlives a drop.
CONSTANTS
    k1 = k1
    k2 = k2
    w1 = w1
    w2 = w2
    None = None
    Keys <- MCKeys1
    Workers <- MCWorkers1
    MaxRetries = 5
    TicksPerSecond = 2
    MaxTick = 2
    MaxChanges = 3
    MaxRelists = 0
    Dynamic = FALSE
    ObjTypeKnown = TRUE
SPECIFICATION Spec
INVARIANT NoRetryAfterDrop
