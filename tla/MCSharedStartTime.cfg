\* Two controllers sharing serverStartTime, one key and one worker each,
\* a whole-second clock so that creationTimestamp truncation plays no part
\* (expected: violation).
CONSTANTS
    k1 = k1
    w1 = w1
    None = None
    Keys <- MCKeys
    Workers <- MCWorkers
    MaxRetries = 1
    TicksPerSecond = 1
    MaxTick = 3
    MaxChanges = 1
    MaxRelists = 0
    Dynamic = FALSE
    ObjTypeKnown = TRUE
SPECIFICATION Spec
INVARIANT FilterSkipsOnlyOwnPreexisting
