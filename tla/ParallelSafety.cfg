SPECIFICATION Spec
CONSTANTS
    t1 = t1
    w1 = w1
    Threads = {t1}
    Handles = {}
    Wakers = {w1}
    Val <- MCVal
    Apply <- MCApply
    Source <- MCSource
    NConst = 1
    MaxResults = 4
    MaxOps = 3
    MaxArgs = 2
    MaxArity = 1
    RacyReads = {}
INVARIANTS
    NoPanic
    MarkedIsWritten
    InflightExact
    RunsOnce
CHECK_DEADLOCK FALSE
