SPECIFICATION FairSpec
CONSTANTS
    t1 = t1
    h1 = h1
    w1 = w1
    w2 = w2
    Threads = {t1}
    Handles = {h1}
    Wakers = {w1, w2}
    Val <- MCVal
    Apply <- MCApply
    Source <- MCSource
    NConst = 1
    MaxResults = 3
    MaxOps = 1
    MaxArgs = 2
    MaxArity = 2
PROPERTIES
    AwaitedIsDelivered
CHECK_DEADLOCK FALSE
