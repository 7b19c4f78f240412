SPECIFICATION FairSpec
CONSTANTS
    t1 = t1
    t2 = t2
    h1 = h1
    w1 = w1
    Threads = {t1, t2}
    Handles = {h1}
    Wakers = {w1}
    Val <- MCVal
    Apply <- MCApply
    Source <- MCSource
    NConst = 1
    MaxResults = 3
    MaxOps = 2
    MaxArgs = 2
    MaxArity = 2
INVARIANTS
    TypeOK
    NoPanic
    InflightExact
    SentOnce
    DeliveredIsResult
PROPERTIES
    ImplementsDataflow
    AwaitedIsDelivered
CHECK_DEADLOCK FALSE
