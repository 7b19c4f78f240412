SPECIFICATION FairSpec
CONSTANTS
    t1 = t1
    h1 = h1
    w1 = w1
    Threads = {t1}
    Handles = {h1}
    Wakers = {w1}
    Val <- MCVal
    Apply <- MCApply
    Source <- MCSource
    NConst = 1
    MaxResults = 3
    MaxOps = 2
    MaxArgs = 2
    MaxArity = 2
    RacyReads = {}
INVARIANTS
    TypeOK
PROPERTIES
    ImplementsDataflow
    AwaitedIsDelivered
CHECK_DEADLOCK FALSE
