SPECIFICATION FairBufferSpec
CONSTANTS
    t1 = t1
    t2 = t2
    Callers = {t1, t2}
    shard_size = 2
    MaxIds = 5
INVARIANTS
    BufferTypeOK
    WrittenIsReachable
    ReadAfterWrite
    CountExact
PROPERTIES
    SetReturns
CHECK_DEADLOCK FALSE
