CONSTANTS
    P = 31
    F <- MCF
    Points <- MCF
    Zero = 0
    One = 1
    Identity = 0
    Generator = 1
    Plus <- MCPlus
    Neg <- MCNeg
    Times <- MCTimes
    Inv <- MCInv
    Sqrt <- MCSqrt
    Rand <- MCRand
    KeyShares <- MCKeyShares
    Slots = 3
    PokBatch = 2
    Errors = {1, 12}
    Scenarios <- MCScenarios
SPECIFICATION FairSpec
CHECK_DEADLOCK FALSE
INVARIANTS
    TypeOK
    PoolsAuthentic
    HandedOutFits
    TriplesFresh
    HonestNeverAccused
PROPERTIES
    RevealAfterCommit
    Finishes
