CONSTANTS
    F <- MCF
    Points <- MCF
    Zero = 0
    One = 1
    Identity = 0
    Generator = 1
    Plus <- MCPlus
    Neg <- MCNeg
    Times <- MCTimes
    Inv <- MCInv
    Rand <- MCRand
    Root <- MCRoot
    KeyShares <- MCKeyShares
    Draws = {1, 2}
    Cases <- MCCases
    Scalars = {3}
    Sizes = {0, 1, 2, 3}
    MaxOps = 2
SPECIFICATION Spec
CHECK_DEADLOCK FALSE
INVARIANTS
    RingOperations
    QuotientExact
    InverseModXt
