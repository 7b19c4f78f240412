CONSTANTS
    P = 5
    F <- MCF
    Points <- MCPoints
    Zero <- MCZero
    One <- MCOne
    Identity <- MCIdentity
    Generator <- MCGenerator
    Plus <- MCPlus
    Neg <- MCNeg
    Times <- MCTimes
    Inv <- MCInv
    Rand <- MCRand
    KeyShares <- MCKeyShares
    ScalarInputs <- MCScalarInputs
    PointInputs <- MCPointInputs
    PublicScalars <- MCPublicScalars
    PublicPoints <- MCPublicPoints
    Exponents = {1, 2, 3, 5}
    Corruptions <- MCCorruptions
    Programs <- MCPrograms
    MaxBatch = 2
SPECIFICATION Spec
CHECK_DEADLOCK FALSE
INVARIANTS
    TypeOK
    MacsAuthentic
    HonestAccepted
    CorruptionDetected
PROPERTY
    Refines
