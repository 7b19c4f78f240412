SPECIFICATION FairSpec
CONSTANTS
    NMsgs = 3
    HeaderLen = 3
    BodyLen <- MCBodyLen
    Window = 8
    MaxFabrics = 2
INVARIANTS
    TypeOK
    StreamExact
    NoSpuriousError
PROPERTIES
    SentArrives
    SendingSideEnds
CHECK_DEADLOCK FALSE
