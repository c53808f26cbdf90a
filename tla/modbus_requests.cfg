SPECIFICATION FairSpec
CONSTANTS
    Clients = {c1}
    NoClient = NoClient
    Callbacks <- MCCallbacks
    Frames <- MCEveryFrame
    CallbackErrors <- MCCallbackErrors
    FailingCalls <- AllFail
    ReadTimeout = 1000
    ByteTimeout = 1000
    HeaderPieces = 2
    BodyPieces = 1
    MaxRequests = 1
    MaxConnections = 2
CHECK_DEADLOCK FALSE
INVARIANTS
    TypeOK
    AnswerFits
PROPERTIES
    PartialFrameEnds
