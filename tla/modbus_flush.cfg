SPECIFICATION FairSpec
CONSTANTS
    Clients = {c1}
    NoClient = NoClient
    Callbacks <- MCCallbacks
    Frames <- MCUnknown
    CallbackErrors <- MCCallbackErrors
    FailingCalls <- NoneFail
    ReadTimeout = 1000
    ByteTimeout = 1000
    HeaderPieces = 1
    BodyPieces = 1
    MaxRequests = 1
    MaxConnections = 1
CHECK_DEADLOCK FALSE
PROPERTIES
    FlushReturns
