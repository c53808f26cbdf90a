SPECIFICATION Spec
CONSTANTS
    Clients = {c1}
    NoClient = NoClient
    Callbacks <- MCCallbacks
    Frames <- MCGoodFrames
    CallbackErrors <- MCCallbackErrors
    FailingCalls <- NoneFail
    ReadTimeout = 1000
    ByteTimeout = 1000
    HeaderPieces = 2
    BodyPieces = 1
    MaxRequests = 1
    MaxConnections = 1
CHECK_DEADLOCK FALSE
INVARIANTS
    ServerNeverStops
