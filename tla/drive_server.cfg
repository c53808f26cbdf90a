SPECIFICATION DriveSpec
CONSTANTS
    Clients = {c1}
    Frames <- McFrames
    MaxRequests = 3
    NoClient = NoClient
    Callbacks <- McCallbacks
    CallbackErrors <- McErrors
    FailingCalls <- NoneFail
    ReadTimeout = 1000
    ByteTimeout = 1000
    HeaderPieces = 1
    BodyPieces = 1
    MaxConnections = 1
    MotorMaxTorque = 2
    InitialTorque = 0
    Parameters <- McParameters
    WordSize = 65536
CHECK_DEADLOCK FALSE
INVARIANTS
    ReadsTellTruth
    AnswerTellsTorque
PROPERTIES
    TorqueWasCommanded
