SPECIFICATION FairSpec
CONSTANTS
    Clients = {c1, c2}
    NoClient = NoClient
    Callbacks <- MCCallbacks
    Frames <- MCFewFrames
    CallbackErrors <- MCFewErrors
    FailingCalls <- NoneFail
    ReadTimeout = 1000
    ByteTimeout = 1000
    HeaderPieces = 1
    BodyPieces = 1
    MaxRequests = 2
    MaxConnections = 1
CHECK_DEADLOCK FALSE
INVARIANTS
    AnswersInOrder
    AnswersTellWhatWasDone
    ClientSocketClosed
PROPERTIES
    WholeRequestAnswered
