SPECIFICATION Spec
CONSTANTS
    LimitCalls <- MCCalls
    Setups <- MCSetups
    TidMax = 2
    MaxCalls <- MCMaxCalls
    CanTimeOut = TRUE
    Requests <- MCRequests
    CallbackErrors <- MCErrors
    Inventories <- MCInventories
    Lists <- MCLists
    MaxChanges = 1
    Own = 1
    Units = {0, 1, 2}
    Functions = {3, 6, 7}
    MaxRequests = 2
    MayPause = TRUE
    Noise = TRUE
CHECK_DEADLOCK FALSE
INVARIANTS
    HalvesAgree
    AnswerIsForCall
    QuietCallTellsTruth
    ServedAsAnswered
    ListIsTrue
    ActsForItself
