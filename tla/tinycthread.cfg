SPECIFICATION MCSpec
CONSTANTS
    NoThread = NoThread
    Threads = {t1, t2, t3}
    Waiters = {t1, t2}
    MaxDepth = 2
    Kinds <- MCKinds
    MaxWaiters = 3
    MayTimeOut = TRUE
    Keys = {"k1", "k2"}
    Nodes = {"n1", "n2"}
    NoNode = "none"
    TSS_DTOR_ITERATIONS = 4
    Created = {"a", "b"}
    Main = "main"
    Codes = {"0", "1"}
    Platform = "win32"
    Calls = {"mtx_timedlock_win32", "mtx_timedlock_polling", "cnd_timedwait", "thrd_sleep"}
    \* So that every remainder, and every borrow between the two, occurs.
    NsecPerMs = 3
    MsPerSec = 4
    Seconds = 2
    PollMs = 2
CHECK_DEADLOCK FALSE
INVARIANTS
    Exclusive
    CalledOnce
    ValuesDestroyed
    JoinedIsOver
    OnTime
PROPERTIES
    NotifiedWaiterReturns
