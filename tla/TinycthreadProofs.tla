------------------------- MODULE TinycthreadProofs -------------------------
(***************************************************************************)
(* lib/tinycthread, for any number of threads, keys and nodes and any      *)
(* scale of time: mutual exclusion of the mutex on every platform, with    *)
(* and without the condition variable, call_once, thread-specific storage, *)
(* a thread's life and the end of timed calls.                             *)
(***************************************************************************)
EXTENDS MCTinycthread, TLAPS

-----------------------------------------------------------------------------
(* The mutex, alone and under a condition variable                         *)

\* How often t is in the system's lock because of what it was told, and
\* because it waits for the flag.
Entries(t) == held[t] + (IF pc[t] = "spin" THEN 1 ELSE 0)

\* Who has the mutex, or waits for its flag, is in the system's lock.
OwnerInv ==
    /\ handle.owner = NoThread \/ handle.depth >= 1
    /\ \A t \in Threads :
          /\ held[t] > 0 \/ pc[t] = "spin" => handle.owner = t
          /\ handle.owner = t => handle.depth >= Entries(t)

\* The flag is set for whoever has the mutex, and asked of nobody else.
FlagInv ==
    \A t \in Threads :
        /\ pc[t] = "spin" => OnWindows /\ ~kind.recursive
        /\ pc[t] \in {"mtx_lock", "mtx_timedlock", "spin"} => held[t] < MaxDepth
        /\ pc[t] = "cnd_unlock" => held[t] = 1
        /\ pc[t] \in {"wait", "blocked", "uncount", "reset"} => held[t] = 0
        /\ OnWindows /\ ~kind.recursive /\ held[t] > 0 => alreadyLocked
        /\ ~kind.recursive => held[t] <= 1

\* Where threads are in the mutex and in the condition variable.
MutexPcs == {"idle", "mtx_lock", "mtx_timedlock", "spin"}
CondPcs == {"cnd_unlock", "wait", "blocked", "uncount", "reset", "set_one", "set_all"}

MutexTypeInv ==
    /\ kind \in Kinds
    /\ handle \in [owner : Threads \cup {NoThread}, depth : Nat]
    /\ alreadyLocked \in BOOLEAN
    /\ pc \in [Threads -> MutexPcs \cup CondPcs]
    /\ held \in [Threads -> 0 .. MaxDepth]

MutexInv == MutexTypeInv /\ OwnerInv /\ FlagInv

LEMMA MutexInit == Init => MutexInv
<1> SUFFICES ASSUME Init PROVE MutexInv
    OBVIOUS
<1>1. /\ \A t \in Threads : pc[t] = "idle" /\ held[t] = 0
      /\ handle.owner = NoThread /\ handle.depth = 0
    BY DEF Init, Free
<1>2. handle \in [owner : Threads \cup {NoThread}, depth : Nat]
    BY DEF Init, Free
<1>3. alreadyLocked \in BOOLEAN
    BY Zenon DEF Init
<1>4. /\ kind \in Kinds
      /\ pc \in [Threads -> MutexPcs \cup CondPcs]
      /\ held \in [Threads -> 0 .. MaxDepth]
    BY TctMutexAssumption DEF Init, MutexPcs
<1>5. OwnerInv
    BY <1>1, TctMutexAssumption DEF OwnerInv, Entries
<1>6. FlagInv
    BY <1>1, TctMutexAssumption DEF FlagInv
<1> QED
    BY <1>2, <1>3, <1>4, <1>5, <1>6 DEF MutexInv, MutexTypeInv

LEMMA MutexNext == MutexInv /\ [Next]_vars => MutexInv'
<1> SUFFICES ASSUME MutexInv, [Next]_vars PROVE MutexInv'
    OBVIOUS
<1> USE TctMutexAssumption DEF MutexInv, MutexTypeInv, MutexPcs, CondPcs, OwnerInv, FlagInv, Entries, OnWindows
<1>1. CASE UNCHANGED vars
    BY <1>1 DEF vars
<1>2. ASSUME NEW t \in Threads, NEW function \in {"mtx_lock", "mtx_timedlock"}, Call(t, function)
      PROVE  MutexInv'
    BY <1>2 DEF Call, GoTo, mutexVars
<1>3. ASSUME NEW t \in Threads, Acquire(t) PROVE MutexInv'
    BY <1>3 DEF Acquire, Enters, Enter, GoTo, Told
<1>4. ASSUME NEW t \in Threads, Spin(t) PROVE MutexInv'
    BY <1>4 DEF Spin, GoTo, Told
<1>5. ASSUME NEW t \in Threads, TimeOut(t) PROVE MutexInv'
    BY <1>5 DEF TimeOut, GoTo, mutexVars
<1>6. ASSUME NEW t \in Threads, TryLock(t) PROVE MutexInv'
    <2>1. pc[t] = "idle" /\ held[t] < MaxDepth /\ UNCHANGED <<kind, pc>>
        BY <1>6 DEF TryLock, mutexVars
    <2>2. CASE UNCHANGED mutexVars
        BY <2>1, <2>2 DEF mutexVars
    <2>3. CASE Enters(t) /\ Enter(t) /\ UNCHANGED <<alreadyLocked, held>>
        BY <2>1, <2>3 DEF Enters, Enter
    <2>4. CASE UNCHANGED <<handle, alreadyLocked, held>>
        BY <2>1, <2>4
    <2>5. CASE /\ Enters(t) /\ Enter(t) /\ Told(t, 1)
               /\ alreadyLocked' = (OnWindows /\ ~kind.recursive)
               /\ ~(OnWindows /\ ~kind.recursive /\ alreadyLocked)
        <3>1. handle.owner = NoThread \/ handle.owner = t
            BY <2>5 DEF Enters
        <3>2. handle' = [owner |-> t, depth |-> handle.depth + 1]
            BY <2>5 DEF Enter
        <3>3. held' = [held EXCEPT ![t] = @ + 1]
            BY <2>5 DEF Told
        <3>4. ~kind.recursive => held[t] = 0
            BY <2>5 DEF Enters
        <3>5. alreadyLocked' \in BOOLEAN
            BY <2>5, Zenon
        <3>6. OnWindows /\ ~kind.recursive => alreadyLocked'
            BY <2>5
        <3>7. MutexTypeInv'
            BY <2>1, <3>2, <3>3, <3>5
        <3>8. OwnerInv'
            BY <2>1, <3>1, <3>2, <3>3
        <3>9. FlagInv'
            BY <2>1, <3>1, <3>3, <3>4, <3>6
        <3> QED
            BY <3>7, <3>8, <3>9
    <2> QED
        BY <1>6, <2>2, <2>3, <2>4, <2>5 DEF TryLock
<1>7. ASSUME NEW t \in Threads, Unlock(t) PROVE MutexInv'
    <2>1. /\ pc[t] = "idle" /\ held[t] > 0 /\ UNCHANGED <<kind, pc>>
          /\ alreadyLocked' = FALSE
          /\ held' = [held EXCEPT ![t] = @ - 1]
          /\ handle' = IF handle.depth = 1 THEN Free ELSE [handle EXCEPT !.depth = @ - 1]
        BY <1>7 DEF Unlock, mtx_unlock, Leave, Told
    <2>2. handle.owner = t /\ \A u \in Threads : u # t => held[u] = 0 /\ pc[u] # "spin"
        BY <2>1
    <2>3. MutexTypeInv'
        <3>1. alreadyLocked' \in BOOLEAN
            BY <2>1, Zenon
        <3>2. handle' \in [owner : Threads \cup {NoThread}, depth : Nat]
            BY <2>1, <2>2 DEF Free
        <3> QED
            BY <2>1, <3>1, <3>2
    <2>4. OwnerInv'
        <3>1. CASE handle.depth = 1
            BY <2>1, <2>2, <3>1 DEF Free
        <3>2. CASE handle.depth # 1
            BY <2>1, <2>2, <3>2
        <3> QED
            BY <3>1, <3>2
    <2>5. FlagInv'
        BY <2>1, <2>2
    <2> QED
        BY <2>3, <2>4, <2>5
<1> QED
    BY <1>1, <1>2, <1>3, <1>4, <1>5, <1>6, <1>7 DEF Next

\* What the condition variable does but for giving the mutex up: who waits
\* does not have it, and comes back to it by mtx_lock.
Moves ==
    /\ UNCHANGED mutexVars
    /\ pc' \in [Threads -> MutexPcs \cup CondPcs]
    /\ \A u \in Threads :
          \/ pc'[u] = pc[u]
          \/ pc'[u] \in {"idle", "set_one", "set_all"}
          \/ pc'[u] = "cnd_unlock" /\ held[u] = 1
          \/ pc'[u] \in {"blocked", "uncount", "reset", "mtx_lock"} /\ held[u] = 0

LEMMA MovesKeep == MutexInv /\ Moves => MutexInv'
BY TctMutexAssumption
DEF Moves, MutexInv, MutexTypeInv, MutexPcs, CondPcs, OwnerInv, FlagInv, Entries, OnWindows, mutexVars

LEMMA CondUnlockKeeps == ASSUME MutexInv, NEW t \in Threads, CondUnlock(t) PROVE MutexInv'
<1> USE TctMutexAssumption
    DEF MutexInv, MutexTypeInv, MutexPcs, CondPcs, OwnerInv, FlagInv, Entries, OnWindows
<1>1. /\ pc[t] = "cnd_unlock" /\ held[t] > 0 /\ UNCHANGED kind
      /\ pc' = [pc EXCEPT ![t] = "wait"]
      /\ alreadyLocked' = FALSE
      /\ held' = [held EXCEPT ![t] = @ - 1]
      /\ handle' = IF handle.depth = 1 THEN Free ELSE [handle EXCEPT !.depth = @ - 1]
    BY DEF CondUnlock, mtx_unlock, Leave, Told, GoTo
<1>2. handle.owner = t /\ \A u \in Threads : u # t => held[u] = 0 /\ pc[u] # "spin"
    BY <1>1
<1>3. held[t] = 1
    BY <1>1
<1>4. MutexTypeInv'
    <2>1. alreadyLocked' \in BOOLEAN
        BY <1>1, Zenon
    <2>2. handle' \in [owner : Threads \cup {NoThread}, depth : Nat]
        BY <1>1, <1>2 DEF Free
    <2> QED
        BY <1>1, <2>1, <2>2
<1>5. OwnerInv'
    <2>1. CASE handle.depth = 1
        BY <1>1, <1>2, <2>1 DEF Free
    <2>2. CASE handle.depth # 1
        BY <1>1, <1>2, <2>2
    <2> QED
        BY <2>1, <2>2
<1>6. FlagInv'
    BY <1>1, <1>2, <1>3
<1> QED
    BY <1>4, <1>5, <1>6

LEMMA CondKeeps == MutexInv /\ CondNext => MutexInv'
<1> SUFFICES ASSUME MutexInv, NEW t \in Threads, Mutex(t) \/ InWait(t) \/ Notify(t)
             PROVE  MutexInv'
    BY DEF CondNext
<1>1. CASE Mutex(t)
    <2>1. [Next]_vars
        BY <1>1 DEF Mutex, Next
    <2> QED
        BY <2>1, MutexNext
<1>2. CASE CondUnlock(t)
    BY <1>2, CondUnlockKeeps
\* Each of the others only moves threads.
<1> USE DEF MutexInv, MutexTypeInv, MutexPcs, CondPcs, FlagInv, Moves, GoTo
<1>3. CASE CountWaiter(t)
    <2>1. Moves
        BY <1>3 DEF CountWaiter
    <2> QED
        BY <2>1, MovesKeep
<1>4. CASE Wait(t)
    <2>1. Moves
        BY <1>4 DEF Wait
    <2> QED
        BY <2>1, MovesKeep
<1>5. CASE WaitTimeOut(t)
    <2>1. Moves
        BY <1>5 DEF WaitTimeOut
    <2> QED
        BY <2>1, MovesKeep
<1>6. CASE Uncount(t)
    <2>1. Moves
        BY <1>6 DEF Uncount
    <2> QED
        BY <2>1, MovesKeep
<1>7. CASE Reset(t)
    <2>1. Moves
        BY <1>7 DEF Reset
    <2> QED
        BY <2>1, MovesKeep
<1>8. ASSUME NEW next \in {"set_one", "set_all"}, LookForWaiters(t, next) PROVE MutexInv'
    <2>1. Moves
        BY <1>8 DEF LookForWaiters
    <2> QED
        BY <2>1, MovesKeep
<1>9. CASE SetOne(t)
    <2>1. Moves
        BY <1>9 DEF SetOne, Blocked
    <2> QED
        BY <2>1, MovesKeep
<1>10. CASE SetAll(t)
    <2>1. Moves
        BY <1>10 DEF SetAll, Blocked
    <2> QED
        BY <2>1, MovesKeep
<1> QED
    BY <1>1, <1>2, <1>3, <1>4, <1>5, <1>6, <1>7, <1>8, <1>9, <1>10 DEF InWait, Notify

(* The mutex keeps its type, and no thread is told more often than it      *)
(* asked that it has it.                                                   *)
THEOREM MutexTypeCorrect == Spec => []TypeOK
<1> DEFINE PcInv == pc \in [Threads -> MutexPcs]
<1>1. Init => PcInv
    BY DEF Init, MutexPcs
<1>2. PcInv /\ [Next]_vars => PcInv'
    BY DEF MutexPcs, Next, Call, Acquire, Spin, TimeOut, TryLock, Unlock, GoTo, vars
<1>3. MutexInv /\ PcInv => TypeOK
    BY DEF MutexInv, MutexTypeInv, MutexPcs, TypeOK
<1> QED
    BY <1>1, <1>2, <1>3, MutexInit, MutexNext, PTL DEF Spec

(* A mutex has one holder, who holds a non-recursive one once: whether it  *)
(* is used alone or with a condition variable, whose waiters give it up    *)
(* and take it back.                                                       *)
THEOREM MutualExclusion == MCSpec => []Exclusive
<1>1. MCInit => MutexInv
    BY MutexInit DEF MCInit, CondInit
<1>2. MutexInv /\ [MCNext]_everything => MutexInv'
    <2> SUFFICES ASSUME MutexInv, [MCNext]_everything PROVE MutexInv'
        OBVIOUS
    <2>1. [Next]_vars \/ CondNext
        BY DEF MCNext, everything, allVars
    <2> QED
        BY <2>1, MutexNext, CondKeeps
<1>3. MutexInv => Exclusive
    BY DEF MutexInv, OwnerInv, FlagInv, Exclusive
<1> QED
    BY <1>1, <1>2, <1>3, PTL DEF MCSpec

-----------------------------------------------------------------------------
(* call_once                                                               *)

\* Where the thread is that won the compare-and-swap.
WinnerPcs == {"initialize", "publish", "call", "function", "done"}

\* At most one thread won; how far it has come is what the status says, and
\* what has become of the lock and of the function.
WinnerInv ==
    /\ \A t, u \in Threads : oncePc[t] \in WinnerPcs /\ oncePc[u] \in WinnerPcs => t = u
    /\ \A t \in Threads :
          /\ oncePc[t] = "initialize" => status = 1 /\ ~lockReady
          /\ oncePc[t] = "publish" => status = 1 /\ lockReady
          /\ oncePc[t] \in {"call", "function", "done"} => status = 2
          /\ oncePc[t] = "call" => called.started = 0
          /\ oncePc[t] \in {"call", "function"} => called.finished = 0
          /\ oncePc[t] = "done" => called.finished = 1

\* What the status means, whoever reads it and however late.
StatusInv ==
    /\ status = 0 => ~lockReady /\ \A t \in Threads : oncePc[t] \notin WinnerPcs
    /\ status <= 1 => called.started = 0 /\ called.finished = 0
    /\ status >= 2 => lockReady
    /\ status = 3 => called.finished = 1 /\ \A t \in Threads : oncePc[t] \notin WinnerPcs
    /\ called.started <= 1
    /\ \A t \in Threads :
          /\ oncePc[t] \in {"enter", "pass"} => status >= 2
          /\ oncePc[t] \in {"leave", "returned"} => status = 3

OnceInv == Once!TypeOK /\ WinnerInv /\ StatusInv

LEMMA OnceInit == Once!Init => OnceInv
<1> SUFFICES ASSUME Once!Init PROVE OnceInv
    OBVIOUS
<1>1. \A t \in Threads : oncePc[t] = "outside"
    BY DEF Once!Init
<1>2. Once!TypeOK
    <2>1. called \in [started : Nat, finished : Nat]
        BY DEF Once!Init
    <2>2. status \in 0 .. 3 /\ owner \in Threads \cup {NoThread}
        BY DEF Once!Init
    <2>3. oncePc \in [Threads -> {"outside", "while", "switch", "swap", "initialize", "publish",
                             "call", "function", "done", "leave", "enter", "pass", "returned"}]
        BY DEF Once!Init
    <2>4. lockReady \in BOOLEAN
        BY Zenon DEF Once!Init
    <2> QED
        BY <2>1, <2>2, <2>3, <2>4 DEF Once!TypeOK
<1>3. /\ status = 0 /\ lockReady = FALSE
      /\ called.started = 0 /\ called.finished = 0
    BY DEF Once!Init
<1>4. WinnerInv
    BY <1>1 DEF WinnerInv, WinnerPcs
<1>5. StatusInv
    BY <1>1, <1>3 DEF StatusInv, WinnerPcs
<1> QED
    BY <1>2, <1>4, <1>5 DEF OnceInv

LEMMA OnceNext == OnceInv /\ [Once!Next]_(Once!vars) => OnceInv'
<1> SUFFICES ASSUME OnceInv, [Once!Next]_(Once!vars) PROVE OnceInv'
    OBVIOUS
<1> USE DEF OnceInv, Once!TypeOK, WinnerInv, StatusInv, WinnerPcs
<1>1. CASE UNCHANGED Once!vars
    BY <1>1 DEF Once!vars
<1>2. ASSUME NEW t \in Threads, Once!Call(t) PROVE OnceInv'
    BY <1>2 DEF Once!Call, Once!Step
<1>3. ASSUME NEW t \in Threads, Once!While(t) PROVE OnceInv'
    BY <1>3 DEF Once!While, Once!Step
<1>4. ASSUME NEW t \in Threads, Once!Switch(t) PROVE OnceInv'
    BY <1>4 DEF Once!Switch, Once!Step
<1>5. ASSUME NEW t \in Threads, Once!CompareAndSwap(t) PROVE OnceInv'
    BY <1>5 DEF Once!CompareAndSwap, Once!Step
<1>6. ASSUME NEW t \in Threads, Once!InitializeAndEnter(t) PROVE OnceInv'
    BY <1>6 DEF Once!InitializeAndEnter, Once!Step
<1>7. ASSUME NEW t \in Threads, Once!Publish(t) PROVE OnceInv'
    BY <1>7 DEF Once!Publish, Once!Step
<1>8. ASSUME NEW t \in Threads, Once!StartFunction(t) PROVE OnceInv'
    <2>1. /\ called.started = 0 /\ called.finished = 0 /\ status = 2
          /\ called' = [started |-> 1, finished |-> 0]
        BY <1>8 DEF Once!StartFunction, Once!Step
    <2>2. oncePc[t] = "call" /\ oncePc' = [oncePc EXCEPT ![t] = "function"] /\ UNCHANGED <<status, lockReady, owner>>
        BY <1>8 DEF Once!StartFunction, Once!Step
    <2> QED
        BY <2>1, <2>2
<1>9. ASSUME NEW t \in Threads, Once!FinishFunction(t) PROVE OnceInv'
    BY <1>9 DEF Once!FinishFunction, Once!Step
<1>10. ASSUME NEW t \in Threads, Once!Done(t) PROVE OnceInv'
    BY <1>10 DEF Once!Done, Once!Step
<1>11. ASSUME NEW t \in Threads, Once!Enter(t) PROVE OnceInv'
    BY <1>11 DEF Once!Enter, Once!Step
<1>12. ASSUME NEW t \in Threads, Once!Leave(t) PROVE OnceInv'
    BY <1>12 DEF Once!Leave, Once!Step
<1> QED
    BY <1>1, <1>2, <1>3, <1>4, <1>5, <1>6, <1>7, <1>8, <1>9, <1>10, <1>11, <1>12
    DEF Once!Next, Once!Inside

\* A behaviour of the whole is one of each facility, with the others' steps
\* as stutters.
LEMMA OnceOfMC == MCSpec => Once!Spec
<1>1. MCInit => Once!Init
    BY DEF MCInit
<1>2. [MCNext]_everything => [Once!Next]_(Once!vars)
    BY DEF MCNext, everything, onceVars, Once!vars
<1> QED
    BY <1>1, <1>2, PTL DEF MCSpec, Once!Spec

(* call_once of tinycthread.h: every variable keeps its type.              *)
THEOREM OnceTypeCorrect == Once!Spec => []Once!TypeOK
<1>1. OnceInv => Once!TypeOK
    BY DEF OnceInv
<1> QED
    BY <1>1, OnceInit, OnceNext, PTL DEF Once!Spec

(* The function is called at most once, and whoever returns from call_once *)
(* has it behind them.                                                     *)
THEOREM OnceIsOnce == MCSpec => []CalledOnce
<1>1. OnceInv => CalledOnce
    BY DEF OnceInv, StatusInv, CalledOnce, Once!CalledOnce
<1> QED
    BY <1>1, OnceInit, OnceNext, OnceOfMC, PTL DEF Once!Spec

(* No thread enters flag->lock before it is initialised, and it is not     *)
(* initialised again.                                                      *)
THEOREM LockIsReady == Once!Spec => []Once!LockReadyWhenUsed
<1>1. OnceInv => Once!LockReadyWhenUsed
    BY DEF OnceInv, WinnerInv, StatusInv, Once!LockReadyWhenUsed
<1> QED
    BY <1>1, OnceInit, OnceNext, PTL DEF Once!Spec

-----------------------------------------------------------------------------
(* The life of a thread                                                    *)

States == {"none", "failed", "wrapper", "free", "function", "ending", "ended"}

ThreadTypeInv ==
    /\ state \in [Thread!Everyone -> States]
    /\ info \in [Created -> {"none", "allocated", "freed"}]
    /\ DOMAIN exitCode = Thread!Everyone /\ exitCode = [t \in DOMAIN exitCode |-> exitCode[t]]
    /\ DOMAIN joined = Created /\ joined = [t \in DOMAIN joined |-> joined[t]]
    /\ threadHandle \in [Created -> {"none", "open", "closed"}]

\* A thread that is under way has freed its start information, one that has
\* ended stores nothing more, and what was joined stays as it was found.
LifeInv ==
    \A t \in Created :
        /\ state[t] \in {"function", "ending", "ended"} => info[t] = "freed"
        /\ state[t] = "ended" => t \notin storage
        /\ joined[t] \notin {"none", "error"} =>
              state[t] = "ended" /\ joined[t] = exitCode[t] /\ threadHandle[t] = "closed"

ThreadInv == ThreadTypeInv /\ LifeInv

LEMMA ThreadInit == Thread!Init => ThreadInv
<1> SUFFICES ASSUME Thread!Init PROVE ThreadInv
    OBVIOUS
<1>1. ThreadTypeInv
    BY DEF Thread!Init, ThreadTypeInv, States, Thread!Everyone
<1>2. LifeInv
    BY MCThreadAssumption
    DEF Thread!TctThreadAssumption, Thread!Init, LifeInv, Thread!Everyone
<1> QED
    BY <1>1, <1>2 DEF ThreadInv

LEMMA ThreadNext == ThreadInv /\ [Thread!Next]_(Thread!vars) => ThreadInv'
<1> SUFFICES ASSUME ThreadInv, [Thread!Next]_(Thread!vars) PROVE ThreadInv'
    OBVIOUS
<1> USE MCThreadAssumption
    DEF Thread!TctThreadAssumption, ThreadInv, ThreadTypeInv, LifeInv, States,
        Thread!Everyone, Thread!GoTo, Thread!Runs
<1>1. CASE UNCHANGED Thread!vars
    BY <1>1 DEF Thread!vars
<1>2. ASSUME NEW t \in Created, Thread!thrd_create(t) PROVE ThreadInv'
    BY <1>2 DEF Thread!thrd_create
<1>3. ASSUME NEW t \in Created, Thread!ReadStartInfo(t) PROVE ThreadInv'
    BY <1>3 DEF Thread!ReadStartInfo
<1>4. ASSUME NEW t \in Created, Thread!FreeStartInfo(t) PROVE ThreadInv'
    BY <1>4 DEF Thread!FreeStartInfo
<1>5. ASSUME NEW t \in Created, NEW c \in Codes, Thread!End(t, c) PROVE ThreadInv'
    <2>1. /\ state' = [state EXCEPT ![t] = "ending"] /\ exitCode' = [exitCode EXCEPT ![t] = c]
          /\ storage' \subseteq storage /\ UNCHANGED <<info, joined, threadHandle>>
          /\ state[t] = "function"
        BY <1>5 DEF Thread!End
    <2>2. ThreadTypeInv'
        BY <2>1
    <2>3. \A u \in Created \ {t} : state'[u] = state[u] /\ exitCode'[u] = exitCode[u]
        BY <2>1
    <2>4. state'[t] = "ending" /\ joined[t] \in {"none", "error"}
        BY <2>1
    <2> QED
        BY <2>1, <2>2, <2>3, <2>4
<1>6. ASSUME NEW t \in Created, Thread!Ended(t) PROVE ThreadInv'
    BY <1>6 DEF Thread!Ended
<1>7. ASSUME NEW t \in Created, Thread!thrd_detach(t) PROVE ThreadInv'
    BY <1>7 DEF Thread!thrd_detach
<1>8. ASSUME NEW t \in Created, Thread!thrd_join(t) PROVE ThreadInv'
    BY <1>8 DEF Thread!thrd_join
<1>9. ASSUME NEW t \in Thread!Everyone, Thread!Store(t) PROVE ThreadInv'
    BY <1>9 DEF Thread!Store
<1>10. ASSUME NEW t \in Thread!Everyone, Thread!thrd_current(t) PROVE ThreadInv'
    BY <1>10 DEF Thread!thrd_current
<1> QED
    BY <1>1, <1>2, <1>3, <1>4, <1>5, <1>6, <1>7, <1>8, <1>9, <1>10
    DEF Thread!Next, Thread!Thread

LEMMA ThreadOfMC == MCSpec => Thread!Spec
<1>1. MCInit => Thread!Init
    BY DEF MCInit
<1>2. [MCNext]_everything => [Thread!Next]_(Thread!vars)
    BY DEF MCNext, everything, threadVars, Thread!vars
<1> QED
    BY <1>1, <1>2, PTL DEF MCSpec, Thread!Spec

(* Whatever was joined has ended with the code that thrd_join told, its    *)
(* start information and its storage are freed, and its handle is closed:  *)
(* for any number of threads, codes and stores of destructors.             *)
THEOREM JoinIsTheEnd == MCSpec => []JoinedIsOver
<1>1. ThreadInv => JoinedIsOver
    BY DEF ThreadInv, LifeInv, JoinedIsOver, Thread!JoinedIsOver
<1> QED
    BY <1>1, ThreadInit, ThreadNext, ThreadOfMC, PTL DEF Thread!Spec

-----------------------------------------------------------------------------
(* Timed calls                                                             *)

LEMMA ScaleFacts ==
    /\ NsecPerMs \in Nat \ {0} /\ MsPerSec \in Nat \ {0} /\ Seconds \in Nat
    /\ PollMs \in Nat \ {0} /\ PollMs <= MsPerSec
    /\ Time!NsecPerSec \in Nat \ {0}
    /\ Time!NsecPerSec = MsPerSec * NsecPerMs
<1> USE MCTimeAssumption DEF Time!TctTimeAssumption
<1>1. /\ NsecPerMs \in Nat \ {0} /\ MsPerSec \in Nat \ {0} /\ Seconds \in Nat
      /\ PollMs \in Nat \ {0} /\ PollMs <= MsPerSec
    OBVIOUS
<1>2. \A m, k \in Nat \ {0} : m * k \in Nat \ {0} /\ m * k = k * m
    OBVIOUS
<1> QED
    BY <1>1, <1>2 DEF Time!NsecPerSec

LEMMA Products ==
    /\ \A a, b, c \in Int : (a + b) * c = a * c + b * c /\ (a - b) * c = a * c - b * c
    /\ \A a, b, c \in Int : (a * b) * c = a * (b * c)
    /\ \A a, b \in Int : a * b \in Int
    /\ \A a, b \in Int : a >= 1 /\ b >= 0 => a * b >= b
    /\ \A a, b \in Int : a <= -1 /\ b >= 0 => a * b <= -b
    /\ \A a, b, c \in Int : a <= b /\ c >= 0 => a * c <= b * c
<1>1. \A a, b, c \in Int : (a + b) * c = a * c + b * c /\ (a - b) * c = a * c - b * c
    OBVIOUS
<1>2. \A a, b, c \in Int : (a * b) * c = a * (b * c)
    OBVIOUS
<1>3. \A a, b \in Int : a * b \in Int
    OBVIOUS
<1>4. \A a, b \in Int : a >= 1 /\ b >= 0 => a * b >= b
    OBVIOUS
<1>5. \A a, b \in Int : a <= -1 /\ b >= 0 => a * b <= -b
    OBVIOUS
<1>6. \A a, b, c \in Int : a <= b /\ c >= 0 => a * c <= b * c
    OBVIOUS
<1> QED
    BY <1>1, <1>2, <1>3, <1>4, <1>5, <1>6

LEMMA Division ==
    ASSUME NEW a \in Int, NEW b \in Nat \ {0}
    PROVE  /\ a \div b \in Int /\ a % b \in Int
           /\ a = (a \div b) * b + (a % b)
           /\ 0 <= a % b /\ a % b < b
           /\ a >= 0 => a \div b >= 0
<1>1. a \div b \in Int /\ a % b \in Int
    OBVIOUS
<1>2. a = (a \div b) * b + (a % b)
    <2>1. a = b * (a \div b) + (a % b)
        OBVIOUS
    <2>2. b * (a \div b) = (a \div b) * b
        BY <1>1
    <2> QED
        BY <2>1, <2>2
<1>3. 0 <= a % b /\ a % b < b
    OBVIOUS
<1>4. a >= 0 => a \div b >= 0
    OBVIOUS
<1> QED
    BY <1>1, <1>2, <1>3, <1>4

\* Rounding towards zero loses less than a divisor.
LEMMA QuotientNear ==
    ASSUME NEW a \in Int, NEW b \in Nat \ {0}
    PROVE  /\ Time!Quotient(a, b) \in Int
           /\ Time!Quotient(a, b) * b < a + b /\ Time!Quotient(a, b) * b > a - b
<1>1. CASE a >= 0
    <2>1. Time!Quotient(a, b) = a \div b
        BY <1>1 DEF Time!Quotient
    <2> QED
        BY <2>1, Division
<1>2. CASE a < 0
    <2>1. -a \in Int /\ Time!Quotient(a, b) = -((-a) \div b)
        BY <1>2 DEF Time!Quotient
    <2> DEFINE q == (-a) \div b
    <2>2. q \in Int /\ q * b <= -a /\ q * b > -a - b
        BY <2>1, Division
    <2> HIDE DEF q
    <2>3. (-q) * b = -(q * b) /\ q * b \in Int
        BY <2>2
    <2> QED
        BY <2>1, <2>2, <2>3 DEF q
<1> QED
    BY <1>1, <1>2

\* A point in time is its seconds and what is left of them.
LEMMA ClockReads ==
    ASSUME NEW i \in Int
    PROVE  LET c == Time!TimespecOf(i)
           IN  /\ c.sec \in Int /\ c.nsec \in Int /\ 0 <= c.nsec /\ c.nsec < Time!NsecPerSec
               /\ i = c.sec * Time!NsecPerSec + c.nsec
               /\ i >= 0 => c.sec >= 0
BY ScaleFacts, Division DEF Time!TimespecOf

LEMMA TimespecFacts ==
    ASSUME ts \in Time!Timespec
    PROVE  /\ ts.sec \in Int /\ ts.nsec \in Int /\ 0 <= ts.nsec /\ ts.nsec < Time!NsecPerSec
           /\ Time!Instant(ts) \in Int
           /\ Time!Instant(ts) = ts.sec * Time!NsecPerSec + ts.nsec
<1>1. ts.sec \in Int /\ ts.nsec \in Int /\ 0 <= ts.nsec /\ ts.nsec < Time!NsecPerSec
    BY ScaleFacts DEF Time!Timespec
<1>2. ts.sec * Time!NsecPerSec \in Int
    BY <1>1, ScaleFacts, Products
<1> QED
    BY <1>1, <1>2 DEF Time!Instant

\* Comparing seconds first, and then what is left, compares points in time.
LEMMA PassedMeans ==
    ASSUME ts \in Time!Timespec, NEW i \in Int
    PROVE  Time!Passed(Time!TimespecOf(i)) <=> i >= Time!Instant(ts)
<1> DEFINE S == Time!NsecPerSec
           c == Time!TimespecOf(i)
           d == c.sec - ts.sec
<1>1. S \in Nat \ {0}
    BY ScaleFacts
<1>2. /\ c.sec \in Int /\ c.nsec \in Int /\ 0 <= c.nsec /\ c.nsec < S
      /\ i = c.sec * S + c.nsec
    BY ClockReads
<1>3. /\ ts.sec \in Int /\ ts.nsec \in Int /\ 0 <= ts.nsec /\ ts.nsec < S
      /\ Time!Instant(ts) = ts.sec * S + ts.nsec
    BY TimespecFacts
<1>4. Time!Passed(c) <=> d >= 1 \/ (d = 0 /\ c.nsec >= ts.nsec)
    BY <1>2, <1>3 DEF Time!Passed
<1> HIDE DEF S, c
<1>5. d \in Int /\ d * S = c.sec * S - ts.sec * S
    BY <1>1, <1>2, <1>3, Products
<1>6. d * S \in Int /\ c.sec * S \in Int /\ ts.sec * S \in Int
    BY <1>1, <1>2, <1>3, <1>5, Products
<1>7. i - Time!Instant(ts) = d * S + c.nsec - ts.nsec
    BY <1>2, <1>3, <1>5, <1>6
<1>8. /\ d >= 1 => d * S >= S
      /\ d = 0 => d * S = 0
      /\ d <= -1 => d * S <= -S
    BY <1>1, <1>5, Products
<1> HIDE DEF d
<1>9. i >= Time!Instant(ts) <=> d * S + c.nsec - ts.nsec >= 0
    BY <1>2, <1>3, <1>6, <1>7
<1> DEFINE p == d * S
<1>10. /\ i >= Time!Instant(ts) <=> p + c.nsec - ts.nsec >= 0
       /\ p \in Int /\ (d >= 1 => p >= S) /\ (d = 0 => p = 0) /\ (d <= -1 => p <= -S)
    BY <1>6, <1>8, <1>9
<1> HIDE DEF p
<1>11. Time!Passed(c) <=> p + c.nsec - ts.nsec >= 0
    BY <1>1, <1>2, <1>3, <1>4, <1>5, <1>10
<1> QED
    BY <1>10, <1>11 DEF c

\* mtx_timedlock: the milliseconds reach past the time, by two at most.
LEMMA TimedlockNear ==
    ASSUME ts \in Time!Timespec, NEW i \in Int, i < Time!Instant(ts)
    PROVE  LET timeout == Time!TimedlockTimeout(Time!TimespecOf(i)) * NsecPerMs
           IN  /\ timeout \in Int
               /\ timeout >= Time!Instant(ts) - i
               /\ timeout <= Time!Instant(ts) - i + 2 * NsecPerMs
<1> DEFINE S == Time!NsecPerSec
           M == NsecPerMs
           c == Time!TimespecOf(i)
           d == ts.sec - c.sec
           n == ts.nsec - c.nsec
           q == Time!Quotient(n, M)
<1>1. S \in Nat \ {0} /\ M \in Nat \ {0} /\ MsPerSec \in Int /\ S = MsPerSec * M
    BY ScaleFacts
<1>2. /\ c.sec \in Int /\ c.nsec \in Int
      /\ i = c.sec * S + c.nsec
    BY ClockReads
<1>3. /\ ts.sec \in Int /\ ts.nsec \in Int /\ Time!Instant(ts) \in Int
      /\ Time!Instant(ts) = ts.sec * S + ts.nsec
    BY TimespecFacts
<1>4. ~Time!Passed(c)
    BY PassedMeans, <1>3
<1>5. Time!TimedlockTimeout(c) = d * MsPerSec + q + 1
    BY <1>4 DEF Time!TimedlockTimeout
<1> HIDE DEF S, M, c
<1>6. d \in Int /\ n \in Int
    BY <1>2, <1>3
<1>7. q \in Int /\ q * M < n + M /\ q * M > n - M
    BY <1>1, <1>6, QuotientNear
<1>8. d * S = ts.sec * S - c.sec * S /\ d * S \in Int /\ ts.sec * S \in Int /\ c.sec * S \in Int
    BY <1>1, <1>2, <1>3, Products
<1>9. Time!Instant(ts) - i = d * S + n
    BY <1>2, <1>3, <1>8
<1> HIDE DEF d, n, q
<1>10. d * MsPerSec \in Int /\ (d * MsPerSec) * M = d * S /\ q * M \in Int
    BY <1>1, <1>6, <1>7, Products
<1>11. (d * MsPerSec + q + 1) * M = d * S + q * M + M
    <2>1. (d * MsPerSec + q + 1) * M = (d * MsPerSec + q) * M + 1 * M
        BY <1>1, <1>7, <1>10, Products
    <2>2. (d * MsPerSec + q) * M = (d * MsPerSec) * M + q * M
        BY <1>1, <1>7, <1>10, Products
    <2> QED
        BY <1>1, <1>10, <2>1, <2>2
<1>12. /\ d * S + q * M + M \in Int
       /\ d * S + q * M + M >= Time!Instant(ts) - i
       /\ d * S + q * M + M <= Time!Instant(ts) - i + 2 * M
    BY <1>1, <1>6, <1>7, <1>8, <1>9, <1>10
<1> QED
    BY <1>5, <1>11, <1>12 DEF c, M

LEMMA MillisecondsNear ==
    ASSUME NEW t, t.sec \in Int, t.nsec \in Int
    PROVE  LET ms == Time!Milliseconds(t) * NsecPerMs
               i == t.sec * Time!NsecPerSec + t.nsec
           IN  Time!Milliseconds(t) \in Int /\ ms \in Int /\ ms <= i /\ ms > i - NsecPerMs
<1> DEFINE S == Time!NsecPerSec
           M == NsecPerMs
           q == t.nsec \div M
<1>1. S \in Nat \ {0} /\ M \in Nat \ {0} /\ MsPerSec \in Int /\ S = MsPerSec * M
    BY ScaleFacts
<1> HIDE DEF S, M
<1>2. q \in Int /\ q * M \in Int /\ q * M <= t.nsec /\ q * M > t.nsec - M
    <2> DEFINE r == t.nsec % M
    <2>1. q \in Int /\ r \in Int /\ t.nsec = q * M + r /\ 0 <= r /\ r < M
        BY <1>1, Division
    <2> HIDE DEF q, r
    <2>2. q * M \in Int
        BY <1>1, <2>1, Products
    <2> QED
        BY <1>1, <2>1, <2>2
<1>3. Time!Milliseconds(t) = t.sec * MsPerSec + q
    BY DEF Time!Milliseconds, M
<1> HIDE DEF q
<1>4. t.sec * MsPerSec \in Int /\ t.sec * S \in Int /\ (t.sec * MsPerSec) * M = t.sec * S
    BY <1>1, Products
<1>5. (t.sec * MsPerSec + q) * M = t.sec * S + q * M
    BY <1>1, <1>2, <1>4, Products
<1>6. t.sec * MsPerSec + q \in Int
    BY <1>2, <1>4
<1> DEFINE p == t.sec * S
           u == q * M
           v == Time!Milliseconds(t) * M
<1>7. Time!Milliseconds(t) \in Int /\ v = p + u
    BY <1>3, <1>5, <1>6
<1>8. /\ p \in Int /\ u \in Int /\ M \in Int /\ t.nsec \in Int
      /\ u <= t.nsec /\ u > t.nsec - M
    BY <1>1, <1>2, <1>4
<1> HIDE DEF p, u, v
<1>9. v \in Int /\ v <= p + t.nsec /\ v > (p + t.nsec) - M
    BY <1>7, <1>8
<1> QED
    BY <1>7, <1>9 DEF S, M, p, v

\* cnd_timedwait: whole milliseconds of each, so it may fall short by one.
LEMMA TimedwaitNear ==
    ASSUME ts \in Time!Timespec, NEW i \in Int
    PROVE  LET timeout == Time!TimedwaitTimeout(Time!TimespecOf(i)) * NsecPerMs
           IN  /\ timeout \in Int
               /\ i + timeout > Time!Instant(ts) - NsecPerMs
               /\ timeout > 0 => i + timeout <= Time!Instant(ts) + NsecPerMs
<1> DEFINE M == NsecPerMs
           c == Time!TimespecOf(i)
           a == Time!Milliseconds(ts)
           b == Time!Milliseconds(c)
           T == Time!Instant(ts)
<1>1. M \in Nat \ {0}
    BY ScaleFacts
<1>2. T \in Int /\ a \in Int /\ a * M \in Int /\ a * M <= T /\ a * M > T - M
    BY TimespecFacts, MillisecondsNear
<1>3. b \in Int /\ b * M \in Int /\ b * M <= i /\ b * M > i - M
    BY ClockReads, MillisecondsNear
<1>4. Time!TimedwaitTimeout(c) = IF a > b THEN a - b ELSE 0
    BY DEF Time!TimedwaitTimeout
<1> HIDE DEF M, c, a, b, T
<1>5. (a - b) * M = a * M - b * M /\ 0 * M = 0
    BY <1>1, <1>2, <1>3, Products
<1>6. ~(a > b) => a * M <= b * M
    BY <1>1, <1>2, <1>3, Products
<1>7. CASE a > b
    <2>1. Time!TimedwaitTimeout(c) * M = a * M - b * M
        BY <1>4, <1>5, <1>7
    <2>2. /\ a * M - b * M \in Int /\ i + (a * M - b * M) > T - M
          /\ i + (a * M - b * M) <= T + M
        BY <1>1, <1>2, <1>3
    <2> QED
        BY <2>1, <2>2 DEF M, c, T
<1>8. CASE ~(a > b)
    <2>1. Time!TimedwaitTimeout(c) * M = 0
        BY <1>4, <1>5, <1>8
    <2>2. i > T - M
        BY <1>1, <1>2, <1>3, <1>6, <1>8
    <2> QED
        BY <2>1, <2>2, <1>1, <1>2 DEF M, c, T
<1> QED
    BY <1>7, <1>8

\* thrd_sleep: the milliseconds of a duration, a part of one counted as one.
LEMMA SleepNear ==
    ASSUME NEW i \in Int, i >= 0
    PROVE  LET ms == Time!SleepMs(Time!TimespecOf(i)) * NsecPerMs
           IN  ms \in Int /\ ms >= i /\ ms <= i + NsecPerMs
<1> DEFINE M == NsecPerMs
           c == Time!TimespecOf(i)
           a == Time!Milliseconds(c)
           r == c.nsec % M
           e == IF r = 0 THEN 0 ELSE 1
<1>1. M \in Nat \ {0}
    BY ScaleFacts
<1>2. c.sec \in Int /\ c.nsec \in Int /\ i = c.sec * Time!NsecPerSec + c.nsec
    BY ClockReads
<1>3. a \in Int /\ a * M \in Int /\ a * M <= i /\ a * M > i - M
    BY <1>2, MillisecondsNear
<1>4. r = 0 => a * M = i
    <2> DEFINE q == c.nsec \div M
    <2>1. q \in Int /\ (r = 0 => q * M = c.nsec)
        BY <1>1, <1>2, Division
    <2>2. a = c.sec * MsPerSec + q
        BY DEF Time!Milliseconds
    <2> HIDE DEF q, c
    <2>3. c.sec * MsPerSec \in Int /\ (c.sec * MsPerSec) * M = c.sec * Time!NsecPerSec
        BY <1>1, <1>2, ScaleFacts, Products
    <2>4. (c.sec * MsPerSec + q) * M = c.sec * Time!NsecPerSec + q * M
        BY <1>1, <2>1, <2>3, Products
    <2> QED
        BY <1>2, <2>1, <2>2, <2>4
<1>5. Time!SleepMs(c) = a + e
    <2>1. c.sec * MsPerSec \in Int /\ c.nsec \div M \in Int
        BY <1>1, <1>2, ScaleFacts, Products, Division
    <2> QED
        BY <2>1 DEF Time!SleepMs, Time!Milliseconds
<1> HIDE DEF M, c, a, r
<1>6. (a + e) * M = a * M + e * M /\ 0 * M = 0 /\ 1 * M = M
    BY <1>1, <1>3, Products
<1> QED
    BY <1>1, <1>3, <1>4, <1>5, <1>6 DEF M, c

\* The polling lock sleeps no further than the time it waits for: a poll is
\* less than a second, which is all it looks at if a second is left.
LEMMA PollNear ==
    ASSUME ts \in Time!Timespec, NEW i \in Int, i < Time!Instant(ts)
    PROVE  LET time == Time!PollSleep(Time!TimespecOf(i))
           IN  time \in Int /\ i + time <= Time!Instant(ts)
<1> DEFINE S == Time!NsecPerSec
           M == NsecPerMs
           c == Time!TimespecOf(i)
           d == Time!Duration(c)
           s == ts.sec - c.sec
           n == ts.nsec - c.nsec
           P == PollMs * M
           T == Time!Instant(ts)
<1>1. S \in Nat \ {0} /\ M \in Nat \ {0} /\ P \in Int /\ P <= S
    BY ScaleFacts, Products
<1>2. /\ c.sec \in Int /\ c.nsec \in Int /\ 0 <= c.nsec /\ c.nsec < S
      /\ i = c.sec * S + c.nsec
    BY ClockReads
<1>3. /\ ts.sec \in Int /\ ts.nsec \in Int /\ 0 <= ts.nsec /\ ts.nsec < S
      /\ T \in Int /\ T = ts.sec * S + ts.nsec
    BY TimespecFacts
<1>4. d = IF n < 0 THEN [sec |-> s - 1, nsec |-> n + S] ELSE [sec |-> s, nsec |-> n]
    BY DEF Time!Duration
<1>5. Time!PollSleep(c) = IF d.sec # 0 \/ d.nsec > P THEN P ELSE d.nsec
    BY DEF Time!PollSleep
<1> HIDE DEF S, M, c, P, T, d
<1>6. s \in Int /\ n \in Int /\ n < S /\ n > -S
    BY <1>1, <1>2, <1>3
<1>7. s * S = ts.sec * S - c.sec * S /\ (s - 1) * S = s * S - S
      /\ s * S \in Int /\ ts.sec * S \in Int /\ c.sec * S \in Int
    BY <1>1, <1>2, <1>3, Products
<1>8. T - i = s * S + n
    <2> DEFINE p == s * S
               a == ts.sec * S
               b == c.sec * S
    <2>1. p = a - b /\ p \in Int /\ a \in Int /\ b \in Int
        BY <1>7
    <2>2. T = a + ts.nsec /\ i = b + c.nsec
        BY <1>2, <1>3
    <2> HIDE DEF p, a, b
    <2>3. T - i = p + n
        BY <2>1, <2>2, <1>2, <1>3
    <2> QED
        BY <2>3 DEF p
<1> HIDE DEF s, n
<1>9. /\ d.sec \in Int /\ d.nsec \in Int /\ 0 <= d.nsec /\ d.nsec < S
      /\ T - i = d.sec * S + d.nsec
    <2>1. CASE n < 0
        <3>1. d.sec = s - 1 /\ d.nsec = n + S
            BY <2>1, <1>4
        <3>2. d.sec * S = s * S - S
            BY <3>1, <1>7
        <3> DEFINE p == s * S
                   e == d.sec * S
        <3>3. e = p - S /\ p \in Int /\ T - i = p + n
            BY <3>2, <1>7, <1>8
        <3> HIDE DEF p, e
        <3>4. T - i = e + d.nsec
            BY <3>1, <3>3, <1>1, <1>6
        <3> QED
            BY <2>1, <3>1, <3>4, <1>1, <1>6 DEF e
    <2>2. CASE ~(n < 0)
        <3>1. d.sec = s /\ d.nsec = n
            BY <2>2, <1>4
        <3> QED
            BY <2>2, <3>1, <1>6, <1>8
    <2> QED
        BY <2>1, <2>2
<1> DEFINE e == d.sec * S
<1>10. /\ e \in Int /\ T - i = e + d.nsec
       /\ d.sec >= 1 => e >= S
       /\ d.sec = 0 => e = 0
       /\ d.sec <= -1 => e <= -S
    BY <1>1, <1>9, Products
<1> HIDE DEF e
<1>11. T - i > 0
    BY <1>3 DEF T
<1>12. Time!PollSleep(c) \in Int /\ Time!PollSleep(c) <= T - i
    <2>1. d.sec \in Int /\ d.nsec \in Int /\ 0 <= d.nsec /\ d.nsec < S /\ T - i \in Int
        BY <1>9, <1>10
    <2> DEFINE left == T - i
    <2>2. left = e + d.nsec /\ left > 0 /\ left \in Int
        BY <1>10, <1>11, <2>1
    <2> HIDE DEF left
    <2>3. CASE d.sec >= 1
        BY <1>1, <1>5, <1>10, <2>1, <2>2, <2>3 DEF left
    <2>4. CASE d.sec = 0
        BY <1>1, <1>5, <1>10, <2>1, <2>2, <2>4 DEF left
    <2>5. CASE d.sec <= -1
        BY <1>1, <1>10, <2>1, <2>2, <2>5
    <2> QED
        BY <2>1, <2>3, <2>4, <2>5
<1>13. i + Time!PollSleep(c) <= T
    BY <1>12, <1>3
<1> QED
    BY <1>12, <1>13 DEF c, T

-----------------------------------------------------------------------------
TimeTypeInv ==
    /\ call \in {"mtx_timedlock_win32", "mtx_timedlock_polling", "cnd_timedwait", "thrd_sleep"}
    /\ ts \in Time!Timespec
    /\ now \in Int /\ sleep \in Int

\* By how much a call may end before its time.
Early == IF call = "cnd_timedwait" THEN NsecPerMs ELSE 1

\* A call that sleeps wakes up neither early nor late - the polling lock,
\* which looks at the clock again then, not late; a sleep has a future.
WakeInv ==
    /\ timePc = "asleep" /\ call # "mtx_timedlock_polling" =>
          now + sleep > Time!Instant(ts) - Early
    /\ timePc = "asleep" /\ sleep > 0 =>
          now + sleep <= Time!Instant(ts)
                         + IF call = "mtx_timedlock_polling" THEN 0 ELSE 2 * NsecPerMs
    /\ timePc = "thrd_timedout" => now > Time!Instant(ts) - Early
    /\ timePc = "compute" /\ call = "thrd_sleep" => Time!Instant(ts) >= now

TimeInv == TimeTypeInv /\ WakeInv

LEMMA TimeStart == Time!Init \/ NoTime => TimeInv
<1> USE ScaleFacts DEF TimeInv, TimeTypeInv, WakeInv
<1>1. CASE Time!Init
    <2>1. Seconds * Time!NsecPerSec \in Int
        BY Products
    <2> QED
        BY <1>1, <2>1, MCTimeAssumption DEF Time!Init, Time!TctTimeAssumption
<1>2. CASE NoTime
    <2>1. ts \in Time!Timespec
        BY <1>2 DEF NoTime, Time!Timespec
    <2>2. Time!Instant(ts) = 0
        BY <1>2, Products DEF NoTime, Time!Instant
    <2> QED
        BY <1>2, <2>1, <2>2 DEF NoTime
<1> QED
    BY <1>1, <1>2

LEMMA ComputeKeeps == TimeInv /\ Time!Compute => TimeInv'
<1> SUFFICES ASSUME TimeInv, Time!Compute PROVE TimeInv'
    OBVIOUS
<1> DEFINE T == Time!Instant(ts)
           c == Time!TimespecOf(now)
<1>1. /\ timePc = "compute" /\ UNCHANGED <<call, ts, now>>
      /\ T' = T /\ Early' = Early
    BY DEF Time!Compute, Time!Asleep, Early, Time!Instant
<1>2. /\ ts \in Time!Timespec /\ now \in Int /\ T \in Int
      /\ NsecPerMs \in Nat \ {0}
    BY TimespecFacts, ScaleFacts DEF TimeInv, TimeTypeInv
<1>3. CASE call = "mtx_timedlock_win32" /\ Time!Asleep(Time!TimedlockTimeout(c) * NsecPerMs)
    <2>1. timePc' = "asleep" /\ sleep' = Time!TimedlockTimeout(c) * NsecPerMs
        BY <1>3 DEF Time!Asleep
    <2>2. CASE now < T
        <3>1. sleep' \in Int /\ sleep' >= T - now /\ sleep' <= T - now + 2 * NsecPerMs
            BY <1>2, <2>1, <2>2, TimedlockNear
        <3> QED
            BY <1>1, <1>2, <1>3, <2>1, <3>1 DEF TimeInv, TimeTypeInv, WakeInv, Early
    <2>3. CASE ~(now < T)
        <3>1. Time!TimedlockTimeout(c) = 0
            BY <1>2, <2>3, PassedMeans DEF Time!TimedlockTimeout
        <3>2. sleep' = 0
            BY <1>2, <2>1, <3>1
        <3> QED
            BY <1>1, <1>2, <1>3, <2>1, <2>3, <3>2 DEF TimeInv, TimeTypeInv, WakeInv, Early
    <2> QED
        BY <2>2, <2>3
<1>4. CASE call = "cnd_timedwait" /\ Time!Asleep(Time!TimedwaitTimeout(c) * NsecPerMs)
    <2>1. timePc' = "asleep" /\ sleep' = Time!TimedwaitTimeout(c) * NsecPerMs
        BY <1>4 DEF Time!Asleep
    <2>2. /\ sleep' \in Int /\ now + sleep' > T - NsecPerMs
          /\ sleep' > 0 => now + sleep' <= T + NsecPerMs
        BY <1>2, <2>1, TimedwaitNear
    <2> QED
        BY <1>1, <1>2, <1>4, <2>1, <2>2 DEF TimeInv, TimeTypeInv, WakeInv, Early
<1>5. CASE call = "thrd_sleep"
           /\ Time!Asleep(Time!SleepMs(Time!TimespecOf(T - now)) * NsecPerMs)
    <2>1. timePc' = "asleep" /\ sleep' = Time!SleepMs(Time!TimespecOf(T - now)) * NsecPerMs
        BY <1>5 DEF Time!Asleep
    <2>2. T - now \in Int /\ T - now >= 0
        BY <1>1, <1>2, <1>5 DEF TimeInv, WakeInv
    <2>3. sleep' \in Int /\ sleep' >= T - now /\ sleep' <= T - now + NsecPerMs
        BY <2>1, <2>2, SleepNear
    <2> QED
        BY <1>1, <1>2, <1>5, <2>1, <2>3 DEF TimeInv, TimeTypeInv, WakeInv, Early
<1>6. CASE call = "mtx_timedlock_polling" /\ ~Time!Passed(c) /\ Time!Asleep(Time!PollSleep(c))
    <2>1. timePc' = "asleep" /\ sleep' = Time!PollSleep(c) /\ now < T
        BY <1>2, <1>6, PassedMeans DEF Time!Asleep
    <2>2. sleep' \in Int /\ now + sleep' <= T
        BY <1>2, <2>1, PollNear
    <2> QED
        BY <1>1, <1>2, <1>6, <2>1, <2>2 DEF TimeInv, TimeTypeInv, WakeInv, Early
<1>7. CASE /\ call = "mtx_timedlock_polling" /\ Time!Passed(c)
           /\ timePc' = "thrd_timedout" /\ UNCHANGED <<call, ts, start, now, sleep, remaining>>
    <2>1. now >= T
        BY <1>2, <1>7, PassedMeans
    <2> QED
        BY <1>1, <1>2, <1>7, <2>1 DEF TimeInv, TimeTypeInv, WakeInv, Early
<1> QED
    BY <1>3, <1>4, <1>5, <1>6, <1>7 DEF Time!Compute

LEMMA TimeNext == TimeInv /\ [Time!Next]_(Time!vars) => TimeInv'
<1> SUFFICES ASSUME TimeInv, [Time!Next]_(Time!vars) PROVE TimeInv'
    OBVIOUS
<1>1. Time!Instant(ts) \in Int /\ NsecPerMs \in Nat \ {0}
    BY TimespecFacts, ScaleFacts DEF TimeInv, TimeTypeInv
<1>2. CASE Time!Compute
    BY <1>2, ComputeKeeps
<1>3. UNCHANGED ts => Time!Instant(ts)' = Time!Instant(ts)
    BY DEF Time!Instant
<1>4. CASE Time!Tick
    BY <1>1, <1>3, <1>4 DEF Time!Tick, TimeInv, TimeTypeInv, WakeInv, Early
<1>5. CASE Time!Interrupt
    BY <1>1, <1>3, <1>5 DEF Time!Interrupt, TimeInv, TimeTypeInv, WakeInv, Early
<1>6. CASE Time!Awake
    BY <1>1, <1>3, <1>6 DEF Time!Awake, TimeInv, TimeTypeInv, WakeInv, Early
<1>7. CASE UNCHANGED Time!vars
    BY <1>1, <1>3, <1>7 DEF Time!vars, TimeInv, TimeTypeInv, WakeInv, Early
<1> QED
    BY <1>2, <1>4, <1>5, <1>6, <1>7 DEF Time!Next

(* Timed calls end neither early nor late, whatever the time, the clock    *)
(* and the scale of both: if a poll is less than a second.                 *)
THEOREM CallsEndOnTime == MCSpec => []OnTime
<1>1. MCInit => TimeInv
    BY TimeStart DEF MCInit
<1>2. TimeInv /\ [MCNext]_everything => TimeInv'
    <2>1. [MCNext]_everything => [Time!Next]_(Time!vars)
        BY DEF MCNext, everything, timeVars, Time!vars
    <2> QED
        BY <2>1, TimeNext
<1>3. TimeInv => OnTime
    <2> SUFFICES ASSUME TimeInv PROVE OnTime
        OBVIOUS
    <2>1. Time!Instant(ts) \in Int /\ NsecPerMs \in Nat \ {0} /\ now \in Int /\ sleep \in Int
        BY TimespecFacts, ScaleFacts DEF TimeInv, TimeTypeInv
    <2> QED
        BY <2>1 DEF TimeInv, WakeInv, Early, OnTime, Time!OnTime
<1> QED
    BY <1>1, <1>2, <1>3, PTL DEF MCSpec

-----------------------------------------------------------------------------
(* Thread-specific storage                                                 *)

\* The tail of the list never moves on, so a third key would lose the second
\* one's node: the list is whole if there are no more than two keys.
TwoKeys == \A k, l, m \in Keys : k = l \/ l = m \/ k = m

InUse == tssPc \notin {"free", "ended"}

\* A node that malloc has not given out yet is of any key.
NodeRecord ==
    [key : Keys \cup {CHOOSE k \in Keys : TRUE}, value : BOOLEAN, next : Tss!Ends]

TssTypeInv ==
    /\ keys \subseteq Keys /\ dtors \subseteq keys /\ tssOwed \subseteq Keys
    /\ slot \in [Keys -> Tss!Ends] /\ allocated \subseteq Nodes
    /\ node \in [Nodes -> NodeRecord]
    /\ head \in Tss!Ends /\ data \in Tss!Ends
    /\ tssPc \in {"running", "round", "walk", "next", "destructor", "free", "ended"}
    /\ iteration \in 0 .. TSS_DTOR_ITERATIONS /\ again \in BOOLEAN

\* The list is the head and perhaps one more; what malloc gave out is in it.
ChainInv ==
    /\ head \in allocated \cup {NoNode}
    /\ InUse => tail = head
    /\ tssPc = "ended" => head = NoNode
    /\ \A n \in allocated :
          /\ node[n].key \in Keys
          /\ head # NoNode /\ (n = head \/ n = node[head].next)
          /\ n = head => node[n].next \in (allocated \ {n}) \cup {NoNode}
          /\ n # head => node[n].next = NoNode

\* Slots and nodes in use point to one another, and the nodes with a value
\* are those of the keys whose value is still owed to its destructor.
SlotInv ==
    /\ InUse => \A k \in Keys :
                   /\ slot[k] # NoNode => slot[k] \in allocated /\ node[slot[k]].key = k
                   /\ k \in tssOwed => slot[k] # NoNode
    /\ InUse => \A n \in allocated : slot[node[n].key] = n
    /\ \A n \in allocated : node[n].value <=> node[n].key \in tssOwed

\* A round that has called no destructor leaves no value behind it, and it
\* is after such a round, or after the last, that the nodes are freed.
RoundInv ==
    /\ tssPc \in {"walk", "next", "destructor"} =>
          data \in allocated \cup {NoNode} /\ iteration < TSS_DTOR_ITERATIONS
    /\ tssPc \in {"next", "destructor"} => data # NoNode
    /\ tssPc = "destructor" => again
    /\ tssPc = "walk" /\ ~again =>
          \A n \in allocated :
             node[n].value => n = data \/ (data = head /\ n = node[head].next)
    /\ tssPc = "next" /\ ~again =>
          \A n \in allocated : node[n].value => data = head /\ n = node[head].next
    /\ tssPc = "round" /\ ~again => \A n \in allocated : ~node[n].value
    /\ tssPc \in {"free", "ended"} /\ tssOwed # {} => iteration = TSS_DTOR_ITERATIONS

TssInv == TssTypeInv /\ ChainInv /\ SlotInv /\ RoundInv

LEMMA TssInit == Tss!Init => TssInv
<1> SUFFICES ASSUME Tss!Init PROVE TssInv
    OBVIOUS
<1> USE MCTssAssumption DEF Tss!Init, Tss!TctTssAssumption, Tss!Ends, InUse
<1>1. TssTypeInv
    <2>1. again \in BOOLEAN
        BY Zenon
    <2>2. node \in [Nodes -> NodeRecord]
        BY DEF NodeRecord
    <2> QED
        BY <2>1, <2>2 DEF TssTypeInv
<1>2. ChainInv
    BY DEF ChainInv
<1>3. SlotInv
    BY DEF SlotInv
<1>4. RoundInv
    BY DEF RoundInv
<1> QED
    BY <1>1, <1>2, <1>3, <1>4 DEF TssInv

LEMMA TssNext == TwoKeys /\ TssInv /\ [Tss!Next]_(Tss!vars) => TssInv'
<1> SUFFICES ASSUME TwoKeys, TssInv, [Tss!Next]_(Tss!vars) PROVE TssInv'
    OBVIOUS
<1> USE MCTssAssumption
    DEF Tss!TctTssAssumption, Tss!Ends, Tss!list, Tss!cleanup, InUse,
        TssInv, TssTypeInv, ChainInv, SlotInv, RoundInv
<1>1. CASE UNCHANGED Tss!vars
    BY <1>1 DEF Tss!vars
<1>2. ASSUME NEW k \in Keys, NEW b \in BOOLEAN, Tss!tss_create(k, b) PROVE TssInv'
    BY <1>2 DEF Tss!tss_create
<1>3. ASSUME NEW k \in Keys, NEW b \in BOOLEAN, Tss!tss_set(k, b) PROVE TssInv'
    <2>1. /\ tssPc \in {"running", "destructor"} /\ k \in keys
          /\ UNCHANGED <<keys, dtors, tssPc, data, iteration, again>>
          /\ tssOwed' = IF b THEN tssOwed \cup {k} ELSE tssOwed \ {k}
        BY <1>3 DEF Tss!tss_set, Tss!ProgramRuns, Tss!SetOld, Tss!SetNew, Tss!Own
    <2>2. CASE Tss!SetOld(k, b)
        <3> DEFINE n == slot[k]
        <3>1. /\ n \in allocated /\ node[n].key = k
              /\ node' = [node EXCEPT ![n].value = b]
              /\ UNCHANGED <<allocated, head, tail, slot>>
            BY <2>1, <2>2 DEF Tss!SetOld
        <3> HIDE DEF n
        <3>2. \A m \in Nodes : /\ node'[m].key = node[m].key /\ node'[m].next = node[m].next
                              /\ node'[m].value = IF m = n THEN b ELSE node[m].value
            BY <3>1
        <3>3. \A m \in allocated : node[m].key = k => m = n
            BY <2>1, <3>1
        <3>4. TssTypeInv'
            <4>1. ASSUME NEW r \in NodeRecord PROVE [r EXCEPT !.value = b] \in NodeRecord
                BY <4>1 DEF NodeRecord
            <4>2. node' \in [Nodes -> NodeRecord]
                BY <3>1, <4>1
            <4> QED
                BY <2>1, <3>1, <4>2
        <3>5. ChainInv'
            BY <2>1, <3>1, <3>2
        <3>6. SlotInv'
            BY <2>1, <3>1, <3>2, <3>3
        <3>7. RoundInv'
            BY <2>1, <3>1, <3>2
        <3> QED
            BY <3>4, <3>5, <3>6, <3>7
    <2>3. CASE Tss!SetNew(k, b)
        <3>1. PICK n \in Nodes : Tss!Append(k, n, b)
            BY <2>3 DEF Tss!SetNew
        <3>2. /\ slot[k] = NoNode /\ n \notin allocated /\ tail = head
              /\ allocated' = allocated \cup {n}
              /\ node' = [m \in Nodes |->
                            IF m = n THEN [key |-> k, value |-> b, next |-> NoNode]
                            ELSE IF m = tail THEN [node[m] EXCEPT !.next = n] ELSE node[m]]
              /\ head' = IF head = NoNode THEN n ELSE head
              /\ tail' = IF tail = NoNode THEN n ELSE tail
              /\ slot' = [slot EXCEPT ![k] = n]
            BY <2>1, <2>3, <3>1 DEF Tss!SetNew, Tss!Append
        \* There is no third key.
        <3>3. head # NoNode => node[head].next = NoNode /\ allocated = {head}
            <4> SUFFICES ASSUME head # NoNode, node[head].next \in allocated \ {head} PROVE FALSE
                OBVIOUS
            <4> DEFINE l == node[head].key
                       m == node[node[head].next].key
            <4>1. l \in Keys /\ m \in Keys /\ slot[l] = head /\ slot[m] = node[head].next
                BY <2>1
            <4>2. l # m /\ l # k /\ m # k
                BY <3>2, <4>1
            <4> QED
                BY <4>1, <4>2 DEF TwoKeys
        <3>4. \A m \in allocated : node[m].key # k /\ m # n
            BY <2>1, <3>2
        <3>5. /\ node'[n].key = k /\ node'[n].value = b /\ node'[n].next = NoNode
              /\ \A m \in allocated :
                    /\ node'[m].key = node[m].key /\ node'[m].value = node[m].value
                    /\ node'[m].next = IF m = head THEN n ELSE node[m].next
            BY <3>2, <3>4
        <3>6. TssTypeInv'
            <4>1. b \in BOOLEAN
                OBVIOUS
            <4>2. node' \in [Nodes -> NodeRecord]
                BY <3>2, <4>1 DEF NodeRecord
            <4> QED
                BY <2>1, <3>2, <4>2
        <3>7. ChainInv'
            BY <2>1, <3>2, <3>3, <3>5
        <3>8. SlotInv'
            BY <2>1, <3>2, <3>4, <3>5
        <3>9. RoundInv'
            BY <2>1, <3>2
        <3> QED
            BY <3>6, <3>7, <3>8, <3>9
    <2> QED
        BY <1>3, <2>2, <2>3 DEF Tss!tss_set
<1>4. ASSUME NEW k \in Keys, Tss!tss_delete(k) PROVE TssInv'
    BY <1>4 DEF Tss!tss_delete, Tss!Unlink
<1>5. CASE Tss!Ended
    BY <1>5 DEF Tss!Ended
<1>6. CASE Tss!Round
    <2>1. CASE again /\ iteration < TSS_DTOR_ITERATIONS
        BY <1>6, <2>1 DEF Tss!Round
    <2>2. CASE ~(again /\ iteration < TSS_DTOR_ITERATIONS)
        <3>1. ~again => tssOwed = {}
            BY <1>6 DEF Tss!Round
        <3>2. /\ tssPc' = "free" /\ tssPc = "round"
              /\ UNCHANGED <<keys, dtors, slot, node, allocated, head, tail, data, iteration, again, tssOwed>>
            BY <1>6, <2>2 DEF Tss!Round
        <3> QED
            BY <2>2, <3>1, <3>2
    <2> QED
        BY <2>1, <2>2
<1>7. CASE Tss!Visit
    <2> DEFINE k == node[data].key
    <2>1. /\ tssPc = "walk" /\ data \in allocated /\ k \in Keys
          /\ tssPc' \in {"destructor", "next"} /\ again' \in BOOLEAN
          /\ tssPc' = "destructor" => again'
          /\ tssPc' = "next" => again' = again
          /\ node' = [node EXCEPT ![data].value = FALSE]
          /\ tssOwed' = tssOwed \ {k}
          /\ UNCHANGED <<keys, dtors, allocated, head, tail, slot, data, iteration>>
        BY <1>7, Zenon DEF Tss!Visit
    <2> HIDE DEF k
    <2>2. \A m \in Nodes : /\ node'[m].key = node[m].key /\ node'[m].next = node[m].next
                          /\ node'[m].value = IF m = data THEN FALSE ELSE node[m].value
        BY <2>1
    <2>3. \A m \in allocated : node[m].key = k => m = data
        BY <2>1 DEF k
    <2>4. TssTypeInv'
        <3>1. node' \in [Nodes -> NodeRecord]
            <4>1. ASSUME NEW r \in NodeRecord PROVE [r EXCEPT !.value = FALSE] \in NodeRecord
                BY <4>1 DEF NodeRecord
            <4> QED
                BY <2>1, <4>1
        <3>2. again' \in BOOLEAN
            BY <2>1, Zenon
        <3>3. tssPc' \in {"walk", "next", "destructor"} /\ tssOwed' \subseteq Keys
            BY <2>1
        <3> HIDE DEF Tss!Ends
        <3> QED
            BY <2>1, <3>1, <3>2, <3>3
    <2>5. ChainInv'
        BY <2>1, <2>2
    <2>6. SlotInv'
        BY <2>1, <2>2, <2>3 DEF k
    <2>7. RoundInv'
        BY <2>1, <2>2
    <2> QED
        BY <2>4, <2>5, <2>6, <2>7
<1>8. CASE Tss!Skip
    BY <1>8 DEF Tss!Skip
<1>9. CASE Tss!DestructorReturns
    BY <1>9 DEF Tss!DestructorReturns
<1>10. CASE Tss!NextNode
    BY <1>10 DEF Tss!NextNode
<1>11. CASE Tss!RoundEnds
    BY <1>11 DEF Tss!RoundEnds
<1>12. CASE Tss!Free
    BY <1>12 DEF Tss!Free
<1>13. CASE Tss!Freed
    BY <1>13 DEF Tss!Freed
<1>14. [Tss!Next]_(Tss!vars)
    OBVIOUS
<1> HIDE DEF TssInv
<1> QED
    BY <1>1, <1>2, <1>3, <1>4, <1>5, <1>6, <1>7, <1>8, <1>9, <1>10, <1>11, <1>12, <1>13, <1>14
    DEF Tss!Next, Tss!Cleanup

LEMMA TssOfMC == MCSpec => Tss!Spec
<1>1. MCInit => Tss!Init
    BY DEF MCInit
<1>2. [MCNext]_everything => [Tss!Next]_(Tss!vars)
    BY DEF MCNext, everything, tssVars, Tss!vars, Tss!list, Tss!cleanup
<1> QED
    BY <1>1, <1>2, PTL DEF MCSpec, Tss!Spec

\* The nodes in use are closed under next, so the list is within them.
LEMMA LinkedInUse == TssInv => Tss!Linked \subseteq allocated
BY MCTssAssumption DEF Tss!TctTssAssumption, TssInv, TssTypeInv, ChainInv, Tss!Linked, Tss!Ends

(* What a thread leaves in its storage is given to its destructors, round  *)
(* after round until they leave nothing, and no node outlives it: for any  *)
(* number of rounds and of nodes, and for two keys, of which one is        *)
(* deleted only when the other is not set.                                 *)
THEOREM ValuesAreDestroyed == TwoKeys => (MCSpec => []ValuesDestroyed)
<1> SUFFICES ASSUME TwoKeys PROVE MCSpec => []ValuesDestroyed
    OBVIOUS
<1>1. TssInv /\ [Tss!Next]_(Tss!vars) => TssInv'
    BY TssNext
<1>2. TssInv => ValuesDestroyed
    <2> SUFFICES ASSUME TssInv PROVE ValuesDestroyed
        OBVIOUS
    <2>1. \A n \in Tss!Linked : node[n].value <=> node[n].key \in tssOwed
        BY LinkedInUse DEF TssInv, SlotInv
    <2>2. tssPc = "ended" /\ tssOwed # {} => iteration = TSS_DTOR_ITERATIONS
        BY DEF TssInv, RoundInv
    <2>3. tssPc = "ended" => allocated = {}
        BY DEF TssInv, ChainInv
    <2> QED
        BY <2>1, <2>2, <2>3 DEF ValuesDestroyed, Tss!ValuesDestroyed
<1> QED
    BY <1>1, <1>2, TssInit, TssOfMC, PTL DEF Tss!Spec
=============================================================================
