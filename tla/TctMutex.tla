------------------------------ MODULE TctMutex ------------------------------
(***************************************************************************)
(* The mutex of lib/tinycthread on its two platforms: a pthread mutex, or  *)
(* on Windows a critical section (a mutex object, for a timed mutex) with  *)
(* a flag that makes the recursive system lock refuse its own owner.       *)
(*                                                                         *)
(* Threads call the functions in any order, but unlock only what they      *)
(* hold.  The system's locks are external: owner and depth.                *)
(***************************************************************************)
EXTENDS Integers, FiniteSets

CONSTANTS
    Threads, NoThread,
    Kinds,              \* the (platform, type) pairs a mutex may be of
    MaxDepth            \* bound: how often a recursive mutex is locked

\* "posix_polling" is the fallback where pthread_mutex_timedlock is missing.
Platforms == {"win32", "posix", "posix_polling"}
KindRecord == [platform : Platforms, recursive : BOOLEAN, timed : BOOLEAN]

ASSUME TctMutexAssumption ==
    /\ NoThread \notin Threads
    /\ Kinds \subseteq KindRecord
    /\ MaxDepth \in Nat \ {0}

VARIABLES
    kind,               \* mtx->mRecursive, mtx->mTimed and the platform
    handle,             \* mtx->mHandle: the thread that owns it, how often
    alreadyLocked,      \* mtx->mAlreadyLocked
    pc,                 \* where each thread is
    held                \* how often each thread was told it has the mutex

mutexVars == <<kind, handle, alreadyLocked, held>>
vars == <<kind, handle, alreadyLocked, held, pc>>

OnWindows == kind.platform = "win32"
Free == [owner |-> NoThread, depth |-> 0]

Init ==
    /\ kind \in Kinds
    /\ handle = Free
    /\ alreadyLocked = FALSE
    /\ pc = [t \in Threads |-> "idle"]
    /\ held = [t \in Threads |-> 0]

GoTo(t, label) == pc' = [pc EXCEPT ![t] = label]

\* The system's lock: both kinds on Windows let their owner in again.
Enters(t) ==
    \/ handle.owner = NoThread
    \/ handle.owner = t /\ (OnWindows \/ kind.recursive)

Enter(t) == handle' = [owner |-> t, depth |-> handle.depth + 1]

Leave == handle' = IF handle.depth = 1 THEN Free ELSE [handle EXCEPT !.depth = @ - 1]

Told(t, change) == held' = [held EXCEPT ![t] = @ + change]

-----------------------------------------------------------------------------
(* mtx_lock and mtx_timedlock.  On Windows the mutex has been entered      *)
(* before its flag is looked at.                                           *)

Call(t, function) ==
    /\ pc[t] = "idle" /\ held[t] < MaxDepth
    /\ function = "mtx_timedlock" /\ OnWindows => kind.timed
    /\ GoTo(t, function)
    /\ UNCHANGED mutexVars

Acquire(t) ==
    /\ pc[t] \in {"mtx_lock", "mtx_timedlock"}
    /\ Enters(t) /\ Enter(t)
    /\ IF OnWindows /\ ~kind.recursive
       THEN GoTo(t, "spin") /\ UNCHANGED held
       ELSE GoTo(t, "idle") /\ Told(t, 1)
    /\ UNCHANGED <<kind, alreadyLocked>>

\* Mutant: the flag is set without waiting for it.
SpinNot(t) ==
    /\ pc[t] = "spin"
    /\ alreadyLocked' = TRUE
    /\ GoTo(t, "idle") /\ Told(t, 1)
    /\ UNCHANGED <<kind, handle>>

\* while (mAlreadyLocked) Sleep(1); mAlreadyLocked = TRUE
Spin(t) ==
    /\ pc[t] = "spin" /\ ~alreadyLocked
    /\ alreadyLocked' = TRUE
    /\ GoTo(t, "idle") /\ Told(t, 1)
    /\ UNCHANGED <<kind, handle>>

\* The time is up, or was when it was called.
TimeOut(t) ==
    /\ pc[t] = "mtx_timedlock" /\ ~Enters(t)
    /\ GoTo(t, "idle")
    /\ UNCHANGED mutexVars

-----------------------------------------------------------------------------
\* On Windows it enters, and leaves again if the flag was set - by
\* LeaveCriticalSection, also where mHandle is a mutex object, which stays
\* entered then.
TryLock(t) ==
    /\ pc[t] = "idle" /\ held[t] < MaxDepth
    /\ \/ ~Enters(t) /\ UNCHANGED mutexVars
       \/ /\ Enters(t)
          /\ IF OnWindows /\ ~kind.recursive /\ alreadyLocked
             THEN /\ IF kind.timed THEN Enter(t) ELSE UNCHANGED handle
                  /\ UNCHANGED <<alreadyLocked, held>>
             ELSE /\ Enter(t)
                  /\ alreadyLocked' = (OnWindows /\ ~kind.recursive)
                  /\ Told(t, 1)
          /\ UNCHANGED kind
    /\ UNCHANGED pc

\* The flag falls, then the system's lock is left.
mtx_unlock(t) ==
    /\ held[t] > 0
    /\ alreadyLocked' = FALSE
    /\ Leave
    /\ Told(t, -1)
    /\ UNCHANGED kind

Unlock(t) == pc[t] = "idle" /\ mtx_unlock(t) /\ UNCHANGED pc

Next ==
    \E t \in Threads :
        \/ Call(t, "mtx_lock") \/ Call(t, "mtx_timedlock")
        \/ Acquire(t) \/ Spin(t) \/ TimeOut(t) \/ TryLock(t) \/ Unlock(t)

Spec == Init /\ [][Next]_vars

-----------------------------------------------------------------------------
TypeOK ==
    /\ kind \in Kinds
    /\ handle \in [owner : Threads \cup {NoThread}, depth : Nat]
    /\ alreadyLocked \in BOOLEAN
    /\ pc \in [Threads -> {"idle", "mtx_lock", "mtx_timedlock", "spin"}]
    /\ held \in [Threads -> 0 .. MaxDepth]

(* A non-recursive mutex has one holder who holds it once, on every        *)
(* platform and by whichever function it was taken; a recursive one has    *)
(* one holder.                                                             *)
Exclusive ==
    /\ \A t, u \in Threads : held[t] > 0 /\ held[u] > 0 => t = u
    /\ ~kind.recursive => \A t \in Threads : held[t] <= 1

(* What tinycthread.h says of mtx_unlock: a mutex that no thread holds and *)
(* no thread is about to take is free to be locked by the next.            *)
UnlockedIsFree ==
    (\A t \in Threads : held[t] = 0 /\ pc[t] # "spin") => handle = Free

=============================================================================
