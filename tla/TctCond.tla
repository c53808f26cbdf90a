------------------------------ MODULE TctCond ------------------------------
(***************************************************************************)
(* The condition variable of lib/tinycthread on Windows: a count of the    *)
(* waiters under a critical section, an auto-reset event for cnd_signal    *)
(* and a manual-reset event for cnd_broadcast.  A wait is seven steps, and *)
(* the threads interleave between any two of them.                         *)
(*                                                                         *)
(* The events are external: setting one releases threads that are blocked  *)
(* in the system's wait at once, a thread that comes later finds it set.   *)
(***************************************************************************)
EXTENDS TctMutex

CONSTANTS
    Waiters,            \* the threads that wait; every thread may signal
    MayTimeOut,         \* whether cnd_timedwait is used
    MaxWaiters          \* bound on the count

ASSUME TctCondAssumption ==
    /\ Waiters \subseteq Threads /\ MayTimeOut \in BOOLEAN
    /\ MaxWaiters \in Nat

VARIABLES
    waitersCount,       \* cond->mWaitersCount
    eventOne, eventAll, \* cond->mEvents
    got,                \* the event that released each thread in cnd_wait
    owed,               \* a signal found waiters before their wait, none took it
    promised            \* waiters a broadcast was for, not yet released

condVars == <<waitersCount, eventOne, eventAll, got, owed, promised>>
allVars == <<vars, condVars>>

CondInit ==
    /\ Init
    /\ waitersCount = 0
    /\ eventOne = FALSE /\ eventAll = FALSE
    /\ got = [t \in Threads |-> "none"]
    /\ owed = FALSE /\ promised = {}

\* The threads that have released the mutex in cnd_wait and are still in it.
Waiting == {t \in Threads : pc[t] \in {"wait", "blocked"}}
Blocked == {t \in Threads : pc[t] = "blocked"}

Released(t, one) == promised' = promised \ {t} /\ owed' = (owed /\ ~one)

-----------------------------------------------------------------------------
(* _cnd_timedwait_win32                                                    *)

CountWaiter(t) ==
    /\ pc[t] = "idle" /\ t \in Waiters /\ held[t] = 1 /\ waitersCount < MaxWaiters
    /\ waitersCount' = waitersCount + 1
    /\ GoTo(t, "cnd_unlock")
    /\ UNCHANGED <<mutexVars, eventOne, eventAll, got, owed, promised>>

CondUnlock(t) ==
    /\ pc[t] = "cnd_unlock"
    /\ mtx_unlock(t)
    /\ GoTo(t, "wait")
    /\ UNCHANGED condVars

\* WaitForMultipleObjects: a set event lets it through, cnd_signal's first.
Wait(t) ==
    /\ pc[t] = "wait"
    /\ \/ /\ eventOne
          /\ eventOne' = FALSE /\ got' = [got EXCEPT ![t] = "one"]
          /\ GoTo(t, "uncount") /\ Released(t, TRUE)
       \/ /\ ~eventOne /\ eventAll
          /\ got' = [got EXCEPT ![t] = "all"]
          /\ GoTo(t, "uncount") /\ Released(t, FALSE)
          /\ UNCHANGED eventOne
       \/ /\ ~eventOne /\ ~eventAll
          /\ GoTo(t, "blocked")
          /\ UNCHANGED <<eventOne, got, owed, promised>>
    /\ UNCHANGED <<mutexVars, waitersCount, eventAll>>

\* WAIT_TIMEOUT: back to the mutex, past the count.
WaitTimeOut(t) ==
    /\ MayTimeOut /\ pc[t] = "blocked"
    /\ GoTo(t, "mtx_lock") /\ Released(t, FALSE)
    /\ UNCHANGED <<mutexVars, waitersCount, eventOne, eventAll, got>>

\* Mutant: the first waiter that a broadcast let through resets the event.
UncountAnyLast(t) ==
    /\ pc[t] = "uncount"
    /\ waitersCount' = waitersCount - 1
    /\ GoTo(t, IF got[t] = "all" THEN "reset" ELSE "mtx_lock")
    /\ got' = [got EXCEPT ![t] = "none"]
    /\ UNCHANGED <<mutexVars, eventOne, eventAll, owed, promised>>

Uncount(t) ==
    /\ pc[t] = "uncount"
    /\ waitersCount' = waitersCount - 1
    /\ GoTo(t, IF got[t] = "all" /\ waitersCount' = 0 THEN "reset" ELSE "mtx_lock")
    /\ got' = [got EXCEPT ![t] = "none"]
    /\ UNCHANGED <<mutexVars, eventOne, eventAll, owed, promised>>

Reset(t) ==
    /\ pc[t] = "reset"
    /\ eventAll' = FALSE
    /\ GoTo(t, "mtx_lock")
    /\ UNCHANGED <<mutexVars, waitersCount, eventOne, got, owed, promised>>

-----------------------------------------------------------------------------
(* cnd_signal and cnd_broadcast, with the mutex or without.                *)

LookForWaiters(t, next) ==
    /\ pc[t] = "idle" /\ waitersCount > 0
    /\ GoTo(t, next)
    /\ UNCHANGED <<mutexVars, condVars>>

SetOne(t) ==
    /\ pc[t] = "set_one"
    /\ \/ \E u \in Blocked :
            /\ pc' = [pc EXCEPT ![t] = "idle", ![u] = "uncount"]
            /\ got' = [got EXCEPT ![u] = "one"]
            /\ Released(u, TRUE)
            /\ UNCHANGED eventOne
       \/ /\ Blocked = {}
          /\ GoTo(t, "idle")
          /\ eventOne' = TRUE /\ owed' = (owed \/ Waiting # {})
          /\ UNCHANGED <<got, promised>>
    /\ UNCHANGED <<mutexVars, waitersCount, eventAll>>

SetAll(t) ==
    /\ pc[t] = "set_all"
    /\ eventAll' = TRUE
    /\ pc' = [u \in Threads |-> IF u = t THEN "idle"
                                ELSE IF u \in Blocked THEN "uncount" ELSE pc[u]]
    /\ got' = [u \in Threads |-> IF u \in Blocked THEN "all" ELSE got[u]]
    /\ promised' = (IF \E u \in Threads : pc[u] = "reset"
                    THEN promised ELSE promised \cup Waiting) \ Blocked
    /\ UNCHANGED <<mutexVars, waitersCount, eventOne, owed>>

-----------------------------------------------------------------------------
InWait(t) == CountWaiter(t) \/ CondUnlock(t) \/ Wait(t) \/ WaitTimeOut(t) \/ Uncount(t) \/ Reset(t)

Notify(t) ==
    \/ LookForWaiters(t, "set_one") \/ SetOne(t)
    \/ LookForWaiters(t, "set_all") \/ SetAll(t)

Mutex(t) == (Call(t, "mtx_lock") \/ Acquire(t) \/ Spin(t) \/ Unlock(t)) /\ UNCHANGED condVars

CondNext == \E t \in Threads : Mutex(t) \/ InWait(t) \/ Notify(t)

\* A thread inside a call is run; the mutex serves every thread that asks
\* again and again, and a thread that has it unlocks it some day.
CondFairness ==
    \A t \in Threads :
          /\ WF_allVars(CondUnlock(t) \/ Wait(t) \/ Uncount(t) \/ Reset(t))
          /\ WF_allVars(SetOne(t) \/ SetAll(t))
          /\ WF_allVars(Spin(t) /\ UNCHANGED condVars)
          /\ SF_allVars(Unlock(t) /\ UNCHANGED condVars)
          /\ SF_allVars(Acquire(t) /\ UNCHANGED condVars)

-----------------------------------------------------------------------------
(* What tinycthread.c:395 says: the number of waiters is decreased when a  *)
(* wait is done.  The count is the number of threads inside cnd_wait.      *)
WaitersCounted ==
    waitersCount =
        Cardinality({t \in Threads : pc[t] \in {"cnd_unlock", "wait", "blocked", "uncount"}})

(* Each waiter that a broadcast was for comes out of cnd_wait with the     *)
(* mutex; of the waiters that a signal found between their release of the  *)
(* mutex and their wait one takes it; whoever was released comes out - if  *)
(* whoever has the mutex gives it back.                                    *)
(*                                                                         *)
(* The header promises more than the code keeps, and this says no more     *)
(* than it keeps.  Not promised are waiters of a broadcast made while the  *)
(* last waiter of the one before is about to reset the event, outside the  *)
(* section (tinycthread.c:425): they may wait on, against tinycthread.h:286. *)
(* And signals that meet before a waiter takes the first are one: the      *)
(* event is set once (tinycthread.c:347, against tinycthread.h:276).       *)
NotifiedWaiterReturns ==
    /\ \A t \in Waiters : t \in promised \/ pc[t] = "uncount" ~> held[t] = 1
    /\ owed ~> ~owed
=============================================================================
