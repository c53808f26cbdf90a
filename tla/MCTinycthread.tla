--------------------------- MODULE MCTinycthread ---------------------------
(***************************************************************************)
(* tinycthread, one facility at a time: in each behaviour three threads    *)
(* use a mutex, a condition variable or call_once, or one of the models of *)
(* thread-specific storage, of a thread's life and of timed calls runs.    *)
(* The others stay as they are at the start.                               *)
(***************************************************************************)
EXTENDS TctCond

CONSTANTS
    Keys, Nodes, NoNode, TSS_DTOR_ITERATIONS,               \* of TctTss
    Created, Main, Codes, Platform,                         \* of TctThread
    Calls, NsecPerMs, MsPerSec, Seconds, PollMs             \* of TctTime

VARIABLES
    facility,                                               \* the one in use
    status, lockReady, owner, oncePc, called,               \* of TctOnce
    keys, dtors, slot, node, allocated, head, tail, tssPc,
    data, iteration, again, tssOwed,                        \* of TctTss
    state, info, exitCode, storage, threadHandle, joined,
    identifiers,                                            \* of TctThread
    call, ts, start, now, sleep, remaining, timePc          \* of TctTime

Once == INSTANCE TctOnce WITH pc <- oncePc

\* A key is deleted only when no other one is set: see tss_delete.
Tss == INSTANCE TctTss WITH DeleteAnywhere <- FALSE, pc <- tssPc, owed <- tssOwed

Thread == INSTANCE TctThread WITH Threads <- Created, handle <- threadHandle

Time == INSTANCE TctTime WITH pc <- timePc

ASSUME MCTssAssumption == Tss!TctTssAssumption
ASSUME MCThreadAssumption == Thread!TctThreadAssumption
ASSUME MCTimeAssumption == Time!TctTimeAssumption

onceVars == <<status, lockReady, owner, oncePc, called>>
tssVars == <<keys, dtors, slot, node, allocated, head, tail, tssPc, data, iteration, again, tssOwed>>
threadVars == <<state, info, exitCode, storage, threadHandle, joined, identifiers>>
timeVars == <<call, ts, start, now, sleep, remaining, timePc>>
everything == <<facility, allVars, onceVars, tssVars, threadVars, timeVars>>

\* The timed mutex of Windows that is not recursive is left out: its own
\* holder may lose it (mtx_trylock) or wait for ever (mtx_timedlock).
MCPlain == {[platform |-> "win32", recursive |-> FALSE, timed |-> FALSE]}
MCKinds == KindRecord \ {[platform |-> "win32", recursive |-> FALSE, timed |-> TRUE]}

NoTime ==
    /\ call = "thrd_sleep" /\ ts = [sec |-> 0, nsec |-> 0] /\ start = 0 /\ now = 0
    /\ sleep = 0 /\ remaining = 0 /\ timePc = "compute"

MCInit ==
    /\ facility \in {"mutex", "condition", "once", "storage", "thread", "time"}
    /\ CondInit /\ (facility # "mutex" => kind \in MCPlain)
    /\ Once!Init /\ Tss!Init /\ Thread!Init
    /\ IF facility = "time" THEN Time!Init ELSE NoTime

MCNext ==
    \/ /\ facility = "mutex" /\ Next
       /\ UNCHANGED <<facility, condVars, onceVars, tssVars, threadVars, timeVars>>
    \/ /\ facility = "condition" /\ CondNext
       \* Nobody locks the plain mutex that it holds: it would wait for itself.
       /\ \A t \in Threads : held[t] > 0 => pc'[t] # "mtx_lock"
       /\ UNCHANGED <<facility, onceVars, tssVars, threadVars, timeVars>>
    \/ /\ facility = "once" /\ Once!Next
       /\ UNCHANGED <<facility, allVars, tssVars, threadVars, timeVars>>
    \/ /\ facility = "storage" /\ Tss!Next
       /\ UNCHANGED <<facility, allVars, onceVars, threadVars, timeVars>>
    \/ /\ facility = "thread" /\ Thread!Next
       /\ UNCHANGED <<facility, allVars, onceVars, tssVars, timeVars>>
    \/ /\ facility = "time" /\ Time!Next
       /\ UNCHANGED <<facility, allVars, onceVars, tssVars, threadVars>>

MCSpec == MCInit /\ [][MCNext]_everything /\ CondFairness

(* See TctOnce: the function is called once, and before any call returns.   *)
CalledOnce == Once!CalledOnce
(* See TctTss: destructors are given what the thread leaves behind.         *)
ValuesDestroyed == Tss!ValuesDestroyed
(* See TctThread: what is joined has ended, and left nothing.               *)
JoinedIsOver == Thread!JoinedIsOver
(* See TctTime: timed calls end neither early nor late.                     *)
OnTime == Time!OnTime
=============================================================================
