------------------------------ MODULE TctOnce ------------------------------
(***************************************************************************)
(* call_once of lib/tinycthread on Windows: a compare-and-swap picks the   *)
(* thread that initialises a critical section and calls the function; the  *)
(* others spin until the section is ready and then queue up behind it.     *)
(***************************************************************************)
EXTENDS Naturals

CONSTANTS Threads, NoThread

VARIABLES
    status,     \* flag->status
    lockReady,  \* whether flag->lock has been initialised
    owner,      \* the thread in flag->lock
    pc,         \* where each thread is in call_once
    called      \* how often the function has been called, and has returned

vars == <<status, lockReady, owner, pc, called>>

Init ==
    /\ status = 0 /\ lockReady = FALSE /\ owner = NoThread
    /\ pc = [t \in Threads |-> "outside"]
    /\ called = [started |-> 0, finished |-> 0]

Step(t, from, to) == pc[t] = from /\ pc' = [pc EXCEPT ![t] = to]

\* A thread may call again after it has returned.
Call(t) ==
    /\ \E from \in {"outside", "returned"} : Step(t, from, "while")
    /\ UNCHANGED <<status, lockReady, owner, called>>

\* Mutant: the loop ends when the function has been started.
WhileShort(t) ==
    /\ Step(t, "while", IF status < 2 THEN "switch" ELSE "returned")
    /\ UNCHANGED <<status, lockReady, owner, called>>

While(t) ==
    /\ Step(t, "while", IF status < 3 THEN "switch" ELSE "returned")
    /\ UNCHANGED <<status, lockReady, owner, called>>

Switch(t) ==
    /\ Step(t, "switch", CASE status = 0 -> "swap"
                           [] status = 2 -> "enter"
                           [] OTHER -> "while")
    /\ UNCHANGED <<status, lockReady, owner, called>>

CompareAndSwap(t) ==
    /\ Step(t, "swap", IF status = 0 THEN "initialize" ELSE "while")
    /\ status' = IF status = 0 THEN 1 ELSE status
    /\ UNCHANGED <<lockReady, owner, called>>

InitializeAndEnter(t) ==
    /\ Step(t, "initialize", "publish")
    /\ lockReady' = TRUE /\ owner' = t
    /\ UNCHANGED <<status, called>>

Publish(t) ==
    /\ Step(t, "publish", "call")
    /\ status' = 2
    /\ UNCHANGED <<lockReady, owner, called>>

StartFunction(t) ==
    /\ Step(t, "call", "function")
    /\ called' = [called EXCEPT !.started = @ + 1]
    /\ UNCHANGED <<status, lockReady, owner>>

FinishFunction(t) ==
    /\ Step(t, "function", "done")
    /\ called' = [called EXCEPT !.finished = @ + 1]
    /\ UNCHANGED <<status, lockReady, owner>>

Done(t) ==
    /\ Step(t, "done", "leave")
    /\ status' = 3
    /\ UNCHANGED <<lockReady, owner, called>>

Enter(t) ==
    /\ owner = NoThread /\ owner' = t
    /\ Step(t, "enter", "pass")
    /\ UNCHANGED <<status, lockReady, called>>

Leave(t) ==
    /\ \/ Step(t, "pass", "while")
       \/ Step(t, "leave", "returned")
    /\ owner' = NoThread
    /\ UNCHANGED <<status, lockReady, called>>

Inside(t) ==
    \/ While(t) \/ Switch(t) \/ CompareAndSwap(t) \/ InitializeAndEnter(t) \/ Publish(t)
    \/ StartFunction(t) \/ FinishFunction(t) \/ Done(t) \/ Enter(t) \/ Leave(t)

Next == \E t \in Threads : Call(t) \/ Inside(t)

Spec == Init /\ [][Next]_vars

-----------------------------------------------------------------------------
TypeOK ==
    /\ status \in 0 .. 3 /\ lockReady \in BOOLEAN
    /\ owner \in Threads \cup {NoThread}
    /\ pc \in [Threads -> {"outside", "while", "switch", "swap", "initialize", "publish",
                           "call", "function", "done", "leave", "enter", "pass", "returned"}]
    /\ called \in [started : Nat, finished : Nat]

(* What tinycthread.h says of call_once: the callback is invoked exactly   *)
(* once - and every call that has returned has it behind it.               *)
CalledOnce ==
    /\ called.started <= 1
    /\ (\E t \in Threads : pc[t] = "returned") => called.finished = 1

(* The critical section is entered by nobody before it is initialised, and *)
(* initialised once: no thread is in it when that happens.                 *)
LockReadyWhenUsed ==
    /\ \A t \in Threads : pc[t] \in {"enter", "pass", "publish", "call", "leave"} => lockReady
    /\ (\E t \in Threads : pc[t] = "initialize") => ~lockReady

=============================================================================
