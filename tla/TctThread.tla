----------------------------- MODULE TctThread -----------------------------
(***************************************************************************)
(* The life of a thread of lib/tinycthread: the start information that     *)
(* thrd_create allocates and the new thread frees, the two ways out of a   *)
(* thread, its thread-specific storage on Windows, and the thread's handle *)
(* between thrd_create, thrd_detach and thrd_join.                         *)
(***************************************************************************)
EXTENDS Naturals

CONSTANTS
    Threads,        \* the threads that are created
    Main,           \* the thread that is there from the start
    Platform,       \* "win32" or "posix"
    Codes           \* result codes

TctThreadAssumption == Main \notin Threads /\ Platform \in {"win32", "posix"}

Everyone == Threads \cup {Main}

VARIABLES
    state,          \* where each thread is, from "none" to "ended"
    info,           \* the _thread_start_info of each: "none", "allocated", "freed"
    exitCode,       \* the code each thread ended with
    storage,        \* the threads with a value in their thread-specific storage
    handle,         \* the thread's handle: "none", "open" or "closed"
    joined,         \* what thrd_join stored: a code, "error" or "none"
    identifiers     \* what thrd_current gave out: of which thread, pseudo or not

vars == <<state, info, exitCode, storage, handle, joined, identifiers>>

Init ==
    /\ state = [t \in Everyone |-> IF t = Main THEN "function" ELSE "none"]
    /\ info = [t \in Threads |-> "none"]
    /\ exitCode = [t \in Everyone |-> "none"]
    /\ storage = {}
    /\ handle = [t \in Threads |-> "none"]
    /\ joined = [t \in Threads |-> "none"]
    /\ identifiers = {}

Runs(t) == state[t] = "function"
GoTo(t, s) == state' = [state EXCEPT ![t] = s]

-----------------------------------------------------------------------------
\* malloc fails (thrd_nomem), the system has no thread (thrd_error: the
\* creator frees the start information), or the new thread owns it.
thrd_create(t) ==
    /\ state[t] = "none"
    /\ \/ GoTo(t, "failed") /\ UNCHANGED <<info, handle>>
       \/ info' = [info EXCEPT ![t] = "freed"] /\ GoTo(t, "failed") /\ UNCHANGED handle
       \/ /\ info' = [info EXCEPT ![t] = "allocated"] /\ GoTo(t, "wrapper")
          /\ handle' = [handle EXCEPT ![t] = "open"]
    /\ UNCHANGED <<exitCode, storage, joined, identifiers>>

\* _thrd_wrapper_function reads mFunction and mArg, then frees them.
ReadStartInfo(t) ==
    /\ state[t] = "wrapper" /\ GoTo(t, "free")
    /\ UNCHANGED <<info, exitCode, storage, handle, joined, identifiers>>

FreeStartInfo(t) ==
    /\ state[t] = "free" /\ GoTo(t, "function")
    /\ info' = [info EXCEPT ![t] = "freed"]
    /\ UNCHANGED <<exitCode, storage, handle, joined, identifiers>>

\* The function returns, or calls thrd_exit: on Windows both clean up the
\* storage before the thread ends, on POSIX the system does when it has.
End(t, code) ==
    /\ Runs(t) /\ t # Main
    /\ GoTo(t, "ending")
    /\ exitCode' = [exitCode EXCEPT ![t] = code]
    /\ storage' = IF Platform = "win32" THEN storage \ {t} ELSE storage
    /\ UNCHANGED <<info, handle, joined, identifiers>>

\* Mutant: the TLS callback is not registered.
EndedKeeping(t) ==
    /\ state[t] = "ending" /\ GoTo(t, "ended")
    /\ storage' = IF Platform = "win32" THEN storage ELSE storage \ {t}
    /\ UNCHANGED <<info, exitCode, handle, joined, identifiers>>

\* The TLS callback of Windows finds what a destructor has set since.
Ended(t) ==
    /\ state[t] = "ending" /\ GoTo(t, "ended")
    /\ storage' = storage \ {t}
    /\ UNCHANGED <<info, exitCode, handle, joined, identifiers>>

Store(t) ==
    /\ Runs(t) \/ state[t] = "ending"
    /\ storage' = storage \cup {t}
    /\ UNCHANGED <<state, info, exitCode, handle, joined, identifiers>>

\* A pseudo handle on Windows, that means whoever uses it.
thrd_current(t) ==
    /\ Runs(t)
    /\ identifiers' = identifiers \cup {[of |-> t, pseudo |-> Platform = "win32"]}
    /\ UNCHANGED <<state, info, exitCode, storage, handle, joined>>

\* The program detaches or joins a thread once.
thrd_detach(t) ==
    /\ handle[t] = "open"
    /\ handle' = [handle EXCEPT ![t] = "closed"]
    /\ UNCHANGED <<state, info, exitCode, storage, joined, identifiers>>

\* GetExitCodeThread may fail on Windows: the handle stays open then.
thrd_join(t) ==
    /\ handle[t] = "open" /\ joined[t] = "none" /\ state[t] = "ended"
    /\ \/ /\ joined' = [joined EXCEPT ![t] = exitCode[t]]
          /\ handle' = [handle EXCEPT ![t] = "closed"]
       \/ /\ Platform = "win32"
          /\ joined' = [joined EXCEPT ![t] = "error"]
          /\ UNCHANGED handle
    /\ UNCHANGED <<state, info, exitCode, storage, identifiers>>

Thread(t) ==
    \/ ReadStartInfo(t) \/ FreeStartInfo(t) \/ \E c \in Codes : End(t, c)
    \/ Ended(t)

Next ==
    \/ \E t \in Threads : thrd_create(t) \/ Thread(t) \/ thrd_detach(t) \/ thrd_join(t)
    \/ \E t \in Everyone : Store(t) \/ thrd_current(t)

Spec == Init /\ [][Next]_vars

-----------------------------------------------------------------------------
(* What tinycthread.h says of thrd_join: it waits for the thread and stores *)
(* its result code.  A joined thread has been through everything: its       *)
(* start information is freed and so are the values it stored, those its    *)
(* destructors stored on the way out too; nobody can join it again.         *)
JoinedIsOver ==
    \A t \in Threads : joined[t] \notin {"none", "error"} =>
        /\ state[t] = "ended" /\ joined[t] = exitCode[t] /\ handle[t] = "closed"
        /\ info[t] = "freed" /\ t \notin storage

\* GetThreadId of an identifier, in the thread that asks.
IdOf(i, asker) == IF i.pseudo THEN asker ELSE i.of

thrd_equal(i, j, asker) == IdOf(i, asker) = IdOf(j, asker)

(* What tinycthread.h says of thrd_equal: it tells whether two identifiers *)
(* refer to the same thread - the ones that thrd_current gave out, too.    *)
EqualTellsThreads ==
    \A i, j \in identifiers, asker \in Everyone :
        Runs(asker) => (thrd_equal(i, j, asker) <=> i.of = j.of)
=============================================================================
