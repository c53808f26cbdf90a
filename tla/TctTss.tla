------------------------------- MODULE TctTss -------------------------------
(***************************************************************************)
(* Thread-specific storage of lib/tinycthread on Windows, seen by one      *)
(* thread: a node for each key it has set, held by the system's slot for   *)
(* the key and linked in a list of the thread, which _tinycthread_tss_     *)
(* cleanup walks when the thread ends, calling the keys' destructors.  A   *)
(* destructor is program code: it may set values again.                    *)
(***************************************************************************)
EXTENDS Naturals

CONSTANTS
    Keys, Nodes, NoNode,
    DeleteAnywhere,         \* whether a key is deleted while others are set, too
    TSS_DTOR_ITERATIONS

TctTssAssumption ==
    /\ NoNode \notin Nodes /\ DeleteAnywhere \in BOOLEAN
    /\ TSS_DTOR_ITERATIONS \in Nat \ {0}

VARIABLES
    keys,       \* the keys tss_create made
    dtors,      \* _tinycthread_tss_dtors: the keys that have a destructor
    slot,       \* TlsGetValue of each key
    node,       \* struct TinyCThreadTSSData in memory: key, value, next
    allocated,  \* the nodes that malloc gave out
    head, tail, \* _tinycthread_tss_head, _tinycthread_tss_tail
    pc, data, iteration, again,     \* the locals of _tinycthread_tss_cleanup
    owed        \* keys with a value that the clean-up has not dealt with

list == <<node, allocated, head, tail, slot>>
cleanup == <<data, iteration, again>>
vars == <<keys, dtors, list, pc, cleanup, owed>>

Ends == Nodes \cup {NoNode}

Init ==
    /\ keys = {} /\ dtors = {} /\ slot = [k \in Keys |-> NoNode]
    /\ node \in [Nodes -> [key : {CHOOSE k \in Keys : TRUE}, value : {FALSE}, next : {NoNode}]]
    /\ allocated = {} /\ head = NoNode /\ tail = NoNode
    /\ pc = "running" /\ data = NoNode /\ iteration = 0 /\ again = FALSE
    /\ owed = {}

\* The program's code runs: the thread's function, or a destructor.
ProgramRuns == pc \in {"running", "destructor"}

-----------------------------------------------------------------------------
tss_create(k, hasDtor) ==
    /\ pc = "running" /\ k \notin keys
    /\ keys' = keys \cup {k}
    /\ dtors' = IF hasDtor THEN dtors \cup {k} ELSE dtors \ {k}
    /\ UNCHANGED <<list, pc, cleanup, owed>>

\* A new node is linked behind the tail; the tail stays where it is.
Append(k, n, value) ==
    /\ n \in Nodes \ allocated /\ allocated' = allocated \cup {n}
    /\ node' = [m \in Nodes |->
                   IF m = n THEN [key |-> k, value |-> value, next |-> NoNode]
                   ELSE IF m = tail THEN [node[m] EXCEPT !.next = n] ELSE node[m]]
    /\ tail' = IF tail = NoNode THEN n ELSE tail
    /\ head' = IF head = NoNode THEN n ELSE head
    /\ slot' = [slot EXCEPT ![k] = n]

Own(k, value) == owed' = IF value THEN owed \cup {k} ELSE owed \ {k}

SetOld(k, value) ==
    /\ slot[k] # NoNode
    /\ node' = [node EXCEPT ![slot[k]].value = value]
    /\ Own(k, value)
    /\ UNCHANGED <<allocated, head, tail, slot>>

SetNew(k, value) ==
    /\ slot[k] = NoNode
    /\ \E n \in Nodes : Append(k, n, value)
    /\ Own(k, value)

\* value is whether the pointer is not NULL; malloc may fail as well.
tss_set(k, value) ==
    /\ ProgramRuns /\ k \in keys
    /\ SetOld(k, value) \/ SetNew(k, value)
    /\ UNCHANGED <<keys, dtors, pc, cleanup>>

\* The first node is taken out of the list.  Another one is not: the search
\* finds its predecessor, and leaves the predecessor's next as it was.
Unlink(n) ==
    IF n = head
    THEN /\ head' = node[n].next
         /\ tail' = IF n = tail THEN NoNode ELSE tail
    ELSE /\ tail' = IF n = tail THEN CHOOSE p \in Nodes : node[p].next = n ELSE tail
         /\ UNCHANGED head

tss_delete(k) ==
    /\ pc = "running" /\ k \in keys
    /\ slot[k] # NoNode /\ (slot[k] # head \/ node[head].next # NoNode) => DeleteAnywhere
    /\ IF slot[k] = NoNode
       THEN UNCHANGED <<head, tail, allocated>>
       ELSE Unlink(slot[k]) /\ allocated' = allocated \ {slot[k]}
    /\ keys' = keys \ {k} /\ dtors' = dtors \ {k} /\ owed' = owed \ {k}
    /\ slot' = [slot EXCEPT ![k] = NoNode]
    /\ UNCHANGED <<node, pc, cleanup>>

-----------------------------------------------------------------------------
(* _tinycthread_tss_cleanup, by the wrapper, thrd_exit or the TLS callback *)

Ended ==
    /\ pc = "running"
    /\ pc' = IF head = NoNode THEN "ended" ELSE "round"
    /\ iteration' = 0 /\ again' = TRUE
    /\ UNCHANGED <<keys, dtors, list, data, owed>>

Round ==
    /\ pc = "round"
    /\ IF again /\ iteration < TSS_DTOR_ITERATIONS
       THEN pc' = "walk" /\ data' = head /\ again' = FALSE
       ELSE pc' = "free" /\ UNCHANGED <<data, again>>
    /\ UNCHANGED <<keys, dtors, list, iteration, owed>>

\* Mutant: the value stays in its node while the destructor runs.
VisitKeepingValue ==
    /\ pc = "walk" /\ data # NoNode /\ node[data].value
    /\ IF node[data].key \in dtors
       THEN pc' = "destructor" /\ again' = TRUE
       ELSE pc' = "next" /\ UNCHANGED again
    /\ owed' = owed \ {node[data].key}
    /\ UNCHANGED <<keys, dtors, list, data, iteration>>

Visit ==
    /\ pc = "walk" /\ data # NoNode /\ node[data].value
    /\ node' = [node EXCEPT ![data].value = FALSE]
    /\ IF node[data].key \in dtors
       THEN pc' = "destructor" /\ again' = TRUE
       ELSE pc' = "next" /\ UNCHANGED again
    /\ owed' = owed \ {node[data].key}
    /\ UNCHANGED <<keys, dtors, allocated, head, tail, slot, data, iteration>>

Skip ==
    /\ pc = "walk" /\ data # NoNode /\ ~node[data].value
    /\ pc' = "next"
    /\ UNCHANGED <<keys, dtors, list, cleanup, owed>>

DestructorReturns ==
    /\ pc = "destructor" /\ pc' = "next"
    /\ UNCHANGED <<keys, dtors, list, cleanup, owed>>

\* The next node is looked up after the destructor, which may have added one.
NextNode ==
    /\ pc = "next" /\ pc' = "walk"
    /\ data' = node[data].next
    /\ UNCHANGED <<keys, dtors, list, iteration, again, owed>>

RoundEnds ==
    /\ pc = "walk" /\ data = NoNode
    /\ pc' = "round" /\ iteration' = iteration + 1
    /\ UNCHANGED <<keys, dtors, list, data, again, owed>>

Free ==
    /\ pc = "free" /\ head # NoNode
    /\ allocated' = allocated \ {head}
    /\ head' = node[head].next
    /\ UNCHANGED <<keys, dtors, node, tail, slot, pc, cleanup, owed>>

Freed ==
    /\ pc = "free" /\ head = NoNode
    /\ tail' = NoNode /\ pc' = "ended"
    /\ UNCHANGED <<keys, dtors, node, allocated, head, slot, cleanup, owed>>

Cleanup ==
    \/ Round \/ Visit \/ Skip \/ DestructorReturns \/ NextNode \/ RoundEnds
    \/ Free \/ Freed

Next ==
    \/ \E k \in Keys : \/ \E b \in BOOLEAN : tss_create(k, b) \/ tss_set(k, b)
                       \/ tss_delete(k)
    \/ Ended \/ Cleanup

\* A thread that has ended goes through its clean-up; it need not end, and a
\* destructor returns.
Spec == Init /\ [][Next]_vars

-----------------------------------------------------------------------------
TypeOK ==
    /\ keys \subseteq Keys /\ dtors \subseteq keys /\ owed \subseteq keys
    /\ slot \in [Keys -> Ends] /\ allocated \subseteq Nodes
    /\ node \in [Nodes -> [key : Keys, value : BOOLEAN, next : Ends]]
    /\ head \in Ends /\ tail \in Ends /\ data \in Ends
    /\ pc \in {"running", "round", "walk", "next", "destructor", "free", "ended"}
    /\ iteration \in 0 .. TSS_DTOR_ITERATIONS /\ again \in BOOLEAN

\* The nodes that following next from the head passes: those in every set
\* that following it from the head does not leave.
Linked ==
    {n \in Nodes :
        \A Closed \in SUBSET Nodes :
            /\ head \in Closed \cup {NoNode}
            /\ \A m \in Closed : node[m].next \in Closed \cup {NoNode}
            => n \in Closed}

(* What tinycthread.h says of tss_delete, that it releases the resources   *)
(* of a storage, and of nothing else: the list that the clean-up walks     *)
(* holds nodes in use, each of the key whose slot points to it.            *)
ListInUse ==
    /\ Linked \subseteq allocated
    /\ pc # "free" => \A n \in Linked : slot[node[n].key] = n
    /\ pc # "free" => (head = NoNode <=> tail = NoNode) /\ tail \in Linked \cup {NoNode}

(* What tinycthread.h says of tss_create: the destructor is called for     *)
(* every value the thread leaves behind - after it is out of its node, so  *)
(* that a destructor that sets it again is given it again - unless the     *)
(* destructors keep on setting values for TSS_DTOR_ITERATIONS rounds.  No   *)
(* node outlives the thread.                                               *)
ValuesDestroyed ==
    /\ \A n \in Linked : node[n].value <=> node[n].key \in owed
    /\ pc = "ended" /\ owed # {} => iteration = TSS_DTOR_ITERATIONS
    /\ pc = "ended" => allocated = {}

=============================================================================
