---------------------------- MODULE TcsPoolWin32 ----------------------------
(***************************************************************************)
(* A tinycsocket pool on Windows: a list of sockets for each condition of  *)
(* select, and a map from sockets to user data.  A socket is added to each *)
(* list it waits for, or to none when memory runs out half way.            *)
(*                                                                         *)
(* As on POSIX, a socket is added when it is not in the pool.  realloc     *)
(* does not fail to make a block smaller (see TcsPoolPosix).               *)
(***************************************************************************)
EXTENDS TdsMap, SequencesExt

CONSTANTS Sockets, Users, Interests, Mets, Rooms,
    FdSetSize           \* FD_SETSIZE: above it, poll allocates

Win32PoolAssumption == FdSetSize \in Nat

VARIABLES
    pool,               \* whether the program has a pool
    map,                \* user_data
    lists,              \* read_sockets, write_sockets and error_sockets
    allocated,          \* the blocks in use, those of a poll among them
    polled, events, call, result      \* as in TcsPool

vars == <<pool, map, lists, allocated, polled, events, call, result>>

Conditions == {"read", "write", "error"}
Blocks == {"pool", "keys", "values"} \cup Conditions

NoPoll == [met |-> [s \in Sockets |-> {}], room |-> 0]
NoEvents == polled' = NoPoll /\ events' = << >>
NewLists == [c \in Conditions |-> NewList]

\* Bound: in one call at most one allocation fails.
OneFails(blocks) == {[b \in blocks |-> b # bad] : bad \in blocks \cup {"none"}}

Init ==
    /\ pool = FALSE
    /\ map = NewMap /\ lists = NewLists
    /\ allocated = {}
    /\ polled = NoPoll
    /\ events = << >>
    /\ call = <<"none">> /\ result = "success"

\* When one of the blocks cannot be had, tcs_pool_destroy frees the others.
Created(works) ==
    IF \A block \in Blocks : works[block] THEN Blocks ELSE {}

tcs_pool_create ==
    /\ call' = <<"create">>
    /\ ~pool
    /\ \E works \in OneFails(Blocks) :
          /\ allocated' = Created(works)
          /\ pool' = (allocated' = Blocks)
          /\ result' = IF pool' THEN "success" ELSE "memory"
    /\ map' = NewMap /\ lists' = NewLists
    /\ NoEvents

tcs_pool_destroy ==
    /\ call' = <<"destroy">>
    /\ pool
    /\ pool' = FALSE
    /\ allocated' = {}
    /\ map' = NewMap /\ lists' = NewLists
    /\ result' = "success"
    /\ NoEvents

Known == {map.keys[i] : i \in DOMAIN map.keys}

Added(socket, condition, works) == tds_ulist_add(lists[condition], socket, works[condition])

\* The first of the lists, in their order, that could not grow.
Failing(socket, interest, works) ==
    {c \in interest : Added(socket, c, works).sts # 0}

\* What is left when one of them fails: those before it have grown and were
\* taken back from.
RollBack(socket, interest, works) ==
    LET order == SelectSeq(<<"read", "write", "error">>, LAMBDA c : c \in interest)
        bad == CHOOSE k \in DOMAIN order :
                  /\ order[k] \in Failing(socket, interest, works)
                  /\ \A j \in 1 .. k - 1 : order[j] \notin Failing(socket, interest, works)
    IN  [c \in Conditions |->
            IF \E k \in 1 .. bad - 1 : order[k] = c
            THEN LET grown == Added(socket, c, works).to
                 IN  tds_ulist_remove(grown, Len(grown.data), TRUE).to
            ELSE lists[c]]

tcs_pool_add(socket, user, interest) ==
    /\ call' = <<"add", socket>>
    /\ pool /\ socket \notin Known
    /\ \/ /\ interest = {}
          /\ result' = "invalid_argument"
          /\ UNCHANGED <<map, lists>>
       \/ /\ interest # {}
          /\ \E works \in OneFails({"key", "value"} \cup interest) :
                LET added == tds_map_add(map, socket, user, works["key"], works["value"])
                IN  IF added.sts # 0
                    THEN result' = "memory" /\ map' = added.to /\ UNCHANGED lists
                    ELSE IF Failing(socket, interest, works) # {}
                    THEN /\ result' = "memory"
                         /\ lists' = RollBack(socket, interest, works)
                         /\ map' = tds_map_remove(added.to, Len(added.to.keys), TRUE, TRUE).to
                    ELSE /\ result' = "success"
                         /\ map' = added.to
                         /\ lists' = [c \in Conditions |->
                                IF c \in interest THEN Added(socket, c, works).to ELSE lists[c]]
    /\ UNCHANGED <<pool, allocated>>
    /\ NoEvents

\* The list without the first place of socket.
Without(list, socket) ==
    IF ~Contains(list.data, socket) THEN list
    ELSE tds_ulist_remove(list, SelectInSeq(list.data, LAMBDA s : s = socket), TRUE).to

tcs_pool_remove(socket) ==
    /\ call' = <<"remove", socket>>
    /\ pool
    /\ lists' = [c \in Conditions |-> Without(lists[c], socket)]
    /\ \/ /\ socket \in Known
          /\ map' = tds_map_remove(map, SelectInSeq(map.keys, LAMBDA s : s = socket), TRUE, TRUE).to
          /\ result' = "success"
       \/ /\ socket \notin Known
          /\ result' = IF lists' = lists THEN "invalid_argument" ELSE "success"
          /\ UNCHANGED map
    /\ UNCHANGED <<pool, allocated>>
    /\ NoEvents

\* What one socket of a list adds to the events: its condition to the event
\* it has already, or an event.  Once there is no room nothing is added.
Tell(told, socket, condition, room) ==
    IF Len(told) >= room THEN told
    ELSE IF \E k \in DOMAIN told : told[k].socket = socket
    THEN [k \in DOMAIN told |->
            IF told[k].socket = socket THEN [told[k] EXCEPT !.conditions = @ \cup {condition}] ELSE told[k]]
    ELSE Append(told, [socket |-> socket, conditions |-> {condition},
                       user |-> map.values[SelectInSeq(map.keys, LAMBDA s : s = socket)]])

\* select leaves in each set the sockets that met its condition (external).
Selected(condition, met) == SelectSeq(lists[condition].data, LAMBDA s : condition \in met[s])

Told(told, condition, met, room) ==
    FoldLeft(LAMBDA t, s : Tell(t, s, condition, room), told, Selected(condition, met))

\* The sets that do not fit on the stack are allocated, and freed again.
tcs_pool_poll ==
    /\ call' = <<"poll">>
    /\ pool
    /\ \/ result' = "system" /\ NoEvents
       \/ /\ \E c \in Conditions : Len(lists[c].data) > FdSetSize
          /\ result' = "memory"
          /\ NoEvents
       \/ \E met \in [Sockets -> Mets], room \in Rooms :
             LET some == \E c \in Conditions : Selected(c, met) # << >>
                 read == Told(<< >>, "read", met, room)
                 write == Told(read, "write", met, room)
             IN  /\ polled' = [met |-> met, room |-> room]
                 /\ events' = Told(write, "error", met, room)
                 /\ result' = IF some THEN "success" ELSE "timed_out"
    /\ UNCHANGED <<pool, map, lists, allocated>>

Next ==
    \/ tcs_pool_create \/ tcs_pool_destroy \/ tcs_pool_poll
    \/ \E s \in Sockets, user \in Users, interest \in Interests : tcs_pool_add(s, user, interest)
    \/ \E s \in Sockets : tcs_pool_remove(s)

Spec == Init /\ [][Next]_vars

-----------------------------------------------------------------------------
(* Correctness.                                                            *)

(* Without a pool nothing is allocated.                                    *)
NothingLeaks == ~pool => allocated = {}

Interest(s) == {c \in Conditions : Contains(lists[c].data, s)}

\* The sockets of the pool, as TcsPool knows them.
Registered ==
    [s \in Known |->
        [user |-> map.values[SelectInSeq(map.keys, LAMBDA k : k = s)], interest |-> Interest(s)]]

Promise == INSTANCE TcsPool WITH registered <- Registered

(* Three lists and a map, filled and emptied one after the other with      *)
(* memory running out between any two, are the one pool of TcsPool.        *)
ImplementsPool == Promise!Spec

(* What tinycsocket.h:1329 says: events may be missing if there is too     *)
(* little room for them.  So where there is room for all the sockets, all  *)
(* of what they wait for is told.                                          *)
WholeEvents ==
    polled.room >= Cardinality(Promise!Due(polled.met)) =>
        \A s \in Promise!Waited(polled.met) :
            \E i \in DOMAIN events :
                events[i].socket = s /\ polled.met[s] \cap Interest(s) \subseteq events[i].conditions
=============================================================================
