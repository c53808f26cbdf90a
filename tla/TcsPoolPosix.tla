---------------------------- MODULE TcsPoolPosix ----------------------------
(***************************************************************************)
(* A tinycsocket pool on POSIX: one map from pollfd to user data, handed   *)
(* to poll as it is.  One thread uses the pool, and adds a socket that is  *)
(* in it only after it has removed it.                                     *)
(***************************************************************************)
EXTENDS TdsMap, FiniteSets

CONSTANTS Sockets, Users, Interests, Mets, Rooms,
    ShrinkMayFail       \* whether realloc may fail to make a block smaller

PosixPoolAssumption == ShrinkMayFail \in BOOLEAN

VARIABLES
    pool,               \* whether the program has a pool
    map,                \* its map: keys are [fd, events], values user data
    allocated,          \* the blocks in use
    polled, events, call, result      \* as in TcsPool

vars == <<pool, map, allocated, polled, events, call, result>>

Blocks == {"pool", "keys", "values"}

NoPoll == [met |-> [s \in Sockets |-> {}], room |-> 0]
NoEvents == polled' = NoPoll /\ events' = << >>

Init ==
    /\ pool = FALSE
    /\ map = NewMap
    /\ allocated = {}
    /\ polled = NoPoll
    /\ events = << >>
    /\ call = <<"none">> /\ result = "success"

\* What tcs_pool_create leaves allocated.
Created(works) ==
    IF \A block \in Blocks : works[block] THEN Blocks ELSE {}

tcs_pool_create ==
    /\ call' = <<"create">>
    /\ ~pool
    /\ \E works \in [Blocks -> BOOLEAN] :
          /\ allocated' = Created(works)
          /\ pool' = (allocated' = Blocks)
          /\ result' = IF pool' THEN "success" ELSE "memory"
    /\ map' = NewMap
    /\ NoEvents

tcs_pool_destroy ==
    /\ call' = <<"destroy">>
    /\ pool
    /\ pool' = FALSE
    /\ allocated' = {}
    /\ map' = NewMap
    /\ result' = "success"
    /\ NoEvents

Known == {map.keys[i].fd : i \in DOMAIN map.keys}

tcs_pool_add(socket, user, interest) ==
    /\ call' = <<"add", socket>>
    /\ pool /\ socket \notin Known
    /\ \E key_works, value_works \in BOOLEAN :
          LET added == tds_map_add(map, [fd |-> socket, events |-> interest], user, key_works, value_works)
          IN  /\ map' = added.to
              /\ result' = IF added.sts = 0 THEN "success" ELSE "memory"
    /\ UNCHANGED <<pool, allocated>>
    /\ NoEvents

tcs_pool_remove(socket) ==
    /\ call' = <<"remove", socket>>
    /\ pool
    /\ \/ /\ socket \notin Known
          /\ result' = "invalid_argument"
          /\ UNCHANGED map
       \/ /\ socket \in Known
          /\ \E key_works, value_works \in IF ShrinkMayFail THEN BOOLEAN ELSE {TRUE} :
                LET first == CHOOSE i \in DOMAIN map.keys :
                                /\ map.keys[i].fd = socket
                                /\ \A j \in 1 .. i - 1 : map.keys[j].fd # socket
                    removed == tds_map_remove(map, first, key_works, value_works)
                IN  /\ map' = removed.to
                    /\ result' = IF removed.sts = 0 THEN "success" ELSE "memory"
    /\ UNCHANGED <<pool, allocated>>
    /\ NoEvents

\* What poll reports of the entry at i (external): errors always.  Its sockets
\* are open: of one that was closed poll reports POLLNVAL, and the event tells
\* no condition and no error (tinycsocket.h:3212), which is left out.
revents(i, met) == met[map.keys[i].fd] \cap (map.keys[i].events \cup {"error"})

\* Mutant: the user data are those of the event's place in the answer.
EventShifted(i, k, met) ==
    [socket |-> map.keys[i].fd, user |-> map.values[k], conditions |-> revents(i, met)]

\* The kth event, told of the entry at i.
Event(i, k, met) ==
    [socket |-> map.keys[i].fd, user |-> map.values[i], conditions |-> revents(i, met)]

fill_max(hits, room) == IF hits > room THEN room ELSE hits

\* The kth of the entries with something to tell, as the loop comes to them.
Hit(hits, k) == CHOOSE i \in hits : Cardinality({j \in hits : j <= i}) = k

\* poll itself may fail, as when a signal arrives.
tcs_pool_poll ==
    /\ call' = <<"poll">>
    /\ pool
    /\ \/ result' = "system" /\ NoEvents
       \/ \E met \in [Sockets -> Mets], room \in Rooms :
          LET hits == {i \in DOMAIN map.keys : revents(i, met) # {}}
              filled == fill_max(Cardinality(hits), room)
          IN  /\ polled' = [met |-> met, room |-> room]
              /\ events' = [k \in 1 .. filled |-> Event(Hit(hits, k), k, met)]
              /\ result' = IF hits = {} THEN "timed_out" ELSE "success"
    /\ UNCHANGED <<pool, map, allocated>>

Next ==
    \/ tcs_pool_create \/ tcs_pool_destroy \/ tcs_pool_poll
    \/ \E s \in Sockets, user \in Users, interest \in Interests : tcs_pool_add(s, user, interest)
    \/ \E s \in Sockets : tcs_pool_remove(s)

Spec == Init /\ [][Next]_vars

-----------------------------------------------------------------------------
(* Correctness.                                                            *)

\* The place of a socket of the map.
Entry(s) == CHOOSE i \in DOMAIN map.keys : map.keys[i].fd = s

(* Whatever could not be allocated, without a pool nothing is.             *)
NothingLeaks == ~pool => allocated = {}

\* The sockets of the pool, as TcsPool knows them.
Registered ==
    [s \in Known |-> [user |-> map.values[Entry(s)], interest |-> map.keys[Entry(s)].events]]

Promise == INSTANCE TcsPool WITH registered <- Registered

(* The arrays that grow, shrink and are filled from the end keep the pool  *)
(* that TcsPool promises: each socket its user data and interest, each     *)
(* event true, as many as there is room for, a failed call without effect. *)
ImplementsPool == Promise!Spec

(* Where there is room for all sockets that have something to tell, they   *)
(* tell all of it.                                                         *)
WholeEvents ==
    polled.room >= Cardinality(Promise!Due(polled.met)) =>
        \A s \in Promise!Waited(polled.met) :
            \E i \in DOMAIN events :
                /\ events[i].socket = s
                /\ polled.met[s] \cap map.keys[Entry(s)].events \subseteq events[i].conditions

(* What the comment in tds_map_remove says: an array never fails to        *)
(* shrink, so a socket in the pool can always be removed.                  *)
RemoveNeverFails == [][\A s \in Known : tcs_pool_remove(s) => result' # "memory"]_vars
=============================================================================
