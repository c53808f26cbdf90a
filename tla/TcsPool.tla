------------------------------ MODULE TcsPool ------------------------------
(***************************************************************************)
(* What a tinycsocket pool promises, on every system: it keeps a set of    *)
(* sockets, each with the user's data and the conditions it waits for, and *)
(* a poll tells which of them are met.                                     *)
(***************************************************************************)
EXTENDS Integers, Sequences, FiniteSets

CONSTANTS
    Sockets,
    Users,              \* user_data
    Interests,          \* the conditions a socket may be added for
    Mets,               \* the conditions that may be met at once
    Rooms               \* the values of events_count

Conditions == {"read", "write", "error"}

PoolAssumption == Interests \cup Mets \subseteq SUBSET Conditions /\ Rooms \subseteq Nat

VARIABLES
    registered,         \* the sockets of the pool: their user data and interest
    polled,             \* what the last call polled for: the conditions met, and its room
    events,             \* what it answered
    call,               \* the last call, and the socket it was for
    result              \* what it returned

vars == <<registered, polled, events, call, result>>

NoPoll == [met |-> [s \in Sockets |-> {}], room |-> 0]
NoEvents == polled' = NoPoll /\ events' = << >>

Init ==
    /\ registered = << >>
    /\ polled = NoPoll
    /\ events = << >>
    /\ call = <<"none">>
    /\ result = "success"

Add(socket, user, interest) ==
    /\ call' = <<"add", socket>> /\ result' = "success"
    /\ registered' = [s \in DOMAIN registered \cup {socket} |->
                        IF s = socket THEN [user |-> user, interest |-> interest] ELSE registered[s]]
    /\ NoEvents

Remove(socket) ==
    /\ call' = <<"remove", socket>> /\ result' = "success"
    /\ socket \in DOMAIN registered
    /\ registered' = [s \in DOMAIN registered \ {socket} |-> registered[s]]
    /\ NoEvents

Empty ==
    /\ call' \in {<<"create">>, <<"destroy">>} /\ result' = "success"
    /\ registered' = << >>
    /\ NoEvents

\* A call that fails changes nothing.
Fail ==
    /\ result' \in {"memory", "invalid_argument", "system"}
    /\ UNCHANGED registered
    /\ call'[1] \in {"create", "add", "remove", "poll"}
    /\ NoEvents

\* The sockets that wait for one of the conditions met, and those with an
\* error, which may be told although nobody waits for it.
Waited(met) == {s \in DOMAIN registered : met[s] \cap registered[s].interest # {}}
Due(met) == Waited(met) \cup {s \in DOMAIN registered : "error" \in met[s]}

IsTrue(event, met) ==
    LET s == event.socket IN
    /\ s \in DOMAIN registered
    /\ event.user = registered[s].user
    /\ event.conditions # {}
    /\ event.conditions \subseteq met[s] \cap (registered[s].interest \cup {"error"})

Poll ==
    /\ call' = <<"poll">>
    /\ polled' \in [met : [Sockets -> Mets], room : Rooms]
    /\ LET met == polled'.met
           room == polled'.room
       IN  /\ \A i, j \in DOMAIN events' : events'[i].socket = events'[j].socket => i = j
           /\ \A i \in DOMAIN events' : IsTrue(events'[i], met)
           /\ \E told \in {Waited(met), Due(met)} :
                 /\ Len(events') = IF Cardinality(told) < room THEN Cardinality(told) ELSE room
                 /\ result' = IF told = {} THEN "timed_out" ELSE "success"
    /\ UNCHANGED registered

Next ==
    \/ \E s \in Sockets, user \in Users, interest \in Interests : Add(s, user, interest)
    \/ \E s \in Sockets : Remove(s)
    \/ Empty \/ Fail \/ Poll

Spec == Init /\ [][Next]_vars
=============================================================================
