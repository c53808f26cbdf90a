------------------------------ MODULE TcsSetup ------------------------------
(***************************************************************************)
(* The functions of tinycsocket that set up a socket in several steps, any *)
(* of which may fail: tcs_socket_tcp, tcs_socket_udp and tcs_socket_packet,*)
(* and the _str forms that resolve addresses first.  A program has one     *)
(* socket variable; it sets it up, leaves the multicast group it joined,   *)
(* and closes it.                                                          *)
(*                                                                         *)
(* An address is "any", which binds to all interfaces, or "host".  A       *)
(* remote address is a host or a multicast group.                          *)
(***************************************************************************)
EXTENDS Integers, Sequences, FiniteSets

CONSTANTS
    Systems             \* those that tinycsocket may run on

SetupAssumption ==
    Systems \subseteq [windows : BOOLEAN, os_fails : BOOLEAN, close_may_fail : BOOLEAN,
                      answers : SUBSET {"up", "refused", "unreachable"}]

VARIABLES
    system,             \* the one at hand: the implementation for Windows or for POSIX,
                        \* whether its calls may fail, whether closing a socket may,
                        \* and what a connection may come to
    ctx,                \* whether *socket_ctx is a socket, or TCS_SOCKET_INVALID
    socket,             \* the system's sockets, at most one: how they are set up
    pool,               \* whether a pool is allocated
    call,               \* the arguments of the call in progress, or of the last one
    steps,              \* what is left of it to do
    result              \* of the last call, or none while it runs

vars == <<system, ctx, socket, pool, call, steps, result>>

Windows == system.windows
OsFails == system.os_fails
CloseMayFail == system.close_may_fail
Answers == system.answers

Families == {"ip4", "ip6"}

Calls ==
    [fn : {"tcp"}, str : BOOLEAN, local : {"none", "any", "host"}, remote : {"none", "host"},
     family : Families, remote_family : Families, timed : BOOLEAN]
    \cup
    [fn : {"udp"}, str : BOOLEAN, local : {"none", "any", "host"}, remote : {"none", "host", "group"},
     family : Families, remote_family : Families, timed : {FALSE}]
    \cup
    [fn : {"packet"}, str : {FALSE}, local : {"host"}, remote : {"none"},
     family : {"packet"}, remote_family : {"packet"}, timed : {FALSE}]

\* The local address is the system's choice until it is bound or connected.
NewSocket(family) ==
    [family |-> family, reuse |-> FALSE, local |-> "none", blocking |-> TRUE, link |-> "none", group |-> "none"]

Init ==
    /\ system \in Systems
    /\ ctx = FALSE /\ socket = {} /\ pool = FALSE
    /\ call \in {c \in Calls : c.fn = "packet"} /\ steps = << >> /\ result = "none"

The == CHOOSE s \in socket : TRUE
Idle == steps = << >>

\* What is refused before anything is done: no address, or addresses of two
\* families.  A string of another family is found out when it is resolved.
Mismatched(c) == c.local # "none" /\ c.remote # "none" /\ c.family # c.remote_family

Illegal(c) == (c.local = "none" /\ c.remote = "none") \/ (~c.str /\ Mismatched(c))

Connection(c) ==
    IF c.timed THEN <<"nonblocking", "connect", "pool_create", "pool_add", "poll", "blocking">>
    ELSE <<"connect", "await">>

Resolving(c) ==
    IF ~c.str THEN << >>
    ELSE (IF c.local # "none" THEN <<"resolve">> ELSE << >>) \o (IF c.remote # "none" THEN <<"resolve">> ELSE << >>)

Binding(c) == IF c.local # "none" THEN <<"reuse", "bind">> ELSE << >>

tcs_socket_tcp(c) ==
    <<"socket">> \o Binding(c) \o (IF c.remote # "none" THEN Connection(c) ELSE << >>)

tcs_socket_udp(c) ==
    <<"socket">> \o Binding(c)
        \o (IF c.remote = "group" THEN <<"join">> ELSE << >>)
        \o (IF c.remote = "host" \/ (c.remote = "group" /\ c.local = "none") THEN <<"connect">> ELSE << >>)

tcs_socket_packet(c) == <<"socket", "bind">>

Begin(c) ==
    /\ Idle /\ ~ctx
    /\ call' = c
    /\ \/ /\ Illegal(c)
          /\ steps' = << >> /\ result' = "invalid_argument"
       \/ /\ ~Illegal(c)
          /\ result' = "none"
          /\ steps' = Resolving(c) \o
                (CASE c.fn = "tcp" -> tcs_socket_tcp(c)
                   [] c.fn = "udp" -> tcs_socket_udp(c)
                   [] c.fn = "packet" -> tcs_socket_packet(c))
    /\ UNCHANGED <<ctx, socket, pool>>

\* The step succeeds; after the last one the call does.
GoOn(left) ==
    /\ steps' = left
    /\ result' = IF left = << >> THEN "success" ELSE "none"
    /\ UNCHANGED call

\* Mutant: the socket is closed, and *socket_ctx still names it.
CloseKeepsName == socket' = {} /\ UNCHANGED ctx

\* tcs_close: when the system's close fails, the socket is gone and ctx is
\* as it was.
tcs_close ==
    /\ socket' = {}
    /\ \/ ctx' = FALSE
       \/ CloseMayFail /\ ctx' = ctx

\* The step fails: the call closes the socket and returns.
GiveUp(sts) ==
    /\ tcs_close
    /\ steps' = << >> /\ result' = sts
    /\ pool' = FALSE
    /\ UNCHANGED call

At(step) == ~Idle /\ Head(steps) = step

\* A step that is one call of the system, which leaves the socket as s.
SystemCall(step, s) ==
    /\ At(step)
    /\ \/ socket' = {s} /\ GoOn(Tail(steps)) /\ UNCHANGED <<ctx, pool>>
       \/ OsFails /\ GiveUp("system")

\* Nothing is open yet when an address cannot be resolved.
Resolve ==
    /\ At("resolve")
    /\ LET found == ~(Mismatched(call) /\ Head(Tail(steps)) # "resolve")
       IN  \/ found /\ GoOn(Tail(steps))
           \/ (OsFails \/ ~found) /\ steps' = << >> /\ result' = "lookup_failed" /\ UNCHANGED call
    /\ UNCHANGED <<ctx, socket, pool>>

tcs_socket ==
    /\ At("socket")
    /\ \/ /\ ~(Windows /\ call.family = "packet")
          /\ ctx' = TRUE /\ socket' = {NewSocket(call.family)}
          /\ GoOn(Tail(steps))
       \/ /\ OsFails \/ (Windows /\ call.family = "packet")
          /\ steps' = << >> /\ result' = "system"
          /\ UNCHANGED <<ctx, socket, call>>
    /\ UNCHANGED pool

tcs_opt_reuse_address_set == SystemCall("reuse", [The EXCEPT !.reuse = TRUE])

tcs_bind == SystemCall("bind", [The EXCEPT !.local = call.local])

tcs_opt_nonblocking_set ==
    \/ SystemCall("nonblocking", [The EXCEPT !.blocking = FALSE])
    \/ SystemCall("blocking", [The EXCEPT !.blocking = TRUE])

\* The interface the system has for a socket: before it is bound POSIX says
\* any, and Windows refuses to say.
Interface(s) == IF s.local = "none" THEN "any" ELSE s.local
HasInterface(s) == ~Windows \/ s.local # "none"

tcs_opt_membership_add ==
    /\ At("join")
    /\ \/ HasInterface(The) /\ SystemCall("join", [The EXCEPT !.group = Interface(The)])
       \/ ~HasInterface(The) /\ GiveUp("system")

\* Connecting chooses the interface.
Connecting(s, link) ==
    [s EXCEPT !.link = link, !.local = IF s.local \in {"none", "any"} THEN "chosen" ELSE s.local]

NotUpYet ==
    /\ socket' = {Connecting(The, "connecting")} /\ GoOn(Tail(steps))
    /\ UNCHANGED <<ctx, pool>>

\* A datagram socket is connected at once; a stream socket may be, and is in
\* progress otherwise.
tcs_connect ==
    /\ At("connect")
    /\ \/ /\ call.fn = "udp"
          /\ socket' = {Connecting(The, "up")} /\ GoOn(Tail(steps))
          /\ UNCHANGED <<ctx, pool>>
       \/ /\ call.fn = "tcp" /\ "up" \in Answers
          /\ socket' = {Connecting(The, "up")}
          /\ GoOn(IF call.timed THEN SubSeq(steps, 5, Len(steps)) ELSE << >>)
          /\ UNCHANGED <<ctx, pool>>
       \/ call.fn = "tcp" /\ NotUpYet
       \/ OsFails /\ GiveUp("system")

\* The network answers, or does not.
Answer ==
    /\ socket # {} /\ The.link = "connecting"
    /\ \E answer \in Answers : socket' = {[The EXCEPT !.link = answer]}
    /\ UNCHANGED <<ctx, pool, call, steps, result>>

\* A blocking connect returns when the network has answered, or when the
\* system has waited long enough.
Await ==
    /\ At("await")
    /\ \/ The.link = "up" /\ GoOn(Tail(steps)) /\ UNCHANGED <<ctx, socket, pool>>
       \/ The.link \in {"refused", "unreachable"} /\ GiveUp(The.link)
       \/ The.link = "connecting" /\ GiveUp("timed_out")

tcs_pool_create ==
    /\ At("pool_create")
    /\ \/ pool' = TRUE /\ GoOn(Tail(steps)) /\ UNCHANGED <<ctx, socket>>
       \/ OsFails /\ GiveUp("memory")

tcs_pool_add ==
    /\ At("pool_add")
    /\ \/ GoOn(Tail(steps)) /\ UNCHANGED <<ctx, socket, pool>>
       \/ OsFails /\ GiveUp("memory")

WasRefused(s) == s.link \in {"refused", "unreachable"}

TimeIsOver == The.link = "connecting" /\ GiveUp("timed_out")

\* Waits for the socket to be writable or in error; the pool is destroyed
\* whatever comes of it.
tcs_pool_poll ==
    /\ At("poll")
    /\ \/ /\ The.link # "connecting" /\ ~WasRefused(The)
          /\ pool' = FALSE /\ GoOn(Tail(steps)) /\ UNCHANGED <<ctx, socket>>
       \/ WasRefused(The) /\ GiveUp("refused")
       \/ TimeIsOver
       \/ OsFails /\ GiveUp("system")

\* The program leaves the group that the socket joined.  The system knows a
\* membership by the group and the address of the interface it was joined on;
\* for IPv6 by the interface's scope, which is the same before and after.
KnownMember(s) == s.family = "ip6" \/ Interface(s) \in {"any", s.group}

tcs_opt_membership_drop ==
    /\ Idle /\ ctx /\ socket # {} /\ The.group # "none"
    /\ \/ /\ KnownMember(The)
          /\ socket' = {[The EXCEPT !.group = "none"]} /\ result' = "success"
       \/ /\ ~KnownMember(The)
          /\ result' = "system" /\ UNCHANGED socket
    /\ call' = [call EXCEPT !.fn = "drop"]
    /\ UNCHANGED <<ctx, pool, steps>>

\* The program closes its socket.
Close ==
    /\ Idle /\ ctx
    /\ tcs_close
    /\ call' = [call EXCEPT !.fn = "close"] /\ result' = "none"
    /\ UNCHANGED <<pool, steps>>

Step ==
    \/ Resolve \/ tcs_socket \/ tcs_opt_reuse_address_set \/ tcs_bind \/ tcs_opt_nonblocking_set
    \/ tcs_opt_membership_add \/ tcs_connect \/ Await \/ tcs_pool_create \/ tcs_pool_add \/ tcs_pool_poll

Next ==
    /\ (\E c \in Calls : Begin(c)) \/ Step \/ Answer \/ tcs_opt_membership_drop \/ Close
    /\ UNCHANGED system

Spec == Init /\ [][Next]_vars

-----------------------------------------------------------------------------
(* Correctness.                                                            *)

InSetup == call.fn \in {"tcp", "udp", "packet"}
Succeeded == Idle /\ InSetup /\ result = "success"
Failed == Idle /\ InSetup /\ result \notin {"none", "success"}

\* A call that fails leaves *socket_ctx TCS_SOCKET_INVALID, no socket open
\* and no pool allocated (tinycsocket.h:545).
SetBack == Failed => ~ctx /\ socket = {} /\ ~pool

\* A call that succeeds is bound with its address reused, connected or a
\* member of the group, and blocking (tinycsocket.h:540 and 643).
AsAsked ==
    Succeeded =>
        /\ ctx /\ The.blocking /\ The.family = call.family
        /\ call.local # "none" => The.local \in {call.local, "chosen"}
        /\ call.local # "none" /\ call.fn # "packet" => The.reuse
        /\ (The.link = "up") <=> (call.remote = "host" \/ (call.remote = "group" /\ call.local = "none"))
        /\ (The.group # "none") <=> (call.remote = "group")

\* Where nothing fails and the network says yes, a legal call succeeds,
\* unless its time is over first.  (Windows cannot join a group on a socket
\* that is not bound.)
LegalCallSucceeds ==
    Failed /\ ~OsFails /\ Answers = {"up"} /\ ~Windows =>
        Illegal(call) \/ Mismatched(call) \/ result = "timed_out"

(* However far it got, a call that sets up a socket has done all that was  *)
(* asked for and undone what it did for itself, or has undone everything.  *)
(* It is not claimed where closing a socket fails (CloseMayFail).          *)
AllOrNothing == ~CloseMayFail => SetBack /\ AsAsked /\ LegalCallSucceeds

(* tinycsocket.h:581 and 1703; neither holds, see the README: a call says  *)
(* that the connection was refused only if it was, and the group a socket  *)
(* has joined can be left again.                                           *)
RefusedMeansRefused ==
    [][Idle' /\ result' = "refused" /\ result # "refused" => The.link = "refused"]_vars
GroupCanBeLeft == call.fn = "drop" => result = "success"
=============================================================================
