---------------------------- MODULE TcsInterfaces ----------------------------
(***************************************************************************)
(* The network interfaces of a system, which come and go while             *)
(* tinycsocket asks about them, and what the system says when it is asked. *)
(* An interface has an index that is never used again, and a name that     *)
(* another one may have later.                                             *)
(***************************************************************************)
EXTENDS Integers, Sequences, FiniteSets

CONSTANTS
    Hosts,              \* the computers that may be asked
    BufferRoom,         \* how many entries the fallback's first buffer holds
    MaxChanges          \* bound: how many interfaces come or go

\* Where addresses are of a family that tinycsocket does not know: "other".
Families == {"ip4", "ip6", "packet", "other"}

\* A computer has interfaces, by their indexes, which are positive, with the
\* name and the families of addresses of each; it lists them with getifaddrs,
\* with ioctl (the fallback) or as Windows does; and it says whether
\* interfaces come during a call.  The fallback's entries, a struct ifreq
\* each, fill its buffer of 512 bytes, or of twice as many and so on, where
\* they are of 32 bytes; of 40, on 64-bit systems, they leave a rest.
IsHost(h) ==
    /\ DOMAIN h.names \subseteq Nat \ {0} /\ IsFiniteSet(DOMAIN h.names)
    /\ h.addresses \in [DOMAIN h.names -> SUBSET Families]
    /\ h.system \in {"getifaddrs", "ioctl", "win32"}
    /\ h.can_appear \in BOOLEAN /\ h.fills \in BOOLEAN

InterfacesAssumption ==
    (\A h \in Hosts : IsHost(h)) /\ BufferRoom \in Nat \ {0} /\ MaxChanges \in Nat

VARIABLES
    host,               \* the computer that is asked
    up,                 \* the interfaces that are there
    steady,             \* those that have been since the call began
    changes             \* how many came or went

interfaceVars == <<host, up, steady, changes>>

Ids == DOMAIN host.names
NameOf == host.names
Addresses == host.addresses
System == host.system
CanAppear == host.can_appear

OneOfAName(ids) == \A i, j \in ids : NameOf[i] = NameOf[j] => i = j

InterfacesInit ==
    /\ host \in Hosts
    /\ up \in SUBSET Ids /\ OneOfAName(up)
    /\ steady = up /\ changes = 0

Appear(i) ==
    /\ CanAppear /\ changes < MaxChanges
    /\ i \notin up /\ OneOfAName(up \cup {i})
    /\ up' = up \cup {i} /\ changes' = changes + 1
    /\ UNCHANGED <<host, steady>>

Vanish(i) ==
    /\ changes < MaxChanges /\ i \in up
    /\ up' = up \ {i} /\ steady' = steady \ {i} /\ changes' = changes + 1
    /\ UNCHANGED host

Change == \E i \in Ids : Appear(i) \/ Vanish(i)

\* A call begins.
Look == steady' = up /\ UNCHANGED <<host, up, changes>>

\* The interfaces in the order the system lists them.
Place(ids, i) == Cardinality({j \in ids : j <= i})

InOrder(ids) == [k \in 1 .. Cardinality(ids) |-> CHOOSE i \in ids : Place(ids, i) = k]

\* The index of the interface that has the name now, or 0.
if_nametoindex(name) ==
    IF \E i \in up : NameOf[i] = name THEN CHOOSE i \in up : NameOf[i] = name ELSE 0

\* Those with an IPv4 address.
WithIp4 == {i \in up : "ip4" \in Addresses[i]}

\* How many entries of n SIOCGIFCONF puts into a buffer for so many.
Fitting(n, buf_len) == IF System = "ioctl" /\ n > buf_len THEN buf_len ELSE n

\* The fallback asks again when no byte of the buffer is left.
IsFull(n, buf_len) == System = "ioctl" /\ host.fills /\ n >= buf_len

\* So it cannot take a part of the interfaces for all.
ListsAreWhole == System = "ioctl" => host.fills \/ Cardinality({i \in Ids : "ip4" \in Addresses[i]}) <= BufferRoom

\* The first n of a list.
FirstOf(list, n) == [k \in {j \in DOMAIN list : j <= n} |-> list[k]]

\* The entries of all interfaces, of which the caller gets those it has room
\* for, and the number.  The fallback numbers them itself.
tcs_interface_list ==
    LET listed == InOrder(IF System = "ioctl" THEN WithIp4 ELSE up)
    IN  [k \in DOMAIN listed |-> [id |-> IF System = "ioctl" THEN k ELSE listed[k], name |-> NameOf[listed[k]]]]
=============================================================================
