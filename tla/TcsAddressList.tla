--------------------------- MODULE TcsAddressList ---------------------------
(***************************************************************************)
(* tcs_address_list: takes a list of addresses from the system, and goes   *)
(* through it, asking for the index of an interface by its name as it      *)
(* goes, while interfaces come and go.                                     *)
(***************************************************************************)
EXTENDS TcsInterfaces, SequencesExt

CONSTANTS
    Capacities          \* how many addresses the caller's array may hold; -1 for no array

ListAssumption == Capacities \subseteq Nat \cup {-1}

VARIABLES
    pc,                 \* list; or what comes next for the entry at hand: filter, fill, ip4, packet; or returned
    call,               \* interface_id_filter, address_family_filter and capacity
    buf_len,            \* how many entries the fallback's buffer holds
    entries,            \* what is left of the system's list, in whatever order
    id,                 \* the index the fallback has found for the entry at hand
    interface_addresses,
    out_count,
    result,
    still               \* whether nothing has come or gone since the call began

vars == <<interfaceVars, pc, call, buf_len, entries, id, interface_addresses, out_count, result, still>>

\* native2sockaddr knows these families; "other" is one it does not.
Supported == {"ip4", "ip6", "packet"}

Calls ==
    [interface_id_filter : Ids \cup {0}, address_family_filter : Supported \cup {"any"}, capacity : Capacities]

Init ==
    /\ InterfacesInit
    /\ pc = "returned" /\ call \in {c \in Calls : c.interface_id_filter = 0 /\ c.address_family_filter = "any"}
    /\ buf_len = BufferRoom /\ entries = {} /\ id = 0 /\ interface_addresses = << >> /\ out_count = 0
    /\ result = "none" /\ still = TRUE

\* getifaddrs lists every address of every interface, GetAdaptersAddresses
\* no Ethernet address, and SIOCGIFCONF the IPv4 addresses.
SystemLists(family) ==
    CASE System = "getifaddrs" -> TRUE [] System = "win32" -> family # "packet" [] System = "ioctl" -> family = "ip4"

AddressesOf(ids) == {e \in [owner : ids, family : Families] : e.family \in Addresses[e.owner]}

SystemList == {e \in AddressesOf(up) : SystemLists(e.family)}

\* The fallback knows no IPv6.
Begin(c) ==
    /\ pc = "returned"
    /\ call' = c /\ buf_len' = BufferRoom /\ entries' = {} /\ id' = 0
    /\ interface_addresses' = << >> /\ out_count' = 0 /\ still' = TRUE
    /\ IF System = "ioctl" /\ c.address_family_filter = "ip6"
       THEN pc' = "returned" /\ result' = "success"
       ELSE pc' = "list" /\ result' = "none"
    /\ Look

\* The system tells what is there, to the fallback as much as fits its buffer.
List ==
    /\ pc = "list" /\ ~IsFull(Cardinality(SystemList), buf_len)
    /\ entries' \in {T \in SUBSET SystemList : Cardinality(T) = Fitting(Cardinality(SystemList), buf_len)}
    /\ pc' = "filter"
    /\ UNCHANGED <<buf_len, id, interface_addresses, out_count, result>>

\* The fallback asks again with twice the room.
Grow ==
    /\ pc = "list" /\ IsFull(Cardinality(SystemList), buf_len)
    /\ buf_len' = 2 * buf_len
    /\ UNCHANGED <<pc, entries, id, interface_addresses, out_count, result>>

\* No socket, no list or no memory for it.
ListFails ==
    /\ pc = "list" /\ pc' = "returned"
    /\ result' \in {"system", "memory"}
    /\ UNCHANGED <<buf_len, entries, id, interface_addresses, out_count>>

This == CHOOSE e \in entries : TRUE
NextEntry == pc' = "filter" /\ entries' = entries \ {This}
ToldNothing == UNCHANGED <<interface_addresses, out_count, result>>

\* The error of if_nametoindex.
Fail == pc' = "returned" /\ result' = "gone" /\ UNCHANGED <<entries, interface_addresses, out_count>>

FamilyFits(family) ==
    family \in Supported /\ call.address_family_filter \in {"any", family}

InterfaceFits(index) == call.interface_id_filter \in {0, index}

HasRoom == Len(interface_addresses) < call.capacity

\* What does not fit is counted, but not on Windows unless there is no array.
Counts == System # "win32" \/ HasRoom \/ call.capacity = -1

\* One address is stored, if there is room, and counted.
Tell(index, owner, family) ==
    /\ interface_addresses' = IF HasRoom THEN Append(interface_addresses, [id |-> index, owner |-> owner, family |-> family])
                              ELSE interface_addresses
    /\ out_count' = IF Counts THEN out_count + 1 ELSE out_count
    /\ UNCHANGED result

\* Windows tells the index with the address.
TellWin32 ==
    /\ System = "win32" /\ pc = "filter" /\ entries # {}
    /\ NextEntry
    /\ IF InterfaceFits(This.owner) /\ FamilyFits(This.family)
       THEN Tell(This.owner, This.owner, This.family) ELSE ToldNothing
    /\ UNCHANGED id

PassOver == NextEntry /\ ToldNothing

Gone(index) == index = 0

\* getifaddrs tells a name, whose index is asked for, for the filter and again
\* for the entry; when it is gone the call fails.
FilterPosix ==
    /\ System = "getifaddrs" /\ pc = "filter" /\ entries # {}
    /\ LET index == if_nametoindex(NameOf[This.owner])
           filtering == call.interface_id_filter # 0
           fits == (filtering => InterfaceFits(index)) /\ FamilyFits(This.family)
       IN  \/ filtering /\ Gone(index) /\ Fail
           \/ /\ filtering => ~Gone(index)
              /\ \/ fits /\ pc' = "fill" /\ UNCHANGED entries /\ ToldNothing
                 \/ ~fits /\ PassOver
    /\ UNCHANGED id

FillPosix ==
    /\ pc = "fill"
    /\ LET index == if_nametoindex(NameOf[This.owner]) IN
       \/ HasRoom /\ Gone(index) /\ Fail
       \/ ~(HasRoom /\ Gone(index)) /\ NextEntry /\ Tell(index, This.owner, This.family)
    /\ UNCHANGED id

\* The fallback asks for the index once, and skips what is gone.
FilterIoctl ==
    /\ System = "ioctl" /\ pc = "filter" /\ entries # {}
    /\ id' = if_nametoindex(NameOf[This.owner])
    /\ IF ~Gone(id') /\ InterfaceFits(id') THEN pc' = "ip4" /\ UNCHANGED entries ELSE NextEntry
    /\ ToldNothing

Ip4Ioctl ==
    /\ pc = "ip4" /\ pc' = "packet"
    /\ IF FamilyFits("ip4") THEN Tell(id, This.owner, "ip4") ELSE ToldNothing
    /\ UNCHANGED <<entries, id>>

\* The Ethernet address is asked for by the name.
PacketIoctl ==
    /\ pc = "packet" /\ NextEntry
    /\ LET index == if_nametoindex(NameOf[This.owner])
       IN  IF FamilyFits("packet") /\ index # 0 /\ "packet" \in Addresses[index]
           THEN Tell(id, index, "packet") ELSE ToldNothing
    /\ UNCHANGED id

Return ==
    /\ pc = "filter" /\ entries = {}
    /\ pc' = "returned" /\ result' = "success"
    /\ UNCHANGED <<entries, id, interface_addresses, out_count>>

Step ==
    /\ \/ List \/ Grow \/ ListFails
       \/ /\ TellWin32 \/ FilterPosix \/ FillPosix \/ FilterIoctl \/ Ip4Ioctl \/ PacketIoctl \/ Return
          /\ UNCHANGED buf_len
    /\ UNCHANGED <<interfaceVars, call, still>>

Environment ==
    /\ Change /\ still' = FALSE
    /\ UNCHANGED <<pc, call, buf_len, entries, id, interface_addresses, out_count, result>>

Next == (\E c \in Calls : Begin(c)) \/ Step \/ Environment

Spec == Init /\ [][Next]_vars

-----------------------------------------------------------------------------
(* Correctness.                                                            *)

\* The addresses of some interfaces that the call asks for; the fallback
\* knows no IPv6, and no interface without IPv4.
AskedFor(ids) ==
    {[id |-> i, owner |-> i, family |-> f] :
        i \in {j \in ids : InterfaceFits(j) /\ (System = "ioctl" => "ip4" \in Addresses[j])},
        f \in {g \in Supported : FamilyFits(g)}}
KnownOf(ids) ==
    {e \in AskedFor(ids) : /\ e.family \in Addresses[e.id]
                           /\ System = "win32" => e.family # "packet"
                           /\ System = "ioctl" => e.family # "ip6"}

\* Where nothing changes, a call that gets a list succeeds, fills the array
\* with addresses that were asked for and tells how many there are, which may
\* be more (tinycsocket.h:1805).  Windows counts only what is stored, and the
\* fallback only what its buffer held, where its entries leave a rest of it.
CountIsTotal ==
    pc = "returned" /\ result \notin {"none", "system", "memory"} /\ still =>
        /\ result = "success"
        /\ System # "win32" /\ ListsAreWhole => out_count = Cardinality(KnownOf(up))
        /\ ToSet(interface_addresses) \subseteq KnownOf(up)
        /\ call.capacity # -1 =>
              Len(interface_addresses) = (IF call.capacity < out_count THEN call.capacity ELSE out_count)

\* An address is told with the interface that has it (tinycsocket.h:1798),
\* unless it is looked up by a name that another one has taken over.
EntriesAreTrue ==
    System = "win32" \/ OneOfAName(Ids) =>
        \A k \in DOMAIN interface_addresses : interface_addresses[k].id = interface_addresses[k].owner

\* An address of an interface that stays is counted, and told if there is
\* room for all, whatever else comes and goes; no address is told twice.
SteadyIsListed ==
    pc = "returned" /\ result = "success" =>
        /\ ListsAreWhole =>
              /\ Len(interface_addresses) < call.capacity => KnownOf(steady) \subseteq ToSet(interface_addresses)
              /\ System = "win32" \/ out_count >= Cardinality(KnownOf(steady))
        /\ IsInjective(interface_addresses)

(* The list of addresses is true and complete, whatever its room and       *)
(* whatever comes and goes between the questions it takes to make it; but  *)
(* for what Windows and a fallback on a 64-bit system leave out.           *)
ListIsTrue == CountIsTotal /\ EntriesAreTrue /\ SteadyIsListed
=============================================================================
