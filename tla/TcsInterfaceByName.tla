------------------------- MODULE TcsInterfaceByName -------------------------
(***************************************************************************)
(* tcs_socket_packet_str: lists the interfaces, searches them for a name,  *)
(* lists them again where they were too many for the stack, and binds a    *)
(* socket to the index it found.                                           *)
(***************************************************************************)
EXTENDS TcsInterfaces

CONSTANTS
    StackRoom           \* how many interfaces the array on the stack holds, 16

ByNameAssumption == StackRoom \in Nat \ {0}

VARIABLES
    pc,                 \* where the call is: list, search, bind, or returned
    wanted,             \* interface_name
    room,               \* how many interfaces the array holds
    buf_len,            \* how many the fallback's buffer holds
    interfaces,         \* the array's entries
    count,
    bound,              \* the index the socket was bound to
    result

vars == <<interfaceVars, pc, wanted, room, buf_len, interfaces, count, bound, result>>

Names == {NameOf[i] : i \in Ids}

Init ==
    /\ InterfacesInit
    /\ pc = "returned" /\ wanted \in Names
    /\ room = StackRoom /\ buf_len = BufferRoom /\ interfaces = << >> /\ count = 0
    /\ bound = 0 /\ result = "none"

Begin(name) ==
    /\ pc = "returned" /\ pc' = "list" /\ wanted' = name
    /\ room' = StackRoom /\ buf_len' = BufferRoom
    /\ Look
    /\ bound' = 0 /\ result' = "none"
    /\ UNCHANGED <<interfaces, count>>

Return(sts) == pc' = "returned" /\ result' = sts

\* The fallback's buffer may be too small, and then it may notice.
TooSmall == IsFull(Len(tcs_interface_list), buf_len)

Stored(entries, told) == FirstOf(entries, IF told < room THEN told ELSE room)

List ==
    /\ pc = "list" /\ ~TooSmall
    /\ LET told == Fitting(Len(tcs_interface_list), buf_len)
       IN  interfaces' = Stored(tcs_interface_list, told) /\ count' = told
    /\ pc' = "search"
    /\ UNCHANGED <<interfaceVars, wanted, room, buf_len, bound, result>>

Twice(n) == 2 * n

\* The fallback asks again with twice the room.
Grow ==
    /\ pc = "list" /\ TooSmall
    /\ buf_len' = Twice(buf_len)
    /\ UNCHANGED <<interfaceVars, pc, wanted, room, interfaces, count, bound, result>>

ListFails ==
    /\ pc = "list"
    /\ \E sts \in {"system", "memory"} : Return(sts)
    /\ UNCHANGED <<interfaceVars, wanted, room, buf_len, interfaces, count, bound>>

\* Mutant: what did not fit on the stack is not listed again.
FitsAlways == TRUE

\* The first list was whole, or this is the second one.
FitsOnStack == count <= StackRoom

Hits == {k \in DOMAIN interfaces : interfaces[k].name = wanted}

Found ==
    /\ pc = "search" /\ Hits # {}
    /\ bound' = interfaces[CHOOSE k \in Hits : \A j \in Hits : k <= j].id
    /\ pc' = "bind"
    /\ UNCHANGED <<interfaceVars, wanted, room, buf_len, interfaces, count, result>>

ListAgain ==
    /\ pc = "search" /\ Hits = {} /\ room = StackRoom /\ ~FitsOnStack
    /\ \/ room' = count /\ pc' = "list" /\ buf_len' = BufferRoom /\ UNCHANGED result
       \/ Return("memory") /\ UNCHANGED <<room, buf_len>>
    /\ UNCHANGED <<interfaceVars, wanted, interfaces, count, bound>>

\* When there are more than the second list has room for, the entries beyond
\* it are memory that nobody wrote.
NotFound ==
    /\ pc = "search" /\ Hits = {} /\ (FitsOnStack \/ room # StackRoom)
    /\ \/ Return("invalid_argument") /\ UNCHANGED bound
       \/ /\ count > room
          /\ pc' = "bind" /\ bound' \in Ids /\ UNCHANGED result
    /\ UNCHANGED <<interfaceVars, wanted, room, buf_len, interfaces, count>>

\* tcs_socket_packet binds to the index, which must be there now.
tcs_socket_packet ==
    \/ bound \in up /\ Return("success")
    \/ Return("system")

Bind ==
    /\ pc = "bind" /\ tcs_socket_packet
    /\ UNCHANGED <<interfaceVars, wanted, room, buf_len, interfaces, count, bound>>

Environment ==
    /\ Change
    /\ UNCHANGED <<pc, wanted, room, buf_len, interfaces, count, bound, result>>

Call == List \/ Grow \/ ListFails \/ Found \/ ListAgain \/ NotFound \/ Bind

Next == (\E name \in Names : Begin(name)) \/ Call \/ Environment

Spec == Init /\ [][Next]_vars

-----------------------------------------------------------------------------
(* Correctness.                                                            *)

\* A call says that an interface is not found only if it was not there all
\* the time (tinycsocket.h:814); the fallback knows those with IPv4.
PresentIsFound ==
    result = "invalid_argument" =>
        ~\E i \in steady : NameOf[i] = wanted /\ (System = "ioctl" => "ip4" \in Addresses[i])

\* A socket is bound to the interface that has the name (tinycsocket.h:782),
\* whatever has come and gone since it was listed.
BoundIsWanted == result = "success" => bound \in Ids /\ NameOf[bound] = wanted

(* A packet socket is bound to the interface that was named, or none has   *)
(* the name.  Three things the code does not do are left out.  The         *)
(* fallback numbers the interfaces itself, and the socket is bound to that *)
(* number (tinycsocket.h:3778).  An interface that comes between two lists *)
(* can push others out of the second, where memory that nobody wrote is    *)
(* searched instead (6378).  And where its entries leave a rest of the     *)
(* buffer, the fallback takes the part that fits for all (3750).           *)
NamedIsBound ==
    ~CanAppear \/ StackRoom >= Cardinality(Ids) =>
        /\ System # "ioctl" => BoundIsWanted
        /\ ListsAreWhole => PresentIsFound
=============================================================================
