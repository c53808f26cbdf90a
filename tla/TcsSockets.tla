----------------------------- MODULE TcsSockets -----------------------------
(***************************************************************************)
(* Sockets of tinycsocket, one matter at a time: one is set up, lines are  *)
(* received on one, a pool keeps several on POSIX, one is bound to an      *)
(* interface by its name, or addresses are listed.  Only the variables of  *)
(* the matter at hand change; those that several name alike are shared, as *)
(* they are with the matters that MCTinycsocket adds.                      *)
(***************************************************************************)
EXTENDS Integers, Sequences, FiniteSets

CONSTANTS
    LineTexts,          \* what may be sent to tcs_receive_line
    LineCapacity,       \* how many bytes the kernels hold of it
    LineBuffer,         \* the length of the receiver's buffer
    LineTimeOuts,       \* bound: of its calls that time out
    SetupSystems,       \* the systems that sockets are set up on
    PoolSockets,        \* the sockets that may be in a pool, with their
    PoolUsers,          \* user data and the
    PoolInterests,      \* conditions they wait for; the
    PoolMets,           \* conditions met at once
    PoolRooms,          \* and the events that may be asked for; and
    PoolCapacity,       \* the least capacity of its arrays
    NameHosts,          \* the computers with interfaces to be found by name, with
    NameRoom,           \* the interfaces that the stack has room for; those
    ListHosts,          \* whose addresses are listed, with
    ListRooms,          \* the room a caller may have;
    BufferRoom,         \* what the fallback's first buffer has room for; and
    MaxChanges          \* bound: how many interfaces come or go

VARIABLES
    matter,                                                       \* the one at hand
    pc, call, result, pool, ctx, sent, buffer, buf_len,           \* of several modules
    chunks, wire, open,                                           \* of TcsStream
    bytes_read, bytes_searched, results, received, timeouts,      \* of TcsLine
    system, socket, steps,                                        \* of TcsSetup
    map, allocated, polled, events,                               \* of the pools
    host, up, steady, changes,                                    \* of TcsInterfaces
    wanted, room, interfaces, count, bound,                       \* of TcsInterfaceByName
    entries, id, interface_addresses, out_count, still            \* of TcsAddressList

streamVars == <<chunks, wire, open, sent, buffer>>
lineVars == <<bytes_read, bytes_searched, results, received, timeouts>>
setupVars == <<system, socket, steps>>
poolVars == <<map, allocated, polled, events>>
interfaceVars == <<host, up, steady, changes, buf_len>>
nameVars == <<wanted, room, interfaces, count, bound>>
listVars == <<entries, id, interface_addresses, out_count, still>>
socketVars ==
    <<matter, pc, call, result, pool, ctx, streamVars, lineVars, setupVars, poolVars,
      interfaceVars, nameVars, listVars>>

Line == INSTANCE TcsLine WITH
    Capacity <- LineCapacity, BufferLength <- LineBuffer, Texts <- LineTexts,
    CanTimeOut <- TRUE, MaxTimeOuts <- LineTimeOuts, Fails <- TRUE

Setup == INSTANCE TcsSetup WITH Systems <- SetupSystems

\* realloc does not fail to make a block smaller (see TcsPoolPosix).
Posix == INSTANCE TcsPoolPosix WITH
    MinimumCapacity <- PoolCapacity, Sockets <- PoolSockets, Users <- PoolUsers, Rooms <- PoolRooms,
    Mets <- PoolMets, Interests <- PoolInterests, ShrinkMayFail <- FALSE

\* The pool that the one on POSIX is.
Kept == INSTANCE TcsPool WITH
    Sockets <- PoolSockets, Users <- PoolUsers, Rooms <- PoolRooms, Mets <- PoolMets,
    Interests <- PoolInterests, registered <- Posix!Registered

Name == INSTANCE TcsInterfaceByName WITH Hosts <- NameHosts, StackRoom <- NameRoom

Listing == INSTANCE TcsAddressList WITH Hosts <- ListHosts, Capacities <- ListRooms

ASSUME SocketsAssumption ==
    /\ Line!StreamAssumption /\ Line!LineAssumption /\ Setup!SetupAssumption
    /\ Posix!MinimumCapacityAssumption /\ Posix!PosixPoolAssumption /\ Kept!PoolAssumption
    /\ Name!InterfacesAssumption /\ Name!ByNameAssumption
    /\ Listing!InterfacesAssumption /\ Listing!ListAssumption

\* What the other variables are while their matter is not at hand.
NoCall == call = <<"none">>
NoStream == chunks = << >> /\ wire = << >> /\ open = FALSE /\ sent = << >> /\ buffer = << >>
NoLine == bytes_read = 0 /\ bytes_searched = 0 /\ results = << >> /\ received = << >> /\ timeouts = 0
NoSetup == system = << >> /\ socket = {} /\ steps = << >>
NoPool == map = Posix!NewMap /\ allocated = {} /\ polled = Posix!NoPoll /\ events = << >>
NoInterfaces == host = << >> /\ up = {} /\ steady = {} /\ changes = 0 /\ buf_len = 0
NoName == wanted = "none" /\ room = 0 /\ interfaces = << >> /\ count = 0 /\ bound = 0
NoList == entries = {} /\ id = 0 /\ interface_addresses = << >> /\ out_count = 0 /\ still = TRUE

SocketInit ==
    \/ /\ matter = "line" /\ Line!Init
       /\ NoCall /\ result = "none" /\ pool = FALSE /\ ctx = FALSE /\ NoSetup /\ NoPool
       /\ NoInterfaces /\ NoName /\ NoList
    \/ /\ matter = "setup" /\ Setup!Init
       /\ pc = "none" /\ NoStream /\ NoLine /\ NoPool /\ NoInterfaces /\ NoName /\ NoList
    \/ /\ matter = "posix" /\ Posix!Init
       /\ pc = "none" /\ ctx = FALSE /\ NoStream /\ NoLine /\ NoSetup /\ NoInterfaces /\ NoName /\ NoList
    \/ /\ matter = "name" /\ Name!Init
       /\ NoCall /\ pool = FALSE /\ ctx = FALSE /\ NoStream /\ NoLine /\ NoSetup /\ NoPool /\ NoList
    \/ /\ matter = "list" /\ Listing!Init
       /\ pool = FALSE /\ ctx = FALSE /\ NoStream /\ NoLine /\ NoSetup /\ NoPool /\ NoName

SocketNext ==
    /\ UNCHANGED matter
    /\ \/ /\ matter = "line" /\ Line!Next
          /\ UNCHANGED <<call, result, pool, ctx, setupVars, poolVars, interfaceVars, nameVars, listVars>>
       \/ /\ matter = "setup" /\ Setup!Next
          /\ UNCHANGED <<pc, streamVars, lineVars, poolVars, interfaceVars, nameVars, listVars>>
       \/ /\ matter = "posix" /\ Posix!Next
          /\ UNCHANGED <<pc, ctx, streamVars, lineVars, setupVars, interfaceVars, nameVars, listVars>>
       \/ /\ matter = "name" /\ Name!Next
          /\ UNCHANGED <<call, pool, ctx, streamVars, lineVars, setupVars, poolVars, listVars>>
       \/ /\ matter = "list" /\ Listing!Next
          /\ UNCHANGED <<pool, ctx, streamVars, lineVars, setupVars, poolVars, nameVars>>

SocketSpec == SocketInit /\ [][SocketNext]_socketVars

-----------------------------------------------------------------------------
(* See TcsPool and TcsPoolPosix.                                           *)
PosixPoolIsWhole == matter = "posix" => Posix!NothingLeaks /\ Posix!WholeEvents

(* See TcsLine: lines come as they were sent, no byte lost between them.   *)
LinesAreWhole == matter = "line" => Line!LinesAreWhole

(* See TcsInterfaceByName and TcsAddressList: what is said of interfaces   *)
(* is true of them, whatever comes and goes meanwhile.                     *)
InterfacesAreTrue ==
    /\ matter = "name" => Name!NamedIsBound
    /\ matter = "list" => Listing!ListIsTrue

(* See TcsSetup: a socket is set up as asked, or nothing is left of it.    *)
AllOrNothing == matter = "setup" => Setup!AllOrNothing
=============================================================================
