---------------------------- MODULE MCTinycsocket ----------------------------
(***************************************************************************)
(* tinycsocket beyond the calls of DriveSim, one matter at a time: those   *)
(* of TcsSockets, a pool on Windows, netstrings over a stream, or the text *)
(* of an address.  Only the variables of the matter at hand change.  Those *)
(* that several modules name alike (pc, call, result, ...) are shared.     *)
(***************************************************************************)
EXTENDS TcsSockets, SequencesExt

VARIABLES
    lists,                                                        \* of TcsPoolWin32
    expected_length, parsed, taken, delivered,                    \* of TcsNetstring
    address, text, at                                             \* of TcsAddressText

netstringVars == <<expected_length, parsed, taken, delivered>>
textVars == <<address, text, at>>
vars == <<socketVars, lists, netstringVars, textVars>>

-----------------------------------------------------------------------------
(* Pools of three sockets; a poll has too little room, or enough.          *)

MCPoolMets == {{}, {"read", "error"}}
MetAll == {{}, {"read", "write", "error"}}

MCPoolInterests == {{"read"}, {"read", "write", "error"}}

Win32 == INSTANCE TcsPoolWin32 WITH
    MinimumCapacity <- 1, Sockets <- PoolSockets, Users <- {"u"}, Rooms <- PoolRooms,
    Mets <- MetAll, Interests <- {{"error"}, {"read", "write"}}, FdSetSize <- 1

InPool == matter \in {"posix", "win32"}

Promise == INSTANCE TcsPool WITH
    Sockets <- PoolSockets, Users <- PoolUsers, Rooms <- PoolRooms, Mets <- MCPoolMets \cup MetAll,
    Interests <- {{"read"}, {"error"}, {"read", "write"}, {"read", "write", "error"}},
    call <- IF InPool THEN call ELSE <<"none">>,
    result <- IF InPool THEN result ELSE "success",
    registered <- IF matter = "win32" THEN Win32!Registered ELSE Posix!Registered

-----------------------------------------------------------------------------
(* Netstrings with binary digits: payloads that look like framing, or a    *)
(* stranger's texts, which are too long, too short or no netstrings.       *)

Colon == 2
Comma == 3
Other == 4

SomePayloads == {<<Comma>>, <<1, Colon>>, <<1, Colon, Comma>>}

SomeTexts == UNION {[1 .. n -> {0, 1, Colon, Comma, Other}] : n \in 1 .. 4} \cup
    {<<1, 0, 0, Colon, 1>>, <<0, 0, 1, Colon, Other, Comma>>,
     <<1, 0, Colon, Comma, Comma, Comma>>, <<1, 0, Colon, Other, Comma, Colon>>,
     <<1, 1, Colon, Other, 0, Comma, Comma>>}

Own == INSTANCE TcsNetstring WITH
    Base <- 2, MaxHeader <- 4, SizeMax <- 6, Capacity <- 3, BufferLength <- 3,
    Payloads <- SomePayloads, Texts <- {}, MaxMessages <- 3,
    Fails <- TRUE, LoopsForAll <- FALSE, CanTimeOut <- FALSE

Stranger == INSTANCE TcsNetstring WITH
    Base <- 2, MaxHeader <- 4, SizeMax <- 6, Capacity <- 6, BufferLength <- 2,
    Payloads <- {}, Texts <- SomeTexts, MaxMessages <- 1,
    Fails <- FALSE, LoopsForAll <- FALSE, CanTimeOut <- FALSE

\* tcs_receive of old Windows, which loops, and whose receives time out.
SlowStranger == INSTANCE TcsNetstring WITH
    Base <- 2, MaxHeader <- 4, SizeMax <- 6, Capacity <- 6, BufferLength <- 2,
    Payloads <- {}, Texts <- SomeTexts, MaxMessages <- 1,
    Fails <- TRUE, LoopsForAll <- TRUE, CanTimeOut <- TRUE

-----------------------------------------------------------------------------
(* Lines and sockets.  Every text of up to five bytes that can be told     *)
(* apart, so that lines are shorter than, as long as and longer than a     *)
(* buffer of two.  POSIX and Windows, where any call may fail; and where   *)
(* nothing fails and the network says yes.                                 *)

MCLineTexts == {[k \in DOMAIN p |-> k * p[k]] : p \in UNION {[1 .. n -> {0, 1}] : n \in 1 .. 5}}

MCSystems ==
    [windows : BOOLEAN, os_fails : {TRUE}, close_may_fail : {FALSE},
     answers : {{"up", "refused", "unreachable"}}]
    \cup [windows : {FALSE}, os_fails : {FALSE}, close_may_fail : {FALSE}, answers : {{"up"}}]

-----------------------------------------------------------------------------
(* Interfaces that come and go; with shared names the third has that of    *)
(* the first.  There are more, as many or fewer than the stack or the      *)
(* fallback's buffer has room for.                                         *)

Host(names, families, lister, can_appear, fills) ==
    [names |-> names, addresses |-> SubSeq(families, 1, Len(names)), system |-> lister,
     can_appear |-> can_appear, fills |-> fills]

FourNames == <<"lo", "eth0", "eth1", "wlan0">>
ThreeNames == <<"lo", "eth0", "eth1">>
SharedNames == <<"lo", "eth0", "lo">>

NameFamilies == <<{"ip4", "ip6"}, {"ip4", "ip6", "packet"}, {"ip4"}, {"ip6", "packet"}>>
ListFamilies == <<{"ip4", "ip6", "other"}, {"ip4", "ip6", "packet"}, {"ip4", "packet"}>>

MCNameHosts ==
    {Host(FourNames, NameFamilies, "getifaddrs", FALSE, TRUE), Host(FourNames, NameFamilies, "getifaddrs", TRUE, TRUE),
     Host(SharedNames, NameFamilies, "getifaddrs", TRUE, TRUE), Host(SharedNames, NameFamilies, "ioctl", TRUE, TRUE),
     Host(ThreeNames, NameFamilies, "ioctl", TRUE, FALSE)}

MCListHosts ==
    {Host(ThreeNames, ListFamilies, "getifaddrs", TRUE, TRUE), Host(SharedNames, ListFamilies, "ioctl", TRUE, TRUE),
     Host(ThreeNames, ListFamilies, "ioctl", TRUE, FALSE), Host(SharedNames, ListFamilies, "win32", TRUE, TRUE)}

MCListRooms == {-1, 1, 9}

-----------------------------------------------------------------------------
(* Addresses of eight groups, as they are and in every way to write them,  *)
(* and every text of some characters for an address of four.               *)

SomeGroups ==
    {<<0, 0, 0, 0, 0, 0, 0, 0>>, <<0, 0, 0, 0, 0, 0, 0, 1>>, <<8193, 3512, 0, 0, 1, 0, 0, 0>>,
     <<65152, 0, 0, 0, 0, 0, 49320, 257>>, <<1, 2, 3, 4, 5, 0, 7, 8>>, <<4660, 0, 0, 16, 0, 0, 9, 0>>}

Text == INSTANCE TcsAddressText WITH
    GroupCount <- 8, MaxPort <- 65535, MaxScope <- 99999, Alphabet <- {}, MaxLength <- 0,
    Addresses <- [groups : SomeGroups, port : {0, 65535}, scope : {0, 13}]

AnyText == INSTANCE TcsAddressText WITH
    GroupCount <- 4, MaxPort <- 65535, MaxScope <- 99999, Alphabet <- {1, 16, 17}, MaxLength <- 11,
    Addresses <- {}

\* The marks of scopes, brackets and ports, and numbers that are too large.
MarkedText == INSTANCE TcsAddressText WITH
    GroupCount <- 3, MaxPort <- 11, MaxScope <- 11, Alphabet <- {1, 9, 16, 18, 19, 20}, MaxLength <- 8,
    Addresses <- {}

ASSUME TinycsocketAssumption ==
    /\ Win32!Win32PoolAssumption /\ Promise!PoolAssumption
    /\ Own!NetstringAssumption /\ Own!StreamAssumption
    /\ Stranger!NetstringAssumption /\ SlowStranger!NetstringAssumption
    /\ Text!TextAssumption /\ AnyText!TextAssumption /\ MarkedText!TextAssumption

-----------------------------------------------------------------------------
(* What the other variables are while their matter is not at hand.         *)

NoLists == lists = Win32!NewLists
NoNetstring == expected_length = 0 /\ parsed = 0 /\ taken = << >> /\ delivered = << >>
NoText == address = Text!NoAddress /\ text = << >> /\ at = 0

Init ==
    \/ /\ SocketInit
       /\ NoLists /\ NoNetstring /\ NoText
    \/ /\ matter = "win32" /\ Win32!Init
       /\ pc = "none" /\ ctx = FALSE
       /\ NoStream /\ NoNetstring /\ NoLine /\ NoSetup /\ NoInterfaces /\ NoName /\ NoList /\ NoText
    \/ /\ matter \in {"own", "stranger", "slow_stranger"} /\ Own!Init
       /\ NoCall /\ pool = FALSE /\ ctx = FALSE
       /\ NoPool /\ NoLists /\ NoLine /\ NoSetup /\ NoInterfaces /\ NoName /\ NoList /\ NoText
    \/ /\ \/ matter = "text" /\ Text!Init
          \/ matter \in {"any_text", "marked_text"} /\ AnyText!Init
       /\ pc = "none" /\ NoCall /\ pool = FALSE
       /\ NoPool /\ NoLists /\ NoStream /\ NoNetstring /\ NoLine /\ NoSetup /\ NoInterfaces /\ NoName /\ NoList

Next ==
    /\ UNCHANGED matter
    /\ \/ SocketNext /\ UNCHANGED <<lists, netstringVars, textVars>>
       \/ /\ matter = "win32" /\ Win32!Next
          /\ UNCHANGED <<pc, ctx, streamVars, netstringVars, lineVars, setupVars, interfaceVars,
                         nameVars, listVars, textVars>>
       \/ /\ \/ matter = "own" /\ Own!Next
             \/ matter = "stranger" /\ Stranger!Next
             \/ matter = "slow_stranger" /\ SlowStranger!Next
          /\ UNCHANGED <<call, pool, ctx, poolVars, lists, lineVars, setupVars, interfaceVars, nameVars, listVars, textVars>>
       \/ /\ \/ matter = "text" /\ Text!Next
             \/ matter = "any_text" /\ AnyText!Next
             \/ matter = "marked_text" /\ MarkedText!Next
          /\ UNCHANGED <<pc, call, pool, poolVars, lists, streamVars, netstringVars, lineVars, setupVars,
                         interfaceVars, nameVars, listVars>>

Spec == Init /\ [][Next]_vars

-----------------------------------------------------------------------------
(* See TcsPool: on both systems, with memory running out anywhere, a pool  *)
(* is the set of sockets that it promises to be; without it, no memory is  *)
(* left; and on POSIX it tells whole events where it has room.             *)
ImplementsPool ==
    /\ Promise!Spec
    /\ []PosixPoolIsWhole
    /\ [](matter = "win32" => Win32!NothingLeaks)

(* See TcsNetstring: netstrings come as they were sent, and nothing else.  *)
NetstringsAreWhole ==
    /\ matter = "own" => Own!NetstringsAreWhole
    /\ matter = "stranger" => Stranger!NetstringsAreWhole
    /\ matter = "slow_stranger" => SlowStranger!NetstringsAreWhole

(* See TcsAddressText: parser and printer agree about every text.          *)
AddressIsMeant ==
    /\ matter = "text" => Text!AddressIsMeant
    /\ matter = "any_text" => AnyText!AddressIsMeant
    /\ matter = "marked_text" => MarkedText!AddressIsMeant
=============================================================================
