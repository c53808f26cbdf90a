---------------------------- MODULE MCNanoModbus ----------------------------
(***************************************************************************)
(* nanoMODBUS beyond the server that DriveSim uses, one matter at a time:  *)
(* what a client may ask for, its calls over TCP and over RTU, a request   *)
(* for file records, a list of objects, or a server on a shared line.  The *)
(* others stay as they are at the start.                                   *)
(***************************************************************************)
EXTENDS Integers, Sequences, SequencesExt, Nmbs

CONSTANTS
    LimitCalls,                                             \* of NmbsCalls
    Setups, TidMax, MaxCalls, CanTimeOut,                   \* of NmbsClient
    Requests, CallbackErrors,                               \* of NmbsFileRecord
    Inventories, Lists, MaxChanges,                         \* of NmbsDeviceId
    Own, Units, Functions, MaxRequests, MayPause, Noise     \* of NmbsRtuServer

VARIABLES
    matter,                                                 \* the one at hand
    limitCall, stage, callResult,                           \* of NmbsCalls
    setup, clientPc, call, current_tid, msg, want, buf, got, result, air, inbox,
    asked, took, quiet, reply,                              \* of NmbsClient
    filePc, provided, request, index, size, data, count, fileAnswer,
    callbacks,                                              \* of NmbsFileRecord
    idPc, objects, changes, idCall, next_object_id, total_received, answer,
    idResult, received,                                     \* of NmbsDeviceId
    linePc, heard, requests, wire, lineInbox, open, served,
    answers, refusals                                       \* of NmbsRtuServer

limitVars == <<limitCall, stage, callResult>>
clientVars == <<setup, clientPc, call, current_tid, msg, want, buf, got, result, air, inbox,
                asked, took, quiet, reply>>
fileVars == <<filePc, provided, request, index, size, data, count, fileAnswer, callbacks>>
idVars == <<idPc, objects, changes, idCall, next_object_id, total_received, answer,
            idResult, received>>
lineVars == <<linePc, heard, requests, wire, lineInbox, open, served, answers, refusals>>
vars == <<matter, limitVars, clientVars, fileVars, idVars, lineVars>>

-----------------------------------------------------------------------------
(* Every function at and around each of its limits.                        *)

Ask(function, address, quantity) ==
    [function |-> function, address |-> address, quantity |-> quantity, write_address |-> 0,
     write_quantity |-> 1, bytes |-> 0, value |-> 0, legal |-> TRUE]

Reads == {Ask(f, a, q) : f \in 1 .. 4, a \in {0, 63536, 63537, 65411, 65412},
                         q \in {0, 1, 7, 8, 9, 125, 126, 127, 128, 2000, 2001, 65535}}
Singles == {[Ask(f, a, 1) EXCEPT !.value = v] : f \in {5, 6}, a \in {0, 65535}, v \in {0, 65280}}
Multiples == {Ask(f, a, q) : f \in {15, 16}, a \in {0, 63568, 63569, 65413, 65414},
                             q \in {0, 1, 8, 9, 122, 123, 124, 128, 1968, 1969, 2056, 65535}}
Files == {[Ask(f, a, q) EXCEPT !.write_address = r] : f \in {20, 21}, a \in {0, 1, 65535},
             r \in {0, 9999, 10000}, q \in {0, 1, 121, 122, 123, 124, 125, 65535}}
Mixed == {[Ask(23, a, q) EXCEPT !.write_address = w, !.write_quantity = n] :
             a \in {0, 65411, 65412}, q \in {0, 1, 125, 126}, w \in {0, 65415, 65416},
             n \in {0, 1, 121, 122, 123, 128}}

\* The server has them all.
AllCallbacks ==
    {"read_coils", "read_discrete_inputs", "read_holding_registers", "read_input_registers",
     "write_single_coil", "write_single_register", "write_multiple_coils",
     "write_multiple_registers", "read_file_record", "write_file_record"}

MCCalls == Reads \cup Singles \cup Multiples \cup Files \cup Mixed

Limits == INSTANCE NmbsCalls WITH
    Callbacks <- AllCallbacks, Calls <- LimitCalls, call <- limitCall, result <- callResult

-----------------------------------------------------------------------------
(* A few calls that differ in one argument each.                           *)

Call(function, address, value, unit) ==
    [function |-> function, address |-> address, value |-> value, unit |-> unit, raw |-> FALSE]

\* Any answer over TCP; over RTU servers that do what they are asked, whose
\* answers may be damaged, and servers that answer anything.
MCSetups ==
    {[transport |-> "TCP",
      calls |-> {Call(6, 1, 7, 0), Call(3, 1, 2, 0), [Call(6, 1, 7, 0) EXCEPT !.raw = TRUE]},
      replies |-> {"none", "right", "exception", "odd", "wrong"}]}
        \cup [transport : {"RTU"},
              calls : {{Call(6, 1, 7, 1), Call(6, 2, 7, 1), Call(6, 1, 7, 0), Call(3, 1, 2, 1),
                        Call(3, 1, 3, 1), Call(3, 1, 2, 2), Call(1, 1, 9, 0)}},
              replies : {{"none", "right", "exception", "noise"},
                         {"none", "right", "exception", "odd", "wrong", "function", "unit", "noise"}}]

MCMaxCalls == [TCP |-> 3, RTU |-> 2]

Client == INSTANCE NmbsClient WITH pc <- clientPc

-----------------------------------------------------------------------------
(* Up to three sub-requests whose sizes do and do not add up, and reads of *)
(* records that do and do not fit the answer, by a record or by a byte.    *)

SomeSub == [length : {0, 3}, legal : BOOLEAN]
SomeSubs == UNION {[1 .. n -> SomeSub] : n \in 0 .. 3}
SizeOf(subs) == FoldLeft(LAMBDA sum, sub : sum + 7 + 2 * sub.length, 0, subs)

LongReads == {<<124>>, <<124, 124>>, <<62, 61>>, <<62, 62>>, <<61, 62, 0>>, <<124, 0, 3>>}
LongSubs(l) == [i \in DOMAIN l |-> [length |-> l[i], legal |-> TRUE]]

MCRequests ==
    {[function |-> 21, subs |-> s, size |-> IF SizeOf(s) + d < 0 THEN 0 ELSE SizeOf(s) + d] :
        s \in SomeSubs, d \in {-2, 0, 1, 6}}
        \cup {[function |-> 20, subs |-> s, size |-> 7 * Len(s) + d] : s \in SomeSubs, d \in {0, 3}}
        \cup {[function |-> f, subs |-> << >>, size |-> 252] : f \in {20, 21}}
        \cup {[function |-> 20, subs |-> LongSubs(l), size |-> 7 * Len(l)] : l \in LongReads}

MCErrors == {NMBS_ERROR_NONE, NMBS_EXCEPTION_ILLEGAL_DATA_ADDRESS, NMBS_ERROR_TIMEOUT}

File == INSTANCE NmbsFileRecord WITH pc <- filePc, answer <- fileAnswer, calls <- callbacks

-----------------------------------------------------------------------------
(* Objects of which one, two or all fit an answer; the basic ones are      *)
(* there, or one is missing.                                               *)

SomeIds == {{0, 1, 2}, {0, 2}, {0, 1, 2, 4, 5, 6}, {0, 1, 2, 3, 128, 129, 255}}

MCInventories ==
    UNION {{[id \in ids |-> 122], [id \in ids |-> 127], [id \in ids |-> IF id % 2 = 0 THEN 0 ELSE 121]} :
              ids \in SomeIds}

List(code, start, room) == [code |-> code, start |-> start, room |-> room]

MCLists == {List(1, 0, 0), List(2, 3, 0), List(3, 128, 1), List(3, 128, 3), List(3, 129, 3),
            List(3, 127, 3), List(4, 4, 0), List(4, 128, 0), List(4, 7, 0)}

Identification == INSTANCE NmbsDeviceId WITH
    Calls <- Lists, pc <- idPc, call <- idCall, result <- idResult

-----------------------------------------------------------------------------
(* A server, another one and everybody on an RTU line.                     *)

Line == INSTANCE NmbsRtuServer WITH pc <- linePc, msg <- heard, inbox <- lineInbox

ASSUME MCLimitsAssumption == Limits!CallsAssumption
ASSUME MCClientAssumption == Client!NmbsClientAssumption
ASSUME MCFileAssumption == File!FileRecordAssumption
ASSUME MCIdentificationAssumption == Identification!DeviceIdAssumption
ASSUME MCLineAssumption == Line!RtuServerAssumption

-----------------------------------------------------------------------------
NoLimits == limitCall = Ask(5, 0, 1) /\ stage = "returned" /\ callResult = NMBS_ERROR_NONE

NoFile ==
    /\ provided = {} /\ request = [function |-> 20, subs |-> << >>, size |-> 0]
    /\ filePc = "received" /\ index = 1 /\ size = 0 /\ data = << >> /\ count = 0
    /\ fileAnswer = NMBS_ERROR_NONE /\ callbacks = << >>

NoList ==
    /\ objects = [id \in {0, 1, 2} |-> 122]
    /\ idPc = "idle" /\ changes = 0 /\ idCall = List(1, 0, 0) /\ next_object_id = 0
    /\ total_received = 0 /\ answer = Identification!NoAnswer
    /\ idResult = NMBS_ERROR_NONE /\ received = << >>

Init ==
    /\ matter \in {"limits", "client", "file", "identification", "line"}
    /\ IF matter = "limits" THEN Limits!Init ELSE NoLimits
    /\ Client!Init /\ (matter # "client" => setup = CHOOSE s \in Setups : TRUE)
    /\ Line!Init
    /\ IF matter = "file" THEN File!Init ELSE NoFile
    /\ IF matter = "identification" THEN Identification!Init ELSE NoList

Next ==
    \/ /\ matter = "limits" /\ Limits!Next
       /\ UNCHANGED <<matter, clientVars, fileVars, idVars, lineVars>>
    \/ /\ matter = "client" /\ Client!Next
       /\ UNCHANGED <<matter, limitVars, fileVars, idVars, lineVars>>
    \/ /\ matter = "file" /\ File!Next
       /\ UNCHANGED <<matter, limitVars, clientVars, idVars, lineVars>>
    \/ /\ matter = "identification" /\ Identification!Next
       /\ UNCHANGED <<matter, limitVars, clientVars, fileVars, lineVars>>
    \/ /\ matter = "line" /\ Line!Next
       /\ UNCHANGED <<matter, limitVars, clientVars, fileVars, idVars>>

Spec == Init /\ [][Next]_vars

-----------------------------------------------------------------------------
(* See NmbsCalls: client and server agree about what may be asked.         *)
HalvesAgree == Limits!HalvesAgree

(* See NmbsClient: a call over TCP takes its own answer, a call over RTU   *)
(* at most one to the same question.                                       *)
AnswerIsForCall == Client!AnswerIsForCall

(* See NmbsClient: on a quiet line a call tells what the server answered.  *)
QuietCallTellsTruth == Client!QuietCallTellsTruth

(* See NmbsFileRecord: file records are served as a whole, or told not.    *)
ServedAsAnswered == File!ServedAsAnswered

(* See NmbsDeviceId: the list of objects is complete, in order, and ends.  *)
ListIsTrue == Identification!ListIsTrue

(* See NmbsRtuServer: on a shared line a server acts for its own unit.     *)
ActsForItself == Line!ActsForItself
=============================================================================
