---------------------------- MODULE NmbsDeviceId ----------------------------
(***************************************************************************)
(* Read Device Identification: a nanoMODBUS client that fetches a list of  *)
(* objects too long for one answer, and the nanoMODBUS server that cuts it *)
(* into answers (handle_read_device_identification).  Each answer says     *)
(* whether more objects follow and where; the client asks until none do.   *)
(*                                                                         *)
(* The objects are a function from the ids the server's map has to the     *)
(* lengths of their strings; the program may change them between two       *)
(* requests.  Requests and answers arrive whole (see NmbsClient).          *)
(***************************************************************************)
EXTENDS Integers, Sequences, FiniteSets, SequencesExt, Nmbs

CONSTANTS
    Inventories,        \* the objects a server may have
    Calls,              \* the calls a client may make
    MaxChanges          \* bound: changes of the objects

Ids == 0 .. 255
StringLength == 128     \* NMBS_DEVICE_IDENTIFICATION_STRING_LENGTH

\* A call: the read_device_id_code it uses, its first object and, for the
\* extended objects, how many the caller has room for (ids_length).
CallRecord == [code : 1 .. 4, start : Ids, room : 0 .. 255]

DeviceIdAssumption ==
    /\ \A objects \in Inventories :
          DOMAIN objects \subseteq Ids /\ \A id \in DOMAIN objects : objects[id] \in 0 .. StringLength - 1
    /\ Calls \subseteq CallRecord
    /\ \A c \in Calls : (c.code = 1 => c.start = 0) /\ (c.code = 2 => c.start = 3)
    /\ MaxChanges \in Nat

VARIABLES
    pc,
    objects,            \* what the callbacks of the server answer
    changes,            \* how often it has changed
    call,
    next_object_id,
    total_received,     \* a uint8_t
    answer,             \* the server's answer
    result,
    received            \* history: the ids the client was given

vars == <<pc, objects, changes, call, next_object_id, total_received, answer, result, received>>

NoAnswer == [error |-> NMBS_ERROR_NONE, ids |-> << >>, more |-> FALSE, next |-> 0]

Init ==
    /\ pc = "idle"
    /\ objects \in Inventories
    /\ changes = 0
    /\ call = [code |-> 1, start |-> 0, room |-> 0]
    /\ next_object_id = 0 /\ total_received = 0
    /\ answer = NoAnswer
    /\ result = NMBS_ERROR_NONE
    /\ received = << >>

-----------------------------------------------------------------------------
(* The server.                                                             *)

\* The objects of each code, and what may be asked first.
RangeOf(code) == CASE code = 1 -> 0 .. 2 [] code = 2 -> 3 .. 6 [] code = 3 -> 128 .. 255 [] OTHER -> Ids

\* res_size_left: what an answer has room for.
Capacity == 253 - 7

Place(ids, id) == Cardinality({i \in ids : i <= id})

InOrder(ids) == [k \in 1 .. Cardinality(ids) |-> CHOOSE id \in ids : Place(ids, id) = k]

\* The objects an answer would have if it were long enough.
Wanted(code, id) == {i \in DOMAIN objects \cap RangeOf(code) : i >= id}

\* What the first k of them take, for each k.
Taken(wanted) ==
    LET ids == InOrder(wanted)
        taken[k \in 0 .. Len(ids)] == IF k = 0 THEN 0 ELSE taken[k - 1] + (2 + objects[ids[k]])
    IN  taken

\* The loop ends at the first that does not fit, so those before it.
Fitting(wanted) == {i \in wanted : Taken(wanted)[Place(wanted, i)] <= Capacity}

\* Mutant: the object that did not fit is not in the next answer either.
NextAfter(left) == Min(left) + 1

\* res_next_object_id: the first object that did not fit.
NextOf(left) == Min(left)

List(code, id) ==
    LET wanted == Wanted(code, id)
        fitting == Fitting(wanted)
        left == wanted \ fitting
        \* The basic ids looked at: up to the one that did not fit.
        seen == {i \in {0, 1, 2} \cap RangeOf(code) : id <= i /\ \A j \in left : i < j}
    IN  IF ~ (seen \subseteq DOMAIN objects)
        THEN [NoAnswer EXCEPT !.error = NMBS_EXCEPTION_SERVER_DEVICE_FAILURE]
        ELSE [error |-> NMBS_ERROR_NONE, ids |-> InOrder(fitting), more |-> left # {},
              next |-> IF left # {} THEN NextOf(left) ELSE 0]

Answer(code, id) ==
    IF (id > 6 /\ id < 128) \/ id \notin RangeOf(code)
    THEN [NoAnswer EXCEPT !.error = NMBS_EXCEPTION_ILLEGAL_DATA_ADDRESS]
    ELSE IF code # 4 THEN List(code, id)
    ELSE IF id \in DOMAIN objects THEN [NoAnswer EXCEPT !.ids = <<id>>]
    ELSE [NoAnswer EXCEPT !.error = NMBS_EXCEPTION_ILLEGAL_DATA_ADDRESS]

\* The request, or an error of one of the callbacks.
Serve ==
    /\ pc = "request"
    /\ \/ answer' = Answer(call.code, next_object_id)
       \/ answer' = [NoAnswer EXCEPT !.error = NMBS_EXCEPTION_SERVER_DEVICE_FAILURE]
    /\ pc' = "response"
    /\ UNCHANGED <<objects, changes, call, next_object_id, total_received, result, received>>

Change ==
    /\ pc # "idle" /\ changes < MaxChanges
    /\ changes' = changes + 1
    /\ objects' \in Inventories
    /\ UNCHANGED <<pc, call, next_object_id, total_received, answer, result, received>>

-----------------------------------------------------------------------------
(* The client.                                                             *)

Refuses(c) == (c.code = 3 /\ c.start < 128) \/ (c.code = 4 /\ c.start > 6 /\ c.start < 128)

Begin(c) ==
    /\ pc = "idle"
    /\ call' = c
    /\ next_object_id' = c.start
    /\ total_received' = 0
    /\ received' = << >>
    /\ changes' = 0
    /\ IF Refuses(c) THEN pc' = "idle" /\ result' = NMBS_ERROR_INVALID_ARGUMENT
       ELSE pc' = "request" /\ UNCHANGED result
    /\ UNCHANGED <<objects, answer>>

\* buffers_count, a uint8_t: 0 means that there are no buffers to fill.
Buffers ==
    CASE call.code = 1 -> 3
      [] call.code = 2 -> 4
      [] call.code = 3 -> (call.room - total_received) % 256
      [] OTHER         -> 1

\* The id that means that the list is finished.
Finished == 127

Total == (total_received + Len(answer.ids)) % 256

\* What the client makes of an answer without error.
Verdict ==
    IF Buffers # 0 /\ Len(answer.ids) > Buffers THEN NMBS_ERROR_INVALID_ARGUMENT
    ELSE IF call.code \in {1, 2} /\ (Len(answer.ids) = 0 \/ Total > Buffers)
    THEN NMBS_ERROR_INVALID_RESPONSE
    ELSE NMBS_ERROR_NONE

Receive ==
    /\ pc = "response"
    /\ LET next == IF answer.more THEN answer.next ELSE Finished
           verdict == IF answer.error = NMBS_ERROR_NONE THEN Verdict ELSE answer.error
       IN  IF verdict # NMBS_ERROR_NONE
           THEN /\ pc' = "idle" /\ result' = verdict
                /\ UNCHANGED <<next_object_id, total_received, received>>
           ELSE /\ received' = received \o answer.ids
                /\ total_received' = Total
                /\ next_object_id' = next
                /\ IF next = Finished \/ call.code = 4 THEN pc' = "idle" /\ result' = NMBS_ERROR_NONE
                   ELSE pc' = "request" /\ UNCHANGED result
    /\ UNCHANGED <<objects, changes, call, answer>>

Next == (\E c \in Calls : Begin(c)) \/ Serve \/ Receive \/ Change

Spec == Init /\ [][Next]_vars

-----------------------------------------------------------------------------
(* Correctness.                                                            *)

(* When a call returns without error and the objects did not change on the *)
(* way, the client has every object of its kind from its first one on, in  *)
(* order and once, over however many answers they came.                    *)
Complete ==
    pc = "idle" /\ result = NMBS_ERROR_NONE /\ changes = 0 /\ received # << >> =>
        received = IF call.code = 4 THEN <<call.start>>
                   ELSE InOrder({i \in DOMAIN objects \cap RangeOf(call.code) : i >= call.start})

(* Even when they change, no object is received twice or out of order.     *)
Ascending == \A i \in DOMAIN received : i > 1 => received[i - 1] < received[i]

(* Every answer that promises more brings the client forward: it does not  *)
(* ask for ever.                                                           *)
MovesOn == pc = "response" /\ answer.more => answer.ids # << >> /\ answer.next > next_object_id

(* The client's list is the server's, as far as that stayed what it was,   *)
(* and is finished.                                                        *)
ListIsTrue == Complete /\ Ascending /\ MovesOn

(* What nanomodbus.h:503 says: a caller without room for the objects gets  *)
(* Invalid Argument.                                                       *)
RoomRespected ==
    pc = "idle" /\ result = NMBS_ERROR_NONE /\ call.code = 3 => Len(received) <= call.room

=============================================================================
