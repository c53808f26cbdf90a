--------------------------- MODULE NmbsFileRecord ---------------------------
(***************************************************************************)
(* How a nanoMODBUS server takes a request for several file records apart: *)
(* handle_read_file_record and handle_write_file_record, whose sub-        *)
(* requests lie one after the other in msg.buf, the data of a write in     *)
(* between.  Both look at all of them before the first callback.           *)
(*                                                                         *)
(* A sub-request is its length in registers and whether its type, file,    *)
(* record and length are legal.  size is the byte count of the request as  *)
(* it arrived, whatever its sub-requests add up to.  What lies in msg.buf  *)
(* after the request is no legal sub-request.                              *)
(*                                                                         *)
(* The records of a read are put into msg.buf one after the other and      *)
(* nothing looks whether they fit.  pc is "overrun" from where one does    *)
(* not: the behaviour is undefined from there, and nothing is said of it.  *)
(***************************************************************************)
EXTENDS Integers, Sequences, SequencesExt, Nmbs

CONSTANTS
    Requests,           \* the requests that may arrive
    CallbackErrors      \* what a callback may return

WordSize == 256 * 256   \* of a uint16_t

SubRequest == [length : 0 .. WordSize - 1, legal : BOOLEAN]

SubHeaderSize == 7
SizeOf(sub) == SubHeaderSize + 2 * sub.length

\* How many bytes of msg.buf the first k sub-requests take, for each k.
Bytes(subs) ==
    LET bytes[k \in 0 .. Len(subs)] == IF k = 0 THEN 0 ELSE bytes[k - 1] + SizeOf(subs[k])
    IN  bytes

\* How many bytes the first k records of the answer to a read take.
RecordBytes(subs) ==
    LET bytes[k \in 0 .. Len(subs)] == IF k = 0 THEN 0 ELSE bytes[k - 1] + (2 + 2 * subs[k].length)
    IN  bytes

\* msg.buf, and what lies before the records in it: the header and the byte
\* count.  (The header of RTU leaves four bytes more.)
BufferSize == 260
AnswerHeader == 8 + 1
Fit(subs, k) == AnswerHeader + RecordBytes(subs)[k] <= BufferSize

\* A legal sub-request is no longer than the handlers allow, and those of a
\* write begin within it.
WellFormed(r) ==
    /\ \A i \in DOMAIN r.subs : r.subs[i].legal => r.subs[i].length <= IF r.function = 20 THEN 124 ELSE 122
    /\ r.function = 21 => \A i \in DOMAIN r.subs : Bytes(r.subs)[i - 1] < r.size

FileRecordAssumption ==
    /\ Requests \subseteq [function : {20, 21}, subs : Seq(SubRequest), size : 0 .. 255]
    /\ \A r \in Requests : WellFormed(r)

VARIABLES
    pc,
    provided,           \* the functions whose callback is not NULL
    request,
    index,              \* the sub-request at hand
    size,               \* a uint16_t: what is left of the request
    data,               \* the byte order of each sub-request's registers
    count,              \* response_data_size
    answer,             \* the error the answer carries
    calls               \* history: what the callbacks answered, in order

vars == <<pc, provided, request, index, size, data, count, answer, calls>>

PastTheEnd == [length |-> 0, legal |-> FALSE]

Sub(i) == IF i \in DOMAIN request.subs THEN request.subs[i] ELSE PastTheEnd

IsRead == request.function = 20

Arrival(r) ==
    /\ request = r
    /\ pc = "received"
    /\ index = 1
    /\ size = r.size
    /\ data = [i \in DOMAIN r.subs |-> "network"]
    /\ count = 0
    /\ answer = NMBS_ERROR_NONE
    /\ calls = << >>

Init == provided \in SUBSET {20, 21} /\ \E r \in Requests : Arrival(r)

\* response_data_size, a uint8_t.
DataSize(subs) == RecordBytes(subs)[Len(subs)] % 256

Refuse(error) == answer' = error /\ pc' = "answered"

-----------------------------------------------------------------------------
\* The checks of the whole request.  A request of more bytes than fit is no
\* request: it is not answered.  A read is cut up before it is checked.
Received ==
    /\ pc = "received"
    /\ \/ /\ request.size > IF IsRead THEN 245 ELSE 251
          /\ Refuse(NMBS_ERROR_INVALID_REQUEST)
          /\ UNCHANGED count
       \/ /\ request.size <= IF IsRead THEN 245 ELSE 251
          /\ count' = IF IsRead THEN DataSize(request.subs) ELSE 0
          /\ IF request.size < SubHeaderSize \/ (IsRead /\ request.size % SubHeaderSize # 0)
             THEN Refuse(NMBS_EXCEPTION_ILLEGAL_DATA_VALUE)
             ELSE pc' = "check" /\ UNCHANGED answer
    /\ UNCHANGED <<provided, request, index, size, data, calls>>

\* One turn of the loop over the sub-requests of a read.
CheckRead ==
    /\ pc = "check" /\ IsRead
    /\ \/ ~Sub(index).legal /\ Refuse(NMBS_EXCEPTION_ILLEGAL_DATA_ADDRESS) /\ UNCHANGED index
       \/ /\ Sub(index).legal /\ UNCHANGED answer
          /\ IF index < Len(request.subs) THEN index' = index + 1 /\ UNCHANGED pc
             ELSE index' = 1 /\ pc' = "serve"
    /\ UNCHANGED <<provided, request, size, data, count, calls>>

SizeAfter(i) == (size - SizeOf(Sub(i))) % WordSize

\* One turn of the first loop of a write.  When the data of a sub-request
\* reach past the request, what is left of it wraps and the loop goes on.
CheckWrite ==
    /\ pc = "check" /\ ~IsRead
    /\ \/ /\ ~Sub(index).legal
          /\ Refuse(NMBS_EXCEPTION_ILLEGAL_DATA_ADDRESS)
          /\ UNCHANGED <<index, size>>
       \/ /\ Sub(index).legal
          /\ \/ /\ SizeAfter(index) >= SubHeaderSize
                /\ index' = index + 1 /\ size' = SizeAfter(index)
                /\ UNCHANGED <<pc, answer>>
             \/ /\ SizeAfter(index) \in 1 .. SubHeaderSize - 1
                /\ Refuse(NMBS_EXCEPTION_ILLEGAL_DATA_VALUE)
                /\ UNCHANGED <<index, size>>
             \/ /\ SizeAfter(index) = 0
                /\ pc' = "serve" /\ index' = 1 /\ size' = request.size
                /\ UNCHANGED answer
    /\ UNCHANGED <<provided, request, data, count, calls>>

\* What a loop does after a callback that agreed.
Proceed ==
    IF (IsRead /\ index < Len(request.subs)) \/ (~IsRead /\ SizeAfter(index) >= SubHeaderSize)
    THEN pc' = "serve" /\ index' = index + 1
    ELSE pc' = "answered" /\ UNCHANGED index

\* Mutant: the loop goes on after a callback that refused.
ServeOn ==
    /\ pc = "serve" /\ request.function \in provided
    /\ IsRead => Fit(request.subs, index)
    /\ \E error \in CallbackErrors :
          /\ calls' = Append(calls, error)
          /\ data' = [data EXCEPT ![index] = "network"]
          /\ Proceed
          /\ size' = IF IsRead THEN size ELSE SizeAfter(index)
          /\ answer' = error
    /\ UNCHANGED <<provided, request, count>>

\* One turn of the loop that calls the callback.
Serve ==
    /\ pc = "serve" /\ request.function \in provided
    /\ IsRead => Fit(request.subs, index)
    /\ \E error \in CallbackErrors :
          /\ calls' = Append(calls, error)
          /\ \/ /\ error = NMBS_ERROR_NONE
                /\ data' = [data EXCEPT ![index] = "network"]
                /\ Proceed
                /\ size' = IF IsRead THEN size ELSE SizeAfter(index)
                /\ UNCHANGED answer
             \/ /\ error # NMBS_ERROR_NONE
                /\ data' = [data EXCEPT ![index] = "host"]
                /\ Refuse(IF nmbs_error_is_exception(error) THEN error
                          ELSE NMBS_EXCEPTION_SERVER_DEVICE_FAILURE)
                /\ UNCHANGED <<index, size>>
    /\ UNCHANGED <<provided, request, count>>

\* The next record of a read goes past the end of msg.buf.
Overrun ==
    /\ pc = "serve" /\ request.function \in provided
    /\ IsRead /\ ~Fit(request.subs, index)
    /\ pc' = "overrun"
    /\ UNCHANGED <<provided, request, index, size, data, count, answer, calls>>

NotProvided ==
    /\ pc = "serve" /\ request.function \notin provided
    /\ Refuse(NMBS_EXCEPTION_ILLEGAL_FUNCTION)
    /\ UNCHANGED <<provided, request, index, size, data, count, calls>>

Next == Received \/ CheckRead \/ CheckWrite \/ Serve \/ Overrun \/ NotProvided

Spec == Init /\ [][Next]_vars

-----------------------------------------------------------------------------
(* Correctness.                                                            *)

(* The program is not called for any part of a request before all of it    *)
(* has been found good: each sub-request legal, and together exactly as    *)
(* long as the request says, whatever wraps on the way.                    *)
AllCheckedFirst ==
    calls # << >> =>
        /\ \A i \in DOMAIN request.subs : request.subs[i].legal
        /\ ~IsRead => Bytes(request.subs)[Len(request.subs)] = request.size

(* The answer is without error exactly when every sub-request was served,  *)
(* in order and once; a refusal is answered and nothing after it is        *)
(* served.                                                                 *)
AnswerTellsWhatWasServed ==
    /\ pc = "answered" =>
          (answer = NMBS_ERROR_NONE <=>
              /\ calls # << >> /\ Len(calls) = Len(request.subs)
              /\ \A i \in DOMAIN calls : calls[i] = NMBS_ERROR_NONE)
    /\ \A i \in DOMAIN calls : i < Len(calls) => calls[i] = NMBS_ERROR_NONE

(* The answer to a write is its request, byte for byte: every register     *)
(* that was turned round for a callback has been turned back.              *)
EchoIntact ==
    pc = "answered" /\ answer = NMBS_ERROR_NONE =>
        \A i \in DOMAIN data : data[i] = "network"

(* An answer with file records counts their bytes as they are, though the  *)
(* counter is a uint8_t: more of them than it can count do not fit.        *)
CountTrue ==
    pc = "answered" /\ IsRead /\ answer = NMBS_ERROR_NONE =>
        count = RecordBytes(request.subs)[Len(request.subs)]

(* A request for file records is served as a whole or told to be refused.  *)
(* Nothing is said of a read whose records do not fit msg.buf, which the   *)
(* code does not refuse (nanomodbus.c:1394), once it has come to the first *)
(* that does not: the calls before it are in order.                        *)
ServedAsAnswered == AllCheckedFirst /\ AnswerTellsWhatWasServed /\ EchoIntact /\ CountTrue

=============================================================================
