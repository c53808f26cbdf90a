---------------------------- MODULE TcsNetstring ----------------------------
(***************************************************************************)
(* tcs_send_netstring and tcs_receive_netstring over a stream: a length, a *)
(* colon, that many bytes and a comma.                                     *)
(*                                                                         *)
(* The sender sends what it is given, or is a stranger that sends any      *)
(* bytes.  The receiver calls tcs_receive_netstring until it fails.  Its   *)
(* receives ask for all bytes (TCS_MSG_WAITALL): the system hands over     *)
(* what comes, and stops early, with success, when the stream ends or the  *)
(* receive timeout of the socket is over.                                  *)
(***************************************************************************)
EXTENDS TcsStream, FiniteSets

CONSTANTS
    Base,               \* of the digits of a length, 10
    MaxHeader,          \* max_header, 21
    SizeMax,            \* SIZE_MAX
    BufferLength,       \* of the receiver's buffer
    Payloads,           \* what may be sent with tcs_send_netstring
    Texts,              \* what a stranger may send
    MaxMessages,        \* bound: how many of them
    LoopsForAll,        \* whether tcs_receive loops for all bytes itself (WINVER <= 0x501)
    CanTimeOut          \* whether the receiving socket has a timeout

NetstringAssumption ==
    /\ Base \in Nat \ {0, 1} /\ MaxHeader \in Nat /\ SizeMax \in Nat /\ BufferLength \in Nat \ {0}
    /\ MaxMessages \in Nat /\ {LoopsForAll, CanTimeOut} \subseteq BOOLEAN

\* Bytes are numbers: the digits, the two marks, and others above them.
Digits == 0 .. Base - 1
Colon == Base
Comma == Base + 1

VARIABLES
    sent,               \* the messages whose sending has begun
    pc,                 \* where tcs_receive_netstring is: header, body, comma; or ended
    expected_length, parsed,
    buffer,             \* the bytes the current receive has put into the buffer
    taken,              \* the bytes this call has taken from the stream
    delivered,          \* the messages received
    result              \* of the last call

vars == <<chunks, wire, open, sent, pc, expected_length, parsed, buffer, taken, delivered, result>>
Init ==
    /\ StreamInit
    /\ sent = << >> /\ delivered = << >>
    /\ pc = "header" /\ expected_length = 0 /\ parsed = 0 /\ buffer = << >> /\ taken = << >>
    /\ result = "none"

\* n in digits.
Decimal(n) ==
    LET width == CHOOSE w \in 1 .. n + 1 : n < Base^w /\ (w > 1 => n >= Base^(w - 1))
    IN  [k \in 1 .. width |-> (n \div Base^(width - k)) % Base]

Frame(payload) == <<Decimal(Len(payload)) \o <<Colon>>, payload, <<Comma>>>>

Receiving == UNCHANGED <<pc, expected_length, parsed, buffer, taken, delivered, result>>

tcs_send_netstring(payload) ==
    /\ open /\ chunks = << >> /\ Len(sent) < MaxMessages
    /\ chunks' = Frame(payload)
    /\ sent' = Append(sent, payload)
    /\ UNCHANGED <<wire, open>> /\ Receiving

StrangerSends(text) ==
    /\ open /\ chunks = << >> /\ Len(sent) < MaxMessages
    /\ chunks' = <<text>>
    /\ sent' = Append(sent, text)
    /\ UNCHANGED <<wire, open>> /\ Receiving

Sending == tcs_send /\ UNCHANGED sent /\ Receiving
Stopping == (SendFails \/ Close) /\ UNCHANGED sent /\ Receiving

Sender ==
    \/ \E payload \in Payloads : tcs_send_netstring(payload)
    \/ \E text \in Texts : StrangerSends(text)
    \/ Sending \/ Stopping

\* A call that does not succeed is the receiver's last.
Fail(sts) ==
    /\ result' = sts /\ pc' = "ended"
    /\ UNCHANGED <<expected_length, parsed, buffer, delivered>>

Overflows(length, digit) == length > (SizeMax - digit) \div Base

TooLong(n) == n >= MaxHeader

Take == wire # << >> /\ wire' = Tail(wire) /\ taken' = Append(taken, Head(wire))

\* One byte of the header.
ReceiveHeader ==
    /\ pc = "header" /\ Take
    /\ LET t == Head(wire)
           length == expected_length * Base + t
       IN  \/ /\ t \notin Digits \cup {Colon}
              /\ Fail("ill_formed")
           \/ /\ t = Colon
              /\ IF TooLong(parsed + 1) THEN Fail("ill_formed")
                 ELSE IF BufferLength < expected_length THEN Fail("memory")
                 ELSE /\ pc' = "body" /\ parsed' = parsed + 1
                      /\ UNCHANGED <<expected_length, buffer, delivered, result>>
           \/ /\ t \in Digits
              /\ IF Overflows(expected_length, t) \/ TooLong(parsed + 1) THEN Fail("ill_formed")
                 ELSE /\ parsed' = parsed + 1 /\ expected_length' = length
                      /\ UNCHANGED <<pc, buffer, delivered, result>>
    /\ UNCHANGED <<chunks, open, sent>>

\* The receive of the body has another byte, and maybe all of them.
ReceiveBody ==
    /\ pc = "body" /\ Len(buffer) < expected_length /\ Take
    /\ buffer' = Append(buffer, Head(wire))
    /\ pc' = IF Len(buffer') = expected_length THEN "comma" ELSE "body"
    /\ UNCHANGED <<chunks, open, sent, expected_length, parsed, delivered, result>>

\* Nothing more comes, or nothing was asked for.  A receive that got a part
\* of the bytes succeeds, unless it is a loop; one that got none of none
\* takes that for the end of the stream, unless it is a loop.
BodyEndsEarly ==
    /\ pc = "body"
    /\ \/ /\ expected_length = 0 /\ LoopsForAll
          /\ pc' = "comma" /\ UNCHANGED <<expected_length, parsed, buffer, delivered, result>>
       \/ /\ expected_length = 0 /\ ~LoopsForAll
          /\ Fail("shutdown")
       \/ /\ expected_length > 0 /\ (Ended \/ (CanTimeOut /\ Quiet))
          /\ IF buffer # << >> /\ ~LoopsForAll
             THEN pc' = "comma" /\ UNCHANGED <<expected_length, parsed, buffer, delivered, result>>
             ELSE Fail(IF Ended THEN "shutdown" ELSE "timed_out")
    /\ UNCHANGED <<chunks, wire, open, sent, taken>>

\* Mutant: the byte after the body is not looked at.
IsCommaAny(t) == TRUE

IsComma(t) == t = Comma

\* What is in the buffer beyond the bytes received is from before.
ReceiveComma ==
    /\ pc = "comma" /\ Take
    /\ \/ /\ ~IsComma(Head(wire))
          /\ Fail("ill_formed")
       \/ /\ IsComma(Head(wire))
          /\ result' = "success" /\ pc' = "return"
          /\ delivered' = Append(delivered, buffer \o [k \in 1 .. expected_length - Len(buffer) |-> -1])
          /\ UNCHANGED <<expected_length, parsed, buffer>>
    /\ UNCHANGED <<chunks, open, sent>>

\* A byte of the header or the comma does not come.
NothingComes ==
    /\ pc \in {"header", "comma"}
    /\ \/ Ended /\ Fail("shutdown")
       \/ CanTimeOut /\ Quiet /\ Fail("timed_out")
    /\ UNCHANGED <<chunks, wire, open, sent, taken>>

\* The next call begins.
CallAgain ==
    /\ pc = "return"
    /\ pc' = "header" /\ expected_length' = 0 /\ parsed' = 0 /\ buffer' = << >> /\ taken' = << >>
    /\ UNCHANGED <<chunks, wire, open, sent, delivered, result>>

Receiver == ReceiveHeader \/ ReceiveBody \/ BodyEndsEarly \/ ReceiveComma \/ NothingComes \/ CallAgain

\* Nobody reads any more; the sender may wait for room.
Stopped == pc = "ended" /\ UNCHANGED vars

Next == Sender \/ Receiver \/ Stopped

Spec == Init /\ [][Next]_vars
-----------------------------------------------------------------------------
(* Correctness.                                                            *)

\* What is delivered is what tcs_send_netstring was given, in that order.
DeliveredAreSent == Texts = {} => IsPrefix(delivered, sent)

\* The number that digits are.
Number(digits) == FoldLeft(LAMBDA n, d : n * Base + d, 0, digits)

\* bytes are the netstring of payload, as tinycsocket.h:1140 describes it.
IsNetstring(bytes, payload) ==
    \E k \in 1 .. Len(bytes) :
        /\ \A i \in 1 .. k - 1 : bytes[i] \in Digits
        /\ bytes[k] = Colon
        /\ Number(SubSeq(bytes, 1, k - 1)) = Len(payload)
        /\ SubSeq(bytes, k + 1, Len(bytes)) = payload \o <<Comma>>

\* A call that succeeds has taken one netstring off the stream, no byte less
\* or more, and delivers what it holds (tinycsocket.h:1217).
SuccessIsNetstring == pc = "return" => IsNetstring(taken, Last(delivered))

\* The last call failed, and why it may while a whole netstring is on its way:
\* the rest does not come, because the stream has ended or is too slow.
Failed == result \notin {"none", "success"}
RestDoesNotCome(length) ==
    /\ Len(taken) < length
    /\ result = "timed_out" \/ (result = "shutdown" /\ Ended)

\* A netstring that tcs_send_netstring sends is received, unless it does not
\* come or does not fit the buffer.
OwnArrives ==
    Texts = {} /\ Failed /\ Len(delivered) < Len(sent) =>
        LET next == sent[Len(delivered) + 1]
        IN  \/ RestDoesNotCome(Len(FlattenSeq(Frame(next))))
            \/ result = "memory" /\ Len(next) > BufferLength

\* So is the netstring a stranger's stream begins with, its header within the
\* limit; but an empty one only where tcs_receive loops.
StrangersArrives ==
    Texts # {} /\ Failed /\ delivered = << >> =>
        LET stream == FlattenSeq(sent) IN
        \A k \in 1 .. Len(stream), m \in 0 .. SizeMax :
            /\ m < k - 1 /\ k - m - 1 < MaxHeader
            /\ IsNetstring(SubSeq(stream, 1, k), SubSeq(stream, k - m, k - 1))
            /\ m # 0 \/ LoopsForAll
            => \/ RestDoesNotCome(k)
               \/ result = "memory" /\ m > BufferLength

(* Wherever the sender fails and however the bytes are cut, netstrings are *)
(* delivered as they were sent, and what a stranger sends is delivered     *)
(* exactly if it is a netstring that comes in time and fits the buffer.    *)
(* Two things do not hold and are left out.  The empty netstring 0:, is    *)
(* refused: the system's receive of no bytes returns 0, which tcs_receive  *)
(* takes for the end of the stream (tinycsocket.h:6637); only where it     *)
(* loops does it not ask.  And where the receiving socket has a timeout    *)
(* and the system collects the bytes, TCS_MSG_WAITALL returns a part of a  *)
(* body with success.                                                      *)
NetstringsAreWhole ==
    LoopsForAll \/ ~CanTimeOut =>
        DeliveredAreSent /\ SuccessIsNetstring /\ OwnArrives /\ StrangersArrives
=============================================================================
