----------------------------- MODULE NmbsClient -----------------------------
(***************************************************************************)
(* A nanoMODBUS client on a line it does not control: answers come late,   *)
(* in parts, damaged or never, and stay on the line when their call gave   *)
(* up.  One client makes one call after the other; nothing is taken from   *)
(* the line but by its calls.                                              *)
(*                                                                         *)
(* The limits of each call are the subject of NmbsCalls.  Here a call      *)
(* stands for one of four kinds: a write that is echoed, a read of         *)
(* registers, a read of coils, and a raw PDU whose answer is fetched by a  *)
(* call of its own.  The body of a request or an answer is two words; the  *)
(* byte count of a read and an exception code are the high byte of the     *)
(* first.                                                                  *)
(***************************************************************************)
EXTENDS Integers, Sequences, Nmbs

CONSTANTS
    Setups,             \* clients and servers that may meet on a line
    TidMax,             \* UINT16_MAX
    MaxCalls,           \* bound: calls made over each transport
    CanTimeOut          \* whether the two timeouts are set

Echoed    == {5, 6, 15, 16}
Registers == {3, 4}
Coils     == {1, 2}

MaxWord == 65535        \* of a uint16_t

CallRecord == [function : Echoed \cup Registers \cup Coils, address : 0 .. MaxWord,
               value : 0 .. MaxWord, unit : 0 .. 255, raw : BOOLEAN]

\* Reads of more than an answer can hold are refused before they are sent,
\* or in a raw PDU by the server.
WithinLimits(c) ==
    /\ c.function \in Registers => c.value \in 1 .. 125
    /\ c.function \in Coils => c.value \in 1 .. 2000

ReplyKinds == {"none", "right", "exception", "odd", "wrong", "function", "unit",
               "noise", "short", "fewer"}

NmbsClientAssumption ==
    /\ \A s \in Setups :
          /\ s.transport \in {"TCP", "RTU"}
          /\ s.calls \subseteq CallRecord /\ \A c \in s.calls : WithinLimits(c)
          /\ s.replies \subseteq ReplyKinds
    /\ TidMax \in Nat \ {0} /\ MaxCalls \in [{"TCP", "RTU"} -> Nat]
    /\ CanTimeOut \in BOOLEAN

VARIABLES
    setup,              \* the transport, the calls that may be made, and what
                        \* the server may do with a request
    pc,                 \* where the call under way is
    call,               \* its arguments
    current_tid,
    msg,                \* unit_id, fc and transaction_id of msg
    want,               \* the same, of the request: the locals of recv_res_header
    buf,                \* msg.buf from the end of the header on
    got,                \* the frame whose header was read
    result,             \* what the last call returned
    air,                \* the parts of frames on their way to the client
    inbox,              \* the parts that wait to be read
    asked,              \* history: the calls made
    took,               \* history: the answer the last call returned for
    quiet,              \* history: nothing was under way when the call began
    reply               \* history: what the server did with its request

vars == <<setup, pc, call, current_tid, msg, want, buf, got, result, air, inbox,
          asked, took, quiet, reply>>
history == <<setup, asked, took, quiet, reply>>

Blank == [unit |-> 0, function |-> 0, tid |-> 0]
NoBody == [address |-> 0, value |-> 0]
NoFrame == [of |-> 0, tid |-> 0, unit |-> 0, function |-> 0, body |-> NoBody,
            whole |-> TRUE, good |-> TRUE]
Transport == setup.transport    \* platform.transport

NoCall == [function |-> 5, address |-> 0, value |-> 0, unit |-> 0, raw |-> FALSE]

Init ==
    /\ setup \in Setups
    /\ pc = "idle"
    /\ call = NoCall
    /\ current_tid = 0
    /\ msg = Blank /\ want = Blank
    /\ buf = NoBody
    /\ got = NoFrame
    /\ result = NMBS_ERROR_NONE
    /\ air = << >> /\ inbox = << >>
    /\ asked = << >>
    /\ took = NoFrame
    /\ quiet = TRUE
    /\ reply = "none"

Broadcast == Transport = "RTU" /\ call.unit = 0

-----------------------------------------------------------------------------
(* The server and the line (external).                                     *)

\* A body that begins with this byte.
Begins(byte) == [address |-> 256 * byte, value |-> 0]

Byte(body) == body.address \div 256

\* The body of the right answer, and of one the client can tell is wrong.
RightBody(c) ==
    IF c.function \in Echoed THEN [address |-> c.address, value |-> c.value]
    ELSE Begins(IF c.function \in Registers THEN 2 * c.value ELSE (c.value + 7) \div 8)

WrongBody(c) ==
    CASE c.function \in Echoed -> [address |-> c.address, value |-> c.value + 1]
      [] c.function \in Registers -> Begins(2 * c.value + 2)
      [] OTHER -> Begins(251)

Frame(function, body) ==
    [of |-> Len(asked), tid |-> msg.tid, unit |-> msg.unit, function |-> function,
     body |-> body, whole |-> TRUE, good |-> TRUE]

\* What the server answers: exception 2, for one, or one there is not.
Answer(c, kind) ==
    LET right == Frame(c.function, RightBody(c))
    IN  CASE kind = "right"     -> right
          [] kind = "exception" -> Frame(c.function + 128, Begins(2))
          [] kind = "odd"       -> Frame(c.function + 128, Begins(7))
          [] kind = "wrong"     -> Frame(c.function, WrongBody(c))
          [] kind = "function"  -> Frame(7, RightBody(c))
          [] kind = "unit"      -> [right EXCEPT !.unit = @ + 1]
          [] kind = "noise"     -> [right EXCEPT !.good = FALSE]
          [] kind = "short"     -> [right EXCEPT !.whole = FALSE]
          [] kind = "fewer"     -> Frame(c.function, NoBody)

Part(name, frame) == [part |-> name, frame |-> frame]

\* A frame of TCP is its MBAP header with the function code and its body, if
\* it has one; a frame of RTU has a CRC.
Parts(frame) ==
    IF Transport = "RTU"
    THEN <<Part("header", frame), Part("body", frame), Part("crc", frame)>>
    ELSE IF frame.whole THEN <<Part("header", frame), Part("body", frame)>>
    ELSE <<Part("header", frame)>>

Arrive ==
    /\ air # << >>
    /\ inbox' = Append(inbox, Head(air))
    /\ air' = Tail(air)
    /\ UNCHANGED <<pc, call, current_tid, msg, want, buf, got, result, history>>

-----------------------------------------------------------------------------
(* Sending.                                                                *)

\* Mutant: the transaction id is that of the call before.
NextTidLate == IF current_tid = 0 THEN 1 ELSE current_tid

NextTid == IF current_tid = TidMax THEN 1 ELSE current_tid + 1

\* Mutant: what is on the line is left there.
FlushedNot == inbox

\* The default flush reads the line empty: it never holds a whole buffer here.
Flushed == << >>

\* Bound: the line does not keep an answer until its transaction id is in use
\* again.
LineForgets == \A i \in DOMAIN air : Len(asked) + 1 - air[i].frame.of < TidMax

\* msg_state_req and the put_ calls after it.
Begin(c) ==
    /\ pc = "idle" /\ Len(asked) < MaxCalls[Transport] /\ LineForgets
    /\ call' = c
    /\ current_tid' = NextTid
    /\ inbox' = Flushed
    /\ msg' = [unit |-> c.unit, function |-> c.function, tid |-> NextTid]
    /\ buf' = [address |-> c.address, value |-> c.value]
    /\ pc' = "send"
    /\ asked' = Append(asked, c)
    /\ took' = NoFrame
    /\ quiet' = (air = << >>)
    /\ reply' = "none"
    /\ UNCHANGED <<setup, want, got, result, air>>

Return(error) == pc' = "idle" /\ result' = error

\* A broadcast write is not answered, and nobody waits for an answer; a
\* broadcast read waits all the same.
Send ==
    /\ pc = "send"
    /\ \/ /\ \E kind \in setup.replies :
                /\ Broadcast => kind = "none"
                /\ kind = "fewer" => call.function \in Coils
                /\ kind = "short" => Transport = "TCP"
                /\ reply' = kind
                /\ air' = IF kind = "none" THEN air ELSE air \o Parts(Answer(call, kind))
          /\ \/ /\ call.raw \/ (Broadcast /\ call.function \in Echoed)
                /\ Return(NMBS_ERROR_NONE)
             \/ /\ ~call.raw /\ ~(Broadcast /\ call.function \in Echoed)
                /\ pc' = "header" /\ UNCHANGED result
       \/ /\ \E error \in {NMBS_ERROR_TRANSPORT, NMBS_ERROR_TIMEOUT} : Return(error)
          /\ UNCHANGED <<reply, air>>
    /\ want' = msg
    /\ UNCHANGED <<setup, call, current_tid, msg, buf, got, inbox, asked, took, quiet>>

\* nmbs_receive_raw_pdu_response, after nmbs_send_raw_pdu.
ReceiveRaw ==
    /\ pc = "idle" /\ call.raw
    /\ pc' = "header"
    /\ want' = msg
    /\ took' = NoFrame
    /\ UNCHANGED <<call, current_tid, msg, buf, got, result, air, inbox, setup, asked, quiet, reply>>

-----------------------------------------------------------------------------
(* Receiving.                                                              *)

\* Where recv_res_header goes with the header of frame.
Verdict(frame) ==
    IF Transport = "TCP" /\ frame.tid # want.tid THEN NMBS_ERROR_INVALID_TCP_MBAP
    ELSE IF Transport = "RTU" /\ frame.unit # want.unit THEN NMBS_ERROR_INVALID_UNIT_ID
    ELSE IF frame.function = want.function THEN "body"
    ELSE IF frame.function - 128 = want.function THEN "exception"
    ELSE NMBS_ERROR_INVALID_RESPONSE

Judge(frame) ==
    LET verdict == Verdict(frame)
    IN  IF verdict \in {"body", "exception"} THEN pc' = verdict /\ UNCHANGED result
        ELSE Return(verdict)

HeaderOf(frame) == [unit |-> frame.unit, function |-> frame.function, tid |-> frame.tid]

Next1 == Head(inbox)

\* msg_state_reset comes first, whatever the read then finds.  A header that
\* begins in the middle of a frame is an error of one kind or the other: it
\* does not pass for one by chance.
ReadHeader ==
    /\ pc = "header" /\ inbox # << >>
    /\ inbox' = Tail(inbox)
    /\ \/ /\ Next1.part = "header"
          /\ got' = Next1.frame
          /\ msg' = HeaderOf(Next1.frame)
          /\ IF Transport = "TCP" THEN pc' = "rest" /\ UNCHANGED result ELSE Judge(Next1.frame)
       \/ /\ Next1.part # "header"
          /\ \E error \in IF Transport = "TCP" THEN {NMBS_ERROR_INVALID_TCP_MBAP, NMBS_ERROR_TIMEOUT}
                          ELSE {NMBS_ERROR_INVALID_UNIT_ID, NMBS_ERROR_INVALID_RESPONSE} : Return(error)
          /\ msg' = Blank
          /\ UNCHANGED got
    /\ UNCHANGED <<call, current_tid, want, buf, air, history>>

\* The rest of a TCP frame, as long as its header says.  From then on recv
\* reads nothing: what the frame lacks is what the buffer held.
ReadRest ==
    /\ pc = "rest"
    /\ IF got.whole THEN inbox # << >> /\ inbox' = Tail(inbox) /\ buf' = got.body
       ELSE UNCHANGED <<inbox, buf>>
    /\ Judge(got)
    /\ UNCHANGED <<call, current_tid, msg, want, got, air, history>>

\* What is checked of the body before its CRC.
BodyFits(body) ==
    ~call.raw =>
        /\ call.function \in Registers \cup Coils => Byte(body) <= 250
        /\ call.function \in Registers => Byte(body) = 2 * call.value

\* What is checked of it after its CRC.
EchoFits(body) ==
    ~call.raw /\ call.function \in Echoed =>
        body.address = call.address /\ body.value = call.value

Accept(error) ==
    /\ Return(error)
    /\ took' = got
    /\ UNCHANGED <<setup, asked, quiet, reply>>

Reject(error) == Return(error) /\ UNCHANGED history

ExceptionNames == <<NMBS_EXCEPTION_ILLEGAL_FUNCTION, NMBS_EXCEPTION_ILLEGAL_DATA_ADDRESS,
                    NMBS_EXCEPTION_ILLEGAL_DATA_VALUE, NMBS_EXCEPTION_SERVER_DEVICE_FAILURE>>

\* The end of a recv_..._res function, and of an exception.
EndBody(body) == IF EchoFits(body) THEN Accept(NMBS_ERROR_NONE) ELSE Reject(NMBS_ERROR_INVALID_RESPONSE)

EndException(body) ==
    IF Byte(body) \in 1 .. 4 THEN Accept(ExceptionNames[Byte(body)])
    ELSE Reject(NMBS_ERROR_INVALID_RESPONSE)

ReadBodyTcp ==
    /\ Transport = "TCP"
    /\ \/ pc = "body" /\ IF BodyFits(buf) THEN EndBody(buf) ELSE Reject(NMBS_ERROR_INVALID_RESPONSE)
       \/ pc = "exception" /\ EndException(buf)
    /\ UNCHANGED <<call, current_tid, msg, want, buf, got, air, inbox>>

ReadBodyRtu ==
    /\ Transport = "RTU" /\ inbox # << >>
    /\ inbox' = Tail(inbox)
    /\ buf' = got.body
    /\ \/ /\ pc = "body"
          /\ IF BodyFits(got.body) THEN pc' = "crc" /\ UNCHANGED result
             ELSE Return(NMBS_ERROR_INVALID_RESPONSE)
       \/ pc = "exception" /\ pc' = "exception_crc" /\ UNCHANGED result
    /\ UNCHANGED <<call, current_tid, msg, want, got, air, history>>

\* recv_msg_footer and what comes after it.
ReadFooter ==
    /\ pc \in {"crc", "exception_crc"} /\ inbox # << >>
    /\ inbox' = Tail(inbox)
    /\ IF ~got.good THEN Reject(NMBS_ERROR_CRC)
       ELSE IF pc = "crc" THEN EndBody(buf) ELSE EndException(buf)
    /\ UNCHANGED <<call, current_tid, msg, want, buf, got, air>>

\* A timeout before the end of the header leaves msg reset.
TimeOut ==
    /\ pc \in {"header", "body", "exception", "crc", "exception_crc"} \/ (pc = "rest" /\ got.whole)
    /\ pc \in {"body", "exception"} => Transport = "RTU"
    /\ CanTimeOut /\ inbox = << >>
    /\ Return(NMBS_ERROR_TIMEOUT)
    /\ msg' = IF pc = "header" THEN Blank ELSE msg
    /\ UNCHANGED <<call, current_tid, want, buf, got, air, inbox, history>>

Receive == ReadHeader \/ ReadRest \/ ReadBodyTcp \/ ReadBodyRtu \/ ReadFooter \/ TimeOut

Next == Arrive \/ (\E c \in setup.calls : Begin(c)) \/ Send \/ ReceiveRaw \/ Receive

Spec == Init /\ [][Next]_vars

-----------------------------------------------------------------------------
(* Correctness.                                                            *)

Returned == pc = "idle" /\ took # NoFrame

(* On TCP a call that returns data, a confirmation or an exception does so *)
(* for the answer to its own request, however late earlier answers are.    *)
OwnAnswer == Transport = "TCP" /\ Returned => took.of = Len(asked)

\* Servers that do what they are asked; their answers may be damaged.
Faithful == setup.replies \subseteq {"none", "right", "exception", "noise"}

(* On RTU, which has no transaction ids, a late answer can be taken for    *)
(* that of the call under way; but only an undamaged one, to a call that   *)
(* asked the same unit for the same function, wrote the same value to the  *)
(* same address or read as many registers.                                 *)
SameQuestion ==
    Transport = "RTU" /\ Faithful /\ Returned /\ ~call.raw => LET then == asked[took.of] IN
        /\ took.good
        /\ then.function = call.function /\ then.unit = call.unit
        /\ took.function = call.function =>
              /\ call.function \in Echoed => then.address = call.address
              /\ call.function \in Echoed \cup Registers => then.value = call.value

(* A call over TCP takes its own answer, a call over RTU at most one to    *)
(* the same question.                                                      *)
AnswerIsForCall == OwnAnswer /\ SameQuestion

\* What a client can tell from the right answer: not a damaged frame without
\* a CRC, nor another unit's on TCP, nor a frame that is too short.
Told == IF Transport = "TCP" THEN {"none", "right", "exception", "odd", "wrong", "function"}
        ELSE ReplyKinds \ {"short", "fewer"}

(* Whatever was left on the line before the call, and whatever the call    *)
(* before it ended with: if nothing is under way when the call begins and  *)
(* it does not time out, it returns what the server answered, success for  *)
(* the right answer alone.                                                 *)
QuietCallTellsTruth ==
    LET told == pc = "idle" /\ asked # << >> /\ quiet /\ ~call.raw /\ ~Broadcast /\ reply \in Told
                    /\ result \notin {NMBS_ERROR_TIMEOUT, NMBS_ERROR_TRANSPORT}
    IN  told =>
            /\ result = NMBS_ERROR_NONE <=> reply = "right"
            /\ reply = "exception" => result = NMBS_EXCEPTION_ILLEGAL_DATA_ADDRESS
            /\ nmbs_error_is_exception(result) => reply = "exception"

(* What nanomodbus.h:64 and the checks of recv_write_single_register_res   *)
(* say: an answer that is not the whole echo is an invalid response.       *)
AnswerWhole == Returned /\ call.function \in Echoed => took.whole

(* The same of a read of coils: success is for as many as were asked for.  *)
CoilsAsAsked ==
    Returned /\ call.function \in Coils /\ result = NMBS_ERROR_NONE /\ took.of = Len(asked) =>
        reply = "right"

=============================================================================
