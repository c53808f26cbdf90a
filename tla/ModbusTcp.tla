----------------------------- MODULE ModbusTcp -----------------------------
(***************************************************************************)
(* The Modbus TCP server main runs in: ModbusTcp_run and                   *)
(* run_modbus_session of src/ModbusTcp.c, nmbs_server_poll of nanoMODBUS   *)
(* under them, tinycsocket on POSIX under that, and clients that connect,  *)
(* send their requests piece by piece, fall silent, close or reset.        *)
(*                                                                         *)
(* The byte stream is cut into pieces: one for the first byte of a frame,  *)
(* HeaderPieces for the rest of its header and BodyPieces for its body, so *)
(* that a read can find nothing, a part or all of what it asks for.  A     *)
(* piece is the number, within its connection, of the request it is of.    *)
(*                                                                         *)
(* What a callback answers is a choice here; the callbacks of the program  *)
(* are in DriveSim.                                                        *)
(***************************************************************************)
EXTENDS ModbusPdu

CONSTANTS
    Clients, NoClient,
    Frames,             \* the frames a client may send
    CallbackErrors,     \* what a callback may return
    FailingCalls,       \* the calls of ModbusTcp_run that may fail
    ReadTimeout,        \* read_timeout_ms: for the first byte
    ByteTimeout,        \* byte_timeout_ms: for the rest
    HeaderPieces, BodyPieces,
    MaxRequests,        \* bound: requests on one connection
    MaxConnections      \* bound: connections of one client

\* A frame: the two fields of its MBAP header that are looked at, its PDU.
FrameRecord == [protocol : Nat, length : Nat, pdu : PduFields]

SocketCalls == {"tcs_lib_init", "tcs_socket", "tcs_bind", "tcs_listen",
                "tcs_accept", "tcs_close"}

\* The bounds keep a client from having msg.buf's size in flight: a longer
\* burst would let flush return in the middle of a frame.
ASSUME ModbusTcpAssumption ==
    /\ NoClient \notin Clients
    /\ Frames \subseteq FrameRecord
    /\ FailingCalls \subseteq SocketCalls
    /\ ReadTimeout \in Nat /\ ByteTimeout \in Nat
    /\ HeaderPieces \in Nat \ {0} /\ BodyPieces \in Nat \ {0}
    /\ MaxRequests \in Nat /\ MaxConnections \in Nat
    /\ \A frame \in Frames :      \* what makes a file request legal
          frame.pdu.function = 20 /\ frame.pdu.legal => frame.pdu.quantity <= 124
    /\ MaxRequests * (1 + HeaderPieces + BodyPieces) < BufferSize

VARIABLES
    pc,                 \* where the server is
    listener,           \* listen_socket
    current,            \* client_socket: the client it is connected to
    err,                \* what run_modbus_session is about to return
    reading,            \* the request being read or answered
    todo,               \* the callbacks it still has to be passed to
    answer,             \* the error its answer will carry
    queue,              \* the clients that wait to be accepted
    conn,               \* the connection of each client
    opened              \* how many connections each client has made

server == <<pc, listener, current, err, reading, todo, answer>>
vars == <<pc, listener, current, err, reading, todo, answer, queue, conn, opened>>

\* A connection: peer is the client's end; frames are the requests it began,
\* unsent the pieces of the last one still to come, inbox the pieces in the
\* receive buffer; calls and answers record what the server did.
NoConnection == [peer |-> "absent", frames |-> << >>, unsent |-> 0,
                 inbox |-> << >>, calls |-> << >>, answers |-> << >>]

Init ==
    /\ pc = "tcs_lib_init"
    /\ listener = "invalid"
    /\ current = NoClient
    /\ err = NMBS_ERROR_NONE
    /\ reading = 0
    /\ todo = << >>
    /\ answer = NMBS_ERROR_NONE
    /\ queue = << >>
    /\ conn = [c \in Clients |-> NoConnection]
    /\ opened = [c \in Clients |-> 0]

LengthLegal(frame) == frame.length >= 2 /\ frame.length <= 255

\* recv(length - 2): nothing is left to read of a one-byte PDU.
PiecesOfBody(frame) == IF LengthLegal(frame) /\ frame.length > 2 THEN BodyPieces ELSE 0

-----------------------------------------------------------------------------
(* The clients and the network (external).                                 *)

Connect(c) ==
    /\ listener = "listening" /\ pc # "returned"
    /\ conn[c].peer = "absent" /\ opened[c] < MaxConnections
    /\ conn' = [conn EXCEPT ![c].peer = "open"]
    /\ opened' = [opened EXCEPT ![c] = @ + 1]
    /\ queue' = Append(queue, c)
    /\ UNCHANGED server

Request(c, frame) ==
    /\ pc # "returned"
    /\ conn[c].peer = "open" /\ conn[c].unsent = 0
    /\ Len(conn[c].frames) < MaxRequests
    /\ conn' = [conn EXCEPT ![c].frames = Append(@, frame),
                            ![c].unsent = 1 + HeaderPieces + PiecesOfBody(frame)]
    /\ UNCHANGED <<server, queue, opened>>

Arrive(c) ==
    /\ pc # "returned"
    /\ conn[c].peer = "open" /\ conn[c].unsent > 0
    /\ conn' = [conn EXCEPT ![c].inbox = Append(@, Len(conn[c].frames)),
                            ![c].unsent = @ - 1]
    /\ UNCHANGED <<server, queue, opened>>

\* The client closes, at any point of a frame: what it sent stays readable.
Close(c) ==
    /\ pc # "returned"
    /\ conn[c].peer = "open"
    /\ conn' = [conn EXCEPT ![c].peer = "closed"]
    /\ UNCHANGED <<server, queue, opened>>

\* The connection breaks: what was not read is lost.
Reset(c) ==
    /\ pc # "returned"
    /\ conn[c].peer \in {"open", "closed"}
    /\ conn' = [conn EXCEPT ![c].peer = "reset", ![c].inbox = << >>]
    /\ UNCHANGED <<server, queue, opened>>

Client(c) ==
    Connect(c) \/ (\E frame \in Frames : Request(c, frame)) \/ Arrive(c) \/ Close(c) \/ Reset(c)

-----------------------------------------------------------------------------
(* Transport.                                                              *)

\* What modbus_transport_read may return: the pieces it got, or -1.  The
\* receive waits for all of them, and a receive timeout of 0 never expires.
\* A receive of no bytes counts as the end of the stream when it returns.
modbus_transport_read(c, count, byte_timeout_ms) ==
    LET available == Len(conn[c].inbox)
    IN  IF conn[c].peer = "reset" \/ (count = 0 /\ available > 0) THEN {-1}
        ELSE IF count > 0 /\ available >= count THEN {count}
        ELSE IF conn[c].peer = "closed" THEN {IF available = 0 THEN -1 ELSE available}
        ELSE IF byte_timeout_ms = 0 THEN {} ELSE {available}

\* What modbus_transport_write may do once the client has gone: a first
\* write after its close still succeeds.
modbus_transport_write(c) ==
    CASE conn[c].peer = "open"   -> {TRUE}
      [] conn[c].peer = "closed" -> {TRUE, FALSE}
      [] OTHER                   -> {FALSE}

recv(n, count) ==
    IF n = count THEN NMBS_ERROR_NONE
    ELSE IF n < 0 THEN NMBS_ERROR_TRANSPORT ELSE NMBS_ERROR_TIMEOUT

Consume(n) ==
    conn' = [conn EXCEPT ![current].inbox = SubSeq(@, (IF n > 0 THEN n ELSE 0) + 1, Len(@))]

Frame == conn[current].frames[reading]

-----------------------------------------------------------------------------
(* ModbusTcp_run, up to the accept loop.                                   *)

Startup(call, next, opens) ==
    /\ pc = call
    /\ \/ pc' = next /\ listener' = opens
       \/ /\ call \in FailingCalls
          /\ pc' = IF call = "tcs_lib_init" THEN "returned" ELSE "cleanup"
          /\ UNCHANGED listener
    /\ UNCHANGED <<current, err, reading, todo, answer, queue, conn, opened>>

Accept ==
    /\ pc = "accept"
    /\ \/ /\ queue # << >>
          /\ current' = Head(queue)
          /\ queue' = Tail(queue)
          /\ pc' = "first_byte"
       \/ /\ "tcs_accept" \in FailingCalls
          /\ pc' = "cleanup"
          /\ UNCHANGED <<current, queue>>
    /\ UNCHANGED <<listener, err, reading, todo, answer, conn, opened>>

Cleanup ==
    /\ pc = "cleanup"
    /\ listener' = IF listener = "invalid" THEN listener ELSE "closed"
    /\ pc' = "returned"
    /\ UNCHANGED <<current, err, reading, todo, answer, queue, conn, opened>>

-----------------------------------------------------------------------------
(* nmbs_server_poll.  A transport error ends the session in good order,    *)
(* any other error ends the server.                                        *)

EndSession(error) ==
    /\ err' = IF error = NMBS_ERROR_TRANSPORT THEN NMBS_ERROR_NONE ELSE error
    /\ pc' = "close"

ReadFirstByte ==
    /\ pc = "first_byte"
    /\ \E n \in modbus_transport_read(current, 1, ReadTimeout) :
          LET error == recv(n, 1) IN
          /\ Consume(n)
          /\ \/ /\ error = NMBS_ERROR_NONE
                /\ reading' = Head(conn[current].inbox)
                /\ pc' = "header"
                /\ UNCHANGED err
             \/ error = NMBS_ERROR_TIMEOUT /\ UNCHANGED <<pc, err, reading>>
             \/ error = NMBS_ERROR_TRANSPORT /\ EndSession(error) /\ UNCHANGED reading
    /\ UNCHANGED <<listener, current, todo, answer, queue, opened>>

\* Mutant: the timeout of the rest of the header is forgotten.
ReadHeaderPatiently ==
    /\ pc = "header"
    /\ \E n \in modbus_transport_read(current, HeaderPieces, 0) :
          LET error == recv(n, HeaderPieces) IN
          /\ Consume(n)
          /\ \/ error # NMBS_ERROR_NONE /\ EndSession(error)
             \/ /\ error = NMBS_ERROR_NONE
                /\ IF LengthLegal(Frame) THEN pc' = "body" /\ UNCHANGED err
                   ELSE EndSession(NMBS_ERROR_INVALID_TCP_MBAP)
    /\ UNCHANGED <<listener, current, reading, todo, answer, queue, opened>>

ReadHeader ==
    /\ pc = "header"
    /\ \E n \in modbus_transport_read(current, HeaderPieces, ByteTimeout) :
          LET error == recv(n, HeaderPieces) IN
          /\ Consume(n)
          /\ \/ error # NMBS_ERROR_NONE /\ EndSession(error)
             \/ /\ error = NMBS_ERROR_NONE
                /\ IF LengthLegal(Frame) THEN pc' = "body" /\ UNCHANGED err
                   ELSE EndSession(NMBS_ERROR_INVALID_TCP_MBAP)
    /\ UNCHANGED <<listener, current, reading, todo, answer, queue, opened>>

\* The protocol is looked at only after the body has been received.
ReadBody ==
    /\ pc = "body"
    /\ \E n \in modbus_transport_read(current, PiecesOfBody(Frame), ByteTimeout) :
          LET error == recv(n, PiecesOfBody(Frame)) IN
          /\ Consume(n)
          /\ \/ error # NMBS_ERROR_NONE /\ EndSession(error)
             \/ /\ error = NMBS_ERROR_NONE
                /\ IF Frame.protocol = 0 THEN pc' = "handle" /\ UNCHANGED err
                   ELSE EndSession(NMBS_ERROR_INVALID_TCP_MBAP)
    /\ UNCHANGED <<listener, current, reading, todo, answer, queue, opened>>

\* Mutant: a refusal is not answered.
CallbackRefusalUnanswered ==
    /\ pc = "callback"
    /\ \E error \in CallbackErrors :
          /\ conn' = [conn EXCEPT ![current].calls = Append(@,
                [request |-> reading, callback |-> Head(todo), error |-> error])]
          /\ todo' = Tail(todo)
          /\ answer' = ExceptionOf(error)
          /\ pc' = IF error # NMBS_ERROR_NONE THEN "first_byte" ELSE IF Len(todo) > 1 THEN "callback" ELSE "send"
    /\ UNCHANGED <<listener, current, err, reading, queue, opened>>

\* handle_req_fc: the default branch flushes the line before it answers.
Handle ==
    /\ pc = "handle"
    /\ LET fault == RequestFault(Frame.pdu)
       IN  \/ /\ Frame.pdu.function \notin HandledFunctions
              /\ answer' = fault
              /\ pc' = "flush_line"
              /\ UNCHANGED <<err, todo>>
           \/ /\ Frame.pdu.function \in HandledFunctions
              /\ nmbs_error_is_exception(fault)
              /\ answer' = fault
              /\ pc' = "send"
              /\ UNCHANGED <<err, todo>>
           \/ /\ fault = NMBS_ERROR_INVALID_REQUEST
              /\ err' = fault
              /\ pc' = "flush"
              /\ UNCHANGED <<answer, todo>>
           \/ /\ fault = NMBS_ERROR_NONE
              /\ todo' = CallbacksOf(Frame.pdu)
              /\ pc' = "callback"
              /\ UNCHANGED <<err, answer>>
    /\ UNCHANGED <<listener, current, reading, queue, conn, opened>>

\* Mutant: Read/Write Registers reads on although the write was refused.
CallbackRefusalIgnored ==
    /\ pc = "callback"
    /\ \E error \in CallbackErrors :
          /\ conn' = [conn EXCEPT ![current].calls = Append(@,
                [request |-> reading, callback |-> Head(todo), error |-> error])]
          /\ todo' = Tail(todo)
          /\ answer' = ExceptionOf(error)
          /\ pc' = IF Len(todo) > 1 THEN "callback" ELSE "send"
    /\ UNCHANGED <<listener, current, err, reading, queue, opened>>

Callback ==
    /\ pc = "callback"
    /\ \E error \in CallbackErrors :
          /\ conn' = [conn EXCEPT ![current].calls = Append(@,
                [request |-> reading, callback |-> Head(todo), error |-> error])]
          /\ todo' = Tail(todo)
          /\ answer' = ExceptionOf(error)
          /\ pc' = IF error = NMBS_ERROR_NONE /\ Len(todo) > 1 THEN "callback" ELSE "send"
    /\ UNCHANGED <<listener, current, err, reading, queue, opened>>

\* Mutant: the response is sent a second time.
SendTwice ==
    /\ pc = "send"
    /\ \E sent \in modbus_transport_write(current) :
          \/ /\ sent
             /\ conn' = [conn EXCEPT ![current].answers =
                            Append(@, [request |-> reading, error |-> answer])]
             /\ pc' = IF Len(conn[current].answers) = 0 THEN "send" ELSE "first_byte"
             /\ UNCHANGED err
          \/ /\ ~sent
             /\ err' = NMBS_ERROR_TRANSPORT
             /\ pc' = "flush"
             /\ UNCHANGED conn
    /\ UNCHANGED <<listener, current, reading, todo, answer, queue, opened>>

Send ==
    /\ pc = "send"
    /\ \E sent \in modbus_transport_write(current) :
          \/ /\ sent
             /\ conn' = [conn EXCEPT ![current].answers =
                            Append(@, [request |-> reading, error |-> answer])]
             /\ pc' = "first_byte"
             /\ UNCHANGED err
          \/ /\ ~sent
             /\ err' = NMBS_ERROR_TRANSPORT
             /\ pc' = "flush"
             /\ UNCHANGED conn
    /\ UNCHANGED <<listener, current, reading, todo, answer, queue, opened>>

\* flush reads a whole buffer with a timeout of 0 and looks at no result.
Flush(here) ==
    /\ pc = here
    /\ \E n \in modbus_transport_read(current, BufferSize, 0) : Consume(n)
    /\ IF here = "flush_line" THEN pc' = "send" /\ UNCHANGED err ELSE EndSession(err)
    /\ UNCHANGED <<listener, current, reading, todo, answer, queue, opened>>

Poll ==
    \/ ReadFirstByte \/ ReadHeader \/ ReadBody \/ Handle \/ Callback \/ Send
    \/ Flush("flush_line") \/ Flush("flush")

\* Mutant: a session that ends in an error is left unclosed.
CloseClientOfGoodSession ==
    /\ pc = "close"
    /\ IF err = NMBS_ERROR_NONE
       THEN /\ current' = NoClient
            /\ conn' = [conn EXCEPT ![current] = NoConnection]
            /\ pc' = "accept"
       ELSE pc' = "returned" /\ UNCHANGED <<current, conn>>
    /\ UNCHANGED <<listener, err, reading, todo, answer, queue, opened>>

\* tcs_close(&client_socket), then the next client or the end of the server.
CloseClient ==
    /\ pc = "close"
    /\ \/ /\ current' = NoClient
          /\ conn' = [conn EXCEPT ![current] = NoConnection]
          /\ pc' = IF err = NMBS_ERROR_NONE THEN "accept" ELSE "returned"
       \/ /\ "tcs_close" \in FailingCalls
          /\ pc' = "returned"
          /\ UNCHANGED <<current, conn>>
    /\ UNCHANGED <<listener, err, reading, todo, answer, queue, opened>>

Server ==
    \/ Startup("tcs_lib_init", "tcs_socket", "invalid")
    \/ Startup("tcs_socket", "tcs_bind", "open")
    \/ Startup("tcs_bind", "tcs_listen", "open")
    \/ Startup("tcs_listen", "accept", "listening")
    \/ Accept \/ Poll \/ CloseClient \/ Cleanup

Next == Server \/ \E c \in Clients : Client(c)

Spec == Init /\ [][Next]_vars

\* The server is a thread of its own and its timeouts expire; a client need
\* never send, finish or close.
FairSpec == Spec /\ WF_vars(Server)

-----------------------------------------------------------------------------
(* Correctness.                                                            *)

Connection ==
    [peer : {"absent", "open", "closed", "reset"}, frames : Seq(Frames),
     unsent : 0 .. 1 + HeaderPieces + BodyPieces, inbox : Seq(1 .. MaxRequests),
     calls : Seq([request : 1 .. MaxRequests, callback : Callbacks, error : CallbackErrors]),
     answers : Seq([request : 1 .. MaxRequests, error : Exceptions \cup {NMBS_ERROR_NONE}])]

(* Every variable has its type; in particular no callback is called that   *)
(* the program left NULL, and only exceptions are answered.                *)
TypeOK ==
    /\ pc \in {"tcs_lib_init", "tcs_socket", "tcs_bind", "tcs_listen", "accept",
              "first_byte", "header", "body", "handle", "callback", "send",
              "flush_line", "flush", "close", "cleanup", "returned"}
    /\ listener \in {"invalid", "open", "listening", "closed"}
    /\ current \in Clients \cup {NoClient}
    /\ err \in {NMBS_ERROR_NONE, NMBS_ERROR_TRANSPORT, NMBS_ERROR_TIMEOUT,
                NMBS_ERROR_INVALID_TCP_MBAP, NMBS_ERROR_INVALID_REQUEST}
    /\ reading \in 0 .. MaxRequests
    /\ todo \in Seq(CallbackNames)
    /\ answer \in Exceptions \cup {NMBS_ERROR_NONE}
    /\ queue \in Seq(Clients)
    /\ conn \in [Clients -> Connection]
    /\ opened \in [Clients -> 0 .. MaxConnections]

Received(c, i) ==
    /\ i < Len(conn[c].frames) \/ conn[c].unsent = 0
    /\ \A k \in DOMAIN conn[c].inbox : conn[c].inbox[k] # i

(* A connection is answered in the order of its requests, no request twice *)
(* and none before all of it was read, however it arrived and whatever the *)
(* flushes threw away.                                                     *)
AnswersInOrder ==
    \A c \in Clients : LET answers == conn[c].answers IN
        \A j \in DOMAIN answers :
            /\ Received(c, answers[j].request)
            /\ j > 1 => answers[j - 1].request < answers[j].request

\* The calls for request i of connection k are those at from + 1 .. upto: the
\* callbacks of its function in their order, of a whole and legal request,
\* the last one alone with an error, if any.
CalledFor(k, i, from, upto) ==
    LET frame == k.frames[i]
        names == CallbacksOf(frame.pdu)
    IN  /\ from <= upto /\ upto - from <= Len(names)
        /\ \A p \in DOMAIN k.calls : k.calls[p].request = i <=> p \in from + 1 .. upto
        /\ \A p \in from + 1 .. upto : k.calls[p].callback = names[p - from]
        /\ \A p \in from + 1 .. upto - 1 : k.calls[p].error = NMBS_ERROR_NONE
        /\ from < upto => frame.protocol = 0 /\ LengthLegal(frame)

\* What the answer to request i may say after those calls.
AnswerFor(k, i, from, upto, error) ==
    LET agreed == /\ from < upto /\ upto - from = Len(CallbacksOf(k.frames[i].pdu))
                  /\ k.calls[upto].error = NMBS_ERROR_NONE
    IN  /\ error = NMBS_ERROR_NONE <=> agreed
        /\ from < upto => error = ExceptionOf(k.calls[upto].error)

(* The program is called for a request at most once per callback, in the   *)
(* order of its function and without a call for another request between,   *)
(* only with the whole frame of a legal request, and not again once a      *)
(* callback refused.  An answer without error means every callback agreed; *)
(* after a refusal the answer is that refusal.                             *)
AnswersTellWhatWasDone ==
    \A c \in Clients : \A i \in DOMAIN conn[c].frames :
        \E from, upto \in 0 .. Len(conn[c].calls) :
            /\ CalledFor(conn[c], i, from, upto)
            /\ from < upto => Received(c, i)
            /\ \A j \in DOMAIN conn[c].answers :
                  conn[c].answers[j].request = i =>
                      AnswerFor(conn[c], i, from, upto, conn[c].answers[j].error)

(* The response in the making fits msg.buf, and the byte count it carries  *)
(* is the number of data bytes that follow.                                *)
AnswerFits ==
    pc = "send" =>
        /\ ResponseSize(Frame.pdu, answer) <= BufferSize
        /\ answer = NMBS_ERROR_NONE /\ Frame.pdu.function \in ReadFunctionCodes =>
              ByteCount(Frame.pdu) = DataBytes(Frame.pdu)

(* On every way out of a session its socket is closed before the next      *)
(* client is accepted or ModbusTcp_run returns (if closing does not fail). *)
ClientSocketClosed ==
    pc \in {"accept", "cleanup", "returned"} => current = NoClient

(* A client that falls silent inside a frame does not hold the server: the *)
(* byte timeout ends the wait.                                             *)
PartialFrameEnds == pc \in {"header", "body"} ~> pc \notin {"header", "body"}

(* A whole request with a function nanoMODBUS handles is answered, or the  *)
(* session is over, whatever else the client sends, unless it has also     *)
(* sent a function that is not handled.                                    *)
WholeRequestAnswered ==
    \A c \in Clients : \A i \in 1 .. MaxRequests :
        /\ current = c
        /\ i \in DOMAIN conn[c].frames
        /\ i < Len(conn[c].frames) \/ conn[c].unsent = 0
        /\ \A j \in DOMAIN conn[c].frames : conn[c].frames[j].pdu.function \in HandledFunctions
        ~>
        \/ \E j \in DOMAIN conn[c].answers : conn[c].answers[j].request = i
        \/ \E j \in DOMAIN conn[c].frames : conn[c].frames[j].pdu.function \notin HandledFunctions
        \/ current # c
        \/ pc = "returned"

(* What ModbusTcp.c:196 says: from then on the server accepts new clients  *)
(* endlessly, one at a time.                                               *)
ServerNeverStops == pc \notin {"cleanup", "returned"}

(* What nanomodbus.h:147 says: with a timeout of 0 a read returns at once. *)
FlushReturns == pc = "flush_line" ~> pc # "flush_line"
=============================================================================
