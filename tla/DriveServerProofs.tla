------------------------- MODULE DriveServerProofs -------------------------
(***************************************************************************)
(* What a client of the whole program can rely on, for any clients,        *)
(* frames, timeouts, callbacks and any motor.                              *)
(***************************************************************************)
EXTENDS DriveServer, ModbusTcpProofs
-----------------------------------------------------------------------------
(* What is known of the calls of a connection and of the program.          *)

\* A write of call i, done, or at least not refused for its address.
WriteCall(k, i) == k.calls[i].callback \in {"write_single_register", "write_multiple_registers"}
DoneCall(k, i) == k.calls[i].error = NMBS_ERROR_NONE
WordOf(k, i) == k.frames[k.calls[i].request].pdu.value

DoneWrites(k, n) == {i \in 1 .. n : WriteCall(k, i) /\ DoneCall(k, i)}
TriedWrites(k, n) ==
    {i \in 1 .. n : WriteCall(k, i) /\ k.calls[i].error # NMBS_EXCEPTION_ILLEGAL_DATA_ADDRESS}

\* What call i read is what the last write before it left.
TrueValue(k, v, i) ==
    /\ k.calls[i].callback = "read_holding_registers" /\ DoneCall(k, i) =>
          \A j \in DoneWrites(k, i - 1) :
              IsLast(j, DoneWrites(k, i - 1)) => v[i] = <<WordOf(k, j)>>
    /\ k.calls[i].callback = "read_discrete_inputs" /\ DoneCall(k, i) =>
          \A j \in TriedWrites(k, i - 1) :
              IsLast(j, TriedWrites(k, i - 1)) => v[i] = <<IF DoneCall(k, j) THEN 0 ELSE 1>>

ValuesInv ==
    /\ DOMAIN values = Clients
    /\ \A c \in Clients :
          /\ \E S : values[c] \in Seq(S)
          /\ Len(values[c]) = Len(conn[c].calls)
          /\ \A i \in 1 .. Len(conn[c].calls) : TrueValue(conn[c], values[c], i)

\* Only the client served has calls on record, and there is none before it
\* was accepted.
ServedInv ==
    /\ \A c \in Clients : c # current => Len(conn[c].calls) = 0
    /\ pc \notin ServerPcs \cup {"returned"} => current = NoClient

\* The program is asked within a callback only, for the request in hand.
AskInv ==
    /\ request # Program!NoRequest =>
          pc = "callback" /\ request = RequestOf(Frame.pdu, Head(todo))
    /\ reply # Program!NoReply => request # Program!NoRequest

\* A write was decided and is not on record yet.
Deciding ==
    reply # Program!NoReply /\ request.function \in {"write_single_register", "write_multiple_registers"}
Accepted == Deciding /\ reply.error = NMBS_ERROR_NONE
Tried    == Deciding /\ reply.error # NMBS_EXCEPTION_ILLEGAL_DATA_ADDRESS

\* The torque in force and the flag are those of the last write, and a read
\* that was decided gives them.
ProgramInv ==
    /\ failure \in BOOLEAN
    /\ Accepted => torque = Program!Int16(request.value)
    /\ Tried => (failure <=> reply.error # NMBS_ERROR_NONE)
    /\ current \in Clients =>
          LET k == conn[current]
              n == Len(k.calls)
          IN  /\ ~Accepted => \A j \in DoneWrites(k, n) :
                     IsLast(j, DoneWrites(k, n)) => torque = Program!Int16(WordOf(k, j))
              /\ ~Tried => \A j \in TriedWrites(k, n) :
                     IsLast(j, TriedWrites(k, n)) => (failure <=> ~DoneCall(k, j))
    /\ reply # Program!NoReply /\ reply.error = NMBS_ERROR_NONE =>
          /\ request.function = "read_holding_registers" =>
                reply.registers = <<Program!Uint16(torque)>>
          /\ request.function = "read_discrete_inputs" =>
                reply.registers = <<IF failure THEN 1 ELSE 0>>

ServerInv == IInv /\ BurstInv /\ ShapeInv /\ OrderInv /\ ToldInv /\ HandInv /\ CallOrderInv
DriveInv == ValuesInv /\ ServedInv /\ AskInv /\ ProgramInv

-----------------------------------------------------------------------------
(* The program within the server.                                          *)

\* Every step is one of the server, or leaves it alone.
LEMMA DriveStepIsServerStep == [DriveNext]_<<vars, program, values>> => [Next]_vars
<1>1. CallProgram \/ ProgramAnswers => UNCHANGED vars
    BY DEF CallProgram, ProgramAnswers
<1>2. CallReturns => Next
    BY DEF CallReturns, Next, Server, Poll
<1>3. ElseStep \/ ClientStep => Next
    BY DEF ElseStep, ClientStep, Next
<1> QED
    BY <1>1, <1>2, <1>3 DEF DriveNext

LEMMA AlwaysServerInv == DriveSpec => []ServerInv
<1>1. DriveInit => Init
    BY DEF DriveInit
<1>2. DriveSpec => Spec
    BY <1>1, DriveStepIsServerStep, PTL DEF DriveSpec, Spec
<1> QED
    BY <1>2, AlwaysIInv, AlwaysOrdered, AlwaysTold, PTL DEF ServerInv

LEMMA ProgramErrors ==
    /\ Program!NMBS_ERROR_NONE = NMBS_ERROR_NONE
    /\ Program!NMBS_EXCEPTION_ILLEGAL_DATA_VALUE = NMBS_EXCEPTION_ILLEGAL_DATA_VALUE
    /\ Program!NMBS_EXCEPTION_ILLEGAL_DATA_ADDRESS = NMBS_EXCEPTION_ILLEGAL_DATA_ADDRESS
    /\ NMBS_ERROR_NONE # NMBS_EXCEPTION_ILLEGAL_DATA_VALUE
    /\ NMBS_ERROR_NONE # NMBS_EXCEPTION_ILLEGAL_DATA_ADDRESS
    /\ NMBS_EXCEPTION_ILLEGAL_DATA_VALUE # NMBS_EXCEPTION_ILLEGAL_DATA_ADDRESS
BY DEF NMBS_ERROR_NONE, NMBS_EXCEPTION_ILLEGAL_DATA_VALUE, NMBS_EXCEPTION_ILLEGAL_DATA_ADDRESS,
       Program!NMBS_ERROR_NONE, Program!NMBS_EXCEPTION_ILLEGAL_DATA_VALUE,
       Program!NMBS_EXCEPTION_ILLEGAL_DATA_ADDRESS

(* A register that is read holds the word that was written (int16_t and    *)
(* uint16_t of DriveSim.c).                                                *)
LEMMA WordComesBack ==
    ASSUME NEW word \in 0 .. AddressSpace - 1
    PROVE  /\ Program!Int16(word) \in Int
           /\ Program!Uint16(Program!Int16(word)) = word
<1>1. AddressSpace \in Nat \ {0}
    BY SMTT(20) DEF AddressSpace
<1>2. ASSUME NEW W \in Nat \ {0}, NEW w \in 0 .. W - 1
      PROVE  /\ w \in Int /\ w - W \in Int
             /\ w % W = w /\ (w - W) % W = w
    <2>1. w \in Int /\ w - W \in Int /\ w % W = w
        OBVIOUS
    <2>2. (w - W) % W = w
        <3> DEFINE q == (w - W) \div W
        <3>1. q \in Int /\ (w - W) = W * q + ((w - W) % W) /\ (w - W) % W \in 0 .. W - 1
            OBVIOUS
        <3>2. q = -1
            OBVIOUS
        <3> HIDE DEF q
        <3> QED
            BY <3>1, <3>2
    <2> QED
        BY <2>1, <2>2
<1>3. /\ word \in Int /\ word - AddressSpace \in Int
      /\ word % AddressSpace = word /\ (word - AddressSpace) % AddressSpace = word
    BY <1>1, <1>2
<1>4. Program!Int16(word) = word - AddressSpace \/ Program!Int16(word) = word
    BY DriveServerAssumption DEF Program!Int16
<1>5. Program!Uint16(Program!Int16(word)) = Program!Int16(word) % AddressSpace
    BY DriveServerAssumption DEF Program!Uint16
<1> QED
    BY <1>3, <1>4, <1>5

\* What the program answers: never nothing; a write is taken, refused for its
\* value or refused for its address, a read tells the torque or the flag.
LEMMA AnswerFacts ==
    ASSUME Program!Answer, AskInv, ProgramInv
    PROVE  /\ reply = Program!NoReply /\ request # Program!NoRequest /\ request' = request
           /\ reply' # Program!NoReply
           /\ reply'.error \in {NMBS_ERROR_NONE, NMBS_EXCEPTION_ILLEGAL_DATA_VALUE,
                                NMBS_EXCEPTION_ILLEGAL_DATA_ADDRESS}
           /\ failure' \in BOOLEAN
           /\ \/ UNCHANGED <<torque, failure>>
              \/ request.function \in {"write_single_register", "write_multiple_registers"}
           /\ reply'.error = NMBS_EXCEPTION_ILLEGAL_DATA_ADDRESS => UNCHANGED <<torque, failure>>
           /\ torque' # torque =>
                 /\ torque' = Program!Int16(request.value) /\ ~failure'
                 /\ Program!abs_double(torque') <= MotorMaxTorque
           /\ Accepted' => torque' = Program!Int16(request.value)
           /\ Tried' => (failure' <=> reply'.error # NMBS_ERROR_NONE)
           /\ reply'.error # NMBS_ERROR_NONE => torque' = torque
           /\ reply'.error = NMBS_ERROR_NONE =>
                /\ request.function = "read_holding_registers" =>
                      reply'.registers = <<Program!Uint16(torque')>>
                /\ request.function = "read_discrete_inputs" =>
                      reply'.registers = <<IF failure' THEN 1 ELSE 0>>
<1> USE DEF NMBS_ERROR_NONE, NMBS_EXCEPTION_ILLEGAL_DATA_VALUE, NMBS_EXCEPTION_ILLEGAL_DATA_ADDRESS,
       Program!NMBS_ERROR_NONE, Program!NMBS_EXCEPTION_ILLEGAL_DATA_VALUE,
       Program!NMBS_EXCEPTION_ILLEGAL_DATA_ADDRESS
<1>1. reply = Program!NoReply /\ request # Program!NoRequest /\ request' = request
    BY DEF Program!Answer, Program!Refuse, Program!Read, Program!Write, Program!Answering
<1>2. \A error, registers : error # "none" => [error |-> error, registers |-> registers] # Program!NoReply
    <2> SUFFICES ASSUME NEW error, NEW registers,
                        [error |-> error, registers |-> registers] = Program!NoReply
                 PROVE  error = "none"
        OBVIOUS
    <2>1. Program!NoReply.error = "none"
        BY DEF Program!NoReply
    <2>2. [error |-> error, registers |-> registers].error = error
        OBVIOUS
    <2> QED
        BY <2>1, <2>2
<1>3. failure \in BOOLEAN
    BY DEF ProgramInv
<1>4. CASE Program!Refuse
    <2>1. Program!RequestCheck(request) \in {NMBS_EXCEPTION_ILLEGAL_DATA_VALUE,
                                             NMBS_EXCEPTION_ILLEGAL_DATA_ADDRESS}
        BY <1>4 DEF Program!Refuse, Program!RequestCheck, Program!expect_single_register,
                    Program!expect_input_registers
    <2>2. request.function \in {"write_single_register", "write_multiple_registers"} =>
             Program!RequestCheck(request) = NMBS_EXCEPTION_ILLEGAL_DATA_ADDRESS
        BY <1>4 DEF Program!Refuse, Program!RequestCheck, Program!expect_single_register,
                    Program!expect_input_registers
    <2>3. /\ reply' = [error |-> Program!RequestCheck(request), registers |-> << >>]
          /\ UNCHANGED <<torque, failure>>
        BY <1>4 DEF Program!Refuse
    <2>4. reply' # Program!NoReply /\ reply'.error = Program!RequestCheck(request)
        BY <1>2, <2>1, <2>3
    <2> QED
        BY <1>1, <1>3, <2>1, <2>2, <2>3, <2>4 DEF Accepted, Tried, Deciding
<1>5. CASE Program!Read
    <2>1. request.function \in {"read_discrete_inputs", "read_holding_registers",
                                "read_input_registers"}
        BY <1>5 DEF Program!Read, Program!ReadFunctions
    <2>2. UNCHANGED <<torque, failure>>
        BY <1>5 DEF Program!Read
    <2>3. PICK registers :
             /\ reply' = [error |-> NMBS_ERROR_NONE, registers |-> registers]
             /\ registers = CASE request.function = "read_discrete_inputs" -> <<IF failure THEN 1 ELSE 0>>
                              [] request.function = "read_holding_registers" -> <<Program!Uint16(torque)>>
                              [] OTHER -> Program!EncodedParameters(request.address, request.quantity)
        BY <1>5 DEF Program!Read
    <2>4. reply' # Program!NoReply /\ reply'.error = NMBS_ERROR_NONE /\ reply'.registers = registers
        BY <1>2, <2>3
    <2>5. ~Accepted' /\ ~Tried'
        BY <1>1, <2>1 DEF Accepted, Tried, Deciding
    <2>6. request.function = "read_holding_registers" => reply'.registers = <<Program!Uint16(torque)>>
        BY <2>3, <2>4
    <2>7. request.function = "read_discrete_inputs" => reply'.registers = <<IF failure THEN 1 ELSE 0>>
        BY <2>3, <2>4
    <2> QED
        BY <1>1, <1>3, <2>2, <2>4, <2>5, <2>6, <2>7
<1>6. CASE Program!Write
    <2>1. request.function \in {"write_single_register", "write_multiple_registers"}
        BY <1>6 DEF Program!Write, Program!WriteFunctions
    <2>2. CASE /\ Program!abs_double(Program!Int16(request.value)) <= MotorMaxTorque
               /\ torque' = Program!Int16(request.value)
               /\ failure' = FALSE
               /\ reply' = [error |-> NMBS_ERROR_NONE, registers |-> << >>]
        <3>1. reply' # Program!NoReply /\ reply'.error = NMBS_ERROR_NONE
            BY <1>2, <2>2
        <3> QED
            BY <1>1, <2>1, <2>2, <3>1 DEF Accepted, Tried, Deciding
    <2>3. CASE /\ failure' = TRUE /\ UNCHANGED torque
               /\ reply' = [error |-> NMBS_EXCEPTION_ILLEGAL_DATA_VALUE, registers |-> << >>]
        <3>1. reply' # Program!NoReply /\ reply'.error = NMBS_EXCEPTION_ILLEGAL_DATA_VALUE
            BY <1>2, <2>3
        <3> QED
            BY <1>1, <2>1, <2>3, <3>1 DEF Accepted, Tried, Deciding
    <2> QED
        BY <1>6, <2>2, <2>3 DEF Program!Write
<1> QED
    BY <1>4, <1>5, <1>6 DEF Program!Answer

-----------------------------------------------------------------------------
(* What is on record stays on record.                                      *)

LEMMA SameRecord ==
    ASSUME NEW k, NEW new, NEW n \in Nat,
           \A p \in 1 .. n : /\ new.calls[p] = k.calls[p]
                             /\ new.frames[k.calls[p].request] = k.frames[k.calls[p].request]
    PROVE  /\ \A m \in 0 .. n : /\ DoneWrites(new, m) = DoneWrites(k, m)
                                /\ TriedWrites(new, m) = TriedWrites(k, m)
           /\ \A j \in 1 .. n : /\ WordOf(new, j) = WordOf(k, j)
                                /\ DoneCall(new, j) <=> DoneCall(k, j)
           /\ \A v : \A i \in 1 .. n : TrueValue(k, v, i) => TrueValue(new, v, i)
<1>1. ASSUME NEW m \in 0 .. n
      PROVE  /\ DoneWrites(new, m) = DoneWrites(k, m) /\ TriedWrites(new, m) = TriedWrites(k, m)
             /\ \A j \in DoneWrites(k, m) \cup TriedWrites(k, m) : j \in 1 .. n
    BY DEF DoneWrites, TriedWrites, WriteCall, DoneCall
<1>2. \A j \in 1 .. n : /\ WordOf(new, j) = WordOf(k, j)
                        /\ DoneCall(new, j) <=> DoneCall(k, j)
    BY DEF WordOf, DoneCall
<1>3. ASSUME NEW v, NEW i \in 1 .. n, TrueValue(k, v, i) PROVE TrueValue(new, v, i)
    <2>1. i - 1 \in 0 .. n
        OBVIOUS
    <2>2. new.calls[i].callback = k.calls[i].callback /\ (DoneCall(new, i) <=> DoneCall(k, i))
        BY <1>2
    <2>3. /\ DoneWrites(new, i - 1) = DoneWrites(k, i - 1)
          /\ TriedWrites(new, i - 1) = TriedWrites(k, i - 1)
          /\ \A j \in DoneWrites(k, i - 1) \cup TriedWrites(k, i - 1) : j \in 1 .. n
        BY <1>1, <2>1
    <2> QED
        BY <1>2, <1>3, <2>2, <2>3 DEF TrueValue
<1> QED
    BY <1>1, <1>2, <1>3

LEMMA RecordKept ==
    ASSUME ServerInv, [Next]_vars, NEW c \in Clients
    PROVE  \/ conn'[c] = NoConnection
           \/ /\ Len(conn[c].calls) \in Nat
              /\ \A p \in 1 .. Len(conn[c].calls) :
                    /\ conn'[c].calls[p] = conn[c].calls[p]
                    /\ conn'[c].frames[conn[c].calls[p].request]
                          = conn[c].frames[conn[c].calls[p].request]
              /\ ~Callback \/ c # current => conn'[c].calls = conn[c].calls
<1> DEFINE k == conn[c]
           new == conn'[c]
<1> SUFFICES ASSUME new # NoConnection
             PROVE  /\ Len(k.calls) \in Nat
                    /\ \A p \in 1 .. Len(k.calls) :
                          /\ new.calls[p] = k.calls[p]
                          /\ new.frames[k.calls[p].request] = k.frames[k.calls[p].request]
                    /\ ~Callback \/ c # current => new.calls = k.calls
    OBVIOUS
<1>1. IInv /\ IInv'
    BY NextKeepsIInv DEF ServerInv
<1>2. k \in Connection /\ new \in Connection
    BY <1>1 DEF IInv, TypeOK
<1>3. Requested(k)
    BY DEF ServerInv, ToldInv
<1>4. \A p \in 1 .. Len(k.calls) :
         new.frames[k.calls[p].request] = k.frames[k.calls[p].request]
    BY <1>1, <1>2, <1>3, ConnectionChanges, FrameKept DEF Requested
<1>5. ~Callback \/ c # current => new.calls = k.calls
    BY <1>1, CallsKept, OthersKept
<1>6. Callback /\ c = current => \A p \in 1 .. Len(k.calls) : new.calls[p] = k.calls[p]
    BY CallbackFacts DEF ServerInv
<1> QED
    BY <1>2, <1>4, <1>5, <1>6, ConnectionFacts

\* The call that returns is recorded as the request it was, with the error of
\* its answer.
LEMMA CallReturnsFacts ==
    ASSUME ServerInv, AskInv, CallReturns
    PROVE  /\ current \in Clients /\ current' = current
           /\ request # Program!NoRequest /\ reply # Program!NoReply
           /\ request' = Program!NoRequest /\ reply' = Program!NoReply
           /\ UNCHANGED <<torque, failure>>
           /\ LET k == conn[current]
                  new == conn'[current]
                  n == Len(k.calls) + 1
              IN  /\ Len(k.calls) \in Nat /\ Len(new.calls) = n
                  /\ new.calls[n].callback = request.function
                  /\ new.calls[n].error = reply.error
                  /\ WriteCall(new, n) => request.value = WordOf(new, n)
<1> DEFINE k == conn[current]
           new == conn'[current]
           n == Len(k.calls) + 1
<1>1. /\ current \in Clients /\ current' = current
      /\ k \in Connection /\ new \in Connection
      /\ Still(k, new)
      /\ Len(new.calls) = n
      /\ new.calls[n].request = reading
      /\ new.calls[n].callback = Head(todo)
    BY CallbackFacts DEF ServerInv, CallReturns
<1>2. Len(k.calls) \in Nat
    BY <1>1, ConnectionFacts
<1>3. /\ reply # Program!NoReply
      /\ request' = Program!NoRequest /\ reply' = Program!NoReply
      /\ UNCHANGED <<torque, failure>>
    BY DEF CallReturns, Program!Done
<1>4. request # Program!NoRequest /\ request = RequestOf(Frame.pdu, Head(todo))
    BY <1>3 DEF AskInv
<1>5. request.function = Head(todo)
    BY <1>4 DEF RequestOf
<1>6. Head(todo) \in {"write_single_register", "write_multiple_registers"}
         => request.value = Frame.pdu.value
    BY <1>4 DEF RequestOf
<1>7. new.frames[new.calls[n].request] = Frame
    BY <1>1 DEF Still, Frame
<1>8. new.calls[n].error = reply.error
    <2>1. conn'[current].calls[Len(conn'[current].calls)].error = reply.error
        BY DEF CallReturns, Last
    <2> QED
        BY <1>1, <2>1
<1> QED
    BY <1>1, <1>2, <1>3, <1>4, <1>5, <1>6, <1>7, <1>8 DEF WriteCall, WordOf

-----------------------------------------------------------------------------
(* The steps keep the invariant.                                           *)

LEMMA NextKeepsServedInv == ServerInv /\ ServedInv /\ [Next]_vars => ServedInv'
<1> SUFFICES ASSUME ServerInv, ServedInv, [Next]_vars PROVE ServedInv'
    OBVIOUS
<1>1. IInv /\ conn \in [Clients -> Connection] /\ NoClient \notin Clients
    BY ModbusTcpAssumption DEF ServerInv, IInv, TypeOK
<1>2. Len(NoConnection.calls) = 0
    BY EmptySeq DEF NoConnection
<1>3. ASSUME current' = current,
             pc' \notin ServerPcs \cup {"returned"} => pc \notin ServerPcs \cup {"returned"}
      PROVE  ServedInv'
    <2>1. ASSUME NEW c \in Clients, c # current PROVE Len(conn'[c].calls) = 0
        BY <1>2, <2>1, RecordKept DEF ServedInv
    <2> QED
        BY <1>3, <2>1 DEF ServedInv
<1>4. CASE UNCHANGED vars
    BY <1>3, <1>4 DEF vars
<1>5. CASE \E d \in Clients : Client(d)
    BY <1>1, <1>3, <1>5, ClientSteps DEF server
<1>6. CASE \/ Startup("tcs_lib_init", "tcs_socket", "invalid")
           \/ Startup("tcs_socket", "tcs_bind", "open")
           \/ Startup("tcs_bind", "tcs_listen", "open")
           \/ Startup("tcs_listen", "accept", "listening") \/ Cleanup
    BY <1>3, <1>6 DEF Startup, Cleanup, ServerPcs
<1>7. CASE Handle \/ Callback \/ Send
    BY <1>3, <1>7 DEF Handle, Callback, Send, ServerPcs
<1>8. CASE ReadStep
    BY <1>3, <1>8 DEF ReadStep, ReadFirstByte, ReadHeader, ReadBody, Flush, EndSession, ServerPcs
<1>9. CASE Accept
    <2>1. current = NoClient /\ conn' = conn
        BY <1>9 DEF Accept, ServedInv, ServerPcs
    <2>2. pc' \notin ServerPcs \cup {"returned"} => current' = NoClient
        BY <1>9, <2>1 DEF Accept, ServerPcs
    <2> QED
        BY <1>1, <2>1, <2>2 DEF ServedInv
<1>10. CASE CloseClient
    <2>1. CASE current' = current /\ conn' = conn /\ pc' = "returned"
        BY <2>1 DEF ServedInv
    <2>2. CASE current' = NoClient /\ conn' = [conn EXCEPT ![current] = NoConnection]
        <3>1. \A c \in Clients : IF c = current THEN conn'[c] = NoConnection ELSE conn'[c] = conn[c]
            BY <1>1, <2>2
        <3> QED
            BY <1>2, <2>2, <3>1 DEF ServedInv
    <2> QED
        BY <1>10, <2>1, <2>2 DEF CloseClient
<1> QED
    BY <1>4, <1>5, <1>6, <1>7, <1>8, <1>9, <1>10, ServerSteps DEF Next, QuietStep

LEMMA DriveNextKeepsAskInv ==
    ASSUME ServerInv, AskInv, ProgramInv, [DriveNext]_<<vars, program, values>>
    PROVE  AskInv'
<1>1. CASE UNCHANGED <<vars, program>>
    BY <1>1 DEF AskInv, RequestOf, Frame, vars, program
<1>2. CASE CallProgram
    BY <1>2 DEF CallProgram, Program!Ask, AskInv, RequestOf, Frame, vars
<1>3. CASE ProgramAnswers
    <2>1. Program!Answer /\ UNCHANGED vars
        BY <1>3 DEF ProgramAnswers
    <2>2. request # Program!NoRequest /\ request' = request
        BY <2>1, AnswerFacts
    <2> QED
        BY <2>1, <2>2 DEF AskInv, RequestOf, Frame, vars
<1>4. CASE CallReturns
    BY <1>4, CallReturnsFacts DEF AskInv
<1>5. CASE ElseStep
    BY <1>5 DEF ElseStep, program, AskInv
<1>6. CASE ClientStep
    <2>1. pc = "callback" /\ UNCHANGED program /\ \E d \in Clients : Client(d)
        BY <1>6 DEF ClientStep
    <2>2. /\ IInv /\ IInv' /\ current \in Clients /\ reading \in 1 .. Len(conn[current].frames)
        BY <2>1, NextKeepsIInv DEF ServerInv, IInv, SessionInv, ServerPcs, RequestPcs, Next
    <2>3. conn[current] \in Connection /\ conn'[current] \in Connection
        BY <2>2 DEF IInv, TypeOK
    <2>4. UNCHANGED server /\ conn'[current].frames[reading] = conn[current].frames[reading]
        BY <2>1, <2>2, <2>3, ClientSteps, FrameKept
    <2> QED
        BY <2>1, <2>4 DEF AskInv, RequestOf, Frame, server, program
<1> QED
    BY <1>1, <1>2, <1>3, <1>4, <1>5, <1>6 DEF DriveNext

\* What was written is a register.
LEMMA WordsAreWords ==
    ASSUME ServerInv, NEW c \in Clients, NEW j \in 1 .. Len(conn[c].calls)
    PROVE  WordOf(conn[c], j) \in 0 .. AddressSpace - 1
<1>1. conn[c] \in Connection /\ Requested(conn[c])
    BY DEF ServerInv, IInv, TypeOK, ToldInv
<1>2. conn[c].frames[conn[c].calls[j].request] \in Frames
    BY <1>1, ConnectionFacts, ElementOfSeq DEF Requested
<1> QED
    BY <1>2, ModbusTcpAssumption DEF WordOf, FrameRecord, PduFields

\* What a call that returns leaves to be known: its own write, if it was one.
LEMMA CallReturnsKeepsDriveInv ==
    ASSUME ServerInv, DriveInv, CallReturns
    PROVE  ValuesInv' /\ ProgramInv'
<1> DEFINE k == conn[current]
           new == conn'[current]
           n == Len(k.calls) + 1
<1>1. /\ current \in Clients /\ current' = current
      /\ request # Program!NoRequest /\ reply # Program!NoReply
      /\ request' = Program!NoRequest /\ reply' = Program!NoReply
      /\ UNCHANGED <<torque, failure>>
      /\ Len(k.calls) \in Nat /\ Len(new.calls) = n
      /\ new.calls[n].callback = request.function
      /\ new.calls[n].error = reply.error
      /\ WriteCall(new, n) => request.value = WordOf(new, n)
    BY CallReturnsFacts DEF DriveInv
<1>2. [Next]_vars
    BY DEF CallReturns, Next, Server, Poll
<1>3. \A c \in Clients \ {current} : conn'[c] = conn[c]
    BY OthersKept DEF ServerInv, CallReturns
<1>4. \A p \in 1 .. Len(k.calls) :
         /\ new.calls[p] = k.calls[p]
         /\ new.frames[k.calls[p].request] = k.frames[k.calls[p].request]
    <2>1. new # NoConnection
        <3>1. Len(NoConnection.calls) = 0
            BY EmptySeq DEF NoConnection
        <3> QED
            BY <1>1, <3>1
    <2> QED
        BY <1>1, <1>2, <2>1, RecordKept
<1>5. /\ DoneWrites(new, n - 1) = DoneWrites(k, n - 1)
      /\ TriedWrites(new, n - 1) = TriedWrites(k, n - 1)
      /\ \A j \in 1 .. n - 1 : /\ WordOf(new, j) = WordOf(k, j)
                               /\ DoneCall(new, j) <=> DoneCall(k, j)
      /\ \A v : \A i \in 1 .. n - 1 : TrueValue(k, v, i) => TrueValue(new, v, i)
    <2> DEFINE L == Len(k.calls)
    <2>1. n - 1 = L /\ L \in 0 .. L /\ L \in Nat
        BY <1>1
    <2>2. \A p \in 1 .. L :
             /\ new.calls[p] = k.calls[p]
             /\ new.frames[k.calls[p].request] = k.frames[k.calls[p].request]
        BY <1>4
    <2> HIDE DEF k, new, n, L
    <2>3. /\ \A m \in 0 .. L : /\ DoneWrites(new, m) = DoneWrites(k, m)
                               /\ TriedWrites(new, m) = TriedWrites(k, m)
          /\ \A j \in 1 .. L : /\ WordOf(new, j) = WordOf(k, j)
                               /\ DoneCall(new, j) <=> DoneCall(k, j)
          /\ \A v : \A i \in 1 .. L : TrueValue(k, v, i) => TrueValue(new, v, i)
        BY <2>1, <2>2, SameRecord
    <2> QED
        BY <2>1, <2>3
<1>6. /\ failure \in BOOLEAN
      /\ Accepted => torque = Program!Int16(request.value)
      /\ Tried => (failure <=> reply.error # NMBS_ERROR_NONE)
      /\ ~Accepted => \A j \in DoneWrites(k, n - 1) :
             IsLast(j, DoneWrites(k, n - 1)) => torque = Program!Int16(WordOf(k, j))
      /\ ~Tried => \A j \in TriedWrites(k, n - 1) :
             IsLast(j, TriedWrites(k, n - 1)) => (failure <=> ~DoneCall(k, j))
      /\ reply.error = NMBS_ERROR_NONE =>
            /\ request.function = "read_holding_registers" =>
                  reply.registers = <<Program!Uint16(torque)>>
            /\ request.function = "read_discrete_inputs" =>
                  reply.registers = <<IF failure THEN 1 ELSE 0>>
    <2>1. n - 1 = Len(k.calls)
        BY <1>1
    <2> QED
        BY <1>1, <2>1 DEF DriveInv, ProgramInv
<1>7. \A j \in DoneWrites(k, n - 1) \cup TriedWrites(k, n - 1) : j \in 1 .. n - 1
    BY DEF DoneWrites, TriedWrites
<1>8. /\ Accepted <=> WriteCall(new, n) /\ DoneCall(new, n)
      /\ Tried <=> WriteCall(new, n) /\ new.calls[n].error # NMBS_EXCEPTION_ILLEGAL_DATA_ADDRESS
    <2> HIDE DEF n, new, k
    <2> QED
        BY <1>1 DEF Accepted, Tried, Deciding, WriteCall, DoneCall
<1>9. /\ DoneWrites(new, n) = IF Accepted THEN DoneWrites(new, n - 1) \cup {n} ELSE DoneWrites(new, n - 1)
      /\ TriedWrites(new, n) = IF Tried THEN TriedWrites(new, n - 1) \cup {n} ELSE TriedWrites(new, n - 1)
    <2>1. 1 .. n = (1 .. n - 1) \cup {n} /\ n \notin 1 .. n - 1
        BY <1>1, SMTT(20)
    <2> HIDE DEF n, new, k
    <2>2. /\ DoneWrites(new, n) = {j \in 1 .. n : WriteCall(new, j) /\ DoneCall(new, j)}
          /\ DoneWrites(new, n - 1) = {j \in 1 .. n - 1 : WriteCall(new, j) /\ DoneCall(new, j)}
        BY DEF DoneWrites
    <2>3. DoneWrites(new, n) = IF Accepted THEN DoneWrites(new, n - 1) \cup {n} ELSE DoneWrites(new, n - 1)
        BY <1>8, <2>1, <2>2
    <2>4. TriedWrites(new, n) = IF Tried THEN TriedWrites(new, n - 1) \cup {n} ELSE TriedWrites(new, n - 1)
        BY <1>8, <2>1 DEF TriedWrites
    <2> QED
        BY <2>3, <2>4
<1>10. ASSUME NEW S \in {DoneWrites(new, n), TriedWrites(new, n)}, NEW j, IsLast(j, S), n \in S
       PROVE  j = n
    <2>1. S \subseteq 1 .. n
        BY DEF DoneWrites, TriedWrites
    <2>2. j \in 1 .. n /\ n <= j
        BY <1>10, <2>1 DEF IsLast
    <2> QED
        BY <1>1, <2>2
<1>11. \A j \in DoneWrites(new, n) :
          IsLast(j, DoneWrites(new, n)) => torque = Program!Int16(WordOf(new, j))
    <2> SUFFICES ASSUME NEW j \in DoneWrites(new, n), IsLast(j, DoneWrites(new, n))
                 PROVE  torque = Program!Int16(WordOf(new, j))
        OBVIOUS
    <2>1. CASE Accepted
        BY <1>1, <1>6, <1>8, <1>9, <1>10, <2>1
    <2>2. CASE ~Accepted
        BY <1>5, <1>6, <1>7, <1>9, <2>2
    <2> QED
        BY <2>1, <2>2
<1>12. \A j \in TriedWrites(new, n) :
          IsLast(j, TriedWrites(new, n)) => (failure <=> ~DoneCall(new, j))
    <2> SUFFICES ASSUME NEW j \in TriedWrites(new, n), IsLast(j, TriedWrites(new, n))
                 PROVE  failure <=> ~DoneCall(new, j)
        OBVIOUS
    <2>1. CASE Tried
        BY <1>1, <1>6, <1>9, <1>10, <2>1 DEF DoneCall
    <2>2. CASE ~Tried
        BY <1>5, <1>6, <1>7, <1>9, <2>2
    <2> QED
        BY <2>1, <2>2
<1>13. ProgramInv'
    <2> HIDE DEF k, n
    <2>1. ~Accepted' /\ ~Tried' /\ reply' = Program!NoReply'
        BY <1>1 DEF Accepted, Tried, Deciding, Program!NoReply
    <2>2. Len(new.calls) = n
        BY <1>1
    <2> QED
        BY <1>1, <1>6, <1>11, <1>12, <2>1, <2>2
           DEF ProgramInv, DoneWrites, TriedWrites, WriteCall, DoneCall, WordOf, IsLast,
               Program!Int16, Program!NoReply
<1> DEFINE v == values[current]
           longer == Append(v, reply.registers)
<1>14. /\ values' = [values EXCEPT ![current] = longer]
       /\ DOMAIN values = Clients
       /\ \E S : v \in Seq(S)
       /\ Len(v) = n - 1
       /\ \A i \in 1 .. n - 1 : TrueValue(k, v, i)
    <2>1. values' = [values EXCEPT ![current] = longer]
        BY <1>1 DEF CallReturns
    <2>2. /\ DOMAIN values = Clients
          /\ \E S : v \in Seq(S)
          /\ Len(v) = Len(k.calls)
          /\ \A i \in 1 .. Len(k.calls) : TrueValue(k, v, i)
        BY <1>1, Zenon DEF DriveInv, ValuesInv
    <2>3. n - 1 = Len(k.calls)
        BY <1>1
    <2> QED
        BY <2>1, <2>2, <2>3
<1>15. \E S : longer \in Seq(S)
    <2>1. PICK S : v \in Seq(S)
        BY <1>14
    <2>2. v \in Seq(S \cup {reply.registers})
        BY <2>1, Zenon, SeqMonotonic
    <2> QED
        BY <2>2, AppendProperties
<1>16. /\ Len(longer) = n /\ longer[n] = reply.registers
       /\ \A i \in 1 .. n - 1 : longer[i] = v[i]
    <2>1. PICK S : v \in Seq(S)
        BY <1>14
    <2>2. v \in Seq(S \cup {reply.registers}) /\ reply.registers \in S \cup {reply.registers}
        BY <2>1
    <2>3. /\ Len(longer) = Len(v) + 1 /\ longer[Len(v) + 1] = reply.registers
          /\ \A i \in 1 .. Len(v) : longer[i] = v[i]
        BY <2>2, AppendProperties
    <2>4. n - 1 + 1 = n
        BY <1>1
    <2> QED
        BY <1>14, <2>3, <2>4
<1> HIDE DEF longer
<1>17. \A i \in 1 .. n - 1 : TrueValue(new, longer, i)
    <2> TAKE i \in 1 .. n - 1
    <2>1. TrueValue(new, v, i) /\ longer[i] = v[i]
        BY <1>5, <1>14, <1>16
    <2> QED
        BY <2>1 DEF TrueValue
<1>18. TrueValue(new, longer, n)
    <2>1. ASSUME request.function \in {"read_holding_registers", "read_discrete_inputs"}
          PROVE  ~Accepted /\ ~Tried
        BY <2>1 DEF Accepted, Tried, Deciding
    <2>2. ASSUME new.calls[n].callback = "read_holding_registers", DoneCall(new, n),
                 NEW j \in DoneWrites(new, n - 1), IsLast(j, DoneWrites(new, n - 1))
          PROVE  longer[n] = <<WordOf(new, j)>>
        <3>1. /\ j \in DoneWrites(k, n - 1) /\ IsLast(j, DoneWrites(k, n - 1)) /\ j \in 1 .. n - 1
              /\ WordOf(new, j) = WordOf(k, j)
            BY <1>5, <1>7, <2>2
        <3>2. torque = Program!Int16(WordOf(k, j)) /\ longer[n] = <<Program!Uint16(torque)>>
            BY <1>1, <1>6, <1>16, <2>1, <2>2, <3>1 DEF DoneCall
        <3>3. WordOf(k, j) \in 0 .. AddressSpace - 1
            BY <1>1, <3>1, WordsAreWords
        <3> QED
            BY <3>1, <3>2, <3>3, WordComesBack
    <2>3. ASSUME new.calls[n].callback = "read_discrete_inputs", DoneCall(new, n),
                 NEW j \in TriedWrites(new, n - 1), IsLast(j, TriedWrites(new, n - 1))
          PROVE  longer[n] = <<IF DoneCall(new, j) THEN 0 ELSE 1>>
        <3>1. /\ j \in TriedWrites(k, n - 1) /\ IsLast(j, TriedWrites(k, n - 1)) /\ j \in 1 .. n - 1
              /\ DoneCall(new, j) <=> DoneCall(k, j)
            BY <1>5, <1>7, <2>3
        <3>2. (failure <=> ~DoneCall(k, j)) /\ longer[n] = <<IF failure THEN 1 ELSE 0>>
            BY <1>1, <1>6, <1>16, <2>1, <2>3, <3>1 DEF DoneCall
        <3> QED
            BY <3>1, <3>2
    <2> QED
        BY <2>2, <2>3 DEF TrueValue
<1>19. \A i \in 1 .. Len(new.calls) : TrueValue(new, longer, i)
    <2>1. \A i \in 1 .. n : i \in 1 .. n - 1 \/ i = n
        BY <1>1
    <2> QED
        BY <1>1, <1>17, <1>18, <2>1
<1>20. ValuesInv'
    <2>1. /\ DOMAIN values' = Clients /\ values'[current] = longer
          /\ \A c \in Clients \ {current} : values'[c] = values[c]
        BY <1>1, <1>14
    <2>2. Len(longer) = Len(new.calls)
        BY <1>1, <1>16
    <2> HIDE DEF k, n
    <2> SUFFICES ASSUME NEW c \in Clients
                 PROVE  /\ \E S : values'[c] \in Seq(S)
                        /\ Len(values'[c]) = Len(conn'[c].calls)
                        /\ \A i \in 1 .. Len(conn'[c].calls) : TrueValue(conn'[c], values'[c], i)
        BY <2>1 DEF ValuesInv, TrueValue, DoneWrites, TriedWrites, WriteCall, DoneCall, WordOf, IsLast
    <2>3. CASE c = current
        BY <1>15, <1>19, <2>1, <2>2, <2>3
    <2>4. CASE c # current
        BY <1>3, <2>1, <2>4 DEF DriveInv, ValuesInv
    <2> QED
        BY <2>3, <2>4
<1> QED
    BY <1>13, <1>20

\* A step of the server that is no callback: a connection keeps its record or
\* has none.
LEMMA OtherRecords ==
    ASSUME ServerInv, ServedInv, [Next]_vars, ~Callback, NEW c \in Clients
    PROVE  \/ Len(conn'[c].calls) = 0 /\ (conn'[c] = NoConnection \/ conn'[c].calls = conn[c].calls)
           \/ /\ c = current /\ conn'[c].calls = conn[c].calls
              /\ LET n == Len(conn[c].calls) IN
                 /\ n \in Nat
                 /\ DoneWrites(conn'[c], n) = DoneWrites(conn[c], n)
                 /\ TriedWrites(conn'[c], n) = TriedWrites(conn[c], n)
                 /\ \A j \in 1 .. n : /\ WordOf(conn'[c], j) = WordOf(conn[c], j)
                                      /\ DoneCall(conn'[c], j) <=> DoneCall(conn[c], j)
                 /\ \A v : \A i \in 1 .. n :
                       TrueValue(conn[c], v, i) => TrueValue(conn'[c], v, i)
<1>1. CASE conn'[c] = NoConnection
    BY <1>1, EmptySeq DEF NoConnection
<1>2. CASE conn'[c] # NoConnection
    <2> DEFINE n == Len(conn[c].calls)
               k == conn[c]
               new == conn'[c]
    <2>1. /\ n \in Nat
          /\ \A p \in 1 .. n : /\ new.calls[p] = k.calls[p]
                               /\ new.frames[k.calls[p].request] = k.frames[k.calls[p].request]
          /\ new.calls = k.calls
        BY <1>2, RecordKept
    <2>2. c # current => n = 0
        BY DEF ServedInv
    <2> HIDE DEF n, k, new
    <2>3. n \in 0 .. n
        BY <2>1
    <2>4. /\ \A m \in 0 .. n : /\ DoneWrites(new, m) = DoneWrites(k, m)
                               /\ TriedWrites(new, m) = TriedWrites(k, m)
          /\ \A j \in 1 .. n : /\ WordOf(new, j) = WordOf(k, j)
                               /\ DoneCall(new, j) <=> DoneCall(k, j)
          /\ \A v : \A i \in 1 .. n : TrueValue(k, v, i) => TrueValue(new, v, i)
        BY <2>1, SameRecord
    <2>5. /\ DoneWrites(new, n) = DoneWrites(k, n)
          /\ TriedWrites(new, n) = TriedWrites(k, n)
        BY <2>3, <2>4
    <2>6. c # current => Len(new.calls) = 0
        BY <2>1, <2>2 DEF n, k
    <2> QED
        BY <2>1, <2>4, <2>5, <2>6 DEF n, k, new
<1> QED
    BY <1>1, <1>2

LEMMA OtherStepsDoNotCall ==
    ASSUME ServerInv, [DriveNext]_<<vars, program, values>>, ~CallReturns
    PROVE  [Next]_vars /\ ~Callback
<1>1. Callback => pc = "callback" /\ todo' # todo
    <2> SUFFICES ASSUME Callback PROVE pc = "callback" /\ todo' # todo
        OBVIOUS
    <2>1. todo \in Seq(Callbacks) /\ todo # << >> /\ todo' = Tail(todo) /\ pc = "callback"
        BY DEF Callback, ServerInv, IInv, SessionInv
    <2>2. Len(Tail(todo)) = Len(todo) - 1 /\ Len(todo) \in Nat
        BY <2>1
    <2>3. \A L \in Nat : L - 1 # L
        OBVIOUS
    <2>4. Len(todo') # Len(todo)
        BY <2>1, <2>2, <2>3
    <2> QED
        BY <2>1, <2>4
<1>2. pc # "callback" \/ UNCHANGED todo
    <2>1. CASE ElseStep
        BY <2>1 DEF ElseStep
    <2>2. CASE ClientStep
        BY <2>2, ClientSteps DEF ClientStep, ServerInv, server
    <2>3. CASE UNCHANGED vars
        BY <2>3 DEF vars
    <2> QED
        BY <2>1, <2>2, <2>3 DEF DriveNext, CallProgram, ProgramAnswers
<1> QED
    BY <1>1, <1>2, DriveStepIsServerStep

LEMMA OtherStepsKeepValuesInv ==
    ASSUME ServerInv, DriveInv, [DriveNext]_<<vars, program, values>>, ~CallReturns
    PROVE  ValuesInv'
<1>1. [Next]_vars /\ ~Callback
    BY OtherStepsDoNotCall
<1> SUFFICES /\ DOMAIN values' = Clients
             /\ \A c \in Clients :
                   /\ \E S : values'[c] \in Seq(S)
                   /\ Len(values'[c]) = Len(conn'[c].calls)
                   /\ \A i \in 1 .. Len(conn'[c].calls) : TrueValue(conn'[c], values'[c], i)
    BY DEF ValuesInv, TrueValue, DoneWrites, TriedWrites, WriteCall, DoneCall, WordOf, IsLast
<1>2. DOMAIN values' = Clients
    BY DEF DriveNext, CallProgram, ProgramAnswers, ElseStep, ClientStep, DriveInv, ValuesInv
<1>3. ASSUME NEW c \in Clients
      PROVE  /\ \E S : values'[c] \in Seq(S)
             /\ Len(values'[c]) = Len(conn'[c].calls)
             /\ \A i \in 1 .. Len(conn'[c].calls) : TrueValue(conn'[c], values'[c], i)
    <2>1. /\ \E S : values[c] \in Seq(S)
          /\ Len(values[c]) = Len(conn[c].calls)
          /\ \A i \in 1 .. Len(conn[c].calls) : TrueValue(conn[c], values[c], i)
        BY DEF DriveInv, ValuesInv
    <2>2. \/ values'[c] = << >> /\ conn'[c].calls = << >>
          \/ values'[c] = values[c] /\ conn'[c].calls # << >>
          \/ values'[c] = values[c] /\ conn'[c].calls = conn[c].calls
        <3>1. CASE UNCHANGED <<vars, values>>
            BY <3>1 DEF vars
        <3>2. CASE ElseStep
            BY <3>2 DEF ElseStep
        <3>3. CASE ClientStep
            BY <3>3, ClientSteps DEF ClientStep, ServerInv
        <3> QED
            BY <3>1, <3>2, <3>3 DEF DriveNext, CallProgram, ProgramAnswers
    <2>3. CASE values'[c] = << >> /\ conn'[c].calls = << >>
        BY <2>3, EmptySeq
    <2>4. CASE values'[c] = values[c] /\ conn'[c].calls = conn[c].calls
        <3>1. \/ Len(conn'[c].calls) = 0
              \/ \A v : \A i \in 1 .. Len(conn[c].calls) :
                     TrueValue(conn[c], v, i) => TrueValue(conn'[c], v, i)
            BY <1>1, OtherRecords DEF DriveInv
        <3> QED
            BY <2>1, <2>4, <3>1
    <2>5. CASE conn'[c].calls # << >>
        <3>1. conn'[c] # NoConnection
            BY <2>5 DEF NoConnection
        <3>2. conn'[c].calls = conn[c].calls
            BY <1>1, <3>1, RecordKept
        <3> QED
            BY <2>2, <2>5, <2>4, <3>2
    <2> QED
        BY <2>2, <2>3, <2>4, <2>5
<1> QED
    BY <1>2, <1>3

LEMMA OtherStepsKeepProgramInv ==
    ASSUME ServerInv, DriveInv, [DriveNext]_<<vars, program, values>>, ~CallReturns
    PROVE  ProgramInv'
<1>1. [Next]_vars /\ ~Callback
    BY OtherStepsDoNotCall
<1>2. ServedInv'
    BY <1>1, NextKeepsServedInv DEF DriveInv
\* What the record says of the last writes, it said before.
<1>3. ASSUME current' \in Clients, NEW t, NEW f,
             current \in Clients =>
                LET k == conn[current]
                    n == Len(k.calls)
                IN  /\ ~Accepted' => \A j \in DoneWrites(k, n) :
                           IsLast(j, DoneWrites(k, n)) => t = Program!Int16(WordOf(k, j))
                    /\ ~Tried' => \A j \in TriedWrites(k, n) :
                           IsLast(j, TriedWrites(k, n)) => (f <=> ~DoneCall(k, j))
      PROVE  LET k == conn'[current']
                 n == Len(k.calls)
             IN  /\ ~Accepted' => \A j \in DoneWrites(k, n) :
                        IsLast(j, DoneWrites(k, n)) => t = Program!Int16(WordOf(k, j))
                 /\ ~Tried' => \A j \in TriedWrites(k, n) :
                        IsLast(j, TriedWrites(k, n)) => (f <=> ~DoneCall(k, j))
    <2> DEFINE new == conn'[current']
    <2>1. CASE Len(new.calls) = 0
        <3>1. \A j : j \notin 1 .. 0
            OBVIOUS
        <3>2. DoneWrites(new, 0) = {} /\ TriedWrites(new, 0) = {}
            BY <3>1 DEF DoneWrites, TriedWrites
        <3> QED
            BY <2>1, <3>2
    <2>2. CASE Len(new.calls) # 0
        <3> DEFINE k == conn[current]
                   n == Len(k.calls)
        <3>1. /\ current' = current /\ new.calls = k.calls
              /\ DoneWrites(new, n) = DoneWrites(k, n)
              /\ TriedWrites(new, n) = TriedWrites(k, n)
              /\ \A j \in 1 .. n : /\ WordOf(new, j) = WordOf(k, j)
                                   /\ DoneCall(new, j) <=> DoneCall(k, j)
            BY <1>1, <1>3, <2>2, OtherRecords DEF DriveInv
        <3>2. \A j \in DoneWrites(k, n) \cup TriedWrites(k, n) : j \in 1 .. n
            BY DEF DoneWrites, TriedWrites
        <3>3. /\ ~Accepted' => \A j \in DoneWrites(k, n) :
                     IsLast(j, DoneWrites(k, n)) => t = Program!Int16(WordOf(k, j))
              /\ ~Tried' => \A j \in TriedWrites(k, n) :
                     IsLast(j, TriedWrites(k, n)) => (f <=> ~DoneCall(k, j))
            BY <1>3, <3>1
        <3>4. Len(new.calls) = n
            BY <3>1
        <3> HIDE DEF k, n, new
        <3>5. /\ ~Accepted' => \A j \in DoneWrites(new, n) :
                     IsLast(j, DoneWrites(new, n)) => t = Program!Int16(WordOf(new, j))
              /\ ~Tried' => \A j \in TriedWrites(new, n) :
                     IsLast(j, TriedWrites(new, n)) => (f <=> ~DoneCall(new, j))
            BY <3>1, <3>2, <3>3
        <3> QED
            BY <3>4, <3>5 DEF new
    <2> QED
        BY <2>1, <2>2
\* The program knows no more than before.
<1>4. CASE UNCHANGED <<torque, failure, reply>> /\
           (reply # Program!NoReply => UNCHANGED request)
    <2>1. /\ Accepted' <=> Accepted
          /\ Tried' <=> Tried
        BY <1>4 DEF Accepted, Tried, Deciding, Program!NoReply
    <2>2. current' \in Clients =>
             LET k == conn'[current']
                 n == Len(k.calls)
             IN  /\ ~Accepted' => \A j \in DoneWrites(k, n) :
                        IsLast(j, DoneWrites(k, n)) => torque = Program!Int16(WordOf(k, j))
                 /\ ~Tried' => \A j \in TriedWrites(k, n) :
                        IsLast(j, TriedWrites(k, n)) => (failure <=> ~DoneCall(k, j))
        <3>1. current \in Clients =>
                 LET k == conn[current]
                     n == Len(k.calls)
                 IN  /\ ~Accepted' => \A j \in DoneWrites(k, n) :
                            IsLast(j, DoneWrites(k, n)) => torque = Program!Int16(WordOf(k, j))
                     /\ ~Tried' => \A j \in TriedWrites(k, n) :
                            IsLast(j, TriedWrites(k, n)) => (failure <=> ~DoneCall(k, j))
            BY <2>1 DEF DriveInv, ProgramInv
        <3> QED
            BY <1>3, <3>1
    <2>3. /\ failure \in BOOLEAN
          /\ Accepted => torque = Program!Int16(request.value)
          /\ Tried => (failure <=> reply.error # NMBS_ERROR_NONE)
          /\ reply # Program!NoReply /\ reply.error = NMBS_ERROR_NONE =>
                /\ request.function = "read_holding_registers" =>
                      reply.registers = <<Program!Uint16(torque)>>
                /\ request.function = "read_discrete_inputs" =>
                      reply.registers = <<IF failure THEN 1 ELSE 0>>
        BY DEF DriveInv, ProgramInv
    <2>4. Accepted => reply # Program!NoReply
        BY DEF Accepted, Deciding
    <2>5. Tried => reply # Program!NoReply
        BY DEF Tried, Deciding
    <2> SUFFICES /\ failure' \in BOOLEAN
                 /\ Accepted' => torque' = Program!Int16(request'.value)
                 /\ Tried' => (failure' <=> reply'.error # NMBS_ERROR_NONE)
                 /\ current' \in Clients =>
                        LET k == conn'[current']
                            n == Len(k.calls)
                        IN  /\ ~Accepted' => \A j \in DoneWrites(k, n) :
                                   IsLast(j, DoneWrites(k, n)) => torque' = Program!Int16(WordOf(k, j))
                            /\ ~Tried' => \A j \in TriedWrites(k, n) :
                                   IsLast(j, TriedWrites(k, n)) => (failure' <=> ~DoneCall(k, j))
                 /\ reply' # Program!NoReply /\ reply'.error = NMBS_ERROR_NONE =>
                       /\ request'.function = "read_holding_registers" =>
                             reply'.registers = <<Program!Uint16(torque')>>
                       /\ request'.function = "read_discrete_inputs" =>
                             reply'.registers = <<IF failure' THEN 1 ELSE 0>>
        BY DEF ProgramInv, DoneWrites, TriedWrites, WriteCall, DoneCall, WordOf, IsLast,
               Program!Int16, Program!Uint16, Program!NoReply
    <2> QED
        BY <1>4, <2>1, <2>2, <2>3, <2>4, <2>5
<1>5. CASE ProgramAnswers
    <2>1. Program!Answer /\ UNCHANGED vars
        BY <1>5 DEF ProgramAnswers
    <2>2. /\ reply = Program!NoReply /\ request' = request
          /\ reply' # Program!NoReply
          /\ failure' \in BOOLEAN
          /\ Accepted' => torque' = Program!Int16(request.value)
          /\ Tried' => (failure' <=> reply'.error # NMBS_ERROR_NONE)
          /\ reply'.error = NMBS_ERROR_NONE =>
               /\ request.function = "read_holding_registers" =>
                     reply'.registers = <<Program!Uint16(torque')>>
               /\ request.function = "read_discrete_inputs" =>
                     reply'.registers = <<IF failure' THEN 1 ELSE 0>>
        BY <2>1, AnswerFacts DEF DriveInv
    <2>3. ~Accepted /\ ~Tried
        BY <2>2 DEF Accepted, Tried, Deciding
    <2>4. ~Accepted' => torque' = torque
        BY <2>1, <2>2, AnswerFacts DEF DriveInv, Accepted, Deciding, Program!NoReply
    <2>5. ~Tried' => failure' = failure
        BY <2>1, <2>2, AnswerFacts DEF DriveInv, Tried, Deciding, Program!NoReply
    <2>6. current \in Clients =>
             LET k == conn[current]
                 n == Len(k.calls)
             IN  /\ \A j \in DoneWrites(k, n) :
                        IsLast(j, DoneWrites(k, n)) => torque = Program!Int16(WordOf(k, j))
                 /\ \A j \in TriedWrites(k, n) :
                        IsLast(j, TriedWrites(k, n)) => (failure <=> ~DoneCall(k, j))
        BY <2>3 DEF DriveInv, ProgramInv
    <2>7. conn' = conn /\ current' = current
        BY <2>1 DEF vars
    <2> SUFFICES /\ failure' \in BOOLEAN
                 /\ Accepted' => torque' = Program!Int16(request'.value)
                 /\ Tried' => (failure' <=> reply'.error # NMBS_ERROR_NONE)
                 /\ current' \in Clients =>
                        LET k == conn'[current']
                            n == Len(k.calls)
                        IN  /\ ~Accepted' => \A j \in DoneWrites(k, n) :
                                   IsLast(j, DoneWrites(k, n)) => torque' = Program!Int16(WordOf(k, j))
                            /\ ~Tried' => \A j \in TriedWrites(k, n) :
                                   IsLast(j, TriedWrites(k, n)) => (failure' <=> ~DoneCall(k, j))
                 /\ reply' # Program!NoReply /\ reply'.error = NMBS_ERROR_NONE =>
                       /\ request'.function = "read_holding_registers" =>
                             reply'.registers = <<Program!Uint16(torque')>>
                       /\ request'.function = "read_discrete_inputs" =>
                             reply'.registers = <<IF failure' THEN 1 ELSE 0>>
        BY DEF ProgramInv, DoneWrites, TriedWrites, WriteCall, DoneCall, WordOf, IsLast,
               Program!Int16, Program!Uint16, Program!NoReply
    <2> QED
        BY <2>2, <2>4, <2>5, <2>6, <2>7
<1>6. CASE CallProgram
    <2>1. reply = Program!NoReply
        BY <1>6 DEF CallProgram, Program!Ask, DriveInv, AskInv
    <2> QED
        BY <1>4, <1>6, <2>1 DEF CallProgram, Program!Ask
<1>7. CASE UNCHANGED program
    BY <1>4, <1>7 DEF program
<1> QED
    BY <1>5, <1>6, <1>7 DEF DriveNext, ElseStep, ClientStep

LEMMA AlwaysDriveInv == DriveSpec => [](ServerInv /\ DriveInv)
<1>1. DriveInit => DriveInv
    <2> SUFFICES ASSUME DriveInit PROVE DriveInv
        OBVIOUS
    <2>1. /\ Init /\ values = [c \in Clients |-> << >>]
          /\ failure = FALSE /\ request = Program!NoRequest /\ reply = Program!NoReply
        BY DEF DriveInit, Program!Init
    <2>2. Len(NoConnection.calls) = 0
        BY EmptySeq DEF NoConnection
    <2>3. current = NoClient /\ NoClient \notin Clients /\ \A c \in Clients : conn[c] = NoConnection
        BY <2>1, ModbusTcpAssumption DEF Init
    <2>4. ValuesInv
        BY <2>1, <2>2, <2>3, EmptySeq DEF ValuesInv
    <2>5. ServedInv
        BY <2>2, <2>3 DEF ServedInv
    <2>6. ProgramInv
        BY <2>1, <2>3 DEF ProgramInv, Accepted, Tried, Deciding
    <2> QED
        BY <2>1, <2>4, <2>5, <2>6 DEF DriveInv, AskInv
<1>2. ServerInv /\ DriveInv /\ [DriveNext]_<<vars, program, values>> => DriveInv'
    <2> SUFFICES ASSUME ServerInv, DriveInv, [DriveNext]_<<vars, program, values>> PROVE DriveInv'
        OBVIOUS
    <2>1. ServedInv'
        BY DriveStepIsServerStep, NextKeepsServedInv DEF DriveInv
    <2>2. AskInv'
        BY DriveNextKeepsAskInv DEF DriveInv
    <2>3. ValuesInv' /\ ProgramInv'
        BY CallReturnsKeepsDriveInv, OtherStepsKeepValuesInv, OtherStepsKeepProgramInv
    <2> QED
        BY <2>1, <2>2, <2>3 DEF DriveInv
<1> QED
    BY <1>1, <1>2, AlwaysServerInv, PTL DEF DriveSpec

-----------------------------------------------------------------------------
(* The theorems.                                                           *)

\* Only function 23 has two callbacks, and the second one reads.
LEMMA SecondCallback ==
    ASSUME NEW f
    PROVE  /\ 2 <= Len(CallbacksOf(f)) =>
                 Len(CallbacksOf(f)) = 2 /\ CallbacksOf(f)[2] = "read_holding_registers"
           /\ f.function \in {6, 16, 23} =>
                 CallbacksOf(f)[1] \in {"write_single_register", "write_multiple_registers"}
<1>1. CASE f.function = 23
    <2>1. CallbacksOf(f) = <<"write_multiple_registers", "read_holding_registers">>
        BY <1>1 DEF CallbacksOf
    <2> QED
        BY <1>1, <2>1
<1>2. CASE f.function # 23
    <2>1. CallbacksOf(f) = << >> \/ \E name : CallbacksOf(f) = <<name>>
        BY <1>2 DEF CallbacksOf
    <2>2. Len(CallbacksOf(f)) = 0 \/ Len(CallbacksOf(f)) = 1
        BY <2>1
    <2>3. f.function \in {6, 16} =>
             CallbacksOf(f) \in {<<"write_single_register">>, <<"write_multiple_registers">>}
        BY DEF CallbacksOf
    <2>4. f.function \in {6, 16} =>
             CallbacksOf(f)[1] \in {"write_single_register", "write_multiple_registers"}
        BY <2>3
    <2> QED
        BY <1>2, <2>2, <2>4
<1> QED
    BY <1>1, <1>2

\* Registers are written by these functions alone.
LEMMA OnlyTheseWrite ==
    ASSUME NEW f, NEW q \in 1 .. Len(CallbacksOf(f)),
           CallbacksOf(f)[q] \in {"write_single_register", "write_multiple_registers"}
    PROVE  f.function \in {6, 16, 23}
<1>1. SUFFICES ASSUME f.function \notin {6, 16, 23} PROVE FALSE
    OBVIOUS
<1>2. \/ CallbacksOf(f) = << >>
      \/ \E name \in CallbackNames \ {"write_single_register", "write_multiple_registers"} :
            CallbacksOf(f) = <<name>>
    BY <1>1 DEF CallbacksOf, CallbackNames
<1>3. CASE CallbacksOf(f) = << >>
    BY <1>3
<1>4. ASSUME NEW name \in CallbackNames \ {"write_single_register", "write_multiple_registers"},
             CallbacksOf(f) = <<name>>
      PROVE  FALSE
    <2>1. q = 1
        BY <1>4
    <2> QED
        BY <1>4, <2>1
<1> QED
    BY <1>2, <1>3, <1>4

\* The calls for one request are its callbacks in their order: no write
\* follows another call.
LEMMA WritesComeFirst ==
    ASSUME ServerInv, NEW c \in Clients,
           NEW p \in 1 .. Len(conn[c].calls), NEW q \in 1 .. Len(conn[c].calls), p < q,
           conn[c].calls[p].request = conn[c].calls[q].request
    PROVE  ~WriteCall(conn[c], q)
<1> DEFINE k == conn[c]
           i == k.calls[p].request
           names == CallbacksOf(k.frames[i].pdu)
<1>1. k \in Connection /\ Requested(k) /\ i \in 1 .. Len(k.frames) /\ Told(k, i)
    BY DEF ServerInv, IInv, TypeOK, ToldInv, Requested
<1>2. Len(k.calls) \in Nat /\ DOMAIN k.calls = 1 .. Len(k.calls)
    BY <1>1, ConnectionFacts, LenProperties
<1>3. PICK from \in 0 .. Len(k.calls), upto \in 0 .. Len(k.calls) : CalledFor(k, i, from, upto)
    BY <1>1 DEF Told
<1>4. /\ upto - from <= Len(names)
      /\ p \in from + 1 .. upto /\ q \in from + 1 .. upto
      /\ k.calls[q].callback = names[q - from]
    BY <1>2, <1>3 DEF CalledFor
<1>5. Len(names) \in Nat /\ q - from \in 2 .. Len(names)
    <2>1. Len(names) \in Nat
        BY CallbacksOfFacts
    <2> HIDE DEF names, k, i
    <2> QED
        BY <1>2, <1>3, <1>4, <2>1, SMTT(20)
<1>6. names[2] = "read_holding_registers" /\ Len(names) = 2
    BY <1>5, SecondCallback, SMTT(20)
<1>7. q - from = 2
    <2>1. \A l \in Nat : \A d \in 2 .. l : l = 2 => d = 2
        OBVIOUS
    <2> QED
        BY <1>5, <1>6, <2>1
<1> HIDE DEF names, k, i
<1> QED
    BY <1>4, <1>6, <1>7 DEF WriteCall, k

(* What a client reads is what it wrote last and what became of it         *)
(* (read_holding_registers, read_discrete_inputs of DriveSim.c), also      *)
(* within function 23, for any mix of requests and however the connection  *)
(* fares.                                                                  *)
THEOREM ReadsAreTrue == DriveSpec => []ReadsTellTruth
<1>1. ASSUME ServerInv, DriveInv, NEW c \in Clients, NEW r \in DOMAIN conn[c].calls
      PROVE  /\ DOMAIN conn[c].calls = 1 .. Len(conn[c].calls) /\ Len(conn[c].calls) \in Nat
             /\ TrueValue(conn[c], values[c], r)
             /\ \A i \in DOMAIN conn[c].calls : conn[c].calls[i].request \in Nat
    <2>1. conn[c] \in Connection /\ Requested(conn[c])
        BY <1>1 DEF ServerInv, IInv, TypeOK, ToldInv
    <2>2. DOMAIN conn[c].calls = 1 .. Len(conn[c].calls) /\ Len(conn[c].calls) \in Nat
        BY <2>1, ConnectionFacts, LenProperties
    <2> QED
        BY <1>1, <2>1, <2>2, ConnectionFacts DEF DriveInv, ValuesInv, Requested
<1>2. ServerInv /\ DriveInv => ReadsOwnWrites
    <2> SUFFICES ASSUME ServerInv, DriveInv, NEW c \in Clients,
                        NEW r \in DOMAIN conn[c].calls, NEW j \in DOMAIN conn[c].calls,
                        conn[c].calls[r].callback = "read_holding_registers", Done(c, r),
                        Shows(c, r, j)
                 PROVE  values[c][r] = <<WordWritten(c, j)>>
        BY DEF ReadsOwnWrites
    <2> DEFINE S == {i \in DOMAIN conn[c].calls :
                        Writes(c, i) /\ Done(c, i) /\ conn[c].calls[i].request <= conn[c].calls[r].request}
    <2>1. DOMAIN conn[c].calls = 1 .. Len(conn[c].calls) /\ Len(conn[c].calls) \in Nat
        BY <1>1
    <2>2. \A i, k \in DOMAIN conn[c].calls :
             i < k => conn[c].calls[i].request <= conn[c].calls[k].request
        BY <2>1 DEF ServerInv, CallOrderInv, CallOrder
    <2>3. ASSUME NEW i \in S PROVE i \in DoneWrites(conn[c], r - 1)
        <3>1. WriteCall(conn[c], i) /\ DoneCall(conn[c], i)
            BY DEF Writes, Done, WriteCall, DoneCall
        <3>2. i # r
            BY <3>1 DEF WriteCall
        <3>3. ~(r < i)
            <4> SUFFICES ASSUME r < i PROVE FALSE
                OBVIOUS
            <4>1. conn[c].calls[r].request = conn[c].calls[i].request
                BY <1>1, <2>2
            <4> QED
                BY <2>1, <3>1, <4>1, WritesComeFirst
        <3>4. i \in 1 .. r - 1
            BY <2>1, <3>2, <3>3
        <3> QED
            BY <3>1, <3>4 DEF DoneWrites
    <2>4. ASSUME NEW i \in DoneWrites(conn[c], r - 1) PROVE i \in S
        <3>1. i \in 1 .. r - 1 /\ WriteCall(conn[c], i) /\ DoneCall(conn[c], i)
            BY DEF DoneWrites
        <3>2. i \in DOMAIN conn[c].calls /\ i < r
            BY <2>1, <3>1
        <3> QED
            BY <2>2, <3>1, <3>2 DEF Writes, Done, WriteCall, DoneCall
    <2>5. S = DoneWrites(conn[c], r - 1)
        BY <2>3, <2>4
    <2>6. j \in DoneWrites(conn[c], r - 1) /\ IsLast(j, DoneWrites(conn[c], r - 1))
        BY <2>5 DEF Shows, IsLast
    <2>7. values[c][r] = <<WordOf(conn[c], j)>>
        BY <1>1, <2>6 DEF TrueValue, Done, DoneCall
    <2> QED
        BY <2>7 DEF WordOf, WordWritten
<1>3. ServerInv /\ DriveInv => FlagTellsLastWrite
    <2> SUFFICES ASSUME ServerInv, DriveInv, NEW c \in Clients, NEW r \in DOMAIN conn[c].calls,
                        conn[c].calls[r].callback = "read_discrete_inputs", Done(c, r),
                        NEW j \in 1 .. r - 1,
                        IsLast(j, {i \in 1 .. r - 1 :
                                      /\ Writes(c, i)
                                      /\ conn[c].calls[i].error # NMBS_EXCEPTION_ILLEGAL_DATA_ADDRESS})
                 PROVE  values[c][r] = <<IF Done(c, j) THEN 0 ELSE 1>>
        BY DEF FlagTellsLastWrite
    <2>1. j \in TriedWrites(conn[c], r - 1) /\ IsLast(j, TriedWrites(conn[c], r - 1))
        BY DEF TriedWrites, WriteCall, Writes, IsLast
    <2> QED
        BY <1>1, <2>1 DEF TrueValue, Done, DoneCall
<1> QED
    BY <1>2, <1>3, AlwaysDriveInv, PTL DEF ReadsTellTruth

(* A client that was told its write was done has its torque in force until *)
(* it has another one done, whatever else it asked in between              *)
(* (handle_write_single_register .. handle_read_write_registers).          *)
THEOREM AnsweredTorqueIsInForce == DriveSpec => []AnswerTellsTorque
<1>1. ServerInv /\ DriveInv => AnswerTellsTorque
    <2> SUFFICES ASSUME ServerInv, DriveInv, current # NoClient, pc # "callback",
                        NEW i \in DOMAIN conn[current].frames,
                        conn[current].frames[i].pdu.function \in {6, 16, 23},
                        Answered(current, i, NMBS_ERROR_NONE),
                        \A k \in DOMAIN conn[current].calls :
                            Writes(current, k) /\ Done(current, k) => conn[current].calls[k].request <= i
                 PROVE  torque = Program!Int16(conn[current].frames[i].pdu.value)
        BY DEF AnswerTellsTorque
    <2> DEFINE k == conn[current]
               n == Len(k.calls)
               names == CallbacksOf(k.frames[i].pdu)
    <2>1. current \in Clients /\ k \in Connection /\ Requested(k) /\ CallOrder(k)
        BY DEF ServerInv, IInv, TypeOK, ToldInv, CallOrderInv
    <2>2. /\ n \in Nat /\ DOMAIN k.calls = 1 .. n
          /\ DOMAIN k.frames = 1 .. Len(k.frames) /\ Len(k.frames) \in Nat
          /\ DOMAIN k.answers = 1 .. Len(k.answers)
        BY <2>1, ConnectionFacts, LenProperties
    <2>3. \A j \in DoneWrites(k, n) :
             IsLast(j, DoneWrites(k, n)) => torque = Program!Int16(WordOf(k, j))
        <3>1. ~Accepted
            BY DEF DriveInv, AskInv, Accepted, Deciding
        <3> QED
            BY <2>1, <3>1 DEF DriveInv, ProgramInv
    <2>4. Told(k, i)
        BY <2>1, <2>2 DEF ServerInv, ToldInv
    <2>5. PICK from \in 0 .. n, upto \in 0 .. n :
             /\ CalledFor(k, i, from, upto)
             /\ \A j \in 1 .. Len(k.answers) :
                   k.answers[j].request = i => AnswerFor(k, i, from, upto, k.answers[j].error)
        BY <2>4 DEF Told
    <2>6. AnswerFor(k, i, from, upto, NMBS_ERROR_NONE)
        BY <2>2, <2>5 DEF Answered
    <2>7. from < upto /\ upto - from = Len(names) /\ k.calls[upto].error = NMBS_ERROR_NONE
        BY <2>6 DEF AnswerFor
    <2> DEFINE w == from + 1
    <2>8. /\ w \in 1 .. n /\ w \in from + 1 .. upto /\ w - from = 1
          /\ w = upto \/ w \in from + 1 .. upto - 1
        BY <2>2, <2>5, <2>7
    <2>9. /\ k.calls[w].request = i
          /\ k.calls[w].callback = names[1]
          /\ k.calls[w].error = NMBS_ERROR_NONE
        BY <2>2, <2>5, <2>7, <2>8 DEF CalledFor
    <2>10. w \in DoneWrites(k, n)
        BY <2>8, <2>9, SecondCallback DEF DoneWrites, WriteCall, DoneCall
    <2>11. ASSUME NEW p \in DoneWrites(k, n) PROVE p <= w
        <3>1. p \in 1 .. n /\ WriteCall(k, p) /\ k.calls[p].request <= i
            BY <2>2 DEF DoneWrites, Writes, Done, WriteCall, DoneCall
        <3> SUFFICES ASSUME w < p PROVE FALSE
            BY <2>8, <3>1
        <3>2. k.calls[w].request <= k.calls[p].request
            BY <2>1, <2>8, <3>1 DEF CallOrder
        <3>3. k.calls[p].request \in Nat
            BY <2>1, <2>2, <3>1 DEF Requested
        <3>4. k.calls[w].request = k.calls[p].request
            BY <2>2, <2>9, <3>1, <3>2, <3>3
        <3> QED
            BY <2>1, <2>8, <3>1, <3>4, WritesComeFirst
    <2>12. torque = Program!Int16(WordOf(k, w))
        BY <2>3, <2>10, <2>11 DEF IsLast
    <2> QED
        BY <2>9, <2>12 DEF WordOf
<1> QED
    BY <1>1, AlwaysDriveInv, PTL

(* The torque changes only to one a client wrote with a whole frame and    *)
(* the motor can deliver (write_single_register, write_multiple_registers).*)
THEOREM TorqueIsCommanded == DriveSpec => TorqueWasCommanded
<1>1. ServerInv /\ DriveInv /\ [DriveNext]_<<vars, program, values>> =>
         [torque' # torque =>
             /\ torque' \in -MotorMaxTorque .. MotorMaxTorque
             /\ Received(current, reading)
             /\ Program!Uint16(torque') = Frame.pdu.value
             /\ Frame.pdu.function \in {6, 16, 23}
             /\ ~failure']_<<vars, program, values>>
    <2> SUFFICES ASSUME ServerInv, DriveInv, [DriveNext]_<<vars, program, values>>, torque' # torque
                 PROVE  /\ torque' \in -MotorMaxTorque .. MotorMaxTorque
                        /\ Received(current, reading)
                        /\ Program!Uint16(torque') = Frame.pdu.value
                        /\ Frame.pdu.function \in {6, 16, 23}
                        /\ ~failure'
        OBVIOUS
    <2>1. Program!Answer
        BY CallReturnsFacts DEF DriveNext, CallProgram, Program!Ask, ProgramAnswers, ElseStep,
                                ClientStep, program, DriveInv
    <2>2. /\ request # Program!NoRequest
          /\ request.function \in {"write_single_register", "write_multiple_registers"}
          /\ torque' = Program!Int16(request.value) /\ ~failure'
          /\ Program!abs_double(torque') <= MotorMaxTorque
        BY <2>1, AnswerFacts DEF DriveInv
    <2>3. pc = "callback" /\ request = RequestOf(Frame.pdu, Head(todo))
        BY <2>2 DEF DriveInv, AskInv
    <2>4. /\ Head(todo) \in {"write_single_register", "write_multiple_registers"}
          /\ request.value = Frame.pdu.value
        BY <2>2, <2>3 DEF RequestOf
    <2>5. /\ current \in Clients /\ conn[current] \in Connection
          /\ reading \in 1 .. Len(conn[current].frames) /\ AllRead(conn[current], reading)
        BY <2>3 DEF ServerInv, IInv, TypeOK, SessionInv, ServerPcs, RequestPcs, OrderInv, HandlePcs
    <2>6. Received(current, reading)
        <3>1. DOMAIN conn[current].inbox = 1 .. Len(conn[current].inbox)
            BY <2>5, ConnectionFacts, LenProperties
        <3> QED
            BY <2>5, <3>1 DEF AllRead, Received
    <2>7. Frame.pdu.value \in 0 .. AddressSpace - 1
        <3>1. Frame \in Frames
            BY <2>5, ConnectionFacts, ElementOfSeq DEF Frame
        <3> QED
            BY <3>1, ModbusTcpAssumption DEF FrameRecord, PduFields
    <2>8. torque' \in Int /\ Program!Uint16(torque') = Frame.pdu.value
        BY <2>2, <2>4, <2>7, WordComesBack
    <2>9. torque' \in -MotorMaxTorque .. MotorMaxTorque
        BY <2>2, <2>8, DriveServerAssumption DEF Program!abs_double
    <2>10. Frame.pdu.function \in {6, 16, 23}
        <3>1. PICK from : CallingFrom(conn[current], from)
            BY <2>3 DEF ServerInv, HandInv
        <3> DEFINE names == CallbacksOf(Frame.pdu)
        <3>2. /\ todo # << >> /\ todo \in Seq(Callbacks)
              /\ \A q \in 1 .. Len(todo) :
                    todo[q] = names[Len(conn[current].calls) - from + q]
              /\ Len(conn[current].calls) - from + Len(todo) = Len(names)
              /\ from \in 0 .. Len(conn[current].calls)
            BY <2>3, <3>1 DEF CallingFrom, Frame, ServerInv, IInv, SessionInv
        <3>3. Len(todo) \in Nat /\ 1 <= Len(todo) /\ Head(todo) = todo[1]
            BY <3>2
        <3>4. Len(conn[current].calls) \in Nat /\ Len(names) \in Nat
            BY <2>5, ConnectionFacts, CallbacksOfFacts
        <3> HIDE DEF names
        <3>5. PICK q \in 1 .. Len(names) : Head(todo) = names[q]
            BY <3>2, <3>3, <3>4
        <3> QED
            BY <2>4, <3>5, OnlyTheseWrite DEF names
    <2> QED
        BY <2>2, <2>6, <2>8, <2>9, <2>10
<1> QED
    BY <1>1, AlwaysDriveInv, PTL DEF DriveSpec, TorqueWasCommanded
=============================================================================
