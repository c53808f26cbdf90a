----------------------------- MODULE NmbsCalls -----------------------------
(***************************************************************************)
(* What a nanoMODBUS client lets its caller ask for, the request it builds *)
(* of it, and what it makes of the answer, set against the handlers of a   *)
(* nanoMODBUS server (ModbusPdu).  The two halves check the same limits,   *)
(* each in its own code and each with its own constants.                   *)
(*                                                                         *)
(* A call is a PduFields record.  The file functions take address as the   *)
(* file number, write_address as the record number and quantity as the     *)
(* count of registers, in one sub-request.                                 *)
(***************************************************************************)
EXTENDS ModbusPdu

CONSTANT Calls          \* what callers may ask for

\* The functions a client has; it writes a coil as 0 or 0xFF00.
CallsAssumption ==
    \A c \in Calls :
        /\ c \in PduFields /\ c.function \in {1, 2, 3, 4, 5, 6, 15, 16, 20, 21, 23}
        /\ c.function = 5 => c.value \in {0, 65280}

OutOfLimits(quantity, limit) == quantity < 1 \/ quantity > limit

\* The calls that end in Invalid Argument before anything is sent.
RefusesDiscrete(c) == OutOfLimits(c.quantity, 2000) \/ OutOfSpace(c.address, c.quantity)

RefusesRegisters(c) == OutOfLimits(c.quantity, 125) \/ OutOfSpace(c.address, c.quantity)

RefusesMultipleCoils(c) == OutOfLimits(c.quantity, 1968) \/ OutOfSpace(c.address, c.quantity)

RefusesMultipleRegisters(c) == OutOfLimits(c.quantity, 123) \/ OutOfSpace(c.address, c.quantity)

RefusesFileRead(c) == c.address = 0 \/ c.write_address > 9999 \/ c.quantity > 124

RefusesFileWrite(c) == c.address = 0 \/ c.write_address > 9999 \/ c.quantity > 122

\* Mutant: Read/Write Registers writes as many as Write Multiple Registers.
RefusesReadWriteLate(c) ==
    \/ OutOfLimits(c.quantity, 125) \/ OutOfSpace(c.address, c.quantity)
    \/ OutOfLimits(c.write_quantity, 123) \/ OutOfSpace(c.write_address, c.write_quantity)

RefusesReadWrite(c) ==
    \/ OutOfLimits(c.quantity, 125) \/ OutOfSpace(c.address, c.quantity)
    \/ OutOfLimits(c.write_quantity, 121) \/ OutOfSpace(c.write_address, c.write_quantity)

Refuses(c) ==
    CASE c.function \in {1, 2} -> RefusesDiscrete(c)
      [] c.function \in {3, 4} -> RefusesRegisters(c)
      [] c.function = 15       -> RefusesMultipleCoils(c)
      [] c.function = 16       -> RefusesMultipleRegisters(c)
      [] c.function = 20       -> RefusesFileRead(c)
      [] c.function = 21       -> RefusesFileWrite(c)
      [] c.function = 23       -> RefusesReadWrite(c)
      [] OTHER                 -> FALSE

\* The byte count put into a request, a uint8_t.
RequestBytes(c) ==
    (CASE c.function = 15 -> (c.quantity + 7) \div 8
       [] c.function = 16 -> 2 * c.quantity
       [] c.function = 20 -> 7
       [] c.function = 21 -> 7 + 2 * c.quantity
       [] c.function = 23 -> 2 * c.write_quantity
       [] OTHER           -> 0) % 256

\* The data_length of put_req_header.
RequestLength(c) ==
    CASE c.function = 15 -> 5 + (c.quantity + 7) \div 8
      [] c.function = 16 -> 5 + RequestBytes(c)
      [] c.function = 20 -> 8
      [] c.function = 21 -> 8 + 2 * c.quantity
      [] c.function = 23 -> 9 + RequestBytes(c)
      [] OTHER           -> 4

\* The request as the server reads it.  The limits of a sub-request are the
\* server's; the one sub-request of function 21 takes up all its bytes.
FileLimit(c) == IF c.function = 20 THEN 124 ELSE 122

Request(c) ==
    [c EXCEPT !.bytes = RequestBytes(c),
              !.legal = c.address # 0 /\ c.write_address <= 9999 /\ c.quantity <= FileLimit(c),
              !.value = IF c.function = 21 THEN 0 ELSE c.value]

\* What the client checks of the body of the answer to f.
AcceptsDiscrete(f) == ByteCount(f) <= 250

AcceptsRegisters(c, f) == ByteCount(f) <= 250 /\ ByteCount(f) = 2 * c.quantity

AcceptsEcho(c, f) == f.address = c.address /\ f.quantity = c.quantity /\ f.value = c.value

\* The size of a file's data counts its type.
AcceptsFile(c, f) ==
    ByteCount(f) <= 250 /\ ((((2 * f.quantity + 1) % 256) - 1) % 256) \div 2 = c.quantity

AcceptsFileEcho(c, f) ==
    /\ f.bytes <= 251
    /\ f.address = c.address /\ f.write_address = c.write_address /\ f.quantity = c.quantity

Accepts(c, f) ==
    CASE c.function \in {1, 2}         -> AcceptsDiscrete(f)
      [] c.function \in {3, 4, 23}     -> AcceptsRegisters(c, f)
      [] c.function \in {5, 6, 15, 16} -> AcceptsEcho(c, f)
      [] c.function = 20               -> AcceptsFile(c, f)
      [] c.function = 21               -> AcceptsFileEcho(c, f)

-----------------------------------------------------------------------------
VARIABLES
    call,               \* the call under way
    stage,              \* where it is
    result              \* what it returned, or will

vars == <<call, stage, result>>

Init ==
    /\ call \in Calls
    /\ stage = "called"
    /\ result = NMBS_ERROR_NONE

Client ==
    /\ stage = "called"
    /\ IF Refuses(call)
       THEN stage' = "returned" /\ result' = NMBS_ERROR_INVALID_ARGUMENT
       ELSE stage' = "sent" /\ UNCHANGED result
    /\ UNCHANGED call

\* The server's callbacks agree to everything they are asked.
Server ==
    /\ stage = "sent"
    /\ result' = RequestFault(Request(call))
    /\ stage' = "answered"
    /\ UNCHANGED call

Receive ==
    /\ stage = "answered"
    /\ result' = IF result = NMBS_ERROR_NONE /\ ~Accepts(call, Request(call))
                 THEN NMBS_ERROR_INVALID_RESPONSE ELSE result
    /\ stage' = "returned"
    /\ UNCHANGED call

NextCall ==
    /\ stage = "returned"
    /\ call' \in Calls
    /\ stage' = "called"
    /\ result' = NMBS_ERROR_NONE

Next == Client \/ Server \/ Receive \/ NextCall

Spec == Init /\ [][Next]_vars

-----------------------------------------------------------------------------
(* Correctness.                                                            *)

(* The client refuses exactly what the server would refuse: no call is     *)
(* sent in vain, and none is refused that the server would have served.    *)
LimitsAgree ==
    stage = "called" => (Refuses(call) <=> RequestFault(Request(call)) # NMBS_ERROR_NONE)

(* A request that is sent fits msg.buf on TCP and, with its CRC, the 256   *)
(* bytes of an RTU frame; its MBAP length is one recv_msg_header takes,    *)
(* and the byte count it carries is that of the data put after it.         *)
RequestFits ==
    stage = "sent" =>
        /\ HeaderSize + RequestLength(call) <= BufferSize
        /\ 2 + RequestLength(call) + 2 <= 256
        /\ 2 + RequestLength(call) <= 255
        /\ RequestLength(call) =
              CASE call.function \in {15, 16} -> 5 + RequestBytes(call)
                [] call.function \in {20, 21} -> 1 + RequestBytes(call)
                [] call.function = 23         -> 9 + RequestBytes(call)
                [] OTHER                      -> 4

(* The answer of a nanoMODBUS server to a call that was sent is accepted   *)
(* by the client, up to the largest one.                                   *)
AnswersAccepted ==
    stage = "returned" => result \in {NMBS_ERROR_NONE, NMBS_ERROR_INVALID_ARGUMENT}

(* The two halves of the library agree about every call.                   *)
HalvesAgree == LimitsAgree /\ RequestFits /\ AnswersAccepted
=============================================================================
