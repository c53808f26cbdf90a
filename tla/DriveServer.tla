---------------------------- MODULE DriveServer ----------------------------
(***************************************************************************)
(* The whole program as a client sees it: the Modbus TCP server of         *)
(* ModbusTcp, whose callbacks are answered by DriveService, the atomic     *)
(* program that the threads of DriveSim implement (ImplementsService).     *)
(*                                                                         *)
(* Steps of the vehicle and reports of its speed are left out: no request  *)
(* reads what they change, and they change nothing a request reads.        *)
(***************************************************************************)
EXTENDS ModbusTcp, SequencesExt

CONSTANTS MotorMaxTorque, InitialTorque, Parameters, WordSize

\* A register of the program is one of the protocol.
ASSUME DriveServerAssumption == WordSize = AddressSpace /\ MotorMaxTorque \in Nat

VARIABLES
    torque, failure,    \* of AppContext: the commanded torque, the flag
    request, reply,     \* the callback in progress
    values              \* the registers or bits each call of a connection gave

program == <<torque, failure, request, reply>>

Program == INSTANCE DriveService WITH
    Mass <- 1, RollingForce <- 0, DragFactor <- 0, MotorMaxSpeed <- 0, GearRatio <- 1,
    WheelRadius <- 1, MinSpeedEpsilon <- 0, OdometerModulus <- 1, Requests <- {},
    speed <- 0, distance <- 0, reported <- 0

\* What nanoMODBUS hands to a callback.
RequestOf(pdu, callback) ==
    LET writes == callback \in {"write_single_register", "write_multiple_registers"}
        second == pdu.function = 23 /\ writes
    IN  [function |-> callback,
         address  |-> IF second THEN pdu.write_address ELSE pdu.address,
         quantity |-> IF second THEN pdu.write_quantity
                      ELSE IF pdu.function = 6 THEN 1 ELSE pdu.quantity,
         value    |-> IF writes THEN pdu.value ELSE 0]

DriveInit ==
    /\ Init /\ Program!Init
    /\ values = [c \in Clients |-> << >>]

-----------------------------------------------------------------------------
\* nanoMODBUS calls the program, ...
CallProgram ==
    /\ pc = "callback"
    /\ Program!Ask(RequestOf(Frame.pdu, Head(todo)))
    /\ UNCHANGED <<vars, values>>

\* ... which decides, ...
ProgramAnswers == Program!Answer /\ UNCHANGED <<vars, values>>

\* ... and goes on with what the callback returned.
CallReturns ==
    /\ Program!Done
    /\ Callback
    /\ Last(conn'[current].calls).error = reply.error
    /\ values' = [values EXCEPT ![current] = Append(@, reply.registers)]

\* Everything else the server and its clients do leaves the program alone;
\* what was recorded of a connection ends with it.
ElseStep ==
    /\ Next /\ pc # "callback"
    /\ values' = [c \in Clients |-> IF conn'[c].calls = << >> THEN << >> ELSE values[c]]
    /\ UNCHANGED program

ClientStep ==
    /\ pc = "callback" /\ \E c \in Clients : Client(c)
    /\ UNCHANGED <<program, values>>

DriveNext == CallProgram \/ ProgramAnswers \/ CallReturns \/ ElseStep \/ ClientStep

DriveSpec == DriveInit /\ [][DriveNext]_<<vars, program, values>>

-----------------------------------------------------------------------------
\* The calls of a connection that wrote a register, and one call's request.
WordWritten(c, k) == conn[c].frames[conn[c].calls[k].request].pdu.value
Writes(c, k) == conn[c].calls[k].callback \in {"write_single_register", "write_multiple_registers"}
Done(c, k) == conn[c].calls[k].error = NMBS_ERROR_NONE

IsLast(j, S) == j \in S /\ \A k \in S : k <= j

\* The write that a read of call k has to show: the last one that was done,
\* of its own request or an earlier one.
Shows(c, k, j) ==
    IsLast(j, {i \in DOMAIN conn[c].calls :
                  Writes(c, i) /\ Done(c, i) /\ conn[c].calls[i].request <= conn[c].calls[k].request})

\* A read after a write that was not refused, on the same connection, gives
\* the word that was written.
ReadsOwnWrites ==
    \A c \in Clients : \A k, j \in DOMAIN conn[c].calls :
        conn[c].calls[k].callback = "read_holding_registers" /\ Done(c, k) /\ Shows(c, k, j) =>
            values[c][k] = <<WordWritten(c, j)>>

\* What is read at discrete input 0 is what became of the last torque that
\* was written before; a write to another register does not count.
FlagTellsLastWrite ==
    \A c \in Clients : \A k \in DOMAIN conn[c].calls :
        conn[c].calls[k].callback = "read_discrete_inputs" /\ Done(c, k) =>
            \A j \in 1 .. k - 1 :
                IsLast(j, {i \in 1 .. k - 1 : /\ Writes(c, i)
                                              /\ conn[c].calls[i].error # NMBS_EXCEPTION_ILLEGAL_DATA_ADDRESS}) =>
                    values[c][k] = <<IF Done(c, j) THEN 0 ELSE 1>>

(* Clients are served one at a time, so what one reads is what it wrote    *)
(* last and what became of it (README.md:136): also within function 23,    *)
(* after refused writes and when answers were lost.                        *)
ReadsTellTruth == ReadsOwnWrites /\ FlagTellsLastWrite

\* What an answer to the client promises about request i.
Answered(c, i, error) ==
    \E j \in DOMAIN conn[c].answers : conn[c].answers[j] = [request |-> i, error |-> error]

(* A client that was told its write was done has its torque in force as    *)
(* long as it is served and no later write of its own was done - also when *)
(* that write was refused, or was the first half of a function 23 whose    *)
(* read was refused.                                                       *)
AnswerTellsTorque ==
    current # NoClient /\ pc # "callback" =>
        \A i \in DOMAIN conn[current].frames :
            LET pdu == conn[current].frames[i].pdu IN
            /\ pdu.function \in {6, 16, 23} /\ Answered(current, i, NMBS_ERROR_NONE)
            /\ \A k \in DOMAIN conn[current].calls :
                  Writes(current, k) /\ Done(current, k) => conn[current].calls[k].request <= i
            => torque = Program!Int16(pdu.value)

(* A torque is never in force that no client wrote or that is beyond the   *)
(* motor, and it changes only by a write whose frame was whole.            *)
TorqueWasCommanded ==
    [][torque' # torque =>
          /\ torque' \in -MotorMaxTorque .. MotorMaxTorque
          /\ Received(current, reading)
          /\ Program!Uint16(torque') = Frame.pdu.value
          /\ Frame.pdu.function \in {6, 16, 23}
          /\ ~failure']_<<vars, program, values>>
=============================================================================
