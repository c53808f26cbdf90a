---------------------------- MODULE DriveService ----------------------------
(***************************************************************************)
(* What DriveSim promises to a Modbus client and to whoever watches the    *)
(* console: a torque register, a sensor failure flag, a table of           *)
(* parameters and a moving vehicle, in which every request, every step and *)
(* every report happens at one instant.  No threads and no lock.           *)
(***************************************************************************)
EXTENDS RegisterMap

CONSTANTS InitialTorque, Requests, OdometerModulus

VARIABLES
    torque,             \* the last accepted torque command
    failure,            \* the last torque write was refused
    speed, distance,    \* the motion of the vehicle
    reported,           \* the speed last reported
    request, reply      \* the request in progress and its answer

vars == <<torque, failure, speed, distance, reported, request, reply>>

NoRequest == [function |-> "none"]
NoReply   == [error |-> "none", registers |-> << >>]

Init ==
    /\ torque = clamp(InitialTorque, -MotorMaxTorque, MotorMaxTorque)
    /\ failure = FALSE
    /\ speed = 0 /\ distance = 0 /\ reported = 0
    /\ request = NoRequest /\ reply = NoReply

Ask(r) ==
    /\ request = NoRequest
    /\ request' = r
    /\ UNCHANGED <<torque, failure, speed, distance, reported, reply>>

Answering == request # NoRequest /\ reply = NoReply

\* A request outside the register map changes nothing.
Refuse ==
    /\ Answering
    /\ RequestCheck(request) # NMBS_ERROR_NONE
    /\ reply' = [error |-> RequestCheck(request), registers |-> << >>]
    /\ UNCHANGED <<torque, failure>>

\* A read answers with the state of this instant.
Read ==
    /\ Answering
    /\ request.function \in ReadFunctions
    /\ RequestCheck(request) = NMBS_ERROR_NONE
    /\ reply' = [error |-> NMBS_ERROR_NONE, registers |->
           CASE request.function = "read_discrete_inputs"   -> <<IF failure THEN 1 ELSE 0>>
             [] request.function = "read_holding_registers" -> <<Uint16(torque)>>
             [] OTHER -> EncodedParameters(request.address, request.quantity)]
    /\ UNCHANGED <<torque, failure>>

\* Mutant: a write is acknowledged without a look at the motor's limit.
WriteUnlimited ==
    /\ Answering
    /\ request.function \in WriteFunctions
    /\ RequestCheck(request) = NMBS_ERROR_NONE
    /\ torque' = Int16(request.value)
    /\ failure' = FALSE
    /\ reply' = [error |-> NMBS_ERROR_NONE, registers |-> << >>]

\* A write is taken whole or refused whole: torque, flag and answer agree.
Write ==
    /\ Answering
    /\ request.function \in WriteFunctions
    /\ RequestCheck(request) = NMBS_ERROR_NONE
    /\ \/ /\ abs_double(Int16(request.value)) <= MotorMaxTorque
          /\ torque' = Int16(request.value)
          /\ failure' = FALSE
          /\ reply' = [error |-> NMBS_ERROR_NONE, registers |-> << >>]
       \/ /\ abs_double(Int16(request.value)) > MotorMaxTorque
          /\ failure' = TRUE
          /\ reply' = [error |-> NMBS_EXCEPTION_ILLEGAL_DATA_VALUE, registers |-> << >>]
          /\ UNCHANGED torque

Answer == (Refuse \/ Read \/ Write) /\ UNCHANGED <<speed, distance, reported, request>>

Done ==
    /\ reply # NoReply
    /\ request' = NoRequest /\ reply' = NoReply
    /\ UNCHANGED <<torque, failure, speed, distance, reported>>

\* The vehicle moves under the torque of this instant.
Move ==
    /\ speed' = NewSpeed(torque, speed)
    /\ distance' = (distance + DistanceGain(speed, speed')) % OdometerModulus
    /\ UNCHANGED <<torque, failure, reported, request, reply>>

Report ==
    /\ reported' = speed
    /\ UNCHANGED <<torque, failure, speed, distance, request, reply>>

Next == (\E r \in Requests : Ask(r)) \/ Answer \/ Done \/ Move \/ Report

Spec == Init /\ [][Next]_vars
=============================================================================
