------------------------------ MODULE DriveSim ------------------------------
(***************************************************************************)
(* The program of src/DriveSim.c: the main thread that starts the others   *)
(* and then serves Modbus requests, the thread that steps the vehicle      *)
(* every 20 ms and the thread that reports its speed every second, all     *)
(* three on one AppContext (vehicle, sensor failure flag) under one mutex. *)
(*                                                                         *)
(* An action is one access to the shared state, one call of the mutex or   *)
(* one startup call, so the threads interleave wherever they can in the    *)
(* program.  The requests main serves come from RegisterMap; how           *)
(* they arrive over TCP, and why ModbusTcp_run returns, is not here.       *)
(***************************************************************************)
EXTENDS RegisterMap

CONSTANTS
    InitialTorque,      \* 120 Nm in main
    Requests,           \* the requests a client may send
    FailingCalls,       \* the startup calls that may fail
    OdometerModulus     \* distance wraps here: a bound for TLC; no thread
                        \* reads the distance except to add to it

StartupCalls == {"mtx_init", "create_simulation", "detach_simulation",
                 "create_heartbeat", "detach_heartbeat"}

ASSUME DriveSimAssumption ==
    /\ InitialTorque \in Int
    /\ Requests \subseteq RequestRecord
    /\ FailingCalls \subseteq StartupCalls
    /\ OdometerModulus \in Nat \ {0}

VARIABLES
    vehicle,            \* context->vehicle
    sensorFailure,      \* context->accelerator_sensor_failure
    mutex,              \* context->vehicle_mutex: free, or the thread holding it
    pc,                 \* where each thread is
    request,            \* main: the arguments of the callback it is in
    reply,              \* main: what the callback returns, once decided
    step,               \* simulation: old_speed and new_speed of its step
    speedSeen           \* heartbeat: speed_m_per_s, the speed it prints

vars == <<vehicle, sensorFailure, mutex, pc, request, reply, step, speedSeen>>

Threads == {"main", "simulation", "heartbeat"}

NoRequest == [function |-> "none"]
NoReply   == [error |-> "none", registers |-> << >>]
NoStep    == [old |-> 0, new |-> 0]

Reply(error, registers) == [error |-> error, registers |-> registers]

IsWrite(r) == r.function \in WriteFunctions

Init ==
    /\ vehicle = Vehicle_set_torque(Vehicle_init, InitialTorque)
    /\ sensorFailure = FALSE
    /\ mutex = "uninitialized"
    /\ pc = [t \in Threads |-> IF t = "main" THEN "mtx_init" ELSE "not_created"]
    /\ request = NoRequest
    /\ reply = NoReply
    /\ step = NoStep
    /\ speedSeen = 0

At(t, label)   == pc[t] = label /\ pc["main"] # "returned"
GoTo(t, label) == pc' = [pc EXCEPT ![t] = label]

-----------------------------------------------------------------------------
(* The mutex, as tinycthread gives it on pthreads.  Both calls return a    *)
(* status that no caller looks at: on a destroyed mutex they return an     *)
(* error and the thread goes on without the lock.                          *)

mtx_lock(t) ==
    \/ mutex = "free" /\ mutex' = t
    \/ mutex = "destroyed" /\ UNCHANGED mutex

mtx_unlock == mutex' = IF mutex = "destroyed" THEN mutex ELSE "free"

\* Destroying a mutex that a thread holds is undefined: it is refused (EBUSY)
\* or done.
mtx_destroy ==
    \/ mutex' = "destroyed"
    \/ mutex \in Threads /\ UNCHANGED mutex

-----------------------------------------------------------------------------
(* main, before it serves.  A call that can fail has two outcomes.         *)

MtxInit ==
    /\ At("main", "mtx_init")
    /\ \/ mutex' = "free" /\ GoTo("main", "create_simulation")
       \/ "mtx_init" \in FailingCalls /\ UNCHANGED mutex /\ GoTo("main", "return")
    /\ UNCHANGED <<vehicle, sensorFailure, request, reply, step, speedSeen>>

ThrdCreate(t, here, next) ==
    /\ At("main", here)
    /\ \/ pc' = [pc EXCEPT !["main"] = next, ![t] = "lock"]
       \/ here \in FailingCalls /\ GoTo("main", "mtx_destroy")
    /\ UNCHANGED <<vehicle, sensorFailure, mutex, request, reply, step, speedSeen>>

ThrdDetach(here, next) ==
    /\ At("main", here)
    /\ \/ GoTo("main", next)
       \/ here \in FailingCalls /\ GoTo("main", "mtx_destroy")
    /\ UNCHANGED <<vehicle, sensorFailure, mutex, request, reply, step, speedSeen>>

MtxDestroy ==
    /\ At("main", "mtx_destroy")
    /\ mtx_destroy
    /\ GoTo("main", "return")
    /\ UNCHANGED <<vehicle, sensorFailure, request, reply, step, speedSeen>>

\* main returns: the process, and with it every thread, ends.
Return ==
    /\ At("main", "return")
    /\ GoTo("main", "returned")
    /\ UNCHANGED <<vehicle, sensorFailure, mutex, request, reply, step, speedSeen>>

Startup ==
    \/ MtxInit
    \/ ThrdCreate("simulation", "create_simulation", "detach_simulation")
    \/ ThrdDetach("detach_simulation", "create_heartbeat")
    \/ ThrdCreate("heartbeat", "create_heartbeat", "detach_heartbeat")
    \/ ThrdDetach("detach_heartbeat", "poll")
    \/ MtxDestroy
    \/ Return

-----------------------------------------------------------------------------
(* main, in ModbusTcp_run: one request at a time, each in its callback.    *)

Receive(r) ==
    /\ At("main", "poll")
    /\ request' = r
    /\ GoTo("main", "check_request")
    /\ UNCHANGED <<vehicle, sensorFailure, mutex, reply, step, speedSeen>>

\* ModbusTcp_run returns, for a reason of its own.
ServerReturns ==
    /\ At("main", "poll")
    /\ GoTo("main", "return")
    /\ UNCHANGED <<vehicle, sensorFailure, mutex, request, reply, step, speedSeen>>

CheckRequest ==
    /\ At("main", "check_request")
    /\ LET error == RequestCheck(request)
       IN  IF error = NMBS_ERROR_NONE
           THEN /\ GoTo("main", IF request.function = "read_discrete_inputs"
                                THEN "read_failure" ELSE "lock")
                /\ UNCHANGED reply
           ELSE /\ reply' = Reply(error, << >>)
                /\ GoTo("main", "reply")
    /\ UNCHANGED <<vehicle, sensorFailure, mutex, request, step, speedSeen>>

\* read_discrete_inputs takes no lock.
ReadFailure ==
    /\ At("main", "read_failure")
    /\ reply' = Reply(NMBS_ERROR_NONE, <<IF sensorFailure THEN 1 ELSE 0>>)
    /\ GoTo("main", "reply")
    /\ UNCHANGED <<vehicle, sensorFailure, mutex, request, step, speedSeen>>

MainLock ==
    /\ At("main", "lock")
    /\ mtx_lock("main")
    /\ GoTo("main", IF IsWrite(request) THEN "check_torque" ELSE "copy_registers")
    /\ UNCHANGED <<vehicle, sensorFailure, request, reply, step, speedSeen>>

\* read_holding_registers and read_input_registers fill registers_out.
CopyRegisters ==
    /\ At("main", "copy_registers")
    /\ reply' = Reply(NMBS_ERROR_NONE,
                      IF request.function = "read_holding_registers"
                      THEN <<Uint16(vehicle.commanded)>>
                      ELSE EncodedParameters(request.address, request.quantity))
    /\ GoTo("main", "unlock")
    /\ UNCHANGED <<vehicle, sensorFailure, mutex, request, step, speedSeen>>

\* Mutant: the refusing path returns without unlocking.
RefuseTorqueLocked ==
    /\ At("main", "check_torque")
    /\ ~is_torque_command_valid(Int16(request.value))
    /\ sensorFailure' = TRUE
    /\ reply' = Reply(NMBS_EXCEPTION_ILLEGAL_DATA_VALUE, << >>)
    /\ GoTo("main", "reply")
    /\ UNCHANGED <<vehicle, mutex, request, step, speedSeen>>

\* The two write callbacks: an invalid torque raises the flag, ...
RefuseTorque ==
    /\ At("main", "check_torque")
    /\ ~is_torque_command_valid(Int16(request.value))
    /\ sensorFailure' = TRUE
    /\ reply' = Reply(NMBS_EXCEPTION_ILLEGAL_DATA_VALUE, << >>)
    /\ GoTo("main", "unlock")
    /\ UNCHANGED <<vehicle, mutex, request, step, speedSeen>>

\* Mutant: a valid torque leaves an old failure standing.
AcceptTorqueFlagKept ==
    /\ At("main", "check_torque")
    /\ is_torque_command_valid(Int16(request.value))
    /\ reply' = Reply(NMBS_ERROR_NONE, << >>)
    /\ GoTo("main", "set_torque")
    /\ UNCHANGED <<vehicle, sensorFailure, mutex, request, step, speedSeen>>

\* ... a valid one clears it, and then is passed to the vehicle.
AcceptTorque ==
    /\ At("main", "check_torque")
    /\ is_torque_command_valid(Int16(request.value))
    /\ sensorFailure' = FALSE
    /\ reply' = Reply(NMBS_ERROR_NONE, << >>)
    /\ GoTo("main", "set_torque")
    /\ UNCHANGED <<vehicle, mutex, request, step, speedSeen>>

\* Mutant: the word is taken as unsigned.
SetTorqueUnsigned ==
    /\ At("main", "set_torque")
    /\ vehicle' = Vehicle_set_torque(vehicle, request.value)
    /\ GoTo("main", "unlock")
    /\ UNCHANGED <<sensorFailure, mutex, request, reply, step, speedSeen>>

SetTorque ==
    /\ At("main", "set_torque")
    /\ vehicle' = Vehicle_set_torque(vehicle, Int16(request.value))
    /\ GoTo("main", "unlock")
    /\ UNCHANGED <<sensorFailure, mutex, request, reply, step, speedSeen>>

MainUnlock ==
    /\ At("main", "unlock")
    /\ mtx_unlock
    /\ GoTo("main", "reply")
    /\ UNCHANGED <<vehicle, sensorFailure, request, reply, step, speedSeen>>

\* The callback returns, the response goes out and main waits again.
SendReply ==
    /\ At("main", "reply")
    /\ request' = NoRequest
    /\ reply' = NoReply
    /\ GoTo("main", "poll")
    /\ UNCHANGED <<vehicle, sensorFailure, mutex, step, speedSeen>>

Callback ==
    CheckRequest \/ ReadFailure \/ CopyRegisters \/ RefuseTorque
        \/ AcceptTorque \/ SetTorque \/ MainUnlock \/ SendReply

Main == Startup \/ ServerReturns \/ MainLock \/ Callback \/ \E r \in Requests : Receive(r)
-----------------------------------------------------------------------------
(* The simulation thread: Vehicle_step_50hz under the lock, every 20 ms.   *)
(* The step reads the torque and the speed, then stores the new speed,     *)
(* then adds to the distance.                                              *)

\* Mutant: the step is made without the lock.
SimulationNoLock ==
    /\ At("simulation", "lock")
    /\ GoTo("simulation", "compute_step")
    /\ UNCHANGED <<vehicle, sensorFailure, mutex, request, reply, step, speedSeen>>

SimulationLock ==
    /\ At("simulation", "lock")
    /\ mtx_lock("simulation")
    /\ GoTo("simulation", "compute_step")
    /\ UNCHANGED <<vehicle, sensorFailure, request, reply, step, speedSeen>>

ComputeStep ==
    /\ At("simulation", "compute_step")
    /\ step' = [old |-> vehicle.speed, new |-> NewSpeed(vehicle.commanded, vehicle.speed)]
    /\ GoTo("simulation", "store_speed")
    /\ UNCHANGED <<vehicle, sensorFailure, mutex, request, reply, speedSeen>>

StoreSpeed ==
    /\ At("simulation", "store_speed")
    /\ vehicle' = [vehicle EXCEPT !.speed = step.new]
    /\ GoTo("simulation", "store_distance")
    /\ UNCHANGED <<sensorFailure, mutex, request, reply, step, speedSeen>>

Odometer(distance) == distance % OdometerModulus

StoreDistance ==
    /\ At("simulation", "store_distance")
    /\ vehicle' = [vehicle EXCEPT !.distance =
                      Odometer(@ + DistanceGain(step.old, step.new))]
    /\ step' = NoStep
    /\ GoTo("simulation", "unlock")
    /\ UNCHANGED <<sensorFailure, mutex, request, reply, speedSeen>>

SimulationUnlock ==
    /\ At("simulation", "unlock")
    /\ mtx_unlock
    /\ GoTo("simulation", "sleep")
    /\ UNCHANGED <<vehicle, sensorFailure, request, reply, step, speedSeen>>

Wake(t) ==
    /\ At(t, "sleep")
    /\ GoTo(t, "lock")
    /\ UNCHANGED <<vehicle, sensorFailure, mutex, request, reply, step, speedSeen>>

Simulation ==
    SimulationLock \/ ComputeStep \/ StoreSpeed \/ StoreDistance
        \/ SimulationUnlock \/ Wake("simulation")

-----------------------------------------------------------------------------
(* The heartbeat thread: it copies the speed under the lock, prints it     *)
(* and sleeps for a second.                                                *)

\* Mutant: the speed is read without the lock.
HeartbeatNoLock ==
    /\ At("heartbeat", "lock")
    /\ GoTo("heartbeat", "read_speed")
    /\ UNCHANGED <<vehicle, sensorFailure, mutex, request, reply, step, speedSeen>>

HeartbeatLock ==
    /\ At("heartbeat", "lock")
    /\ mtx_lock("heartbeat")
    /\ GoTo("heartbeat", "read_speed")
    /\ UNCHANGED <<vehicle, sensorFailure, request, reply, step, speedSeen>>

\* Mutant: the thread goes to sleep with the lock held.
ReadSpeedThenSleep ==
    /\ At("heartbeat", "read_speed")
    /\ speedSeen' = Vehicle_get_speed(vehicle)
    /\ GoTo("heartbeat", "sleep")
    /\ UNCHANGED <<vehicle, sensorFailure, mutex, request, reply, step>>

ReadSpeed ==
    /\ At("heartbeat", "read_speed")
    /\ speedSeen' = Vehicle_get_speed(vehicle)
    /\ GoTo("heartbeat", "unlock")
    /\ UNCHANGED <<vehicle, sensorFailure, mutex, request, reply, step>>

HeartbeatUnlock ==
    /\ At("heartbeat", "unlock")
    /\ mtx_unlock
    /\ GoTo("heartbeat", "sleep")
    /\ UNCHANGED <<vehicle, sensorFailure, request, reply, step, speedSeen>>

Heartbeat == HeartbeatLock \/ ReadSpeed \/ HeartbeatUnlock \/ Wake("heartbeat")

\* The process has ended: not a deadlock.
Returned == pc["main"] = "returned" /\ UNCHANGED vars

Next == Main \/ Simulation \/ Heartbeat \/ Returned

Spec == Init /\ [][Next]_vars

-----------------------------------------------------------------------------
(* Fairness.  A thread that can run is run (the OS scheduler), and the     *)
(* sleeps end.  A pthread mutex promises no order among its waiters, so a  *)
(* thread is only sure of it if it is free again and again: strong         *)
(* fairness of the three lock calls, which holds in practice because the   *)
(* other two threads sleep between their critical sections.  No request    *)
(* ever has to arrive, and ModbusTcp_run never has to return.              *)
Fairness ==
    /\ WF_vars(Startup) /\ WF_vars(Callback)
    /\ WF_vars(Simulation) /\ WF_vars(Heartbeat)
    /\ SF_vars(MainLock) /\ SF_vars(SimulationLock) /\ SF_vars(HeartbeatLock)

FairSpec == Spec /\ Fairness

\* Without the assumption on the mutex.
WeaklyFairSpec ==
    /\ Spec
    /\ WF_vars(Startup) /\ WF_vars(Callback)
    /\ WF_vars(Simulation) /\ WF_vars(Heartbeat)

-----------------------------------------------------------------------------
(* Correctness.                                                            *)

MainLabels == StartupCalls \cup
    {"mtx_destroy", "return", "returned", "poll", "check_request",
     "read_failure", "lock", "copy_registers", "check_torque", "set_torque",
     "unlock", "reply"}
SimulationLabels == {"not_created", "lock", "compute_step", "store_speed",
                     "store_distance", "unlock", "sleep"}
HeartbeatLabels == {"not_created", "lock", "read_speed", "unlock", "sleep"}

(* Every variable has its type, and the commanded torque is one the motor  *)
(* can deliver.                                                            *)
TypeOK ==
    /\ vehicle \in VehicleState
    /\ abs_double(vehicle.commanded) <= MotorMaxTorque
    /\ sensorFailure \in BOOLEAN
    /\ mutex \in Threads \cup {"uninitialized", "free", "destroyed"}
    /\ pc \in [Threads -> MainLabels \cup SimulationLabels \cup HeartbeatLabels]
    /\ pc["main"] \in MainLabels
    /\ pc["simulation"] \in SimulationLabels
    /\ pc["heartbeat"] \in HeartbeatLabels
    /\ request \in Requests \cup {NoRequest}
    /\ reply \in [error : Errors \cup {"none"}, registers : Seq(Word)]
    /\ step \in [old : Int, new : Int]
    /\ speedSeen \in Int

(* The fields of AppContext a thread is about to read or write.            *)
Reading(t, field) ==
    \/ t = "main" /\ pc[t] = "read_failure" /\ field = "sensorFailure"
    \/ t = "main" /\ pc[t] = "copy_registers" /\ field = "commanded"
    \/ t = "simulation" /\ pc[t] = "compute_step" /\ field \in {"commanded", "speed"}
    \/ t = "heartbeat" /\ pc[t] = "read_speed" /\ field = "speed"

Writing(t, field) ==
    \/ t = "main" /\ pc[t] = "check_torque" /\ field = "sensorFailure"
    \/ t = "main" /\ pc[t] = "set_torque" /\ field = "commanded"
    \/ t = "simulation" /\ pc[t] = "store_speed" /\ field = "speed"
    \/ t = "simulation" /\ pc[t] = "store_distance" /\ field = "distance"

SharedFields == {"commanded", "speed", "distance", "sensorFailure"}

(* The threads that are between mtx_lock and mtx_unlock.                   *)
InCriticalSection(t) ==
    \/ t = "main" /\ pc[t] \in {"copy_registers", "check_torque", "set_torque", "unlock"}
    \/ t = "simulation" /\ pc[t] \in {"compute_step", "store_speed", "store_distance", "unlock"}
    \/ t = "heartbeat" /\ pc[t] \in {"read_speed", "unlock"}

(* Two threads never access one field of AppContext at the same time, one  *)
(* of them to write it, as long as the mutex exists: this covers the       *)
(* sensor failure flag, which read_discrete_inputs reads without the lock. *)
NoDataRace ==
    mutex # "destroyed" =>
        \A t, u \in Threads : \A field \in SharedFields :
            t # u /\ Writing(t, field) => ~Reading(u, field) /\ ~Writing(u, field)

(* At most one thread is in its critical section and the mutex is held     *)
(* exactly while one is: no callback returns early with the lock held, and *)
(* none unlocks what another thread holds.                                 *)
LockDiscipline ==
    mutex # "destroyed" =>
        \A t \in Threads : InCriticalSection(t) <=> mutex = t

(* What DriveSim.c:349 says: one mutex protects the whole vehicle state.   *)
(* A thread in its critical section holds the mutex, always.               *)
MutexProtectsVehicle ==
    \A t \in Threads : InCriticalSection(t) => mutex = t

(* The speed the simulation is about to store is the step of the vehicle   *)
(* as it is now: no torque command comes between what Vehicle_step_50hz    *)
(* read and what it writes, not even while the program shuts down.         *)
StepIsCurrent ==
    pc["simulation"] = "store_speed" =>
        step = [old |-> vehicle.speed,
                new |-> NewSpeed(vehicle.commanded, vehicle.speed)]

ReplyTrue ==
    /\ IsWrite(request) =>
          /\ reply.error = NMBS_ERROR_NONE <=> ~sensorFailure
          /\ ~sensorFailure => vehicle.commanded = Int16(request.value)
    /\ request.function = "read_holding_registers" =>
          Int16(reply.registers[1]) = vehicle.commanded
    /\ request.function = "read_discrete_inputs" =>
          (reply.registers[1] = 1 <=> sensorFailure)

(* The answer that goes out agrees with the state it goes out from: a      *)
(* torque write answered without error left that very torque commanded and *)
(* the sensor failure flag down, a refused one left the flag up, and a     *)
(* torque read as the signed word it is and a flag read are still current. *)
RepliesTrue ==
    pc["main"] = "reply" /\ RequestCheck(request) = NMBS_ERROR_NONE => ReplyTrue

(* Every request is answered, whatever the other threads do.               *)
RequestsAnswered == pc["main"] = "check_request" ~> pc["main"] = "poll"

(* The simulation and the heartbeat go on for as long as the process does: *)
(* a thread waiting for the lock gets it and finishes its section.         *)
ThreadsKeepRunning ==
    \A t \in {"simulation", "heartbeat"} :
        pc[t] = "lock" ~> pc[t] = "sleep" \/ pc["main"] = "returned"

(* Whoever takes the lock gives it back, also on the paths that refuse a   *)
(* request; this needs no assumption on the order the mutex serves.        *)
LockReleased ==
    \A t \in Threads : mutex = t ~> mutex # t \/ pc["main"] = "returned"

-----------------------------------------------------------------------------
(* The refinement of DriveService.  A write takes effect when it decides   *)
(* the flag, a step when it stores the speed: the torque (the distance)    *)
(* that the thread still has to store counts as stored from then on.       *)

TorqueInEffect ==
    IF pc["main"] = "set_torque" THEN Int16(request.value) ELSE vehicle.commanded

DistanceInEffect ==
    IF pc["simulation"] = "store_distance"
    THEN Odometer(vehicle.distance + DistanceGain(step.old, step.new))
    ELSE vehicle.distance

Service == INSTANCE DriveService WITH
    torque   <- TorqueInEffect,
    failure  <- sensorFailure,
    speed    <- vehicle.speed,
    distance <- DistanceInEffect,
    reported <- speedSeen

(* Whatever the threads interleave, a client and the console see requests, *)
(* steps and reports that each happen at one instant.                      *)
ImplementsService == Service!Spec
=============================================================================
