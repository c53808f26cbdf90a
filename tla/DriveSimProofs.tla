--------------------------- MODULE DriveSimProofs ---------------------------
(***************************************************************************)
(* Theorems of DriveSim for every vehicle, register map, set of requests   *)
(* and set of failing startup calls, proved from one inductive invariant.  *)
(***************************************************************************)
EXTENDS DriveSim, TLAPS

-----------------------------------------------------------------------------
(* The inductive invariant.                                                *)

\* A background thread exists only once main is past creating it, and the
\* mutex is destroyed only on the way out.
StartupInv ==
    /\ pc["main"] \in {"mtx_init", "create_simulation"} =>
          pc["simulation"] = "not_created"
    /\ pc["main"] \in {"mtx_init", "create_simulation", "detach_simulation",
                       "create_heartbeat"} =>
          pc["heartbeat"] = "not_created"
    /\ mutex = "destroyed" => pc["main"] \in {"return", "returned"}

\* Inside a callback there is a request; past its check it is a legal one, and
\* each label is reached by the functions that go there.
CallbackInv ==
    /\ pc["main"] \in {"check_request", "read_failure", "lock", "copy_registers",
                       "check_torque", "set_torque", "unlock", "reply"} =>
          request \in Requests
    /\ pc["main"] \in {"read_failure", "lock", "copy_registers", "check_torque",
                       "set_torque", "unlock"} =>
          RequestCheck(request) = NMBS_ERROR_NONE
    /\ pc["main"] = "copy_registers" => ~IsWrite(request)
    /\ pc["main"] \in {"check_torque", "set_torque"} => IsWrite(request)
    /\ pc["main"] = "read_failure" => request.function = "read_discrete_inputs"
    /\ pc["main"] \in {"lock", "copy_registers"} =>
          request.function # "read_discrete_inputs"

\* What RepliesTrue says of an answer holds from its decision on, and between
\* the flag and the torque of a write that torque is known to be legal.
RepliesInv ==
    /\ pc["main"] = "set_torque" =>
          /\ ~sensorFailure
          /\ reply.error = NMBS_ERROR_NONE
          /\ is_torque_command_valid(Int16(request.value))
    /\ pc["main"] \in {"unlock", "reply"} /\ RequestCheck(request) = NMBS_ERROR_NONE =>
          ReplyTrue

IInv == TypeOK /\ LockDiscipline /\ StartupInv /\ CallbackInv /\ StepIsCurrent

-----------------------------------------------------------------------------
(* Facts about the operators the actions are built from.                   *)

(* Vehicle_set_torque turns any requested torque into one the motor can    *)
(* deliver and leaves the motion alone.                                    *)
LEMMA SetTorqueType ==
    ASSUME NEW v \in VehicleState, NEW torque \in Int
    PROVE  /\ Vehicle_set_torque(v, torque) \in VehicleState
           /\ abs_double(Vehicle_set_torque(v, torque).commanded) <= MotorMaxTorque
           /\ Vehicle_set_torque(v, torque).speed = v.speed
           /\ Vehicle_set_torque(v, torque).distance = v.distance
<1>1. MotorMaxTorque \in Nat
  BY VehicleParamsAssumption
<1>2. clamp(torque, -MotorMaxTorque, MotorMaxTorque) \in Int
      /\ abs_double(clamp(torque, -MotorMaxTorque, MotorMaxTorque)) <= MotorMaxTorque
  BY <1>1 DEF clamp, abs_double
<1> QED BY <1>2 DEF Vehicle_set_torque, VehicleState

(* A quotient by a positive integer is an integer.                         *)
LEMMA QuotientType ==
    ASSUME NEW a \in Int, NEW b \in Nat, b > 0
    PROVE  Quotient(a, b) \in Int
BY DEF Quotient

(* The step of the vehicle has an integer speed: its two divisions are by  *)
(* positive parameters, or are not made.                                   *)
LEMMA NewSpeedType ==
    ASSUME NEW c \in Int, NEW s \in Int
    PROVE  NewSpeed(c, s) \in Int
<1> USE VehicleParamsAssumption
<1>1. MotorTorque(c, s) * GearRatio \in Int
  BY DEF MotorTorque
<1>2. TractiveForce(c, s) \in Int
  BY <1>1, QuotientType DEF TractiveForce
<1>3. DragForce(s) \in Int
  BY DEF DragForce, abs_double
<1>4. OpposingForce(TractiveForce(c, s), s) \in Int
  BY <1>2, <1>3 DEF OpposingForce, sign_double
<1>5. SpeedGain(c, s) \in Int
  <2>1. CASE Mass > 0
    <3>1. Mass * VEHICLE_UPDATE_HZ \in Nat /\ Mass * VEHICLE_UPDATE_HZ > 0
      BY <2>1 DEF VEHICLE_UPDATE_HZ
    <3> QED BY <1>2, <1>4, <2>1, <3>1, QuotientType DEF SpeedGain
  <2>2. CASE ~(Mass > 0)
    BY <2>2 DEF SpeedGain
  <2> QED BY <2>1, <2>2
<1> QED BY <1>5 DEF NewSpeed

(* A word taken as signed and an integer taken as a word have their types. *)
LEMMA WordTypes ==
    /\ \A w \in Word : Int16(w) \in Int
    /\ \A i \in Int : Uint16(i) \in Word
    /\ 0 \in Word /\ 1 \in Word
<1>1. WordSize \in Nat /\ WordSize > 1
  BY RegisterMapAssumption, VehicleParamsAssumption
<1> QED BY <1>1 DEF Word, Int16, Uint16

(* A torque the motor can deliver survives the trip through a word.        *)
LEMMA WordRoundTrip ==
    ASSUME NEW torque \in Int, abs_double(torque) <= MotorMaxTorque
    PROVE  Int16(Uint16(torque)) = torque
<1>1. WordSize \in Nat /\ MotorMaxTorque \in Nat /\ 2 * MotorMaxTorque < WordSize
  BY RegisterMapAssumption, VehicleParamsAssumption
<1>2. CASE torque >= 0
  <2>1. torque % WordSize = torque
    BY <1>1, <1>2 DEF abs_double
  <2> QED BY <1>1, <1>2, <2>1 DEF Int16, Uint16, abs_double
<1>3. CASE torque < 0
  <2>1. torque % WordSize = torque + WordSize
    BY <1>1, <1>3 DEF abs_double
  <2> QED BY <1>1, <1>3, <2>1 DEF Int16, Uint16, abs_double
<1> QED BY <1>2, <1>3

(* The clamp of Vehicle_set_torque never alters a torque the callbacks     *)
(* let through.                                                            *)
LEMMA ValidTorqueKept ==
    ASSUME NEW v \in VehicleState, NEW torque \in Int, is_torque_command_valid(torque)
    PROVE  Vehicle_set_torque(v, torque).commanded = torque
BY VehicleParamsAssumption DEF Vehicle_set_torque, VehicleState, clamp, is_torque_command_valid

(* A request's check gives one of the answers of a callback.               *)
LEMMA RequestCheckType ==
    ASSUME NEW r \in Requests
    PROVE  RequestCheck(r) \in Errors
BY DEF RequestCheck, expect_single_register, expect_input_registers, Errors

(* An answer is a reply, with or without registers.                        *)
LEMMA ReplyType ==
    ASSUME NEW error \in Errors
    PROVE  /\ Reply(error, << >>) \in [error : Errors \cup {"none"}, registers : Seq(Word)]
           /\ \A registers \in Seq(Word) :
                 Reply(error, registers) \in [error : Errors \cup {"none"}, registers : Seq(Word)]
<1>1. << >> \in Seq(Word)
  OBVIOUS
<1> QED BY <1>1 DEF Reply

(* The registers of a checked parameter read are words, one per register   *)
(* asked for: the check keeps the read inside the table.                   *)
LEMMA EncodedParametersType ==
    ASSUME NEW address \in Nat, NEW quantity \in Nat,
           expect_input_registers(address, quantity) = NMBS_ERROR_NONE
    PROVE  EncodedParameters(address, quantity) \in Seq(Word)
<1>1. address + quantity <= Len(Parameters)
  BY DEF expect_input_registers, PARAM_COUNT, NMBS_ERROR_NONE,
         NMBS_EXCEPTION_ILLEGAL_DATA_ADDRESS, NMBS_EXCEPTION_ILLEGAL_DATA_VALUE
<1>2. 0 \in Word
  BY RegisterMapAssumption, VehicleParamsAssumption DEF Word
<1>3. ASSUME NEW i \in 1 .. quantity
      PROVE  encode_scaled(Parameters[address + i].num, Parameters[address + i].den,
                           Parameters[address + i].scale) \in Word
  <2>1. Parameters[address + i] \in [num : Int, den : Nat \ {0}, scale : Nat]
    <3> DEFINE Param == [num : Int, den : Nat \ {0}, scale : Nat]
    <3>1. Parameters \in Seq(Param)
      BY RegisterMapAssumption
    <3> HIDE DEF Param
    <3>2. address + i \in 1 .. Len(Parameters)
      BY <1>1, <3>1
    <3>3. Parameters[address + i] \in Param
      BY <3>1, <3>2
    <3> QED BY <3>3 DEF Param
  <2> DEFINE p == Parameters[address + i]
  <2>2. p.num \in Int /\ p.den \in Nat /\ p.den > 0 /\ p.scale \in Nat
    BY <2>1
  <2>3. (2 * p.num * p.scale + p.den) \div (2 * p.den) \in Int
    BY <2>2
  <2> QED BY <1>2, <2>2, <2>3, WordTypes DEF encode_scaled
<1>4. EncodedParameters(address, quantity) \in [1 .. quantity -> Word]
  BY <1>3 DEF EncodedParameters
<1> QED BY <1>4

-----------------------------------------------------------------------------
(* Every step keeps every part of the invariant: one step per action.      *)

(* The background threads start in their turn, the mutex goes last.        *)
LEMMA StartupStep == IInv /\ [Next]_vars => StartupInv'
<1> SUFFICES ASSUME IInv, [Next]_vars PROVE StartupInv'
  OBVIOUS
<1> USE DEF IInv, TypeOK, At, GoTo, Threads, StartupInv, MainLabels, StartupCalls, mtx_lock, mtx_unlock, mtx_destroy
<1>1. CASE MtxInit
  BY <1>1 DEF MtxInit
<1>2. CASE ThrdCreate("simulation", "create_simulation", "detach_simulation")
  BY <1>2 DEF ThrdCreate
<1>3. CASE ThrdDetach("detach_simulation", "create_heartbeat")
  BY <1>3 DEF ThrdDetach
<1>4. CASE ThrdCreate("heartbeat", "create_heartbeat", "detach_heartbeat")
  BY <1>4 DEF ThrdCreate
<1>5. CASE ThrdDetach("detach_heartbeat", "poll")
  BY <1>5 DEF ThrdDetach
<1>6. CASE MtxDestroy
  BY <1>6 DEF MtxDestroy, mtx_destroy
<1>7. CASE Return
  BY <1>7 DEF Return
<1>8. CASE ServerReturns
  BY <1>8 DEF ServerReturns
<1>9. CASE \E r \in Requests : Receive(r)
  BY <1>9 DEF Receive
<1>10. CASE CheckRequest
  BY <1>10 DEF CheckRequest
<1>11. CASE ReadFailure
  BY <1>11 DEF ReadFailure
<1>12. CASE MainLock
  BY <1>12 DEF MainLock, mtx_lock
<1>13. CASE CopyRegisters
  BY <1>13 DEF CopyRegisters
<1>14. CASE RefuseTorque
  BY <1>14 DEF RefuseTorque
<1>15. CASE AcceptTorque
  BY <1>15 DEF AcceptTorque
<1>16. CASE SetTorque
  BY <1>16 DEF SetTorque
<1>17. CASE MainUnlock
  BY <1>17 DEF MainUnlock, mtx_unlock
<1>18. CASE SendReply
  BY <1>18 DEF SendReply
<1>19. CASE SimulationLock
  BY <1>19 DEF SimulationLock, mtx_lock
<1>20. CASE ComputeStep
  BY <1>20 DEF ComputeStep
<1>21. CASE StoreSpeed
  BY <1>21 DEF StoreSpeed
<1>22. CASE StoreDistance
  BY <1>22 DEF StoreDistance
<1>23. CASE SimulationUnlock
  BY <1>23 DEF SimulationUnlock, mtx_unlock
<1>24. CASE Wake("simulation")
  BY <1>24 DEF Wake
<1>25. CASE HeartbeatLock
  BY <1>25 DEF HeartbeatLock, mtx_lock
<1>26. CASE ReadSpeed
  BY <1>26 DEF ReadSpeed
<1>27. CASE HeartbeatUnlock
  BY <1>27 DEF HeartbeatUnlock, mtx_unlock
<1>28. CASE Wake("heartbeat")
  BY <1>28 DEF Wake
<1>29. CASE UNCHANGED vars
  BY <1>29 DEF vars
<1> QED BY <1>1, <1>2, <1>3, <1>4, <1>5, <1>6, <1>7, <1>8, <1>9, <1>10, <1>11, <1>12, <1>13, <1>14, <1>15, <1>16, <1>17, <1>18, <1>19, <1>20, <1>21, <1>22, <1>23, <1>24, <1>25, <1>26, <1>27, <1>28, <1>29
       DEF Next, Main, Startup, Callback, Simulation, Heartbeat, Returned

(* The mutex is held exactly by the thread in its critical section.        *)
LEMMA LockStep == IInv /\ [Next]_vars => LockDiscipline'
<1> SUFFICES ASSUME IInv, [Next]_vars PROVE LockDiscipline'
  OBVIOUS
<1> USE DEF IInv, TypeOK, At, GoTo, Threads, StartupInv, LockDiscipline, InCriticalSection
<1>1. CASE MtxInit
  BY <1>1 DEF MtxInit
<1>2. CASE ThrdCreate("simulation", "create_simulation", "detach_simulation")
  BY <1>2 DEF ThrdCreate
<1>3. CASE ThrdDetach("detach_simulation", "create_heartbeat")
  BY <1>3 DEF ThrdDetach
<1>4. CASE ThrdCreate("heartbeat", "create_heartbeat", "detach_heartbeat")
  BY <1>4 DEF ThrdCreate
<1>5. CASE ThrdDetach("detach_heartbeat", "poll")
  BY <1>5 DEF ThrdDetach
<1>6. CASE MtxDestroy
  BY <1>6 DEF MtxDestroy, mtx_destroy
<1>7. CASE Return
  BY <1>7 DEF Return
<1>8. CASE ServerReturns
  BY <1>8 DEF ServerReturns
<1>9. CASE \E r \in Requests : Receive(r)
  BY <1>9 DEF Receive
<1>10. CASE CheckRequest
  BY <1>10 DEF CheckRequest
<1>11. CASE ReadFailure
  BY <1>11 DEF ReadFailure
<1>12. CASE MainLock
  BY <1>12 DEF MainLock, mtx_lock
<1>13. CASE CopyRegisters
  BY <1>13 DEF CopyRegisters
<1>14. CASE RefuseTorque
  BY <1>14 DEF RefuseTorque
<1>15. CASE AcceptTorque
  BY <1>15 DEF AcceptTorque
<1>16. CASE SetTorque
  BY <1>16 DEF SetTorque
<1>17. CASE MainUnlock
  BY <1>17 DEF MainUnlock, mtx_unlock
<1>18. CASE SendReply
  BY <1>18 DEF SendReply
<1>19. CASE SimulationLock
  BY <1>19 DEF SimulationLock, mtx_lock
<1>20. CASE ComputeStep
  BY <1>20 DEF ComputeStep
<1>21. CASE StoreSpeed
  BY <1>21 DEF StoreSpeed
<1>22. CASE StoreDistance
  BY <1>22 DEF StoreDistance
<1>23. CASE SimulationUnlock
  BY <1>23 DEF SimulationUnlock, mtx_unlock
<1>24. CASE Wake("simulation")
  BY <1>24 DEF Wake
<1>25. CASE HeartbeatLock
  BY <1>25 DEF HeartbeatLock, mtx_lock
<1>26. CASE ReadSpeed
  BY <1>26 DEF ReadSpeed
<1>27. CASE HeartbeatUnlock
  BY <1>27 DEF HeartbeatUnlock, mtx_unlock
<1>28. CASE Wake("heartbeat")
  BY <1>28 DEF Wake
<1>29. CASE UNCHANGED vars
  BY <1>29 DEF vars
<1> QED BY <1>1, <1>2, <1>3, <1>4, <1>5, <1>6, <1>7, <1>8, <1>9, <1>10, <1>11, <1>12, <1>13, <1>14, <1>15, <1>16, <1>17, <1>18, <1>19, <1>20, <1>21, <1>22, <1>23, <1>24, <1>25, <1>26, <1>27, <1>28, <1>29
       DEF Next, Main, Startup, Callback, Simulation, Heartbeat, Returned

(* A callback that has passed its check keeps its request to the end.      *)
LEMMA CallbackStep == IInv /\ [Next]_vars => CallbackInv'
<1> SUFFICES ASSUME IInv, [Next]_vars PROVE CallbackInv'
  OBVIOUS
<1> USE DEF IInv, At, GoTo, Threads, TypeOK, StartupInv, CallbackInv, MainLabels, StartupCalls, IsWrite
<1>1. CASE MtxInit
  BY <1>1 DEF MtxInit
<1>2. CASE ThrdCreate("simulation", "create_simulation", "detach_simulation")
  BY <1>2 DEF ThrdCreate
<1>3. CASE ThrdDetach("detach_simulation", "create_heartbeat")
  BY <1>3 DEF ThrdDetach
<1>4. CASE ThrdCreate("heartbeat", "create_heartbeat", "detach_heartbeat")
  BY <1>4 DEF ThrdCreate
<1>5. CASE ThrdDetach("detach_heartbeat", "poll")
  BY <1>5 DEF ThrdDetach
<1>6. CASE MtxDestroy
  BY <1>6 DEF MtxDestroy, mtx_destroy
<1>7. CASE Return
  BY <1>7 DEF Return
<1>8. CASE ServerReturns
  BY <1>8 DEF ServerReturns
<1>9. CASE \E r \in Requests : Receive(r)
  BY <1>9 DEF Receive
<1>10. CASE CheckRequest
  BY <1>10 DEF CheckRequest, NMBS_ERROR_NONE, Reply
<1>11. CASE ReadFailure
  BY <1>11 DEF ReadFailure
<1>12. CASE MainLock
  BY <1>12 DEF MainLock, mtx_lock
<1>13. CASE CopyRegisters
  BY <1>13 DEF CopyRegisters
<1>14. CASE RefuseTorque
  BY <1>14 DEF RefuseTorque
<1>15. CASE AcceptTorque
  BY <1>15 DEF AcceptTorque
<1>16. CASE SetTorque
  BY <1>16 DEF SetTorque
<1>17. CASE MainUnlock
  BY <1>17 DEF MainUnlock, mtx_unlock
<1>18. CASE SendReply
  BY <1>18 DEF SendReply
<1>19. CASE SimulationLock
  BY <1>19 DEF SimulationLock, mtx_lock
<1>20. CASE ComputeStep
  BY <1>20 DEF ComputeStep
<1>21. CASE StoreSpeed
  BY <1>21 DEF StoreSpeed
<1>22. CASE StoreDistance
  BY <1>22 DEF StoreDistance
<1>23. CASE SimulationUnlock
  BY <1>23 DEF SimulationUnlock, mtx_unlock
<1>24. CASE Wake("simulation")
  BY <1>24 DEF Wake
<1>25. CASE HeartbeatLock
  BY <1>25 DEF HeartbeatLock, mtx_lock
<1>26. CASE ReadSpeed
  BY <1>26 DEF ReadSpeed
<1>27. CASE HeartbeatUnlock
  BY <1>27 DEF HeartbeatUnlock, mtx_unlock
<1>28. CASE Wake("heartbeat")
  BY <1>28 DEF Wake
<1>29. CASE UNCHANGED vars
  BY <1>29 DEF vars
<1> QED BY <1>1, <1>2, <1>3, <1>4, <1>5, <1>6, <1>7, <1>8, <1>9, <1>10, <1>11, <1>12, <1>13, <1>14, <1>15, <1>16, <1>17, <1>18, <1>19, <1>20, <1>21, <1>22, <1>23, <1>24, <1>25, <1>26, <1>27, <1>28, <1>29
       DEF Next, Main, Startup, Callback, Simulation, Heartbeat, Returned

(* No step of another thread makes the pending step of the vehicle stale.  *)
LEMMA StepCurrentStep == IInv /\ [Next]_vars => StepIsCurrent'
<1> SUFFICES ASSUME IInv, [Next]_vars PROVE StepIsCurrent'
  OBVIOUS
<1> USE DEF IInv, TypeOK, At, GoTo, Threads, StartupInv, LockDiscipline, InCriticalSection, StepIsCurrent, VehicleState
<1>1. CASE MtxInit
  BY <1>1 DEF MtxInit
<1>2. CASE ThrdCreate("simulation", "create_simulation", "detach_simulation")
  BY <1>2 DEF ThrdCreate
<1>3. CASE ThrdDetach("detach_simulation", "create_heartbeat")
  BY <1>3 DEF ThrdDetach
<1>4. CASE ThrdCreate("heartbeat", "create_heartbeat", "detach_heartbeat")
  BY <1>4 DEF ThrdCreate
<1>5. CASE ThrdDetach("detach_heartbeat", "poll")
  BY <1>5 DEF ThrdDetach
<1>6. CASE MtxDestroy
  BY <1>6 DEF MtxDestroy, mtx_destroy
<1>7. CASE Return
  BY <1>7 DEF Return
<1>8. CASE ServerReturns
  BY <1>8 DEF ServerReturns
<1>9. CASE \E r \in Requests : Receive(r)
  BY <1>9 DEF Receive
<1>10. CASE CheckRequest
  BY <1>10 DEF CheckRequest
<1>11. CASE ReadFailure
  BY <1>11 DEF ReadFailure
<1>12. CASE MainLock
  BY <1>12 DEF MainLock, mtx_lock
<1>13. CASE CopyRegisters
  BY <1>13 DEF CopyRegisters
<1>14. CASE RefuseTorque
  BY <1>14 DEF RefuseTorque
<1>15. CASE AcceptTorque
  BY <1>15 DEF AcceptTorque
<1>16. CASE SetTorque
  BY <1>16, SetTorqueType DEF SetTorque
<1>17. CASE MainUnlock
  BY <1>17 DEF MainUnlock, mtx_unlock
<1>18. CASE SendReply
  BY <1>18 DEF SendReply
<1>19. CASE SimulationLock
  BY <1>19 DEF SimulationLock, mtx_lock
<1>20. CASE ComputeStep
  BY <1>20 DEF ComputeStep
<1>21. CASE StoreSpeed
  BY <1>21 DEF StoreSpeed
<1>22. CASE StoreDistance
  BY <1>22 DEF StoreDistance
<1>23. CASE SimulationUnlock
  BY <1>23 DEF SimulationUnlock, mtx_unlock
<1>24. CASE Wake("simulation")
  BY <1>24 DEF Wake
<1>25. CASE HeartbeatLock
  BY <1>25 DEF HeartbeatLock, mtx_lock
<1>26. CASE ReadSpeed
  BY <1>26 DEF ReadSpeed
<1>27. CASE HeartbeatUnlock
  BY <1>27 DEF HeartbeatUnlock, mtx_unlock
<1>28. CASE Wake("heartbeat")
  BY <1>28 DEF Wake
<1>29. CASE UNCHANGED vars
  BY <1>29 DEF vars
<1> QED BY <1>1, <1>2, <1>3, <1>4, <1>5, <1>6, <1>7, <1>8, <1>9, <1>10, <1>11, <1>12, <1>13, <1>14, <1>15, <1>16, <1>17, <1>18, <1>19, <1>20, <1>21, <1>22, <1>23, <1>24, <1>25, <1>26, <1>27, <1>28, <1>29
       DEF Next, Main, Startup, Callback, Simulation, Heartbeat, Returned

(* Every step keeps the types; the torque stays one the motor can deliver. *)
LEMMA TypeStep == IInv /\ [Next]_vars => TypeOK'
<1> SUFFICES ASSUME IInv, [Next]_vars PROVE TypeOK'
  OBVIOUS
<1> USE DEF IInv, At, GoTo, TypeOK, MainLabels, SimulationLabels, HeartbeatLabels, StartupCalls, Threads
<1>1. CASE MtxInit
  BY <1>1 DEF MtxInit
<1>2. CASE ThrdCreate("simulation", "create_simulation", "detach_simulation")
  BY <1>2 DEF ThrdCreate
<1>3. CASE ThrdDetach("detach_simulation", "create_heartbeat")
  BY <1>3 DEF ThrdDetach
<1>4. CASE ThrdCreate("heartbeat", "create_heartbeat", "detach_heartbeat")
  BY <1>4 DEF ThrdCreate
<1>5. CASE ThrdDetach("detach_heartbeat", "poll")
  BY <1>5 DEF ThrdDetach
<1>6. CASE MtxDestroy
  BY <1>6 DEF MtxDestroy, mtx_destroy
<1>7. CASE Return
  BY <1>7 DEF Return
<1>8. CASE ServerReturns
  BY <1>8 DEF ServerReturns
<1>9. CASE \E r \in Requests : Receive(r)
  BY <1>9 DEF Receive
<1>10. CASE CheckRequest
  <2>1. CASE RequestCheck(request) = NMBS_ERROR_NONE
    BY <1>10, <2>1 DEF CheckRequest
  <2>2. CASE RequestCheck(request) # NMBS_ERROR_NONE
    <3>1. request \in Requests
      BY <1>10 DEF CheckRequest, CallbackInv
    <3>2. Reply(RequestCheck(request), << >>) \in [error : Errors \cup {"none"}, registers : Seq(Word)]
      BY <3>1, RequestCheckType, ReplyType
    <3> QED BY <1>10, <2>2, <3>2 DEF CheckRequest
  <2> QED BY <2>1, <2>2
<1>11. CASE ReadFailure
  <2>1. <<IF sensorFailure THEN 1 ELSE 0>> \in Seq(Word)
    BY WordTypes
  <2>2. reply' \in [error : Errors \cup {"none"}, registers : Seq(Word)]
    BY <1>11, <2>1, ReplyType DEF ReadFailure, Errors
  <2> QED BY <1>11, <2>2 DEF ReadFailure
<1>12. CASE MainLock
  BY <1>12 DEF MainLock, mtx_lock
<1>13. CASE CopyRegisters
  <2>1. request \in RequestRecord /\ RequestCheck(request) = NMBS_ERROR_NONE
    BY <1>13, DriveSimAssumption DEF CopyRegisters, CallbackInv
  <2>2. ASSUME request.function = "read_holding_registers"
        PROVE  <<Uint16(vehicle.commanded)>> \in Seq(Word)
    BY WordTypes DEF VehicleState
  <2>3. ASSUME request.function # "read_holding_registers"
        PROVE  EncodedParameters(request.address, request.quantity) \in Seq(Word)
    <3>1. request.function = "read_input_registers"
      BY <1>13, <2>1, <2>3 DEF CopyRegisters, CallbackInv, RequestRecord, IsWrite, Functions, ReadFunctions
    <3>2. expect_input_registers(request.address, request.quantity) = NMBS_ERROR_NONE
      BY <2>1, <3>1 DEF RequestCheck
    <3> QED BY <2>1, <3>2, EncodedParametersType DEF RequestRecord
  <2>4. reply' \in [error : Errors \cup {"none"}, registers : Seq(Word)]
    BY <1>13, <2>2, <2>3, ReplyType DEF CopyRegisters, Errors
  <2> QED BY <1>13, <2>4 DEF CopyRegisters
<1>14. CASE RefuseTorque
  <2>1. reply' \in [error : Errors \cup {"none"}, registers : Seq(Word)]
    BY <1>14, ReplyType DEF RefuseTorque, Errors
  <2> QED BY <1>14, <2>1 DEF RefuseTorque
<1>15. CASE AcceptTorque
  <2>1. reply' \in [error : Errors \cup {"none"}, registers : Seq(Word)]
    BY <1>15, ReplyType DEF AcceptTorque, Errors
  <2> QED BY <1>15, <2>1 DEF AcceptTorque
<1>16. CASE SetTorque
  <2>1. Int16(request.value) \in Int
    BY <1>16, WordTypes, DriveSimAssumption DEF SetTorque, CallbackInv, RequestRecord
  <2> QED BY <1>16, <2>1, SetTorqueType DEF SetTorque
<1>17. CASE MainUnlock
  BY <1>17 DEF MainUnlock, mtx_unlock
<1>18. CASE SendReply
  <2>1. NoReply \in [error : Errors \cup {"none"}, registers : Seq(Word)]
    BY DEF NoReply
  <2> QED BY <1>18, <2>1 DEF SendReply
<1>19. CASE SimulationLock
  BY <1>19 DEF SimulationLock, mtx_lock
<1>20. CASE ComputeStep
  <2>1. NewSpeed(vehicle.commanded, vehicle.speed) \in Int /\ vehicle.speed \in Int
    BY NewSpeedType DEF VehicleState
  <2> QED BY <1>20, <2>1 DEF ComputeStep
<1>21. CASE StoreSpeed
  BY <1>21 DEF StoreSpeed, VehicleState
<1>22. CASE StoreDistance
  <2>1. Odometer(vehicle.distance + DistanceGain(step.old, step.new)) \in Int
    BY DriveSimAssumption DEF VehicleState, Odometer, DistanceGain
  <2> QED BY <1>22, <2>1 DEF StoreDistance, VehicleState, NoStep
<1>23. CASE SimulationUnlock
  BY <1>23 DEF SimulationUnlock, mtx_unlock
<1>24. CASE Wake("simulation")
  BY <1>24 DEF Wake
<1>25. CASE HeartbeatLock
  BY <1>25 DEF HeartbeatLock, mtx_lock
<1>26. CASE ReadSpeed
  BY <1>26 DEF ReadSpeed, VehicleState, Vehicle_get_speed
<1>27. CASE HeartbeatUnlock
  BY <1>27 DEF HeartbeatUnlock, mtx_unlock
<1>28. CASE Wake("heartbeat")
  BY <1>28 DEF Wake
<1>29. CASE UNCHANGED vars
  BY <1>29 DEF vars
<1> QED BY <1>1, <1>2, <1>3, <1>4, <1>5, <1>6, <1>7, <1>8, <1>9, <1>10, <1>11, <1>12, <1>13, <1>14, <1>15, <1>16, <1>17, <1>18, <1>19, <1>20, <1>21, <1>22, <1>23, <1>24, <1>25, <1>26, <1>27, <1>28, <1>29
       DEF Next, Main, Startup, Callback, Simulation, Heartbeat, Returned

(* Nothing changes under an answer between its decision and its sending.   *)
LEMMA RepliesStep == IInv /\ RepliesInv /\ [Next]_vars => RepliesInv'
<1> SUFFICES ASSUME IInv /\ RepliesInv, [Next]_vars PROVE RepliesInv'
  OBVIOUS
<1> USE DEF IInv, RepliesInv, ReplyTrue, At, GoTo, TypeOK, MainLabels, StartupCalls, Threads
<1>1. CASE MtxInit
  BY <1>1 DEF MtxInit
<1>2. CASE ThrdCreate("simulation", "create_simulation", "detach_simulation")
  BY <1>2 DEF ThrdCreate
<1>3. CASE ThrdDetach("detach_simulation", "create_heartbeat")
  BY <1>3 DEF ThrdDetach
<1>4. CASE ThrdCreate("heartbeat", "create_heartbeat", "detach_heartbeat")
  BY <1>4 DEF ThrdCreate
<1>5. CASE ThrdDetach("detach_heartbeat", "poll")
  BY <1>5 DEF ThrdDetach
<1>6. CASE MtxDestroy
  BY <1>6 DEF MtxDestroy, mtx_destroy
<1>7. CASE Return
  BY <1>7 DEF Return
<1>8. CASE ServerReturns
  BY <1>8 DEF ServerReturns
<1>9. CASE \E r \in Requests : Receive(r)
  BY <1>9 DEF Receive
<1>10. CASE CheckRequest
  BY <1>10 DEF CheckRequest, Reply
<1>11. CASE ReadFailure
  BY <1>11 DEF ReadFailure, Reply, CallbackInv, IsWrite, WriteFunctions
<1>12. CASE MainLock
  BY <1>12 DEF MainLock, mtx_lock
<1>13. CASE CopyRegisters
  <2>1. Int16(Uint16(vehicle.commanded)) = vehicle.commanded
    BY WordRoundTrip DEF VehicleState
  <2> QED BY <1>13, <2>1 DEF CopyRegisters, CallbackInv, Reply
<1>14. CASE RefuseTorque
  BY <1>14 DEF RefuseTorque, CallbackInv, Reply, IsWrite, WriteFunctions, NMBS_ERROR_NONE, NMBS_EXCEPTION_ILLEGAL_DATA_VALUE
<1>15. CASE AcceptTorque
  BY <1>15 DEF AcceptTorque, Reply
<1>16. CASE SetTorque
  <2>1. Int16(request.value) \in Int
    BY <1>16, WordTypes, DriveSimAssumption DEF SetTorque, CallbackInv, RequestRecord
  <2>2. vehicle'.commanded = Int16(request.value)
    BY <1>16, <2>1, ValidTorqueKept DEF SetTorque
  <2> QED BY <1>16, <2>2 DEF SetTorque, CallbackInv, IsWrite, WriteFunctions
<1>17. CASE MainUnlock
  BY <1>17 DEF MainUnlock, mtx_unlock
<1>18. CASE SendReply
  BY <1>18 DEF SendReply
<1>19. CASE SimulationLock
  BY <1>19 DEF SimulationLock, mtx_lock
<1>20. CASE ComputeStep
  BY <1>20 DEF ComputeStep
<1>21. CASE StoreSpeed
  BY <1>21 DEF StoreSpeed, VehicleState
<1>22. CASE StoreDistance
  BY <1>22 DEF StoreDistance, VehicleState
<1>23. CASE SimulationUnlock
  BY <1>23 DEF SimulationUnlock, mtx_unlock
<1>24. CASE Wake("simulation")
  BY <1>24 DEF Wake
<1>25. CASE HeartbeatLock
  BY <1>25 DEF HeartbeatLock, mtx_lock
<1>26. CASE ReadSpeed
  BY <1>26 DEF ReadSpeed
<1>27. CASE HeartbeatUnlock
  BY <1>27 DEF HeartbeatUnlock, mtx_unlock
<1>28. CASE Wake("heartbeat")
  BY <1>28 DEF Wake
<1>29. CASE UNCHANGED vars
  BY <1>29 DEF vars
<1> QED BY <1>1, <1>2, <1>3, <1>4, <1>5, <1>6, <1>7, <1>8, <1>9, <1>10, <1>11, <1>12, <1>13, <1>14, <1>15, <1>16, <1>17, <1>18, <1>19, <1>20, <1>21, <1>22, <1>23, <1>24, <1>25, <1>26, <1>27, <1>28, <1>29
       DEF Next, Main, Startup, Callback, Simulation, Heartbeat, Returned

-----------------------------------------------------------------------------
(* The theorems.                                                           *)

(* The program starts in the invariant.                                    *)
LEMMA InitInv == Init => IInv /\ RepliesInv
<1> SUFFICES ASSUME Init PROVE IInv /\ RepliesInv
  OBVIOUS
<1> USE DEF Init
<1>1. TypeOK
  <2>1. /\ Vehicle_init \in VehicleState
        /\ Vehicle_set_torque(Vehicle_init, InitialTorque) \in VehicleState
        /\ abs_double(Vehicle_set_torque(Vehicle_init, InitialTorque).commanded) <= MotorMaxTorque
    BY SetTorqueType, DriveSimAssumption DEF Vehicle_init, VehicleState
  <2>2. NoReply \in [error : Errors \cup {"none"}, registers : Seq(Word)]
    BY DEF NoReply
  <2>3. /\ pc \in [Threads -> MainLabels \cup SimulationLabels \cup HeartbeatLabels]
        /\ pc["main"] \in MainLabels
        /\ pc["simulation"] \in SimulationLabels
        /\ pc["heartbeat"] \in HeartbeatLabels
    BY DEF Threads, MainLabels, SimulationLabels, HeartbeatLabels, StartupCalls
  <2>4. step \in [old : Int, new : Int]
    BY DEF NoStep
  <2>5. sensorFailure \in BOOLEAN /\ mutex \in Threads \cup {"uninitialized", "free", "destroyed"}
    BY Zenon
  <2>6. speedSeen \in Int
    OBVIOUS
  <2>7. /\ vehicle \in VehicleState
        /\ abs_double(vehicle.commanded) <= MotorMaxTorque
        /\ reply \in [error : Errors \cup {"none"}, registers : Seq(Word)]
    BY <2>1, <2>2
  <2>8. request \in Requests \cup {NoRequest}
    OBVIOUS
  <2> QED BY <2>3, <2>4, <2>5, <2>6, <2>7, <2>8 DEF TypeOK
<1>2. LockDiscipline
  BY DEF LockDiscipline, InCriticalSection, Threads
<1>3. StartupInv /\ CallbackInv /\ StepIsCurrent /\ RepliesInv
  BY DEF StartupInv, CallbackInv, StepIsCurrent, RepliesInv, Threads
<1> QED BY <1>1, <1>2, <1>3 DEF IInv

(* IInv and RepliesInv hold in every reachable state.                      *)
THEOREM Invariance == Spec => [](IInv /\ RepliesInv)
<1>1. IInv /\ RepliesInv /\ [Next]_vars => (IInv /\ RepliesInv)'
  BY TypeStep, LockStep, StartupStep, CallbackStep, StepCurrentStep, RepliesStep DEF IInv
<1> QED BY <1>1, InitInv, PTL DEF Spec

(* In every state the variables have their types and the commanded torque  *)
(* is one the motor can deliver, for every vehicle and set of requests.    *)
THEOREM TypeCorrect == Spec => []TypeOK
BY Invariance, PTL DEF IInv

(* As long as the mutex exists, exactly the thread inside a critical       *)
(* section holds it: the three critical sections exclude one another, no   *)
(* path leaves one with the lock, and none enters without it.              *)
THEOREM LockCorrect == Spec => []LockDiscipline
BY Invariance, PTL DEF IInv

(* Vehicle_step_50hz never stores a speed computed from a torque that has  *)
(* been replaced, not even after main has destroyed the mutex.             *)
THEOREM StepCorrect == Spec => []StepIsCurrent
BY Invariance, PTL DEF IInv

(* No field of AppContext is written while another thread accesses it, as  *)
(* long as the mutex exists.                                               *)
THEOREM RaceFree == Spec => []NoDataRace
<1>1. IInv => NoDataRace
  <2> SUFFICES ASSUME IInv, mutex # "destroyed", NEW t \in Threads, NEW u \in Threads,
                      NEW field \in SharedFields, t # u, Writing(t, field)
               PROVE  ~Reading(u, field) /\ ~Writing(u, field)
    BY DEF NoDataRace
  <2>1. CASE t = "main"
    BY <2>1 DEF IInv, LockDiscipline, InCriticalSection, Writing, Reading, Threads
  <2>2. CASE t = "simulation"
    BY <2>2 DEF IInv, LockDiscipline, InCriticalSection, Writing, Reading, Threads
  <2> QED BY <2>1, <2>2 DEF Writing
<1> QED BY <1>1, Invariance, PTL

(* Every answer a client gets agrees with the torque and the flag at the   *)
(* moment it is sent.                                                      *)
THEOREM RepliesCorrect == Spec => []RepliesTrue
<1>1. RepliesInv => RepliesTrue
  BY DEF RepliesInv, RepliesTrue
<1> QED BY <1>1, Invariance, PTL

-----------------------------------------------------------------------------
(* DriveSim implements DriveService: each action of a thread is an action  *)
(* of the service or leaves it unchanged.                                  *)

\* What the service knows of a request in progress: there is one exactly inside
\* a callback, and it has its answer exactly from the decision on.
ServiceInv ==
    /\ pc["main"] \in StartupCalls \cup {"poll"} => request = NoRequest /\ reply = NoReply
    /\ pc["main"] \in {"check_request", "read_failure", "lock", "copy_registers",
                       "check_torque"} => reply = NoReply
    /\ pc["main"] \in {"set_torque", "unlock", "reply"} => reply # NoReply

RefinementInv == IInv /\ RepliesInv /\ ServiceInv

(* An answer is never mistaken for none, nor a request.                    *)
LEMMA SomeReply ==
    ASSUME NEW error \in Errors, NEW registers
    PROVE  Reply(error, registers) # NoReply
<1>1. error # "none"
  BY DEF Errors, NMBS_ERROR_NONE, NMBS_EXCEPTION_ILLEGAL_DATA_ADDRESS,
         NMBS_EXCEPTION_ILLEGAL_DATA_VALUE
<1>2. Reply(error, registers).error = error /\ NoReply.error = "none"
  BY DEF Reply, NoReply
<1> QED BY <1>1, <1>2

(* The register map of the service is the one of DriveSim.                 *)
LEMMA SameRegisterMap ==
    /\ Service!ReadFunctions = ReadFunctions /\ Service!WriteFunctions = WriteFunctions
    /\ Service!NMBS_ERROR_NONE = NMBS_ERROR_NONE
    /\ Service!NMBS_EXCEPTION_ILLEGAL_DATA_VALUE = NMBS_EXCEPTION_ILLEGAL_DATA_VALUE
    /\ \A r : Service!RequestCheck(r) = RequestCheck(r)
    /\ \A i : Service!Int16(i) = Int16(i) /\ Service!Uint16(i) = Uint16(i)
    /\ \A i : Service!abs_double(i) = abs_double(i)
    /\ \A a, q : Service!EncodedParameters(a, q) = EncodedParameters(a, q)
<1>1. /\ Service!ReadFunctions = ReadFunctions /\ Service!WriteFunctions = WriteFunctions
      /\ Service!NMBS_ERROR_NONE = NMBS_ERROR_NONE
      /\ Service!NMBS_EXCEPTION_ILLEGAL_DATA_VALUE = NMBS_EXCEPTION_ILLEGAL_DATA_VALUE
  BY DEF ReadFunctions, Service!ReadFunctions, WriteFunctions, Service!WriteFunctions,
         NMBS_ERROR_NONE, Service!NMBS_ERROR_NONE, NMBS_EXCEPTION_ILLEGAL_DATA_VALUE,
         Service!NMBS_EXCEPTION_ILLEGAL_DATA_VALUE
<1>2. ASSUME NEW r PROVE Service!RequestCheck(r) = RequestCheck(r)
  BY DEF RequestCheck, expect_single_register, expect_input_registers, PARAM_COUNT,
         ACCELERATOR_SENSOR_FAILURE_ADDRESS, TORQUE_REGISTER_ADDRESS, NMBS_ERROR_NONE,
         NMBS_EXCEPTION_ILLEGAL_DATA_ADDRESS, NMBS_EXCEPTION_ILLEGAL_DATA_VALUE,
         Service!RequestCheck, Service!expect_single_register,
         Service!expect_input_registers, Service!PARAM_COUNT,
         Service!ACCELERATOR_SENSOR_FAILURE_ADDRESS, Service!TORQUE_REGISTER_ADDRESS,
         Service!NMBS_ERROR_NONE, Service!NMBS_EXCEPTION_ILLEGAL_DATA_ADDRESS,
         Service!NMBS_EXCEPTION_ILLEGAL_DATA_VALUE
<1>3. ASSUME NEW i
      PROVE  /\ Service!Int16(i) = Int16(i) /\ Service!Uint16(i) = Uint16(i)
             /\ Service!abs_double(i) = abs_double(i)
  BY DEF Int16, Uint16, abs_double, Service!Int16, Service!Uint16, Service!abs_double
<1>4. ASSUME NEW a, NEW q PROVE Service!EncodedParameters(a, q) = EncodedParameters(a, q)
  BY DEF EncodedParameters, encode_scaled, Uint16, Service!EncodedParameters,
         Service!encode_scaled, Service!Uint16
<1> QED BY <1>1, <1>2, <1>3, <1>4

(* So is the vehicle.                                                      *)
LEMMA SameVehicle ==
    /\ \A c, s : Service!NewSpeed(c, s) = NewSpeed(c, s)
    /\ \A o, n : Service!DistanceGain(o, n) = DistanceGain(o, n)
    /\ \A v, l, h : Service!clamp(v, l, h) = clamp(v, l, h)
<1> USE DEF VEHICLE_UPDATE_HZ, abs_double, sign_double, Quotient, MotorAtLimit, MotorTorque,
        TractiveForce, DragForce, OpposingForce, SpeedGain, NewSpeed, DistanceGain, clamp,
        Service!VEHICLE_UPDATE_HZ, Service!abs_double, Service!sign_double,
        Service!Quotient, Service!MotorAtLimit, Service!MotorTorque,
        Service!TractiveForce, Service!DragForce, Service!OpposingForce,
        Service!SpeedGain, Service!NewSpeed, Service!DistanceGain, Service!clamp
<1>1. ASSUME NEW c, NEW s PROVE Service!NewSpeed(c, s) = NewSpeed(c, s)
  OBVIOUS
<1>2. ASSUME NEW o, NEW n PROVE Service!DistanceGain(o, n) = DistanceGain(o, n)
  OBVIOUS
<1>3. ASSUME NEW v, NEW l, NEW h PROVE Service!clamp(v, l, h) = clamp(v, l, h)
  OBVIOUS
<1> QED BY <1>1, <1>2, <1>3

(* A request is never mistaken for none.                                   *)
LEMMA SomeRequest == \A r \in Requests : r # NoRequest
<1> SUFFICES ASSUME NEW r \in Requests PROVE r # NoRequest
  OBVIOUS
<1>1. r.function \in Functions
  BY DriveSimAssumption DEF RequestRecord
<1>2. r.function # "none" /\ NoRequest.function = "none"
  BY <1>1 DEF Functions, ReadFunctions, WriteFunctions, NoRequest
<1> QED BY <1>2

(* Every step keeps what the service knows.                                *)
LEMMA ServiceStep == IInv /\ ServiceInv /\ [Next]_vars => ServiceInv'
<1> SUFFICES ASSUME IInv /\ ServiceInv, [Next]_vars PROVE ServiceInv'
  OBVIOUS
<1> USE DEF IInv, ServiceInv, StartupCalls, At, GoTo, TypeOK, Threads, MainLabels
<1>1. CASE MtxInit
  BY <1>1 DEF MtxInit
<1>2. CASE ThrdCreate("simulation", "create_simulation", "detach_simulation")
  BY <1>2 DEF ThrdCreate
<1>3. CASE ThrdDetach("detach_simulation", "create_heartbeat")
  BY <1>3 DEF ThrdDetach
<1>4. CASE ThrdCreate("heartbeat", "create_heartbeat", "detach_heartbeat")
  BY <1>4 DEF ThrdCreate
<1>5. CASE ThrdDetach("detach_heartbeat", "poll")
  BY <1>5 DEF ThrdDetach
<1>6. CASE MtxDestroy
  BY <1>6 DEF MtxDestroy, mtx_destroy
<1>7. CASE Return
  BY <1>7 DEF Return
<1>8. CASE ServerReturns
  BY <1>8 DEF ServerReturns
<1>9. CASE \E r \in Requests : Receive(r)
  BY <1>9 DEF Receive
<1>10. CASE CheckRequest
  <2>1. RequestCheck(request) \in Errors
    BY <1>10, RequestCheckType DEF CheckRequest, CallbackInv
  <2> QED BY <1>10, <2>1, SomeReply DEF CheckRequest
<1>11. CASE ReadFailure
  BY <1>11, SomeReply DEF ReadFailure, Errors
<1>12. CASE MainLock
  BY <1>12 DEF MainLock, mtx_lock
<1>13. CASE CopyRegisters
  BY <1>13, SomeReply DEF CopyRegisters, Errors
<1>14. CASE RefuseTorque
  BY <1>14, SomeReply DEF RefuseTorque, Errors
<1>15. CASE AcceptTorque
  BY <1>15, SomeReply DEF AcceptTorque, Errors
<1>16. CASE SetTorque
  BY <1>16 DEF SetTorque
<1>17. CASE MainUnlock
  BY <1>17 DEF MainUnlock, mtx_unlock
<1>18. CASE SendReply
  BY <1>18 DEF SendReply
<1>19. CASE SimulationLock
  BY <1>19 DEF SimulationLock, mtx_lock
<1>20. CASE ComputeStep
  BY <1>20 DEF ComputeStep
<1>21. CASE StoreSpeed
  BY <1>21 DEF StoreSpeed
<1>22. CASE StoreDistance
  BY <1>22 DEF StoreDistance
<1>23. CASE SimulationUnlock
  BY <1>23 DEF SimulationUnlock, mtx_unlock
<1>24. CASE Wake("simulation")
  BY <1>24 DEF Wake
<1>25. CASE HeartbeatLock
  BY <1>25 DEF HeartbeatLock, mtx_lock
<1>26. CASE ReadSpeed
  BY <1>26 DEF ReadSpeed
<1>27. CASE HeartbeatUnlock
  BY <1>27 DEF HeartbeatUnlock, mtx_unlock
<1>28. CASE Wake("heartbeat")
  BY <1>28 DEF Wake
<1>29. CASE UNCHANGED vars
  BY <1>29 DEF vars
<1> QED BY <1>1, <1>2, <1>3, <1>4, <1>5, <1>6, <1>7, <1>8, <1>9, <1>10, <1>11, <1>12, <1>13, <1>14, <1>15, <1>16, <1>17, <1>18, <1>19, <1>20, <1>21, <1>22, <1>23, <1>24, <1>25, <1>26, <1>27, <1>28, <1>29
       DEF Next, Main, Startup, Callback, Simulation, Heartbeat, Returned

(* Every step of a thread is a step of the service or none.                *)
LEMMA StepRefines == RefinementInv /\ [Next]_vars => [Service!Next]_(Service!vars)
<1> SUFFICES ASSUME RefinementInv, [Next]_vars PROVE [Service!Next]_(Service!vars)
  OBVIOUS
<1> USE DEF RefinementInv, IInv, ServiceInv, StartupCalls, At, GoTo, TypeOK, Threads, MainLabels
<1>1. CASE MtxInit
  BY <1>1 DEF MtxInit, Service!vars, TorqueInEffect, DistanceInEffect
<1>2. CASE ThrdCreate("simulation", "create_simulation", "detach_simulation")
  BY <1>2 DEF ThrdCreate, StartupInv, Service!vars, TorqueInEffect, DistanceInEffect
<1>3. CASE ThrdDetach("detach_simulation", "create_heartbeat")
  BY <1>3 DEF ThrdDetach, Service!vars, TorqueInEffect, DistanceInEffect
<1>4. CASE ThrdCreate("heartbeat", "create_heartbeat", "detach_heartbeat")
  BY <1>4 DEF ThrdCreate, StartupInv, Service!vars, TorqueInEffect, DistanceInEffect
<1>5. CASE ThrdDetach("detach_heartbeat", "poll")
  BY <1>5 DEF ThrdDetach, Service!vars, TorqueInEffect, DistanceInEffect
<1>6. CASE MtxDestroy
  BY <1>6 DEF MtxDestroy, mtx_destroy, Service!vars, TorqueInEffect, DistanceInEffect
<1>7. CASE Return
  BY <1>7 DEF Return, Service!vars, TorqueInEffect, DistanceInEffect
<1>8. CASE ServerReturns
  BY <1>8 DEF ServerReturns, Service!vars, TorqueInEffect, DistanceInEffect
<1>9. CASE \E r \in Requests : Receive(r)
  BY <1>9 DEF Receive, CallbackInv, Service!Next, Service!Ask, Service!NoRequest, NoRequest,
        TorqueInEffect, DistanceInEffect
<1>10. CASE CheckRequest
  <2>1. Service!Answering
    BY <1>10, SomeRequest DEF CheckRequest, CallbackInv, Service!Answering, Service!NoRequest,
          Service!NoReply, NoRequest, NoReply
  <2>2. TorqueInEffect' = TorqueInEffect /\ DistanceInEffect' = DistanceInEffect
    BY <1>10 DEF CheckRequest, TorqueInEffect, DistanceInEffect
  <2>3. CASE RequestCheck(request) = NMBS_ERROR_NONE
    BY <1>10, <2>2, <2>3 DEF CheckRequest, Service!vars
  <2>4. CASE RequestCheck(request) # NMBS_ERROR_NONE
    BY <1>10, <2>1, <2>2, <2>4, SameRegisterMap DEF CheckRequest, Reply, Service!Next, Service!Answer, Service!Refuse
  <2> QED BY <2>3, <2>4
<1>11. CASE ReadFailure
  <2>1. Service!Answering
    BY <1>11, SomeRequest DEF ReadFailure, CallbackInv, Service!Answering, Service!NoRequest,
          Service!NoReply, NoRequest, NoReply
  <2>2. TorqueInEffect' = TorqueInEffect /\ DistanceInEffect' = DistanceInEffect
    BY <1>11 DEF ReadFailure, TorqueInEffect, DistanceInEffect
  <2>3. request.function = "read_discrete_inputs" /\ RequestCheck(request) = NMBS_ERROR_NONE
    BY <1>11 DEF ReadFailure, CallbackInv
  <2>4. Service!Read
    BY <1>11, <2>1, <2>2, <2>3, SameRegisterMap DEF ReadFailure, Reply, Service!Read, ReadFunctions
  <2> QED BY <1>11, <2>2, <2>4 DEF ReadFailure, Service!Next, Service!Answer
<1>12. CASE MainLock
  BY <1>12 DEF MainLock, mtx_lock, Service!vars, TorqueInEffect, DistanceInEffect
<1>13. CASE CopyRegisters
  <2>1. Service!Answering
    BY <1>13, SomeRequest DEF CopyRegisters, CallbackInv, Service!Answering, Service!NoRequest,
          Service!NoReply, NoRequest, NoReply
  <2>2. TorqueInEffect' = TorqueInEffect /\ DistanceInEffect' = DistanceInEffect
    BY <1>13 DEF CopyRegisters, TorqueInEffect, DistanceInEffect
  <2>3. /\ request.function \in ReadFunctions /\ request.function # "read_discrete_inputs"
        /\ RequestCheck(request) = NMBS_ERROR_NONE
    BY <1>13, DriveSimAssumption DEF CopyRegisters, CallbackInv, RequestRecord, Functions, IsWrite
  <2>4. TorqueInEffect = vehicle.commanded
    BY <1>13 DEF CopyRegisters, TorqueInEffect
  <2>5. reply'.registers = IF request.function = "read_holding_registers"
                           THEN <<Uint16(TorqueInEffect)>>
                           ELSE EncodedParameters(request.address, request.quantity)
    BY <1>13, <2>4 DEF CopyRegisters, Reply
  <2>6. Service!Read
    BY <1>13, <2>1, <2>2, <2>3, <2>5, SameRegisterMap DEF CopyRegisters, Reply, Service!Read
  <2> QED BY <1>13, <2>2, <2>6 DEF CopyRegisters, Service!Next, Service!Answer
<1>14. CASE RefuseTorque
  <2>1. Service!Answering
    BY <1>14, SomeRequest DEF RefuseTorque, CallbackInv, Service!Answering, Service!NoRequest,
          Service!NoReply, NoRequest, NoReply
  <2>2. /\ request.function \in WriteFunctions /\ request.value \in Word
        /\ RequestCheck(request) = NMBS_ERROR_NONE
    BY <1>14, DriveSimAssumption DEF RefuseTorque, CallbackInv, RequestRecord, IsWrite
  <2>3. Int16(request.value) \in Int /\ MotorMaxTorque \in Nat
    BY <2>2, WordTypes, VehicleParamsAssumption
  <2>4. abs_double(Int16(request.value)) > MotorMaxTorque
    BY <1>14, <2>3 DEF RefuseTorque, is_torque_command_valid, abs_double
  <2>5. TorqueInEffect' = TorqueInEffect /\ DistanceInEffect' = DistanceInEffect
    BY <1>14 DEF RefuseTorque, TorqueInEffect, DistanceInEffect
  <2>6. Service!Write
    BY <1>14, <2>1, <2>2, <2>4, <2>5, SameRegisterMap DEF RefuseTorque, Reply, Service!Write
  <2> QED BY <1>14, <2>5, <2>6 DEF RefuseTorque, Service!Next, Service!Answer
<1>15. CASE AcceptTorque
  <2>1. Service!Answering
    BY <1>15, SomeRequest DEF AcceptTorque, CallbackInv, Service!Answering, Service!NoRequest,
          Service!NoReply, NoRequest, NoReply
  <2>2. /\ request.function \in WriteFunctions /\ request.value \in Word
        /\ RequestCheck(request) = NMBS_ERROR_NONE
    BY <1>15, DriveSimAssumption DEF AcceptTorque, CallbackInv, RequestRecord, IsWrite
  <2>3. Int16(request.value) \in Int /\ MotorMaxTorque \in Nat
    BY <2>2, WordTypes, VehicleParamsAssumption
  <2>4. abs_double(Int16(request.value)) <= MotorMaxTorque
    BY <1>15, <2>3 DEF AcceptTorque, is_torque_command_valid, abs_double
  <2>5. TorqueInEffect' = Int16(request.value) /\ DistanceInEffect' = DistanceInEffect
    BY <1>15 DEF AcceptTorque, TorqueInEffect, DistanceInEffect
  <2>6. Service!Write
    BY <1>15, <2>1, <2>2, <2>4, <2>5, SameRegisterMap DEF AcceptTorque, Reply, Service!Write
  <2> QED BY <1>15, <2>5, <2>6 DEF AcceptTorque, Service!Next, Service!Answer
<1>16. CASE SetTorque
  <2>1. Int16(request.value) \in Int /\ is_torque_command_valid(Int16(request.value))
    BY <1>16, WordTypes, DriveSimAssumption DEF SetTorque, CallbackInv, RequestRecord, RepliesInv
  <2>2. /\ vehicle'.commanded = Int16(request.value)
        /\ vehicle'.speed = vehicle.speed /\ vehicle'.distance = vehicle.distance
    BY <1>16, <2>1, ValidTorqueKept, SetTorqueType DEF SetTorque
  <2> QED BY <1>16, <2>2 DEF SetTorque, Service!vars, TorqueInEffect, DistanceInEffect
<1>17. CASE MainUnlock
  BY <1>17 DEF MainUnlock, mtx_unlock, Service!vars, TorqueInEffect, DistanceInEffect
<1>18. CASE SendReply
  BY <1>18 DEF SendReply, Service!Next, Service!Done, Service!NoRequest, Service!NoReply,
        NoRequest, NoReply, TorqueInEffect, DistanceInEffect
<1>19. CASE SimulationLock
  BY <1>19 DEF SimulationLock, mtx_lock, Service!vars, TorqueInEffect, DistanceInEffect
<1>20. CASE ComputeStep
  BY <1>20 DEF ComputeStep, Service!vars, TorqueInEffect, DistanceInEffect
<1>21. CASE StoreSpeed
  <2>1. /\ step = [old |-> vehicle.speed, new |-> NewSpeed(vehicle.commanded, vehicle.speed)]
        /\ TorqueInEffect = vehicle.commanded
    BY <1>21 DEF StoreSpeed, StepIsCurrent, TorqueInEffect, LockDiscipline, InCriticalSection,
          StartupInv
  <2>2. /\ vehicle'.speed = NewSpeed(TorqueInEffect, vehicle.speed)
        /\ vehicle'.commanded = vehicle.commanded /\ vehicle'.distance = vehicle.distance
    BY <1>21, <2>1 DEF StoreSpeed, VehicleState
  <2>3. TorqueInEffect' = TorqueInEffect
    BY <1>21, <2>2 DEF StoreSpeed, TorqueInEffect
  <2>4. DistanceInEffect' =
          (DistanceInEffect + DistanceGain(vehicle.speed, vehicle'.speed)) % OdometerModulus
    BY <1>21, <2>1, <2>2 DEF StoreSpeed, DistanceInEffect, Odometer
  <2> QED BY <1>21, <2>2, <2>3, <2>4, SameVehicle DEF StoreSpeed, Service!Next, Service!Move
<1>22. CASE StoreDistance
  <2>1. /\ vehicle'.distance = DistanceInEffect
        /\ vehicle'.commanded = vehicle.commanded /\ vehicle'.speed = vehicle.speed
    BY <1>22 DEF StoreDistance, VehicleState, DistanceInEffect
  <2> QED BY <1>22, <2>1 DEF StoreDistance, Service!vars, TorqueInEffect, DistanceInEffect
<1>23. CASE SimulationUnlock
  BY <1>23 DEF SimulationUnlock, mtx_unlock, Service!vars, TorqueInEffect, DistanceInEffect
<1>24. CASE Wake("simulation")
  BY <1>24 DEF Wake, Service!vars, TorqueInEffect, DistanceInEffect
<1>25. CASE HeartbeatLock
  BY <1>25 DEF HeartbeatLock, mtx_lock, Service!vars, TorqueInEffect, DistanceInEffect
<1>26. CASE ReadSpeed
  BY <1>26 DEF ReadSpeed, Vehicle_get_speed, Service!Next, Service!Report,
        TorqueInEffect, DistanceInEffect
<1>27. CASE HeartbeatUnlock
  BY <1>27 DEF HeartbeatUnlock, mtx_unlock, Service!vars, TorqueInEffect, DistanceInEffect
<1>28. CASE Wake("heartbeat")
  BY <1>28 DEF Wake, Service!vars, TorqueInEffect, DistanceInEffect
<1>29. CASE UNCHANGED vars
  BY <1>29 DEF vars, Service!vars, TorqueInEffect, DistanceInEffect
<1> QED BY <1>1, <1>2, <1>3, <1>4, <1>5, <1>6, <1>7, <1>8, <1>9, <1>10, <1>11, <1>12, <1>13, <1>14, <1>15, <1>16, <1>17, <1>18, <1>19, <1>20, <1>21, <1>22, <1>23, <1>24, <1>25, <1>26, <1>27, <1>28, <1>29
       DEF Next, Main, Startup, Callback, Simulation, Heartbeat, Returned

(* DriveSim implements DriveService: whatever the vehicle, the register    *)
(* map, the requests and the startup failures, the threads together behave *)
(* as the service in which requests, steps and reports are atomic.         *)
THEOREM Refinement == Spec => ImplementsService
<1>1. Init => RefinementInv
  BY InitInv DEF RefinementInv, ServiceInv, Init, Threads, StartupCalls
<1>2. RefinementInv /\ [Next]_vars => RefinementInv'
  BY TypeStep, LockStep, StartupStep, CallbackStep, StepCurrentStep, RepliesStep,
     ServiceStep DEF RefinementInv, IInv
<1>3. Init => Service!Init
  <2> SUFFICES ASSUME Init PROVE Service!Init
    OBVIOUS
  <2>1. /\ TorqueInEffect = clamp(InitialTorque, -MotorMaxTorque, MotorMaxTorque)
        /\ vehicle.speed = 0 /\ DistanceInEffect = 0
    BY DEF Init, TorqueInEffect, DistanceInEffect, Vehicle_set_torque, Vehicle_init, Threads
  <2> QED BY <2>1, SameVehicle DEF Init, Service!Init, Service!NoRequest, Service!NoReply, NoRequest, NoReply
<1> QED BY <1>1, <1>2, <1>3, StepRefines, PTL DEF Spec, ImplementsService, Service!Spec
=============================================================================
