-------------------------- MODULE VehicleDynamics --------------------------
(***************************************************************************)
(* A Vehicle driven by arbitrary calls of its interface, in any order:     *)
(* Vehicle_set_torque with any requested torque and Vehicle_step_50hz.     *)
(* One thread; DriveSim.tla has the threads.                               *)
(***************************************************************************)
EXTENDS Vehicle

CONSTANTS
    TorqueRequests,     \* arguments of Vehicle_set_torque, legal or not
    MaxDistance         \* bound on the odometer, for TLC only

ASSUME DynamicsAssumption == TorqueRequests \subseteq Int /\ MaxDistance \in Nat

VARIABLE vehicle

Init == vehicle = Vehicle_init

SetTorque(torque) == vehicle' = Vehicle_set_torque(vehicle, torque)

Step ==
    /\ vehicle' = Vehicle_step_50hz(vehicle)
    /\ abs_double(vehicle'.distance) <= MaxDistance

Next == Step \/ \E torque \in TorqueRequests : SetTorque(torque)

Spec == Init /\ [][Next]_vehicle

-----------------------------------------------------------------------------
(* The state is a vehicle and the motor is never commanded past its        *)
(* torque, whatever Vehicle_set_torque was asked for.                      *)
TypeOK ==
    /\ vehicle \in VehicleState
    /\ abs_double(vehicle.commanded) <= MotorMaxTorque

MaxTractiveForce == Quotient(MotorMaxTorque * GearRatio, WheelRadius)

MaxSpeedGain == Quotient(MaxTractiveForce, Mass * VEHICLE_UPDATE_HZ)

(* No sequence of commands takes the vehicle faster than the speed at      *)
(* which the motor cuts out plus what one step of full torque adds, in     *)
(* either direction (the cut-out test of Vehicle_step_50hz looks at the    *)
(* speed before the step, so it can be overshot once).                     *)
SpeedBounded ==
    WheelRadius > 0 /\ Mass > 0 /\ MotorMaxSpeed > 0 =>
        abs_double(vehicle.speed) * GearRatio
            <= MotorMaxSpeed * WheelRadius + MaxSpeedGain * GearRatio

(* The model does not know forward from backward: stepping the mirror      *)
(* image of a vehicle gives the mirror image of its step.  The tests only  *)
(* ever drive forward.                                                     *)
Mirror(v) == [commanded |-> -v.commanded, speed |-> -v.speed, distance |-> -v.distance]

MirrorSymmetric ==
    Vehicle_step_50hz(Mirror(vehicle)) = Mirror(Vehicle_step_50hz(vehicle))

(* The vehicle only gets faster when the motor is below its limit, pulls   *)
(* in the direction of travel, and pulls harder than the rolling           *)
(* resistance: drag, rolling resistance and braking torque never speed it  *)
(* up, and a weak torque never starts it.                                  *)
OnlyTheMotorAccelerates ==
    [][abs_double(vehicle'.speed) > abs_double(vehicle.speed) =>
         /\ ~MotorAtLimit(vehicle.speed)
         /\ vehicle.commanded * vehicle'.speed > 0
         /\ abs_double(vehicle.commanded) * GearRatio > RollingForce * WheelRadius]_vehicle

(* A vehicle whose motor is off, by command or by its cut-out, loses speed *)
(* in every step until it stands and never rolls back past the standstill, *)
(* however large drag and rolling resistance are for its mass.             *)
Coasting == MotorTorque(vehicle.commanded, vehicle.speed) = 0

CoastingSlows ==
    [][/\ Step /\ Coasting
       /\ abs_double(vehicle.speed) > MinSpeedEpsilon
       /\ RollingForce >= Mass * VEHICLE_UPDATE_HZ /\ Mass > 0
       => /\ abs_double(vehicle'.speed) < abs_double(vehicle.speed)
          /\ vehicle.speed * vehicle'.speed >= 0]_vehicle

-----------------------------------------------------------------------------
(* For TLC, a vehicle with few speeds: the motor cuts out at 8 units,      *)
(* where drag alone would let it reach 19; full torque gains 5 units a     *)
(* step from rest, torque 40 does not overcome the rolling resistance, and *)
(* 250 is past the limit of the motor.                                     *)
MCTorqueRequests == {-250, -120, -40, 0, 40, 120, 250}
=============================================================================
