------------------------------ MODULE Vehicle ------------------------------
(***************************************************************************)
(* The electric-vehicle model of src/Vehicle.c: the operations on a        *)
(* Vehicle, as operators on its record.  The parameters of the vehicle     *)
(* never change after Vehicle_init, so they are constants.                 *)
(*                                                                         *)
(* The code computes in double; here every quantity is an integer number   *)
(* of small units (of speed, torque, force, half a speed unit per step of  *)
(* distance), chosen so that a force of Mass * VEHICLE_UPDATE_HZ changes   *)
(* the speed by one unit in one step.  A division truncates toward zero,   *)
(* as symmetric about zero as the rounding of the doubles.                 *)
(***************************************************************************)
EXTENDS Integers

CONSTANTS
    Mass,               \* mass_kg
    RollingForce,       \* rolling_resistance_coefficient * mass_kg * gravity
    DragFactor,         \* 0.5 * air_density * drag_coefficient * frontal_area
    MotorMaxSpeed,      \* motor_max_speed_rad_per_sec
    MotorMaxTorque,     \* motor_max_torque_nm
    GearRatio,          \* gear_ratio
    WheelRadius,        \* wheel_radius_m
    MinSpeedEpsilon     \* min_speed_epsilon: at most this fast is standing

ASSUME VehicleParamsAssumption ==
    /\ Mass \in Nat /\ RollingForce \in Nat /\ DragFactor \in Nat
    /\ MotorMaxSpeed \in Nat /\ MotorMaxTorque \in Nat
    /\ GearRatio \in Nat /\ WheelRadius \in Nat /\ MinSpeedEpsilon \in Nat

VEHICLE_UPDATE_HZ == 50

VehicleState == [commanded : Int, speed : Int, distance : Int]

clamp(value, min, max) ==
    IF value < min THEN min ELSE IF value > max THEN max ELSE value

abs_double(value) == IF value < 0 THEN -value ELSE value

sign_double(value) == IF value > 0 THEN 1 ELSE IF value < 0 THEN -1 ELSE 0

\* Division of an integer by a positive one, truncated toward zero.
Quotient(a, b) == IF a >= 0 THEN a \div b ELSE -((-a) \div b)

Vehicle_init == [commanded |-> 0, speed |-> 0, distance |-> 0]

Vehicle_set_torque(vehicle, torque) ==
    [vehicle EXCEPT !.commanded = clamp(torque, -MotorMaxTorque, MotorMaxTorque)]

Vehicle_get_speed(vehicle) == vehicle.speed

-----------------------------------------------------------------------------
(* Vehicle_step_50hz, quantity by quantity.                                *)

\* Mutant: the cut-out looks at forward speed only.
MotorAtForwardLimit(speed) == speed * GearRatio >= MotorMaxSpeed * WheelRadius

\* |motor_angular_speed| >= motor_max_speed, cleared of its division.
MotorAtLimit(speed) ==
    IF WheelRadius > 0
    THEN abs_double(speed) * GearRatio >= MotorMaxSpeed * WheelRadius
    ELSE MotorMaxSpeed = 0

\* Mutant: the motor is never cut out.
MotorTorqueUncut(commanded, speed) == commanded

MotorTorque(commanded, speed) == IF MotorAtLimit(speed) THEN 0 ELSE commanded

TractiveForce(commanded, speed) ==
    IF WheelRadius > 0
    THEN Quotient(MotorTorque(commanded, speed) * GearRatio, WheelRadius)
    ELSE 0

DragForce(speed) == DragFactor * speed * abs_double(speed)

\* Mutant: rolling resistance opposes a pull it outweighs with all its force.
OpposingForceWithoutSticking(tractive, speed) ==
    IF abs_double(speed) > MinSpeedEpsilon
    THEN DragForce(speed) + RollingForce * sign_double(speed)
    ELSE DragForce(speed) + RollingForce * sign_double(tractive)

OpposingForce(tractive, speed) ==
    IF abs_double(speed) > MinSpeedEpsilon
    THEN DragForce(speed) + RollingForce * sign_double(speed)
    ELSE IF abs_double(tractive) <= RollingForce
         THEN tractive
         ELSE DragForce(speed) + RollingForce * sign_double(tractive)

\* acceleration * dt
SpeedGain(commanded, speed) ==
    LET tractive == TractiveForce(commanded, speed)
        net      == tractive - OpposingForce(tractive, speed)
    IN  IF Mass > 0 THEN Quotient(net, Mass * VEHICLE_UPDATE_HZ) ELSE 0

\* Mutant: a step may jump over the standstill.
NewSpeedThroughZero(commanded, speed) == speed + SpeedGain(commanded, speed)

NewSpeed(commanded, speed) ==
    LET new == speed + SpeedGain(commanded, speed)
    IN  IF (speed > 0 /\ new < 0) \/ (speed < 0 /\ new > 0) THEN 0 ELSE new

\* 0.5 * (old_speed + new_speed) * dt, in the unit of distance.
DistanceGain(old, new) == old + new

Vehicle_step_50hz(vehicle) ==
    LET new == NewSpeed(vehicle.commanded, vehicle.speed)
    IN  [vehicle EXCEPT !.speed = new,
                        !.distance = @ + DistanceGain(vehicle.speed, new)]
=============================================================================
