SPECIFICATION Spec
CONSTANTS
    Mass = 2
    RollingForce = 300
    DragFactor = 1
    MotorMaxSpeed = 32
    MotorMaxTorque = 200
    GearRatio = 4
    WheelRadius = 1
    MinSpeedEpsilon = 1
    TorqueRequests <- MCTorqueRequests
    MaxDistance = 100
INVARIANTS
    SpeedBounded
    MirrorSymmetric
PROPERTIES
    OnlyTheMotorAccelerates
    CoastingSlows
