SPECIFICATION WeaklyFairSpec
CONSTANTS
    Mass = 1
    RollingForce = 50
    DragFactor = 0
    MotorMaxSpeed = 200
    MotorMaxTorque = 2
    GearRatio = 100
    WheelRadius = 1
    MinSpeedEpsilon = 0
    WordSize = 8
    Parameters <- MCParameters
    InitialTorque = 1
    Requests <- MCRequests
    FailingCalls <- AllFail
    OdometerModulus = 2
INVARIANTS
    NoDataRace
    LockDiscipline
    StepIsCurrent
    RepliesTrue
PROPERTIES
    LockReleased
