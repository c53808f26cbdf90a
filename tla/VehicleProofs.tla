--------------------------- MODULE VehicleProofs ---------------------------
(***************************************************************************)
(* Theorems of VehicleDynamics for every vehicle and every set of torque   *)
(* requests: types, symmetry, what it takes to get faster, that a vehicle  *)
(* without a motor slows down, and the bound on the speed.                 *)
(***************************************************************************)
EXTENDS VehicleDynamics, TLAPS

-----------------------------------------------------------------------------
(* The truncating quotient.                                                *)

(* A positive division is the multiple of the divisor next below.          *)
LEMMA DivBounds ==
    ASSUME NEW a \in Nat, NEW b \in Nat, b > 0
    PROVE  /\ a \div b \in Nat
           /\ b * (a \div b) <= a
           /\ a < b * (a \div b) + b
OBVIOUS

(* It grows with its dividend.                                             *)
LEMMA DivMonotone ==
    ASSUME NEW a \in Nat, NEW c \in Nat, NEW b \in Nat, b > 0, a <= c
    PROVE  a \div b <= c \div b
<1> DEFINE p == a \div b
           q == c \div b
<1>1. p \in Nat /\ q \in Nat /\ b * p <= a /\ c < b * q + b
  BY DivBounds
<1> HIDE DEF p, q
<1>2. SUFFICES ASSUME p > q PROVE FALSE
  BY <1>1 DEF p, q
<1>3. b * p >= b * q + b
  <2>1. p >= q + 1
    BY <1>1, <1>2
  <2>2. b * p >= b * (q + 1)
    BY <1>1, <2>1
  <2> QED BY <1>1, <2>2
<1> QED BY <1>1, <1>3

(* Quotient has the sign of its dividend, grows with it and is odd.        *)
LEMMA QuotientFacts ==
    ASSUME NEW a \in Int, NEW b \in Nat, b > 0
    PROVE  /\ Quotient(a, b) \in Int
           /\ a >= 0 => Quotient(a, b) >= 0
           /\ a <= 0 => Quotient(a, b) <= 0
           /\ Quotient(-a, b) = -Quotient(a, b)
           /\ \A c \in Int : a <= c => Quotient(a, b) <= Quotient(c, b)
<1>1. \A n \in Nat : n \div b \in Nat
  BY DivBounds
<1>2. 0 \div b = 0
  OBVIOUS
<1>3. ASSUME NEW c \in Int, a <= c PROVE Quotient(a, b) <= Quotient(c, b)
  <2>1. CASE a >= 0
    BY <1>3, <2>1, DivMonotone DEF Quotient
  <2>2. CASE a < 0 /\ c >= 0
    BY <1>1, <2>2 DEF Quotient
  <2>3. CASE c < 0
    <3>1. (-c) \div b <= (-a) \div b
      BY <1>3, <2>3, DivMonotone
    <3> QED BY <1>1, <1>3, <2>3, <3>1 DEF Quotient
  <2> QED BY <2>1, <2>2, <2>3
<1>4. Quotient(-a, b) = -Quotient(a, b)
  <2>1. CASE a > 0
    BY <1>1, <2>1 DEF Quotient
  <2>2. CASE a = 0
    BY <1>2, <2>2 DEF Quotient
  <2>3. CASE a < 0
    BY <1>1, <2>3 DEF Quotient
  <2> QED BY <2>1, <2>2, <2>3
<1> QED BY <1>1, <1>2, <1>3, <1>4 DEF Quotient

-----------------------------------------------------------------------------
(* Forward and reverse.                                                    *)

(* The quantities of a step are integers.                                  *)
LEMMA StepTypes ==
    ASSUME NEW c \in Int, NEW s \in Int
    PROVE  /\ MotorTorque(c, s) \in Int
           /\ TractiveForce(c, s) \in Int
           /\ DragForce(s) \in Int
           /\ \A t \in Int : OpposingForce(t, s) \in Int
           /\ SpeedGain(c, s) \in Int
           /\ NewSpeed(c, s) \in Int
<1> USE VehicleParamsAssumption
<1>1. MotorTorque(c, s) \in Int
  BY DEF MotorTorque
<1>2. TractiveForce(c, s) \in Int
  BY <1>1, QuotientFacts DEF TractiveForce
<1>3. DragForce(s) \in Int
  BY DEF DragForce, abs_double
<1>4. \A t \in Int : OpposingForce(t, s) \in Int
  BY <1>3 DEF OpposingForce, sign_double
<1>5. SpeedGain(c, s) \in Int
  <2>1. CASE Mass > 0
    <3>1. Mass * VEHICLE_UPDATE_HZ \in Nat /\ Mass * VEHICLE_UPDATE_HZ > 0
      BY <2>1 DEF VEHICLE_UPDATE_HZ
    <3> QED BY <1>2, <1>4, <2>1, <3>1, QuotientFacts DEF SpeedGain
  <2>2. CASE ~(Mass > 0)
    BY <2>2 DEF SpeedGain
  <2> QED BY <2>1, <2>2
<1>6. NewSpeed(c, s) \in Int
  BY <1>5 DEF NewSpeed
<1> QED BY <1>1, <1>2, <1>3, <1>4, <1>5, <1>6

(* The step of a vehicle written out as a record.                          *)
LEMMA StepRecord ==
    ASSUME NEW c, NEW s, NEW d
    PROVE  Vehicle_step_50hz([commanded |-> c, speed |-> s, distance |-> d])
             = [commanded |-> c, speed |-> NewSpeed(c, s), distance |-> d + (s + NewSpeed(c, s))]
<1> DEFINE n == NewSpeed(c, s)
           v == [commanded |-> c, speed |-> s, distance |-> d]
<1>1. v.commanded = c /\ v.speed = s /\ v.distance = d
  OBVIOUS
<1>2. Vehicle_step_50hz(v) = [v EXCEPT !.speed = n, !.distance = @ + (s + n)]
  BY <1>1 DEF Vehicle_step_50hz, DistanceGain
<1> HIDE DEF n
<1> QED BY <1>2 DEF n

(* Every quantity of a step of the mirrored vehicle is the mirrored one.   *)
LEMMA NewSpeedOdd ==
    ASSUME NEW c \in Int, NEW s \in Int
    PROVE  NewSpeed(-c, -s) = -NewSpeed(c, s)
<1> USE VehicleParamsAssumption
<1> DEFINE T == TractiveForce(c, s)
<1>1. abs_double(-s) = abs_double(s) /\ sign_double(-s) = -sign_double(s)
  BY DEF abs_double, sign_double
<1>2. MotorTorque(-c, -s) = -MotorTorque(c, s)
  BY <1>1 DEF MotorTorque, MotorAtLimit
<1>3. TractiveForce(-c, -s) = -T
  <2>1. MotorTorque(-c, -s) * GearRatio = -(MotorTorque(c, s) * GearRatio)
    <3>1. \A a, b \in Int : (-a) * b = -(a * b)
      OBVIOUS
    <3>2. MotorTorque(c, s) \in Int /\ GearRatio \in Int
      BY StepTypes
    <3> QED BY <1>2, <3>1, <3>2
  <2>2. MotorTorque(c, s) * GearRatio \in Int
    BY StepTypes
  <2> QED BY <2>1, <2>2, QuotientFacts DEF TractiveForce
<1>4. DragForce(-s) = -DragForce(s)
  <2>1. abs_double(s) \in Int
    BY DEF abs_double
  <2> QED BY <1>1, <2>1 DEF DragForce
<1>5. T \in Int /\ -T \in Int /\ DragForce(s) \in Int
  BY StepTypes
<1> HIDE DEF T
<1>6. OpposingForce(-T, -s) = -OpposingForce(T, s)
  <2>1. abs_double(-T) = abs_double(T) /\ sign_double(-T) = -sign_double(T)
    BY <1>5 DEF abs_double, sign_double
  <2>2. sign_double(s) \in Int /\ sign_double(T) \in Int
    BY DEF sign_double
  <2>3. RollingForce * sign_double(-s) = -(RollingForce * sign_double(s))
        /\ RollingForce * sign_double(-T) = -(RollingForce * sign_double(T))
    BY <1>1, <2>1, <2>2
  <2>4. RollingForce * sign_double(s) \in Int /\ RollingForce * sign_double(T) \in Int
    BY <2>2
  <2> QED BY <1>1, <1>4, <1>5, <2>1, <2>3, <2>4 DEF OpposingForce
<1>7. SpeedGain(-c, -s) = -SpeedGain(c, s)
  <2>1. OpposingForce(T, s) \in Int
    BY <1>5, StepTypes
  <2>2. (-T) - OpposingForce(-T, -s) = -(T - OpposingForce(T, s))
        /\ T - OpposingForce(T, s) \in Int
    BY <1>5, <1>6, <2>1
  <2>3. CASE Mass > 0
    <3>1. Mass * VEHICLE_UPDATE_HZ \in Nat /\ Mass * VEHICLE_UPDATE_HZ > 0
      BY <2>3 DEF VEHICLE_UPDATE_HZ
    <3>2. Quotient(-(T - OpposingForce(T, s)), Mass * VEHICLE_UPDATE_HZ)
            = -Quotient(T - OpposingForce(T, s), Mass * VEHICLE_UPDATE_HZ)
      BY <2>2, <3>1, QuotientFacts
    <3> QED BY <1>3, <2>2, <2>3, <3>2 DEF SpeedGain, T
  <2>4. CASE ~(Mass > 0)
    <3>1. SpeedGain(c, s) = 0 /\ SpeedGain(-c, -s) = 0
      BY <2>4 DEF SpeedGain
    <3> QED BY <3>1
  <2> QED BY <2>3, <2>4
<1>8. SpeedGain(c, s) \in Int
  BY StepTypes
<1> QED BY <1>7, <1>8 DEF NewSpeed

-----------------------------------------------------------------------------
(* The speed.                                                              *)

(* A vehicle going forward, or standing, gains at most MaxSpeedGain in a   *)
(* step, and nothing once its motor has cut out.                           *)
LEMMA ForwardGain ==
    ASSUME NEW c \in Int, NEW s \in Nat, abs_double(c) <= MotorMaxTorque,
           WheelRadius > 0, Mass > 0
    PROVE  /\ abs_double(NewSpeed(c, s)) <= s + MaxSpeedGain
           /\ MotorAtLimit(s) => abs_double(NewSpeed(c, s)) <= s
<1> USE VehicleParamsAssumption
<1> DEFINE T == TractiveForce(c, s)
           I == Mass * VEHICLE_UPDATE_HZ
           net == T - OpposingForce(T, s)
<1>1. I \in Nat /\ I > 0
  BY DEF VEHICLE_UPDATE_HZ
<1>2. T \in Int /\ DragForce(s) \in Int /\ OpposingForce(T, s) \in Int
  <2>1. s \in Int
    OBVIOUS
  <2>2. T \in Int /\ DragForce(s) \in Int /\ \A t \in Int : OpposingForce(t, s) \in Int
    BY <2>1, StepTypes
  <2> QED BY <2>2
<1>3. MaxTractiveForce \in Nat /\ T <= MaxTractiveForce /\ -MaxTractiveForce <= T
  <2>1. /\ MotorMaxTorque * GearRatio \in Nat
        /\ MotorTorque(c, s) \in Int /\ MotorTorque(c, s) * GearRatio \in Int
    BY DEF MotorTorque
  <2>2. /\ MotorTorque(c, s) * GearRatio <= MotorMaxTorque * GearRatio
        /\ -(MotorMaxTorque * GearRatio) <= MotorTorque(c, s) * GearRatio
    <3>1. -MotorMaxTorque <= MotorTorque(c, s) /\ MotorTorque(c, s) <= MotorMaxTorque
      BY DEF MotorTorque, abs_double
    <3> QED BY <2>1, <3>1
  <2>3. /\ Quotient(MotorMaxTorque * GearRatio, WheelRadius) \in Int
        /\ Quotient(MotorMaxTorque * GearRatio, WheelRadius) >= 0
        /\ Quotient(MotorTorque(c, s) * GearRatio, WheelRadius)
             <= Quotient(MotorMaxTorque * GearRatio, WheelRadius)
    BY <2>1, <2>2, QuotientFacts
  <2>4. -(MotorMaxTorque * GearRatio) \in Int
    BY <2>1
  <2>5. Quotient(-(MotorMaxTorque * GearRatio), WheelRadius)
          <= Quotient(MotorTorque(c, s) * GearRatio, WheelRadius)
    BY <2>1, <2>2, <2>4, QuotientFacts
  <2>6. Quotient(-(MotorMaxTorque * GearRatio), WheelRadius)
          = -Quotient(MotorMaxTorque * GearRatio, WheelRadius)
    BY <2>1, QuotientFacts
  <2> QED BY <2>3, <2>5, <2>6 DEF TractiveForce, MaxTractiveForce
<1>4. DragForce(s) >= 0 /\ (s = 0 => DragForce(s) = 0)
  BY DEF DragForce, abs_double
<1>5. MotorAtLimit(s) => T = 0
  <2>1. MotorAtLimit(s) => MotorTorque(c, s) * GearRatio = 0
    BY DEF MotorTorque
  <2>2. Quotient(0, WheelRadius) = 0
    BY DEF Quotient
  <2> QED BY <2>1, <2>2 DEF TractiveForce
<1> HIDE DEF T
<1>6. /\ net \in Int /\ net <= MaxTractiveForce
      /\ s = 0 => -MaxTractiveForce <= net
      /\ T = 0 => net <= 0
      /\ s = 0 /\ T = 0 => net = 0
  BY <1>2, <1>3, <1>4 DEF OpposingForce, sign_double, abs_double
<1>7. SpeedGain(c, s) = Quotient(net, I)
  BY DEF SpeedGain, T
<1> HIDE DEF I, net
<1>8. MaxSpeedGain \in Nat /\ Quotient(net, I) \in Int /\ Quotient(net, I) <= MaxSpeedGain
  <2>1. MaxSpeedGain = Quotient(MaxTractiveForce, I)
    BY DEF MaxSpeedGain, I
  <2>2. Quotient(MaxTractiveForce, I) \in Int /\ Quotient(MaxTractiveForce, I) >= 0
    BY <1>1, <1>3, QuotientFacts
  <2>3. Quotient(net, I) \in Int /\ Quotient(net, I) <= Quotient(MaxTractiveForce, I)
    BY <1>1, <1>3, <1>6, QuotientFacts
  <2> QED BY <2>1, <2>2, <2>3
<1>9. s = 0 => -MaxSpeedGain <= Quotient(net, I)
  <2>1. Quotient(-MaxTractiveForce, I) = -MaxSpeedGain /\ -MaxTractiveForce \in Int
    BY <1>1, <1>3, QuotientFacts DEF MaxSpeedGain, I
  <2> QED BY <1>1, <1>6, <2>1, QuotientFacts
<1>10. (T = 0 => Quotient(net, I) <= 0) /\ (s = 0 /\ T = 0 => Quotient(net, I) = 0)
  BY <1>1, <1>6, QuotientFacts
<1> QED BY <1>5, <1>7, <1>8, <1>9, <1>10 DEF NewSpeed, abs_double

(* The same in both directions.                                            *)
LEMMA Gain ==
    ASSUME NEW c \in Int, NEW s \in Int, abs_double(c) <= MotorMaxTorque,
           WheelRadius > 0, Mass > 0
    PROVE  /\ abs_double(NewSpeed(c, s)) <= abs_double(s) + MaxSpeedGain
           /\ MotorAtLimit(s) => abs_double(NewSpeed(c, s)) <= abs_double(s)
<1>1. CASE s >= 0
  BY <1>1, ForwardGain DEF abs_double
<1>2. CASE s < 0
  <2>1. -c \in Int /\ -s \in Nat /\ abs_double(-c) <= MotorMaxTorque
    BY <1>2 DEF abs_double
  <2>2. /\ abs_double(NewSpeed(-c, -s)) <= -s + MaxSpeedGain
        /\ MotorAtLimit(-s) => abs_double(NewSpeed(-c, -s)) <= -s
    BY <2>1, ForwardGain
  <2>3. NewSpeed(-c, -s) = -NewSpeed(c, s) /\ NewSpeed(c, s) \in Int
    BY NewSpeedOdd, StepTypes
  <2>4. abs_double(NewSpeed(-c, -s)) = abs_double(NewSpeed(c, s)) /\ abs_double(s) = -s
    BY <1>2, <2>3 DEF abs_double
  <2>5. MotorAtLimit(-s) <=> MotorAtLimit(s)
    BY DEF MotorAtLimit, abs_double
  <2> QED BY <2>2, <2>4, <2>5
<1> QED BY <1>1, <1>2

-----------------------------------------------------------------------------
(* What it takes to get faster.                                            *)

(* The pull of a vehicle that gets faster forward beats its rolling        *)
(* resistance, so its motor pulls forward and is below its limit.          *)
LEMMA FasterForward ==
    ASSUME NEW c \in Int, NEW s \in Nat, NewSpeed(c, s) > s
    PROVE  ~MotorAtLimit(s) /\ c > 0 /\ c * GearRatio > RollingForce * WheelRadius
<1> USE VehicleParamsAssumption
<1> DEFINE T == TractiveForce(c, s)
           I == Mass * VEHICLE_UPDATE_HZ
           net == T - OpposingForce(T, s)
<1>1. s \in Int /\ T \in Int /\ DragForce(s) \in Int /\ OpposingForce(T, s) \in Int
  <2>1. s \in Int
    OBVIOUS
  <2>2. T \in Int /\ DragForce(s) \in Int /\ \A t \in Int : OpposingForce(t, s) \in Int
    BY <2>1, StepTypes
  <2> QED BY <2>1, <2>2
<1>2. SpeedGain(c, s) \in Int /\ SpeedGain(c, s) > 0
  <2>1. SpeedGain(c, s) \in Int
    BY <1>1, StepTypes
  <2> QED BY <2>1 DEF NewSpeed
<1>3. Mass > 0 /\ I \in Nat /\ I > 0 /\ Quotient(net, I) > 0
  BY <1>2 DEF SpeedGain, VEHICLE_UPDATE_HZ
<1> HIDE DEF I
<1>4. net > 0
  <2>1. net \in Int
    BY <1>1
  <2>2. net <= 0 => Quotient(net, I) <= 0 /\ Quotient(net, I) \in Int
    BY <1>3, <2>1, QuotientFacts
  <2> QED BY <1>3, <2>1, <2>2
<1>5. DragForce(s) >= 0
  BY DEF DragForce, abs_double
<1> HIDE DEF T
<1>6. T > RollingForce
  BY <1>1, <1>4, <1>5 DEF OpposingForce, abs_double, sign_double
<1> DEFINE m == MotorTorque(c, s)
<1>7. WheelRadius > 0 /\ T = Quotient(m * GearRatio, WheelRadius)
  BY <1>6 DEF T, TractiveForce
<1>8. m \in Int /\ m * GearRatio \in Int
  BY <1>1, StepTypes
<1> HIDE DEF m
<1>9. m * GearRatio > 0
  <2>1. m * GearRatio <= 0 => T <= 0
    BY <1>7, <1>8, QuotientFacts
  <2> QED BY <1>1, <1>6, <1>8, <2>1
<1>10. m > 0
  <2>1. \A x \in Int : \A g \in Nat : x * g > 0 => x > 0
    OBVIOUS
  <2> QED BY <1>8, <1>9, <2>1
<1>11. ~MotorAtLimit(s) /\ m = c
  BY <1>10 DEF m, MotorTorque
<1>12. m * GearRatio > RollingForce * WheelRadius
  <2> DEFINE a == m * GearRatio
             q == a \div WheelRadius
  <2>1. a \in Nat /\ T = q
    BY <1>7, <1>8, <1>9 DEF Quotient
  <2>2. q \in Nat /\ WheelRadius * q <= a
    BY <1>7, <2>1, DivBounds
  <2> HIDE DEF a, q
  <2>3. q >= RollingForce + 1
    BY <1>6, <2>1, <2>2
  <2>4. WheelRadius * q >= WheelRadius * (RollingForce + 1)
    BY <1>7, <2>2, <2>3
  <2>5. WheelRadius * (RollingForce + 1) = RollingForce * WheelRadius + WheelRadius
        /\ RollingForce * WheelRadius \in Nat
    OBVIOUS
  <2> QED BY <1>7, <2>1, <2>2, <2>4, <2>5 DEF a
<1> QED BY <1>10, <1>11, <1>12

(* The same in both directions.                                            *)
LEMMA Faster ==
    ASSUME NEW c \in Int, NEW s \in Int, abs_double(NewSpeed(c, s)) > abs_double(s)
    PROVE  /\ ~MotorAtLimit(s)
           /\ c * NewSpeed(c, s) > 0
           /\ abs_double(c) * GearRatio > RollingForce * WheelRadius
<1> USE VehicleParamsAssumption
<1> DEFINE n == NewSpeed(c, s)
<1>1. n \in Int /\ NewSpeed(-c, -s) = -n
  BY StepTypes, NewSpeedOdd
<1>2. (s > 0 => n >= 0) /\ (s < 0 => n <= 0)
  <2>1. SpeedGain(c, s) \in Int
    BY StepTypes
  <2> QED BY <2>1 DEF NewSpeed
<1>3. \A x \in Int : \A y \in Int : (x > 0 /\ y > 0) \/ (x < 0 /\ y < 0) => x * y > 0
  OBVIOUS
<1> HIDE DEF n
<1>4. abs_double(n) > abs_double(s)
  BY DEF n
<1>5. CASE n > 0
  <2>1. s \in Nat /\ n > s
    BY <1>1, <1>2, <1>4, <1>5 DEF abs_double
  <2>2. ~MotorAtLimit(s) /\ c > 0 /\ c * GearRatio > RollingForce * WheelRadius
    BY <2>1, FasterForward DEF n
  <2> QED BY <1>1, <1>3, <1>5, <2>2 DEF abs_double, n
<1>6. CASE n < 0
  <2>1. -s \in Nat /\ -n > -s /\ -c \in Int
    BY <1>1, <1>2, <1>4, <1>6 DEF abs_double
  <2>2. ~MotorAtLimit(-s) /\ -c > 0 /\ (-c) * GearRatio > RollingForce * WheelRadius
    BY <1>1, <2>1, FasterForward
  <2>3. MotorAtLimit(-s) <=> MotorAtLimit(s)
    BY DEF MotorAtLimit, abs_double
  <2>4. c < 0 /\ abs_double(c) = -c
    BY <2>2 DEF abs_double
  <2> QED BY <1>1, <1>3, <1>6, <2>2, <2>3, <2>4 DEF n
<1> QED BY <1>1, <1>4, <1>5, <1>6 DEF abs_double

(* A vehicle that rolls forward without a motor loses speed, as long as    *)
(* the rolling resistance is worth a unit of speed in a step.              *)
LEMMA SlowerForward ==
    ASSUME NEW c \in Int, NEW s \in Nat, MotorTorque(c, s) = 0, s > MinSpeedEpsilon,
           Mass > 0, RollingForce >= Mass * VEHICLE_UPDATE_HZ
    PROVE  NewSpeed(c, s) >= 0 /\ NewSpeed(c, s) < s
<1> USE VehicleParamsAssumption
<1> DEFINE I == Mass * VEHICLE_UPDATE_HZ
           drag == DragForce(s)
<1>1. I \in Nat /\ I > 0 /\ RollingForce >= I
  BY DEF VEHICLE_UPDATE_HZ
<1>2. s > 0 /\ sign_double(s) = 1 /\ abs_double(s) = s
  BY DEF sign_double, abs_double
<1>3. drag \in Nat
  <2>1. drag = DragFactor * s * s
    BY <1>2 DEF DragForce
  <2> QED BY <2>1
<1>4. TractiveForce(c, s) = 0
  <2>1. CASE WheelRadius > 0
    <3>1. 0 * GearRatio = 0
      OBVIOUS
    <3>2. Quotient(0, WheelRadius) <= 0 /\ Quotient(0, WheelRadius) >= 0
          /\ Quotient(0, WheelRadius) \in Int
      BY <2>1, QuotientFacts
    <3> QED BY <2>1, <3>1, <3>2 DEF TractiveForce
  <2>2. CASE ~(WheelRadius > 0)
    BY <2>2 DEF TractiveForce
  <2> QED BY <2>1, <2>2
<1> HIDE DEF I, drag
<1>5. OpposingForce(0, s) = drag + RollingForce
  BY <1>2, <1>3 DEF OpposingForce, drag
<1>6. SpeedGain(c, s) = Quotient(-(drag + RollingForce), I)
  BY <1>3, <1>4, <1>5 DEF SpeedGain, I
<1>7. Quotient(-(drag + RollingForce), I) \in Int /\ Quotient(-(drag + RollingForce), I) < 0
  <2> DEFINE a == drag + RollingForce
             q == a \div I
  <2>1. a \in Nat /\ a >= I
    BY <1>1, <1>3
  <2>2. q \in Nat /\ a < I * q + I
    BY <1>1, <2>1, DivBounds
  <2> HIDE DEF a, q
  <2>3. q > 0
    <3>1. q = 0 => I * q = 0
      BY <1>1
    <3> QED BY <1>1, <2>1, <2>2, <3>1
  <2>4. Quotient(-a, I) = -q
    BY <1>1, <2>1 DEF Quotient, q
  <2> QED BY <2>2, <2>3, <2>4 DEF a
<1> QED BY <1>2, <1>6, <1>7 DEF NewSpeed

(* The same in both directions.                                            *)
LEMMA Slower ==
    ASSUME NEW c \in Int, NEW s \in Int, MotorTorque(c, s) = 0, abs_double(s) > MinSpeedEpsilon,
           Mass > 0, RollingForce >= Mass * VEHICLE_UPDATE_HZ
    PROVE  abs_double(NewSpeed(c, s)) < abs_double(s) /\ s * NewSpeed(c, s) >= 0
<1> USE VehicleParamsAssumption
<1> DEFINE n == NewSpeed(c, s)
<1>1. n \in Int /\ NewSpeed(-c, -s) = -n
  BY StepTypes, NewSpeedOdd
<1>2. \A x \in Nat : \A y \in Nat : x * y >= 0 /\ (-x) * (-y) >= 0
  OBVIOUS
<1> HIDE DEF n
<1>3. CASE s >= 0
  <2>1. n >= 0 /\ n < s
    BY <1>3, SlowerForward DEF abs_double, n
  <2> QED BY <1>1, <1>2, <1>3, <2>1 DEF abs_double, n
<1>4. CASE s < 0
  <2>1. -s \in Nat /\ -c \in Int /\ -s > MinSpeedEpsilon
    BY <1>4 DEF abs_double
  <2>2. MotorTorque(-c, -s) = 0
    <3>1. MotorAtLimit(-s) <=> MotorAtLimit(s)
      BY DEF MotorAtLimit, abs_double
    <3> QED BY <3>1 DEF MotorTorque
  <2>3. -n >= 0 /\ -n < -s
    BY <1>1, <2>1, <2>2, SlowerForward
  <2>4. -n \in Nat /\ s = -(-s) /\ n = -(-n)
    BY <1>1, <2>3
  <2>5. (-(-s)) * (-(-n)) >= 0
    BY <1>2, <2>1, <2>4
  <2> QED BY <1>1, <1>4, <2>3, <2>4, <2>5 DEF abs_double, n
<1> QED BY <1>3, <1>4

-----------------------------------------------------------------------------
(* The theorems.                                                           *)

\* The speed bound needs the bound on the torque, which is part of TypeOK.
SpeedInv == TypeOK /\ SpeedBounded

(* Every sequence of torque commands and steps keeps the types and the     *)
(* bound on the speed.                                                     *)
THEOREM SpeedInvariance == Spec => []SpeedInv
<1> USE VehicleParamsAssumption
<1>0. MaxSpeedGain \in Nat \/ ~(WheelRadius > 0 /\ Mass > 0)
  <2> SUFFICES ASSUME WheelRadius > 0, Mass > 0 PROVE MaxSpeedGain \in Nat
    OBVIOUS
  <2>1. Mass * VEHICLE_UPDATE_HZ \in Nat /\ Mass * VEHICLE_UPDATE_HZ > 0
    BY DEF VEHICLE_UPDATE_HZ
  <2>2. MaxTractiveForce \in Nat
    BY QuotientFacts DEF MaxTractiveForce
  <2> QED BY <2>1, <2>2, QuotientFacts DEF MaxSpeedGain
<1>1. Init => SpeedInv
  BY <1>0 DEF Init, Vehicle_init, SpeedInv, TypeOK, VehicleState, SpeedBounded, abs_double
<1>2. SpeedInv /\ [Next]_vehicle => SpeedInv'
  <2> SUFFICES ASSUME SpeedInv, [Next]_vehicle PROVE SpeedInv'
    OBVIOUS
  <2> USE DEF SpeedInv, TypeOK, VehicleState
  <2>1. CASE Step
    <3> DEFINE new == NewSpeed(vehicle.commanded, vehicle.speed)
    <3>1. new \in Int
      BY StepTypes
    <3> HIDE DEF new
    <3>2. TypeOK' /\ vehicle'.speed = new
      <4>1. vehicle' = [vehicle EXCEPT !.speed = new,
                                      !.distance = @ + DistanceGain(vehicle.speed, new)]
        BY <2>1 DEF Step, Vehicle_step_50hz, new
      <4>2. vehicle.distance + DistanceGain(vehicle.speed, new) \in Int
        BY <3>1 DEF DistanceGain
      <4> QED BY <3>1, <4>1, <4>2
    <3>3. SpeedBounded'
      <4> SUFFICES ASSUME WheelRadius > 0, Mass > 0, MotorMaxSpeed > 0
                   PROVE  abs_double(new) * GearRatio
                            <= MotorMaxSpeed * WheelRadius + MaxSpeedGain * GearRatio
        BY <3>2 DEF SpeedBounded
      <4> DEFINE a == abs_double(vehicle.speed)
                 b == abs_double(new)
      <4>1. a \in Nat /\ b \in Nat
        BY <3>1 DEF abs_double
      <4>2. b <= a + MaxSpeedGain /\ (MotorAtLimit(vehicle.speed) => b <= a)
        BY Gain DEF new
      <4>3. MotorAtLimit(vehicle.speed) <=> a * GearRatio >= MotorMaxSpeed * WheelRadius
        BY DEF MotorAtLimit
      <4>4. a * GearRatio <= MotorMaxSpeed * WheelRadius + MaxSpeedGain * GearRatio
        BY DEF SpeedBounded
      <4> HIDE DEF a, b
      <4>5. CASE MotorAtLimit(vehicle.speed)
        <5>1. b * GearRatio <= a * GearRatio
          BY <4>1, <4>2, <4>5
        <5> QED BY <1>0, <4>1, <4>4, <5>1 DEF b
      <4>6. CASE ~MotorAtLimit(vehicle.speed)
        <5>1. b * GearRatio <= (a + MaxSpeedGain) * GearRatio
          BY <1>0, <4>1, <4>2
        <5>2. (a + MaxSpeedGain) * GearRatio = a * GearRatio + MaxSpeedGain * GearRatio
          BY <1>0, <4>1
        <5>3. a * GearRatio < MotorMaxSpeed * WheelRadius
          BY <4>1, <4>3, <4>6
        <5> QED BY <1>0, <4>1, <5>1, <5>2, <5>3 DEF b
      <4> QED BY <4>5, <4>6
    <3> QED BY <3>2, <3>3
  <2>2. ASSUME NEW torque \in TorqueRequests, SetTorque(torque) PROVE SpeedInv'
    <3>1. torque \in Int
      BY DynamicsAssumption
    <3>2. clamp(torque, -MotorMaxTorque, MotorMaxTorque) \in Int
          /\ abs_double(clamp(torque, -MotorMaxTorque, MotorMaxTorque)) <= MotorMaxTorque
      BY <3>1 DEF clamp, abs_double
    <3>3. TypeOK' /\ vehicle'.speed = vehicle.speed
      BY <2>2, <3>2 DEF SetTorque, Vehicle_set_torque
    <3> QED BY <3>3 DEF SpeedBounded
  <2>3. CASE UNCHANGED vehicle
    BY <2>3 DEF SpeedBounded
  <2> QED BY <2>1, <2>2, <2>3 DEF Next
<1> QED BY <1>1, <1>2, PTL DEF Spec

(* The state stays a vehicle whose command the motor can deliver.          *)
THEOREM TypeCorrect == Spec => []TypeOK
BY SpeedInvariance, PTL DEF SpeedInv

(* Only a motor that is below its limit, pulls in the direction of travel  *)
(* and pulls harder than the rolling resistance makes the vehicle faster   *)
(* (Vehicle_step_50hz).                                                    *)
THEOREM MotorAccelerates == Spec => OnlyTheMotorAccelerates
<1> DEFINE Needs == abs_double(vehicle'.speed) > abs_double(vehicle.speed) =>
                        /\ ~MotorAtLimit(vehicle.speed)
                        /\ vehicle.commanded * vehicle'.speed > 0
                        /\ abs_double(vehicle.commanded) * GearRatio > RollingForce * WheelRadius
<1>1. SpeedInv /\ [Next]_vehicle => [Needs]_vehicle
  <2> SUFFICES ASSUME SpeedInv, [Next]_vehicle, vehicle' # vehicle,
                      abs_double(vehicle'.speed) > abs_double(vehicle.speed)
               PROVE  Needs
    OBVIOUS
  <2>1. vehicle \in VehicleState
    BY DEF SpeedInv, TypeOK
  <2>2. CASE Step
    <3>1. vehicle'.speed = NewSpeed(vehicle.commanded, vehicle.speed)
      BY <2>1, <2>2 DEF Step, Vehicle_step_50hz, VehicleState
    <3> QED BY <2>1, <3>1, Faster DEF VehicleState
  <2>3. ASSUME NEW torque \in TorqueRequests, SetTorque(torque) PROVE FALSE
    BY <2>1, <2>3 DEF SetTorque, Vehicle_set_torque, VehicleState, abs_double
  <2> QED BY <2>2, <2>3 DEF Next
<1>2. [][Next]_vehicle /\ []SpeedInv => [][Needs]_vehicle
  BY <1>1, PTL
<1> QED BY <1>2, SpeedInvariance, PTL DEF Spec, OnlyTheMotorAccelerates

(* A vehicle that nothing drives comes to a standstill and stays on its    *)
(* side of it (Vehicle_step_50hz).                                         *)
THEOREM CoastingStops == Spec => CoastingSlows
<1> DEFINE Slows == /\ Step /\ Coasting
                    /\ abs_double(vehicle.speed) > MinSpeedEpsilon
                    /\ RollingForce >= Mass * VEHICLE_UPDATE_HZ /\ Mass > 0
                    => /\ abs_double(vehicle'.speed) < abs_double(vehicle.speed)
                       /\ vehicle.speed * vehicle'.speed >= 0
<1>1. SpeedInv => Slows
  <2> SUFFICES ASSUME vehicle \in VehicleState, Step, Coasting,
                      abs_double(vehicle.speed) > MinSpeedEpsilon,
                      RollingForce >= Mass * VEHICLE_UPDATE_HZ, Mass > 0
               PROVE  /\ abs_double(vehicle'.speed) < abs_double(vehicle.speed)
                      /\ vehicle.speed * vehicle'.speed >= 0
    BY DEF SpeedInv, TypeOK
  <2>1. vehicle'.speed = NewSpeed(vehicle.commanded, vehicle.speed)
    BY DEF Step, Vehicle_step_50hz, VehicleState
  <2>2. MotorTorque(vehicle.commanded, vehicle.speed) = 0
    BY DEF Coasting
  <2> QED BY <2>1, <2>2, Slower DEF VehicleState
<1>2. []SpeedInv => [][Slows]_vehicle
  BY <1>1, PTL
<1> QED BY <1>2, SpeedInvariance, PTL DEF Spec, CoastingSlows

(* No sequence of commands drives the vehicle past the bound.              *)
THEOREM SpeedLimit == Spec => []SpeedBounded
BY SpeedInvariance, PTL DEF SpeedInv

(* In every reachable state the step is the same forward and in reverse.   *)
THEOREM Symmetry == Spec => []MirrorSymmetric
<1>1. SpeedInv => MirrorSymmetric
  <2> SUFFICES ASSUME vehicle \in VehicleState PROVE MirrorSymmetric
    BY DEF SpeedInv, TypeOK
  <2>1. NewSpeed(-vehicle.commanded, -vehicle.speed)
          = -NewSpeed(vehicle.commanded, vehicle.speed)
        /\ NewSpeed(vehicle.commanded, vehicle.speed) \in Int
    BY NewSpeedOdd, StepTypes DEF VehicleState
  <2> DEFINE c == vehicle.commanded
             s == vehicle.speed
             d == vehicle.distance
             n == NewSpeed(c, s)
  <2>2. c \in Int /\ s \in Int /\ d \in Int /\ n \in Int
        /\ vehicle = [commanded |-> c, speed |-> s, distance |-> d]
    BY <2>1 DEF VehicleState
  <2>3. Mirror(vehicle) = [commanded |-> -c, speed |-> -s, distance |-> -d]
    BY DEF Mirror
  <2>4. Vehicle_step_50hz(Mirror(vehicle)) =
          [commanded |-> -c, speed |-> -n, distance |-> (-d) + ((-s) + (-n))]
    BY <2>1, <2>3, StepRecord
  <2>5. Vehicle_step_50hz(vehicle) = [commanded |-> c, speed |-> n, distance |-> d + (s + n)]
    <3>1. Vehicle_step_50hz([commanded |-> c, speed |-> s, distance |-> d])
            = [commanded |-> c, speed |-> n, distance |-> d + (s + n)]
      BY StepRecord
    <3> HIDE DEF c, s, d, n
    <3> QED BY <2>2, <3>1
  <2>6. (-d) + ((-s) + (-n)) = -(d + (s + n))
    BY <2>2
  <2> HIDE DEF c, s, d, n
  <2> QED BY <2>4, <2>5, <2>6 DEF MirrorSymmetric, Mirror
<1> QED BY <1>1, SpeedInvariance, PTL
=============================================================================
