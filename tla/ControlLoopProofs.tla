------------------------- MODULE ControlLoopProofs -------------------------
(***************************************************************************)
(* Proofs about ControlLoop, for every gain, every line and every delay.   *)
(*                                                                         *)
(* The invariant says what the incremental form of the code adds up to:    *)
(* the value is never below what the gains make of the two last errors,    *)
(* and it is that, the integral and what the last loss left.               *)
(***************************************************************************)
EXTENDS ControlLoop, TLAPS

-----------------------------------------------------------------------------
(***************************************************************************)
(* Arithmetic.                                                             *)
(***************************************************************************)
LEMMA TimesType == ASSUME NEW a \in Int, NEW b \in Int PROVE a * b \in Int
  OBVIOUS

LEMMA TimesNat == ASSUME NEW a \in Nat, NEW b \in Nat PROVE a * b \in Nat
  OBVIOUS

LEMMA TimesMonotone ==
  ASSUME NEW a \in Nat, NEW b \in Int, NEW c \in Int, b <= c
  PROVE  a * b <= a * c
  <1>1. a * (c - b) \in Nat
    BY TimesNat
  <1>2. a * (c - b) = a * c - a * b
    OBVIOUS
  <1>3. a * b \in Int /\ a * c \in Int
    OBVIOUS
  <1> QED
    BY <1>1, <1>2, <1>3

LEMMA OneType == One \in Nat \ {0}
  <1>1. 2 * Unit \in Nat \ {0}
    BY LoopAssumption
  <1>2. \A a, b \in Nat \ {0} : a * b \in Nat \ {0}
    OBVIOUS
  <1> QED
    BY <1>1, <1>2, LoopAssumption DEF One

\* What a step adds is the change of Proportional and the integral.
LEMMA NewValueSum ==
  ASSUME NEW err \in Nat, TypeOK
  PROVE  /\ NewValue(err) \in Int
         /\ Ki * (err + LastError[1]) \in Nat
         /\ Proportional(LastError[1], LastError[2]) \in Int
         /\ Proportional(err, LastError[1]) \in Int
         /\ NewValue(err) = LastValue + Proportional(err, LastError[1])
                              - Proportional(LastError[1], LastError[2])
                              + Ki * (err + LastError[1])
  <1> DEFINE e1 == LastError[1]
             e2 == LastError[2]
  <1>1. e1 \in Nat /\ e2 \in Nat /\ LastValue \in Int
    BY DEF TypeOK
  <1>2. Kp \in Nat /\ Ki \in Nat /\ Kd \in Nat
    BY LoopAssumption
  <1>3. /\ Kp * err \in Int /\ Kp * e1 \in Int
        /\ Kd * err \in Int /\ Kd * e1 \in Int /\ Kd * e2 \in Int
        /\ Ki * (err + e1) \in Nat
    BY <1>1, <1>2, TimesType, TimesNat
  <1>4. 2 * Kp * (err - e1) = 2 * (Kp * err) - 2 * (Kp * e1)
    BY <1>1, <1>2
  <1>5. 2 * Kd * (err - 2 * e1 + e2) = 2 * (Kd * err) - 4 * (Kd * e1) + 2 * (Kd * e2)
    BY <1>1, <1>2
  <1>6. Proportional(err, e1) = 2 * (Kp * err) + 2 * (Kd * err) - 2 * (Kd * e1)
    BY <1>1, <1>2 DEF Proportional
  <1>7. Proportional(e1, e2) = 2 * (Kp * e1) + 2 * (Kd * e1) - 2 * (Kd * e2)
    BY <1>1, <1>2 DEF Proportional
  <1>8. NewValue(err) = LastValue + (2 * (Kp * err) - 2 * (Kp * e1)) + Ki * (err + e1)
                          + (2 * (Kd * err) - 4 * (Kd * e1) + 2 * (Kd * e2))
    BY <1>4, <1>5 DEF NewValue
  <1> HIDE DEF e1, e2
  <1>9. /\ NewValue(err) \in Int
        /\ Proportional(e1, e2) \in Int /\ Proportional(err, e1) \in Int
        /\ NewValue(err) = LastValue + Proportional(err, e1) - Proportional(e1, e2)
                             + Ki * (err + e1)
    BY <1>1, <1>3, <1>6, <1>7, <1>8
  <1> QED
    BY <1>3, <1>9 DEF e1, e2

-----------------------------------------------------------------------------
LEMMA TruncateType ==
  ASSUME NEW n \in Int, NEW d \in Nat \ {0} PROVE Truncate(n, d) \in Int
  BY DEF Truncate

LEMMA MotorsType ==
  ASSUME NEW line, NEW value \in Int
  PROVE  Motors(line, value) \in [0 .. 1 -> Int]
  <1>1. /\ One \in Nat \ {0} /\ GainUnit \in Nat \ {0} /\ DefaultSpeed \in Nat
        /\ DiffSteeringFactor \in Nat /\ AutoSpeedRange \in Nat
    BY OneType, LoopAssumption
  <1>2. One * GainUnit \in Nat \ {0}
    BY <1>1
  <1>3. /\ DefaultSpeed * (One - value) * DiffSteeringFactor \in Int
        /\ DefaultSpeed * One * GainUnit \in Int
    BY <1>1, TimesType
  <1>4. Slowed(value) \in Int
    <2>1. Lesser(DefaultSpeed * (One - value) * DiffSteeringFactor,
                 DefaultSpeed * One * GainUnit) \in Int
      BY <1>3 DEF Lesser
    <2> QED
      BY <1>2, <2>1, TruncateType DEF Slowed
  <1>5. \A m \in 0 .. 1 : Steered(line, value)[m] \in Int
    BY <1>1, <1>4 DEF Steered
  <1>6. \A m \in 0 .. 1 :
          Steered(line, value)[m] * One - AutoSpeedRange * value \in Int
    BY <1>1, <1>5, TimesType
  <1>7. \A m \in 0 .. 1 :
          Truncate(Steered(line, value)[m] * One - AutoSpeedRange * value, One) \in Int
    BY <1>1, <1>6, TruncateType
  <1> QED
    BY <1>5, <1>7 DEF Motors

LEMMA ServoType ==
  ASSUME NEW line, NEW value \in Int PROVE Servo(line, value) \in Int
  <1>1. /\ (ServoRight - ServoCtr) * value + ServoCtr * One \in Int
        /\ (ServoLeft - ServoCtr) * value + ServoCtr * One \in Int
        /\ ServoRight * One \in Int /\ ServoLeft * One \in Int
    BY LoopAssumption, OneType, TimesType
  <1> QED
    BY <1>1 DEF Servo, Lesser, Greater

LEMMA BiasType == ASSUME TypeOK PROVE 2 * Kd * LastError[2] \in Nat
  <1>1. 2 * Kd \in Nat /\ LastError[2] \in Nat
    BY LoopAssumption DEF TypeOK
  <1> QED
    BY <1>1, TimesNat

LEMMA TypeInit == Init => TypeOK
  <1> SUFFICES ASSUME Init PROVE TypeOK
    OBVIOUS
  <1>1. ServoDutyCycle \in Int
    BY OneType, LoopAssumption, TimesType DEF Init
  <1>2. LastError \in [1 .. 2 -> Nat]
    BY LoopAssumption DEF Init
  <1>3. MotorDutyCycle \in [0 .. 1 -> Int]
    <2>1. MotorDutyCycle = [m \in 0 .. 1 |-> StartSpeed] /\ StartSpeed \in Int
      BY LoopAssumption DEF Init
    <2> QED
      BY <2>1, Zenon
  <1>4. FramesSinceLastLine \in 0 .. FrameStraightDelay + 1 /\ lost \in 0 .. LostCap
    BY LoopAssumption DEF Init, LostCap
  <1>5. /\ side \in {"left", "right", "none"} /\ LastServoPos \in Int /\ LastValue \in Int
        /\ bias \in Nat
    <2>1. side = "none" /\ LastServoPos = 0 /\ LastValue = 0 /\ bias = 0
      BY DEF Init
    <2> QED
      BY <2>1
  <1>6. found \in BOOLEAN
    BY Zenon DEF Init
  <1> QED
    BY <1>1, <1>2, <1>3, <1>4, <1>5, <1>6, Zenon DEF TypeOK

LEMMA SteerType ==
  ASSUME TypeOK, NEW line \in {"left", "right"}, NEW err \in 0 .. Unit, Steer(line, err)
  PROVE  TypeOK'
  <1>1. NewValue(err) \in Int
    BY NewValueSum, LoopAssumption
  <1>2. /\ Servo(line, NewValue(err)) \in Int
        /\ Motors(line, NewValue(err)) \in [0 .. 1 -> Int]
    BY <1>1, ServoType, MotorsType
  <1>3. LastError' \in [1 .. 2 -> Nat]
    BY LoopAssumption DEF Steer, Shift, TypeOK
  <1>4. bias' \in Nat
    <2>1. Ki * (err + LastError[1]) \in Nat
      BY NewValueSum, LoopAssumption
    <2>2. (IF side = "none" THEN 2 * Kd * LastError[2] ELSE bias) \in Nat
      BY BiasType DEF TypeOK
    <2> QED
      BY <2>1, <2>2 DEF Steer
  <1>5. FramesSinceLastLine' \in 0 .. FrameStraightDelay + 1 /\ lost' \in 0 .. LostCap
    BY LoopAssumption DEF Steer, LostCap
  <1> QED
    BY <1>1, <1>2, <1>3, <1>4, <1>5 DEF TypeOK, Steer

LEMMA ForgetType ==
  ASSUME TypeOK, Forget
  PROVE  /\ side' = "none" /\ LastServoPos' \in Int /\ LastValue' \in Int
         /\ LastError' \in [1 .. 2 -> Nat] /\ MotorDutyCycle' \in [0 .. 1 -> Int]
         /\ found' \in BOOLEAN /\ lost' \in 0 .. LostCap /\ bias' \in Nat
  BY LoopAssumption DEF Forget, Shift, TypeOK, LostCap, Lesser

\* A step is a line of the track at some error, or a loss.
LEMMA SteerCases ==
  ASSUME SteerLeft \/ SteerRight
  PROVE  \E line \in {"left", "right"}, err \in 0 .. Unit : Steer(line, err)
  BY LoopAssumption DEF SteerLeft, SteerRight

LEMMA TypeStep == TypeOK /\ [Next]_vars => TypeOK'
  <1> SUFFICES ASSUME TypeOK, [Next]_vars PROVE TypeOK'
    OBVIOUS
  <1>1. CASE SteerLeft \/ SteerRight
    BY <1>1, SteerCases, SteerType
  <1>2. CASE HoldServo
    <2>1. FramesSinceLastLine' \in 0 .. FrameStraightDelay + 1
      BY <1>2, LoopAssumption DEF HoldServo, Waited, TypeOK
    <2>2. ServoDutyCycle' \in Int
      BY <1>2 DEF HoldServo, TypeOK
    <2> QED
      BY <1>2, <2>1, <2>2, ForgetType DEF HoldServo, TypeOK
  <1>3. CASE CentreServo
    <2>1. ServoDutyCycle' \in Int
      BY <1>3, OneType, LoopAssumption, TimesType DEF CentreServo
    <2> QED
      BY <1>3, <2>1, ForgetType DEF CentreServo, TypeOK
  <1>4. CASE UNCHANGED vars
    BY <1>4 DEF vars, state, outputs, history, TypeOK
  <1> QED
    BY <1>1, <1>2, <1>3, <1>4 DEF Next

-----------------------------------------------------------------------------
(***************************************************************************)
(* What the loop remembers.                                                *)
(***************************************************************************)
Floor == LastValue >= Proportional(LastError[1], LastError[2])

Memory ==
  /\ LastError[1] \in 0 .. Unit
  /\ side = "none" => LastValue = 0 /\ LastError[1] = 0
  /\ lost > 0 => side = "none"
  /\ lost >= 2 => LastError[2] = 0

Waiting == FramesSinceLastLine = Lesser(lost, FrameStraightDelay + 1)

LoopInv ==
  /\ TypeOK
  /\ Memory
  /\ Floor
  /\ ValueExact
  /\ Waiting
  /\ HeldThenStraight

\* With no error now, the derivative of the last pulls the floor below 0.
LEMMA FloorAfterLoss ==
  ASSUME NEW e \in Nat PROVE Proportional(0, e) <= 0
  <1>1. Kd * e \in Nat /\ Kp * 0 = 0
    BY LoopAssumption, TimesNat
  <1>2. Proportional(0, e) = -(2 * (Kd * e))
    BY LoopAssumption DEF Proportional
  <1> QED
    BY <1>1, <1>2

LEMMA LoopInit == Init => LoopInv
  <1> SUFFICES ASSUME Init PROVE LoopInv
    OBVIOUS
  <1>1. TypeOK
    BY TypeInit
  <1>2. Memory
    BY LoopAssumption DEF Init, Memory
  <1>3. Floor
    <2>1. LastValue = 0 /\ LastError[1] = 0 /\ LastError[2] \in Nat
      BY LoopAssumption DEF Init
    <2>2. Proportional(0, LastError[2]) <= 0
      BY <2>1, FloorAfterLoss
    <2> QED
      BY <2>1, <2>2 DEF Floor
  <1>4. ValueExact /\ Waiting /\ HeldThenStraight
    BY LoopAssumption DEF Init, ValueExact, Waiting, HeldThenStraight, Lesser
  <1> QED
    BY <1>1, <1>2, <1>3, <1>4 DEF LoopInv

LEMMA SteerInv ==
  ASSUME LoopInv, NEW line \in {"left", "right"}, NEW err \in 0 .. Unit, Steer(line, err)
  PROVE  LoopInv'
  <1>1. TypeOK /\ TypeOK' /\ err \in Nat
    BY SteerType, LoopAssumption DEF LoopInv
  <1>2. /\ LastError'[1] = err /\ LastError'[2] = LastError[1]
        /\ LastValue' = NewValue(err)
        /\ side' = line /\ lost' = 0 /\ FramesSinceLastLine' = 0
        /\ bias' = (IF side = "none" THEN 2 * Kd * LastError[2] ELSE bias)
                     + Ki * (err + LastError[1])
    BY DEF Steer, Shift
  <1>3. Memory'
    BY <1>2 DEF Memory
  <1> DEFINE new == Proportional(err, LastError[1])
             old == Proportional(LastError[1], LastError[2])
             sum == Ki * (err + LastError[1])
  <1>4. /\ NewValue(err) = LastValue + new - old + sum
        /\ sum \in Nat /\ new \in Int /\ old \in Int /\ LastValue \in Int
    BY <1>1, NewValueSum DEF TypeOK
  <1>5. Proportional(LastError[1], LastError[2])' = new
    BY <1>2 DEF Proportional
  <1>6. Floor'
    <2>1. LastValue >= old
      BY DEF LoopInv, Floor
    <2> HIDE DEF new, old, sum
    <2> QED
      BY <1>2, <1>4, <1>5, <2>1 DEF Floor
  <1>7. ValueExact'
    <2> SUFFICES LastValue' = new + bias'
      BY <1>5 DEF ValueExact
    <2>2. bias \in Nat /\ 2 * Kd * LastError[2] \in Nat
      BY <1>1, BiasType DEF TypeOK
    <2>3. CASE side = "none"
      <3>1. LastValue = 0 /\ LastError[1] = 0
        BY <2>3 DEF LoopInv, Memory
      <3>2. old = -(2 * Kd * LastError[2])
        BY <1>1, <3>1, LoopAssumption DEF Proportional, TypeOK
      <3>3. bias' = 2 * Kd * LastError[2] + sum
        BY <1>2, <2>3
      <3> HIDE DEF new, old, sum
      <3> QED
        BY <1>2, <1>4, <2>2, <3>1, <3>2, <3>3
    <2>4. CASE side # "none"
      <3>1. LastValue = old + bias
        BY <2>4 DEF LoopInv, ValueExact
      <3>2. bias' = bias + sum
        BY <1>2, <2>4
      <3> HIDE DEF new, old, sum
      <3> QED
        BY <1>2, <1>4, <2>2, <3>1, <3>2
    <2> QED
      BY <2>3, <2>4
  <1>8. Waiting' /\ HeldThenStraight'
    BY <1>2, LoopAssumption DEF Waiting, HeldThenStraight, Lesser
  <1> QED
    BY <1>1, <1>3, <1>6, <1>7, <1>8 DEF LoopInv

LEMMA ForgetInv ==
  ASSUME LoopInv, TypeOK', HoldServo \/ CentreServo
  PROVE  LoopInv'
  <1>1. /\ Forget
        /\ LastValue' = 0 /\ LastError'[1] = 0 /\ LastError'[2] = LastError[1]
        /\ side' = "none" /\ lost' = Lesser(lost + 1, LostCap)
        /\ LastServoPos' = LastServoPos
    BY DEF HoldServo, CentreServo, Forget, Shift
  <1>2. lost \in Nat /\ LastError[1] \in Nat /\ FramesSinceLastLine \in Nat
    BY LoopAssumption DEF LoopInv, TypeOK, LostCap
  <1>3. Memory'
    <2>1. lost' >= 2 => lost > 0
      BY <1>1, <1>2, LoopAssumption DEF Lesser, LostCap
    <2>2. lost > 0 => LastError[1] = 0
      BY DEF LoopInv, Memory
    <2> QED
      BY <1>1, <2>1, <2>2, LoopAssumption DEF Memory
  <1>4. Floor'
    <2>1. Proportional(LastError[1], LastError[2])' = Proportional(0, LastError[1])
      BY <1>1 DEF Proportional
    <2> QED
      BY <1>1, <1>2, <2>1, FloorAfterLoss DEF Floor
  <1>5. ValueExact'
    BY <1>1 DEF ValueExact
  <1>6. Waiting' /\ HeldThenStraight'
    <2>1. FramesSinceLastLine = Lesser(lost, FrameStraightDelay + 1)
      BY DEF LoopInv, Waiting
    <2>2. CASE HoldServo
      <3>1. /\ FramesSinceLastLine <= FrameStraightDelay
            /\ FramesSinceLastLine' = FramesSinceLastLine + 1
            /\ ServoDutyCycle' = LastServoPos
        BY <1>2, <2>2, LoopAssumption DEF HoldServo, Waited
      <3>2. FramesSinceLastLine = lost
        BY <1>2, <2>1, <3>1, LoopAssumption DEF Lesser
      <3>3. lost' = lost + 1 /\ lost' <= FrameStraightDelay + 1
        BY <1>1, <1>2, <3>1, <3>2, LoopAssumption DEF Lesser, LostCap
      <3> QED
        BY <1>1, <3>1, <3>2, <3>3 DEF Waiting, HeldThenStraight, Lesser
    <2>3. CASE CentreServo
      <3>1. /\ FramesSinceLastLine > FrameStraightDelay
            /\ FramesSinceLastLine' = FramesSinceLastLine
            /\ ServoDutyCycle' = ServoCtr * One
        BY <2>3 DEF CentreServo, Waited
      <3>2. FramesSinceLastLine = FrameStraightDelay + 1 /\ lost >= FrameStraightDelay + 1
        BY <1>2, <2>1, <3>1, LoopAssumption DEF Lesser
      <3>3. lost' = FrameStraightDelay + 2
        BY <1>1, <1>2, <3>2, LoopAssumption DEF Lesser, LostCap, LoopInv, TypeOK
      <3> QED
        BY <3>1, <3>2, <3>3, LoopAssumption DEF Waiting, HeldThenStraight, Lesser
    <2> QED
      BY <2>2, <2>3
  <1> QED
    BY <1>3, <1>4, <1>5, <1>6 DEF LoopInv

LEMMA LoopStep == LoopInv /\ [Next]_vars => LoopInv'
  <1> SUFFICES ASSUME LoopInv, [Next]_vars PROVE LoopInv'
    OBVIOUS
  <1>1. TypeOK'
    BY TypeStep DEF LoopInv
  <1>2. CASE SteerLeft \/ SteerRight
    BY <1>2, SteerCases, SteerInv
  <1>3. CASE HoldServo \/ CentreServo
    BY <1>1, <1>3, ForgetInv
  <1>4. CASE UNCHANGED vars
    BY <1>1, <1>4 DEF vars, state, outputs, history, LoopInv, Memory, Floor, ValueExact,
       Waiting, HeldThenStraight, Proportional
  <1> QED
    BY <1>2, <1>3, <1>4 DEF Next

-----------------------------------------------------------------------------
(***************************************************************************)
(* The range of the servo: a side's own end, or what Kd makes of the span  *)
(* of the other side.                                                      *)
(***************************************************************************)
InReach(position) ==
  Within(position,
         Greater(GainUnit * (ServoCtr - ServoLeft), Kd * (ServoRight - ServoCtr)),
         Greater(GainUnit * (ServoRight - ServoCtr), Kd * (ServoCtr - ServoLeft)))

RangeInv ==
  LoopInv /\ (found => InReach(ServoDutyCycle) /\ InReach(LastServoPos))

\* A value is never below -Kd, nor what it makes of a span.
LEMMA SpanBound ==
  ASSUME NEW a \in Nat, NEW v \in Int, v >= -(2 * (Kd * Unit))
  PROVE  /\ a * v \in Int
         /\ GainUnit * (a * v) >= -((Kd * a) * One)
  <1>1. Kd \in Nat /\ Unit \in Nat /\ GainUnit \in Nat
    BY LoopAssumption
  <1> DEFINE low == -(2 * (Kd * Unit))
  <1>2. low \in Int /\ GainUnit * a \in Nat
    BY <1>1, TimesType, TimesNat
  <1>3. (GainUnit * a) * low <= (GainUnit * a) * v
    BY <1>2, TimesMonotone
  <1>4. (GainUnit * a) * low = -((Kd * a) * One)
    BY <1>1 DEF One
  <1>5. (GainUnit * a) * v = GainUnit * (a * v) /\ a * v \in Int
    BY <1>1
  <1> QED
    BY <1>3, <1>4, <1>5

\* From the centre to a side: to its own end, or back by what v allows.
LEMMA Offset ==
  ASSUME NEW a \in Nat, NEW b \in Nat, NEW v \in Int, v >= -(2 * (Kd * Unit)),
         NEW off, off = Lesser(a * v, a * One)
  PROVE  /\ off \in Int
         /\ GainUnit * off <= Greater(GainUnit * a, Kd * b) * One
         /\ GainUnit * off >= -(Greater(GainUnit * b, Kd * a) * One)
  <1>1. /\ Kd \in Nat /\ GainUnit \in Nat /\ One \in Nat
        /\ Kd * a \in Nat /\ Kd * b \in Nat
        /\ GainUnit * a \in Nat /\ GainUnit * b \in Nat
    BY LoopAssumption, OneType, TimesNat
  <1> DEFINE up == Greater(GainUnit * a, Kd * b)
             down == Greater(GainUnit * b, Kd * a)
  <1>2. /\ up \in Nat /\ down \in Nat
        /\ GainUnit * a <= up /\ Kd * a <= down
    BY <1>1 DEF Greater
  <1> HIDE DEF up, down
  <1>3. /\ One * (GainUnit * a) <= One * up /\ One * (Kd * a) <= One * down
        /\ One * (GainUnit * a) \in Nat /\ One * (Kd * a) \in Nat
        /\ One * up \in Nat /\ One * down \in Nat
    BY <1>1, <1>2, TimesMonotone, TimesNat
  <1>4. /\ One * up = up * One /\ One * down = down * One
        /\ One * (Kd * a) = (Kd * a) * One
        /\ GainUnit * (a * One) = One * (GainUnit * a)
    BY <1>1, <1>2
  <1>5. a * v \in Int /\ a * One \in Nat
    BY <1>1, TimesType, TimesNat
  <1>6. GainUnit * (a * v) >= -((Kd * a) * One)
    BY SpanBound
  <1>7. off \in Int /\ off <= a * One /\ (off = a * v \/ off = a * One)
    BY <1>5 DEF Lesser
  <1>8. GainUnit * off <= GainUnit * (a * One)
    BY <1>1, <1>5, <1>7, TimesMonotone
  <1>9. GainUnit * off \in Int /\ GainUnit * (a * v) \in Int
    BY <1>1, <1>5, <1>7, TimesType
  <1>10. GainUnit * off <= up * One
    BY <1>3, <1>4, <1>8, <1>9
  <1>11. GainUnit * off >= -(down * One)
    BY <1>3, <1>4, <1>6, <1>7, <1>9
  <1> QED
    BY <1>7, <1>10, <1>11 DEF up, down

LEMMA SteersInReach ==
  ASSUME NEW line \in {"left", "right"}, NEW v \in Int, v >= -(2 * (Kd * Unit))
  PROVE  InReach(Servo(line, v))
  <1> DEFINE right == ServoRight - ServoCtr
             left == ServoCtr - ServoLeft
             up == Greater(GainUnit * right, Kd * left)
             down == Greater(GainUnit * left, Kd * right)
             s == Servo(line, v)
  <1>1. /\ right \in Nat /\ left \in Nat /\ One \in Nat /\ ServoCtr \in Nat
        /\ GainUnit \in Nat
    BY LoopAssumption, OneType
  <1>2. /\ right * v \in Int /\ left * v \in Int /\ ServoCtr * One \in Int
        /\ right * One \in Nat /\ left * One \in Nat
    BY <1>1, TimesType, TimesNat
  <1>3. /\ ServoRight * One = ServoCtr * One + right * One
        /\ ServoLeft * One = ServoCtr * One - left * One
        /\ (ServoLeft - ServoCtr) * v = -(left * v)
    BY <1>1, LoopAssumption
  <1>4. up * One \in Int /\ down * One \in Int
    <2>1. up \in Int /\ down \in Int
      BY <1>1, LoopAssumption, TimesType DEF Greater
    <2> QED
      BY <1>1, <2>1, TimesType
  <1>5. InReach(s) <=> GainUnit * (s - ServoCtr * One) \in -(down * One) .. up * One
    BY DEF InReach, Within
  <1>6. CASE line = "left"
    <2> DEFINE off == Lesser(right * v, right * One)
    <2>1. s = Lesser(right * v + ServoCtr * One, ServoRight * One)
      BY <1>6 DEF Servo
    <2>2. /\ off \in Int
          /\ GainUnit * off <= up * One
          /\ GainUnit * off >= -(down * One)
      BY <1>1, Offset
    <2> HIDE DEF right, left, up, down, s
    <2>3. s - ServoCtr * One = off
      BY <1>2, <1>3, <2>1 DEF Lesser
    <2> HIDE DEF off
    <2>4. GainUnit * off \in Int
      BY <1>1, <2>2, TimesType
    <2> QED
      BY <1>4, <1>5, <2>2, <2>3, <2>4 DEF s
  <1>7. CASE line = "right"
    <2> DEFINE off == Lesser(left * v, left * One)
    <2>1. s = Greater(-(left * v) + ServoCtr * One, ServoLeft * One)
      BY <1>3, <1>7 DEF Servo
    <2>2. /\ off \in Int
          /\ GainUnit * off <= down * One
          /\ GainUnit * off >= -(up * One)
      BY <1>1, Offset
    <2> HIDE DEF right, left, up, down, s
    <2>3. s - ServoCtr * One = -off
      BY <1>2, <1>3, <2>1 DEF Lesser, Greater
    <2> HIDE DEF off
    <2>4. GainUnit * off \in Int /\ GainUnit * (-off) = -(GainUnit * off)
      BY <1>1, <2>2, TimesType
    <2> QED
      BY <1>4, <1>5, <2>2, <2>3, <2>4 DEF s
  <1> QED
    BY <1>6, <1>7

\* The centre is in reach.
LEMMA CentreInReach == InReach(ServoCtr * One)
  <1>1. One \in Nat /\ ServoCtr \in Nat /\ GainUnit \in Nat /\ Kd \in Nat
        /\ ServoCtr - ServoLeft \in Nat /\ ServoRight - ServoCtr \in Nat
    BY OneType, LoopAssumption
  <1> DEFINE up == Greater(GainUnit * (ServoRight - ServoCtr), Kd * (ServoCtr - ServoLeft))
             down == Greater(GainUnit * (ServoCtr - ServoLeft), Kd * (ServoRight - ServoCtr))
  <1>2. up \in Nat /\ down \in Nat
    BY <1>1, TimesNat DEF Greater
  <1>3. up * One \in Nat /\ down * One \in Nat
    BY <1>1, <1>2, TimesNat
  <1>4. ServoCtr * One \in Int
    BY <1>1, TimesType
  <1>5. GainUnit * (ServoCtr * One - ServoCtr * One) = 0
    BY <1>1, <1>4
  <1> HIDE DEF up, down
  <1>6. 0 \in -(down * One) .. up * One
    BY <1>3
  <1> QED
    BY <1>5, <1>6 DEF InReach, Within, up, down

LEMMA NewValueFloor ==
  ASSUME LoopInv, LoopInv', NEW line, NEW err \in 0 .. Unit, Steer(line, err)
  PROVE  /\ NewValue(err) \in Int
         /\ NewValue(err) >= Proportional(err, LastError[1])
         /\ NewValue(err) >= -(2 * (Kd * Unit))
  <1>1. /\ LastValue' = NewValue(err)
        /\ LastError'[1] = err /\ LastError'[2] = LastError[1]
    BY DEF Steer, Shift
  <1>2. NewValue(err) \in Int /\ NewValue(err) >= Proportional(err, LastError[1])
    BY <1>1 DEF LoopInv, Floor, Proportional, TypeOK
  <1>3. LastError[1] \in 0 .. Unit
    BY DEF LoopInv, Memory
  <1>4. Proportional(err, LastError[1]) >= -(2 * (Kd * Unit))
    <2>1. /\ Kp \in Nat /\ Kd \in Nat /\ Unit \in Nat /\ err \in Nat
          /\ LastError[1] \in Nat /\ LastError[1] <= Unit
      BY <1>3, LoopAssumption
    <2>2. Kp * err \in Nat /\ Kd * err \in Nat
      BY <2>1, TimesNat
    <2>3. Kd * LastError[1] <= Kd * Unit
      BY <2>1, TimesMonotone
    <2>4. Proportional(err, LastError[1])
            = 2 * (Kp * err) + 2 * (Kd * err) - 2 * (Kd * LastError[1])
      BY <2>1 DEF Proportional
    <2>5. Kd * LastError[1] \in Int /\ Kd * Unit \in Int
      BY <2>1, TimesType
    <2> QED
      BY <2>2, <2>3, <2>4, <2>5
  <1>5. Proportional(err, LastError[1]) \in Int /\ Kd * Unit \in Int
    BY NewValueSum, LoopAssumption, TimesType DEF LoopInv
  <1> QED
    BY <1>2, <1>4, <1>5

LEMMA RangeStep == RangeInv /\ [Next]_vars => RangeInv'
  <1> SUFFICES ASSUME RangeInv, [Next]_vars PROVE RangeInv'
    OBVIOUS
  <1>1. LoopInv /\ LoopInv'
    BY LoopStep DEF RangeInv
  <1> USE DEF InReach, Within, One
  <1>2. CASE SteerLeft \/ SteerRight
    <2>1. PICK line \in {"left", "right"}, err \in 0 .. Unit : Steer(line, err)
      BY <1>2, SteerCases
    <2>2. /\ ServoDutyCycle' = Servo(line, NewValue(err))
          /\ LastServoPos' = Servo(line, NewValue(err))
      BY <2>1 DEF Steer
    <2>3. InReach(Servo(line, NewValue(err)))
      BY <1>1, <2>1, NewValueFloor, SteersInReach
    <2>4. InReach(ServoDutyCycle)' /\ InReach(LastServoPos)'
      BY <2>2, <2>3
    <2> QED
      BY <1>1, <2>4 DEF RangeInv
  <1>3. CASE HoldServo \/ CentreServo
    <2>1. /\ found' = found /\ LastServoPos' = LastServoPos
          /\ ServoDutyCycle' = LastServoPos \/ ServoDutyCycle' = ServoCtr * One
      BY <1>3 DEF HoldServo, CentreServo, Forget
    <2>2. found => InReach(ServoDutyCycle)' /\ InReach(LastServoPos)'
      BY <2>1, CentreInReach DEF RangeInv
    <2> QED
      BY <1>1, <2>1, <2>2 DEF RangeInv
  <1>4. CASE UNCHANGED vars
    BY <1>1, <1>4 DEF vars, state, outputs, history, RangeInv
  <1> QED
    BY <1>2, <1>3, <1>4 DEF Next

-----------------------------------------------------------------------------
(***************************************************************************)
(* The motors.                                                             *)
(***************************************************************************)
LEMMA DivisionBounds ==
  ASSUME NEW n \in Nat, NEW d \in Nat \ {0}
  PROVE  n \div d \in Nat /\ d * (n \div d) <= n /\ n < d * (n \div d) + d
  OBVIOUS

LEMMA DivisionMonotone ==
  ASSUME NEW a \in Nat, NEW b \in Nat, a <= b, NEW d \in Nat \ {0}
  PROVE  a \div d <= b \div d
  <1> DEFINE p == a \div d
             q == b \div d
  <1>1. /\ p \in Nat /\ d * p <= a
        /\ q \in Nat /\ b < d * q + d
    BY DivisionBounds
  <1> HIDE DEF p, q
  <1>2. SUFFICES ASSUME q + 1 <= p PROVE FALSE
    BY <1>1 DEF p, q
  <1>3. d * (q + 1) <= d * p
    BY <1>1, <1>2, TimesMonotone
  <1>4. d * (q + 1) = d * q + d
    BY <1>1
  <1>5. d * q \in Nat /\ d * p \in Nat
    BY <1>1, TimesNat
  <1> QED
    BY <1>1, <1>3, <1>4, <1>5

LEMMA TruncateMonotone ==
  ASSUME NEW a \in Int, NEW b \in Int, a <= b, NEW d \in Nat \ {0}
  PROVE  Truncate(a, d) <= Truncate(b, d)
  <1>1. CASE a >= 0
    BY <1>1, DivisionMonotone DEF Truncate
  <1>2. CASE a < 0 /\ b >= 0
    <2>1. (-a) \div d \in Nat /\ b \div d \in Nat
      BY <1>2, DivisionBounds
    <2> QED
      BY <1>2, <2>1 DEF Truncate
  <1>3. CASE b < 0
    <2>1. (-b) \div d \in Nat /\ (-a) \div d \in Nat /\ (-b) \div d <= (-a) \div d
      BY <1>3, DivisionBounds, DivisionMonotone
    <2> QED
      BY <1>3, <2>1 DEF Truncate
  <1> QED
    BY <1>1, <1>2, <1>3

LEMMA WholeQuotient ==
  ASSUME NEW k \in Nat, NEW d \in Nat \ {0}
  PROVE  (k * d) \div d = k
  <1> DEFINE q == (k * d) \div d
  <1>1. k * d \in Nat /\ k * d = d * k
    BY TimesNat
  <1>2. q \in Nat /\ d * q <= k * d /\ k * d < d * q + d
    BY <1>1, DivisionBounds
  <1> HIDE DEF q
  <1>3. q <= k
    <2> SUFFICES ASSUME k + 1 <= q PROVE FALSE
      BY <1>2
    <2>1. d * (k + 1) <= d * q /\ d * (k + 1) = d * k + d
      BY <1>2, TimesMonotone
    <2>2. d * k \in Nat /\ d * q \in Nat
      BY <1>2, TimesNat
    <2> QED
      BY <1>1, <1>2, <2>1, <2>2
  <1>4. k <= q
    <2> SUFFICES ASSUME q + 1 <= k PROVE FALSE
      BY <1>2
    <2>1. d * (q + 1) <= d * k /\ d * (q + 1) = d * q + d
      BY <1>2, TimesMonotone
    <2>2. d * k \in Nat /\ d * q \in Nat
      BY <1>2, TimesNat
    <2> QED
      BY <1>1, <1>2, <2>1, <2>2
  <1>5. q = k
    BY <1>2, <1>3, <1>4
  <1> QED
    BY <1>5 DEF q

\* What is truncated is at most the speed.
LEMMA SlowedBound ==
  ASSUME NEW value \in Int
  PROVE  Slowed(value) \in Int /\ Slowed(value) <= DefaultSpeed
  <1> DEFINE d == One * GainUnit
             n == Lesser(DefaultSpeed * (One - value) * DiffSteeringFactor,
                         DefaultSpeed * One * GainUnit)
  <1>1. One \in Nat \ {0} /\ GainUnit \in Nat \ {0} /\ DefaultSpeed \in Nat
    BY OneType, LoopAssumption
  <1>2. d \in Nat \ {0}
    BY <1>1
  <1>3. /\ DefaultSpeed * (One - value) * DiffSteeringFactor \in Int
        /\ DefaultSpeed * One * GainUnit \in Nat
        /\ DefaultSpeed * One * GainUnit = d * DefaultSpeed
    BY <1>1, LoopAssumption, TimesType, TimesNat
  <1>4. n \in Int /\ n <= d * DefaultSpeed
    BY <1>3 DEF Lesser
  <1>5. Slowed(value) = Truncate(n, d)
    BY DEF Slowed
  <1> HIDE DEF d, n
  <1>6. d * DefaultSpeed \in Nat
    BY <1>1, <1>2, TimesNat
  <1>7. Truncate(n, d) <= Truncate(d * DefaultSpeed, d)
    BY <1>2, <1>4, <1>6, TruncateMonotone
  <1>8. Truncate(d * DefaultSpeed, d) = DefaultSpeed
    <2>1. (DefaultSpeed * d) \div d = DefaultSpeed
      BY <1>1, <1>2, WholeQuotient
    <2>2. DefaultSpeed * d = d * DefaultSpeed
      BY <1>1, <1>2
    <2> QED
      BY <1>6, <2>1, <2>2 DEF Truncate
  <1>9. Truncate(n, d) \in Int
    BY <1>2, <1>4, TruncateType
  <1> QED
    BY <1>5, <1>7, <1>8, <1>9

LEMMA InsideBound ==
  ASSUME NEW line, NEW value \in Int, NEW m \in 0 .. 1, NEW o \in 0 .. 1,
         m = Inside(line), o # m
  PROVE  Motors(line, value)[m] <= Motors(line, value)[o]
  <1>1. One \in Nat \ {0} /\ DefaultSpeed \in Nat /\ AutoSpeedRange \in Nat
    BY OneType, LoopAssumption
  <1>2. Slowed(value) \in Int /\ Slowed(value) <= DefaultSpeed
    BY SlowedBound
  <1> DEFINE inner == Steered(line, value)[m]
             outer == Steered(line, value)[o]
  <1>3. inner \in Int /\ outer \in Int /\ inner <= outer
    BY <1>1, <1>2 DEF Steered
  <1>4. /\ Motors(line, value)[m] =
             IF AutoSpeedControl THEN Truncate(inner * One - AutoSpeedRange * value, One)
             ELSE inner
        /\ Motors(line, value)[o] =
             IF AutoSpeedControl THEN Truncate(outer * One - AutoSpeedRange * value, One)
             ELSE outer
    BY DEF Motors
  <1> HIDE DEF inner, outer
  <1>5. One * inner <= One * outer
    BY <1>1, <1>3, TimesMonotone
  <1>6. /\ inner * One \in Int /\ outer * One \in Int /\ AutoSpeedRange * value \in Int
        /\ inner * One = One * inner /\ outer * One = One * outer
    BY <1>1, <1>3, TimesType
  <1>7. Truncate(inner * One - AutoSpeedRange * value, One)
          <= Truncate(outer * One - AutoSpeedRange * value, One)
    BY <1>1, <1>5, <1>6, TruncateMonotone
  <1> QED
    BY <1>3, <1>4, <1>7

\* A value below 0 and a factor of 1 or more slow nothing.
LEMMA NotSlowed ==
  ASSUME NEW value \in Int, value < 0, GainUnit <= DiffSteeringFactor
  PROVE  Slowed(value) = DefaultSpeed
  <1> DEFINE d == One * GainUnit
             n == DefaultSpeed * (One - value) * DiffSteeringFactor
  <1>1. /\ One \in Nat \ {0} /\ GainUnit \in Nat \ {0} /\ DefaultSpeed \in Nat
        /\ DiffSteeringFactor \in Nat
    BY OneType, LoopAssumption
  <1>2. One * GainUnit <= (One - value) * DiffSteeringFactor
    <2>1. One * GainUnit <= One * DiffSteeringFactor
      BY <1>1, TimesMonotone
    <2>2. DiffSteeringFactor * One <= DiffSteeringFactor * (One - value)
      BY <1>1, TimesMonotone
    <2>3. /\ DiffSteeringFactor * One = One * DiffSteeringFactor
          /\ DiffSteeringFactor * (One - value) = (One - value) * DiffSteeringFactor
          /\ One * GainUnit \in Int /\ One * DiffSteeringFactor \in Int
          /\ (One - value) * DiffSteeringFactor \in Int
      BY <1>1, TimesType
    <2> QED
      BY <2>1, <2>2, <2>3
  <1>3. d \in Nat \ {0} /\ (One - value) * DiffSteeringFactor \in Int
    BY <1>1, TimesType
  <1>4. DefaultSpeed * d <= DefaultSpeed * ((One - value) * DiffSteeringFactor)
    BY <1>1, <1>2, <1>3, TimesMonotone
  <1>5. /\ n = DefaultSpeed * ((One - value) * DiffSteeringFactor)
        /\ DefaultSpeed * One * GainUnit = DefaultSpeed * d
        /\ DefaultSpeed * d \in Nat /\ n \in Int
    BY <1>1, <1>3, TimesType, TimesNat
  <1>6. Slowed(value) = Truncate(Lesser(n, DefaultSpeed * One * GainUnit), d)
    BY DEF Slowed
  <1> HIDE DEF d, n
  <1>7. Slowed(value) = (DefaultSpeed * d) \div d
    BY <1>4, <1>5, <1>6 DEF Lesser, Truncate
  <1>8. (DefaultSpeed * d) \div d = DefaultSpeed
    BY <1>1, <1>3, WholeQuotient
  <1> QED
    BY <1>7, <1>8

\* Then both motors turn alike.
LEMMA BothAlike ==
  ASSUME NEW line, NEW value \in Int, value < 0, GainUnit <= DiffSteeringFactor
  PROVE  Motors(line, value)[0] = Motors(line, value)[1]
  <1>1. \A m \in 0 .. 1 : Steered(line, value)[m] = DefaultSpeed
    BY NotSlowed DEF Steered
  <1> QED
    BY <1>1 DEF Motors

\* A value below 0 comes from an error that fell.
LEMMA FellBelow ==
  ASSUME NEW err \in Nat, NEW last \in Nat, Proportional(err, last) < 0
  PROVE  err < last
  <1>1. Kp \in Nat /\ Kd \in Nat
    BY LoopAssumption
  <1> SUFFICES ASSUME last <= err PROVE FALSE
    OBVIOUS
  <1>2. Kp * err \in Nat /\ Kd * (err - last) \in Nat
    BY <1>1, TimesNat
  <1>3. Proportional(err, last) = 2 * (Kp * err) + 2 * (Kd * (err - last))
    BY <1>1 DEF Proportional
  <1> QED
    BY <1>2, <1>3

\* Which way the car turns.
LEMMA TurnsTo ==
  ASSUME NEW value \in Int
  PROVE  /\ Servo("left", value) > ServoCtr * One => value > 0
         /\ Servo("left", value) < ServoCtr * One => value < 0
         /\ Servo("right", value) > ServoCtr * One => value < 0
         /\ Servo("right", value) < ServoCtr * One => value > 0
  <1> DEFINE right == ServoRight - ServoCtr
             left == ServoCtr - ServoLeft
  <1>1. right \in Nat /\ left \in Nat /\ One \in Nat /\ ServoCtr \in Nat
    BY LoopAssumption, OneType
  <1>2. /\ right * value \in Int /\ left * value \in Int /\ ServoCtr * One \in Int
        /\ right * One \in Nat /\ left * One \in Nat
    BY <1>1, TimesType, TimesNat
  <1>3. /\ ServoRight * One = ServoCtr * One + right * One
        /\ ServoLeft * One = ServoCtr * One - left * One
        /\ (ServoLeft - ServoCtr) * value = -(left * value)
    BY <1>1, LoopAssumption
  <1>4. /\ Servo("left", value) = Lesser(right * value + ServoCtr * One, ServoRight * One)
        /\ Servo("right", value) = Greater(-(left * value) + ServoCtr * One, ServoLeft * One)
    BY <1>3 DEF Servo
  <1>5. /\ value >= 0 => right * value >= 0 /\ left * value >= 0
        /\ value <= 0 => right * value <= 0 /\ left * value <= 0
    <2>1. \A a \in Nat : /\ value >= 0 => a * 0 <= a * value
                         /\ value <= 0 => a * value <= a * 0
      BY TimesMonotone
    <2>2. right * 0 = 0 /\ left * 0 = 0
      BY <1>1
    <2> QED
      BY <1>1, <2>1, <2>2
  <1> HIDE DEF right, left
  <1> QED
    BY <1>2, <1>3, <1>4, <1>5 DEF Lesser, Greater

LEMMA WheelsStep ==
  LoopInv /\ LoopInv' /\ InnerWheelSlower /\ [Next]_vars => InnerWheelSlower'
  <1> SUFFICES ASSUME LoopInv, LoopInv', InnerWheelSlower, [Next]_vars
               PROVE InnerWheelSlower'
    OBVIOUS
  <1>1. CASE SteerLeft \/ SteerRight
    <2>1. PICK line \in {"left", "right"}, err \in 0 .. Unit : Steer(line, err)
      BY <1>1, SteerCases
    <2> DEFINE v == NewValue(err)
               wheels == Motors(line, v)
    <2>2. v \in Int /\ v >= Proportional(err, LastError[1])
      BY <2>1, NewValueFloor
    <2>3. /\ MotorDutyCycle' = wheels /\ side' = line
          /\ ServoDutyCycle' = Servo(line, v)
          /\ LastError'[1] = err /\ LastError'[2] = LastError[1]
      BY <2>1 DEF Steer, Shift
    <2>4. err \in Nat /\ LastError[1] \in Nat /\ Proportional(err, LastError[1]) \in Int
      BY LoopAssumption, NewValueSum DEF LoopInv, TypeOK
    <2>5. v < 0 => err < LastError[1]
      <3>1. v < 0 => Proportional(err, LastError[1]) < 0
        BY <2>2, <2>4
      <3> QED
        BY <2>4, <3>1, FellBelow
    <2>6. /\ line = "left" => wheels[0] <= wheels[1]
          /\ line = "right" => wheels[1] <= wheels[0]
      BY <2>2, InsideBound DEF Inside
    <2>7. /\ wheels[0] \in Int /\ wheels[1] \in Int
          /\ v < 0 /\ GainUnit <= DiffSteeringFactor => wheels[0] = wheels[1]
      BY <2>2, MotorsType, BothAlike
    <2>8. /\ line = "left" =>
               /\ Servo(line, v) > ServoCtr * One => v > 0
               /\ Servo(line, v) < ServoCtr * One => v < 0
          /\ line = "right" =>
               /\ Servo(line, v) > ServoCtr * One => v < 0
               /\ Servo(line, v) < ServoCtr * One => v > 0
      BY <2>2, TurnsTo
    <2> HIDE DEF v, wheels
    <2>9. GainUnit \in Nat /\ DiffSteeringFactor \in Nat
      BY LoopAssumption
    <2>10. v < 0 /\ ~Receding' => wheels[0] = wheels[1]
      BY <2>3, <2>5, <2>7, <2>9 DEF Receding
    <2>11. ~Receding' =>
             /\ Servo(line, v) > ServoCtr * One => wheels[0] <= wheels[1]
             /\ Servo(line, v) < ServoCtr * One => wheels[1] <= wheels[0]
      BY <2>6, <2>7, <2>8, <2>10
    <2> QED
      BY <2>3, <2>11 DEF InnerWheelSlower, One
  <1>2. CASE HoldServo \/ CentreServo
    BY <1>2 DEF HoldServo, CentreServo, Forget, InnerWheelSlower
  <1>3. CASE UNCHANGED vars
    BY <1>3 DEF vars, state, outputs, InnerWheelSlower, Receding, One
  <1> QED
    BY <1>1, <1>2, <1>3 DEF Next

-----------------------------------------------------------------------------
(***************************************************************************)
(* The loop's variables keep their types, for every gain and delay.        *)
(***************************************************************************)
THEOREM TypeCorrect == Spec => []TypeOK
  BY TypeInit, TypeStep, PTL DEF Spec

(***************************************************************************)
(* The value is made of the two last errors, the integral and what the     *)
(* last loss left (control_loop.c:91-93).                                  *)
(***************************************************************************)
THEOREM ValueOfErrors == Spec => []ValueExact
  <1>1. LoopInv => ValueExact
    BY DEF LoopInv
  <1> QED
    BY <1>1, LoopInit, LoopStep, PTL DEF Spec

(***************************************************************************)
(* Two lost lines in a row clear the loop (control_loop.c:151-153).        *)
(***************************************************************************)
THEOREM LossClears == Spec => []LossForgotten
  <1>1. LoopInv => LossForgotten
    BY LoopAssumption DEF LoopInv, Memory, LossForgotten, TypeOK, LostCap
  <1> QED
    BY <1>1, LoopInit, LoopStep, PTL DEF Spec

(***************************************************************************)
(* The servo waits FrameStraightDelay + 1 lost lines, then goes straight   *)
(* (control_loop.c:142-148).                                               *)
(***************************************************************************)
THEOREM HoldsThenStraight == Spec => []HeldThenStraight
  <1>1. LoopInv => HeldThenStraight
    BY DEF LoopInv
  <1> QED
    BY <1>1, LoopInit, LoopStep, PTL DEF Spec

(***************************************************************************)
(* Whatever the gains and whatever was in the memory behind LastError, the *)
(* servo passes the end of a side only if Kd times the span of the other   *)
(* side is more, and never by more than that (control_loop.c:91-104).      *)
(***************************************************************************)
THEOREM ServoOvershoot == Spec => []OvershootBounded
  <1>1. Init => RangeInv
    BY LoopInit DEF RangeInv, Init
  <1>2. RangeInv => OvershootBounded
    BY DEF RangeInv, OvershootBounded, InReach
  <1>3. RangeInv /\ [Next]_vars => RangeInv'
    BY RangeStep
  <1> QED
    BY <1>1, <1>2, <1>3, PTL DEF Spec

(***************************************************************************)
(* Whatever the gains, the factor and the automatic speed, the wheel on    *)
(* the inside of the turn is not the faster one, unless the factor is      *)
(* below 1 and the line has just moved away (control_loop.c:118-134).      *)
(***************************************************************************)
THEOREM InnerWheelNotFaster == Spec => []InnerWheelSlower
  <1>1. Init => InnerWheelSlower
    BY DEF Init, InnerWheelSlower
  <1>2. Init => LoopInv
    BY LoopInit
  <1> QED
    BY <1>1, <1>2, LoopStep, WheelsStep, PTL DEF Spec
=============================================================================
