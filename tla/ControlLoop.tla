---------------------------- MODULE ControlLoop ----------------------------
(***************************************************************************)
(* ControlLoopCalc (control_loop.c): from where the line is to the duty    *)
(* cycles of the servo and the two motors, and what it keeps from one      *)
(* camera line to the next.                                                *)
(*                                                                         *)
(* The floats are integers in fixed units.  An error is a number of        *)
(* pixels, of Unit to a line; a gain is in 1/GainUnit; a value and a duty  *)
(* cycle are in 1/One.  The rounding of the floats is not modelled.        *)
(***************************************************************************)
EXTENDS Integers

CONSTANTS
  Unit, GainUnit,
  LeftErrors, RightErrors,     \* the errors that occur of each line, in pixels
  Kp, Ki, Kd,                  \* the gains, in 1/GainUnit
  ServoLeft, ServoCtr, ServoRight,   \* SERVO_MAX_LEFT, _CTR, _MAX_RIGHT
  StartSpeed, DefaultSpeed,
  FrameStraightDelay,
  DiffSteering, DiffSteeringFactor,  \* the factor in 1/GainUnit
  AutoSpeedControl, AutoSpeedRange,
  NameError,                   \* what LastError[2] holds first, see Init
  MaxValue                     \* bound of the model on |LastValue|

ASSUME LoopAssumption ==
  /\ Unit \in Nat \ {0} /\ GainUnit \in Nat \ {0}
  /\ LeftErrors \subseteq 0 .. Unit /\ RightErrors \subseteq 0 .. Unit
  /\ Kp \in Nat /\ Ki \in Nat /\ Kd \in Nat
  /\ ServoLeft \in Nat /\ ServoCtr \in Nat /\ ServoRight \in Nat
  /\ ServoLeft <= ServoCtr /\ ServoCtr <= ServoRight
  /\ StartSpeed \in Nat /\ DefaultSpeed \in Nat
  /\ FrameStraightDelay \in Nat
  /\ DiffSteering \in BOOLEAN /\ DiffSteeringFactor \in Nat
  /\ AutoSpeedControl \in BOOLEAN /\ AutoSpeedRange \in Nat
  /\ NameError \in Nat /\ MaxValue \in Nat

VARIABLES
  side,                 \* the line the last call steered by, or "none"
  FramesSinceLastLine,  \* the state of the loop, with the names of the code
  LastServoPos,
  LastValue,
  LastError,            \* [1] and [2]
  ServoDutyCycle,       \* the outputs
  MotorDutyCycle,
  found,                \* history: a line has been seen
  lost,                 \*   calls in a row without one, up to LostCap
  bias                  \*   what the last loss left in the value, and the
                        \*   integral of the errors since

state == <<FramesSinceLastLine, LastServoPos, LastValue, LastError>>
outputs == <<ServoDutyCycle, MotorDutyCycle>>
history == <<found, lost, bias>>
vars == <<side, state, outputs, history>>

One == 2 * Unit * GainUnit

LostCap == FrameStraightDelay + 2

Lesser(a, b) == IF a <= b THEN a ELSE b
Greater(a, b) == IF a >= b THEN a ELSE b

\* A float to an int: towards zero.
Truncate(n, d) == IF n >= 0 THEN n \div d ELSE -((-n) \div d)

(***************************************************************************)
(* The state starts as zeros.  LastError has two elements, [0] and [1];    *)
(* [2] is the memory behind it, which starts with the name of the camera   *)
(* file.  ControlLoopInit, which would set LastValue, is not called.  The  *)
(* outputs are those main sets before the configuration is read.           *)
(***************************************************************************)
Init ==
  /\ side = "none"
  /\ FramesSinceLastLine = 0
  /\ LastServoPos = 0
  /\ LastValue = 0
  /\ LastError = [n \in 1 .. 2 |-> IF n = 1 THEN 0 ELSE NameError]
  /\ ServoDutyCycle = ServoCtr * One
  /\ MotorDutyCycle = [m \in 0 .. 1 |-> StartSpeed]
  /\ found = FALSE
  /\ lost = 0
  /\ bias = 0

-----------------------------------------------------------------------------
\* Mutant: the derivative without the error before the last.
NewValueShort(err) ==
  LastValue + 2 * Kp * (err - LastError[1])
            + Ki * (err + LastError[1])
            + 2 * Kd * (err - LastError[1])

NewValue(err) ==
  LastValue + 2 * Kp * (err - LastError[1])
            + Ki * (err + LastError[1])
            + 2 * Kd * (err - 2 * LastError[1] + LastError[2])

\* Mutant: no clip.
ServoUnclipped(line, value) ==
  IF line = "left" THEN (ServoRight - ServoCtr) * value + ServoCtr * One
  ELSE (ServoLeft - ServoCtr) * value + ServoCtr * One

Servo(line, value) ==
  IF line = "left"
  THEN Lesser((ServoRight - ServoCtr) * value + ServoCtr * One, ServoRight * One)
  ELSE Greater((ServoLeft - ServoCtr) * value + ServoCtr * One, ServoLeft * One)

\* Mutant: the motor on the side of the line.
InsideSwapped(line) == IF line = "left" THEN 1 ELSE 0

\* The motor away from the line, on the inside of a turn away from it.
Inside(line) == IF line = "left" THEN 0 ELSE 1

Slowed(value) ==
  Truncate(Lesser(DefaultSpeed * (One - value) * DiffSteeringFactor,
                  DefaultSpeed * One * GainUnit),
           One * GainUnit)

Steered(line, value) ==
  [m \in 0 .. 1 |-> IF DiffSteering /\ m = Inside(line) THEN Slowed(value)
                    ELSE DefaultSpeed]

Motors(line, value) ==
  [m \in 0 .. 1 |->
     IF AutoSpeedControl
     THEN Truncate(Steered(line, value)[m] * One - AutoSpeedRange * value, One)
     ELSE Steered(line, value)[m]]

\* Mutant: the errors are not shifted.
ShiftNot(err) == LastError' = [LastError EXCEPT ![1] = err]

Shift(err) == LastError' = [n \in 1 .. 2 |-> IF n = 1 THEN err ELSE LastError[1]]

\* A line of the track is in sight.
Steer(line, err) ==
  LET value == NewValue(err)
  IN  /\ value \in -MaxValue .. MaxValue
      /\ FramesSinceLastLine' = 0
      /\ ServoDutyCycle' = Servo(line, value)
      /\ LastServoPos' = Servo(line, value)
      /\ LastValue' = value
      /\ Shift(err)
      /\ MotorDutyCycle' = Motors(line, value)
      /\ side' = line
      /\ found' = TRUE
      /\ lost' = 0
      /\ bias' = (IF side = "none" THEN 2 * Kd * LastError[2] ELSE bias)
                   + Ki * (err + LastError[1])

SteerLeft == \E err \in LeftErrors : Steer("left", err)

SteerRight == \E err \in RightErrors : Steer("right", err)

\* Nothing is in sight: the loop starts anew, the servo waits.
Forget ==
  /\ LastValue' = 0
  /\ Shift(0)
  /\ MotorDutyCycle' = [m \in 0 .. 1 |-> DefaultSpeed]
  /\ UNCHANGED LastServoPos
  /\ side' = "none"
  /\ lost' = Lesser(lost + 1, LostCap)
  /\ bias' = 0
  /\ UNCHANGED found

\* Mutant: one call less.
WaitedShort == FramesSinceLastLine >= FrameStraightDelay

Waited == FramesSinceLastLine > FrameStraightDelay

HoldServo ==
  /\ ~Waited
  /\ ServoDutyCycle' = LastServoPos
  /\ FramesSinceLastLine' = FramesSinceLastLine + 1
  /\ Forget

CentreServo ==
  /\ Waited
  /\ ServoDutyCycle' = ServoCtr * One
  /\ UNCHANGED FramesSinceLastLine
  /\ Forget

Next == SteerLeft \/ SteerRight \/ HoldServo \/ CentreServo

Spec == Init /\ [][Next]_vars

-----------------------------------------------------------------------------
TypeOK ==
  /\ side \in {"left", "right", "none"}
  /\ FramesSinceLastLine \in 0 .. FrameStraightDelay + 1
  /\ LastServoPos \in Int
  /\ LastValue \in Int
  /\ LastError \in [1 .. 2 -> Nat]
  /\ ServoDutyCycle \in Int
  /\ MotorDutyCycle \in [0 .. 1 -> Int]
  /\ found \in BOOLEAN
  /\ lost \in 0 .. LostCap
  /\ bias \in Nat

\* From a position, the servo is no further from the centre than this.
Within(position, left, right) ==
  GainUnit * (position - ServoCtr * One) \in -(left * One) .. right * One

(***************************************************************************)
(* Each side clips at its own end only (control_loop.c:97-104).  At the    *)
(* other end nothing does, but there only the derivative can bring it:     *)
(* whatever Kp and Ki, however long the line stays and whatever the last   *)
(* losses left, the servo goes no further past the centre than Kd times    *)
(* the span of the side in sight.                                          *)
(***************************************************************************)
OvershootBounded ==
  found =>
    Within(ServoDutyCycle,
           Greater(GainUnit * (ServoCtr - ServoLeft), Kd * (ServoRight - ServoCtr)),
           Greater(GainUnit * (ServoRight - ServoCtr), Kd * (ServoCtr - ServoLeft)))

\* What the gains make of the two last errors alone.
Proportional(e1, e2) == 2 * Kp * e1 + 2 * Kd * (e1 - e2)

(***************************************************************************)
(* The incremental form of control_loop.c:91-93 does not drift: the value  *)
(* is what the gains make of the two last errors, the integral of the      *)
(* errors since the line was last lost, and what that loss left behind.    *)
(***************************************************************************)
ValueExact ==
  side # "none" =>
    LastValue = Proportional(LastError[1], LastError[2]) + bias

(***************************************************************************)
(* Two lines without an edge in a row are enough to leave nothing behind.  *)
(***************************************************************************)
LossForgotten ==
  lost >= 2 => LastValue = 0 /\ LastError[1] = 0 /\ LastError[2] = 0

(***************************************************************************)
(* A lost line is steered on with the last position for one call more than *)
(* FrameStraightDelay, and straight after that.                            *)
(***************************************************************************)
HeldThenStraight ==
  side = "none" /\ lost > 0 =>
    ServoDutyCycle = IF lost <= FrameStraightDelay + 1 THEN LastServoPos
                     ELSE ServoCtr * One

(***************************************************************************)
(* Differential steering does not make the wheel on the inside of the turn *)
(* the faster one, motor 0 of a turn to the right.  It slows the motor on  *)
(* the side away from the line in sight (118-129), and when the line has   *)
(* just moved away, the derivative may turn the car to that line instead:  *)
(* with a factor below 1, the inner wheel is then the faster one.          *)
(***************************************************************************)
Receding ==
  LastError[1] < LastError[2] /\ DiffSteeringFactor < GainUnit

InnerWheelSlower ==
  side # "none" /\ ~Receding =>
    /\ ServoDutyCycle > ServoCtr * One => MotorDutyCycle[0] <= MotorDutyCycle[1]
    /\ ServoDutyCycle < ServoCtr * One => MotorDutyCycle[1] <= MotorDutyCycle[0]

(***************************************************************************)
(* "We can't see anything! ... Just go straight" (control_loop.c:136-139), *)
(* of a car that has not seen a line yet.                                  *)
(***************************************************************************)
GoesStraight == ~found => ServoDutyCycle = ServoCtr * One

(***************************************************************************)
(* "Try to aim for the center of the track" (control_loop.c:24): with no   *)
(* integral, a line that stays where it is steers by its place alone.      *)
(***************************************************************************)
AimsForCentre ==
  Ki = 0 /\ side # "none" /\ LastError[1] = LastError[2] =>
    LastValue = 2 * Kp * LastError[1]
=============================================================================
