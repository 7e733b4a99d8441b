---------------------------- MODULE SkynetProofs ----------------------------
(***************************************************************************)
(* Proofs about Skynet: for any speeds and positions and any number of     *)
(* runs.  The invariant follows the outputs through start-up and callback: *)
(* what has been written of a decision at each place.                      *)
(***************************************************************************)
EXTENDS Skynet, TLAPS

Decided ==
  /\ looked # "never"
  /\ looked = "off" => output = Nothing

StartInv ==
  /\ pc \in StartUp => looked = "never"
  /\ pc \in StartUp \ {"centre servo"} => servo = SetDutyCycle(Centre, 0)
  /\ pc \in StartUp \ {"centre servo", "start motor0"} =>
       /\ motor0.duty = StartSpeed
       /\ order = [motor0 |-> StartSpeed, motor1 |-> StartSpeed]
  /\ pc \in StartUp \ {"centre servo", "start motor0", "start motor1"} =>
       motor1.duty = StartSpeed

CallbackInv ==
  /\ pc \in Callback \ {"look at switch"} => Decided
  /\ pc \in {"drive motor1", "drive servo"} =>
       /\ motor0.duty = ToRegister(output.motor0)
       /\ order.motor0 = output.motor0 /\ order.motor1 = output.motor1
  /\ pc = "drive servo" => motor1.duty = ToRegister(output.motor1)

IInv == TypeOK /\ StartInv /\ CallbackInv /\ MotorsTogether /\ OutputsOfLoop

-----------------------------------------------------------------------------
LEMMA RegisterField ==
  ASSUME NEW duty, NEW direction
  PROVE  /\ SetDutyCycle(duty, direction).duty = ToRegister(duty)
         /\ SetDutyCycle(duty, direction).dir = direction
  BY DEF SetDutyCycle

LEMMA RegisterType ==
  ASSUME NEW D, NEW duty \in D, NEW direction \in {0, 1}
  PROVE  SetDutyCycle(duty, direction) \in Register(D)
  BY DEF SetDutyCycle, Register

LEMMA NothingType == Nothing \in Decision
  BY DEF Nothing, Decision

LEMMA ToggledBit ==
  ASSUME dipsw \in {0, 1}, Toggle
  PROVE  dipsw' \in {0, 1}
  <1>1. CASE dipsw = 0
    BY <1>1 DEF Toggle
  <1>2. CASE dipsw = 1
    BY <1>2 DEF Toggle
  <1> QED
    BY <1>1, <1>2

LEMMA CountedRun ==
  ASSUME runs \in 0 .. MaxRuns, Run
  PROVE  runs' \in 0 .. MaxRuns
  <1>1. runs < MaxRuns /\ runs' = runs + 1
    BY DEF Run
  <1>2. MaxRuns \in Nat
    BY OutputAssumption
  <1> QED
    BY <1>1, <1>2

LEMMA StartAsOrdered == ToRegister(StartSpeed) = StartSpeed
  BY OutputAssumption DEF ToRegister

LEMMA TypeInit == Init => TypeOK
  BY NothingType, RegisterType, OutputAssumption
  DEF Init, TypeOK, Faults, MotorOrders

LEMMA TypeStep == TypeOK /\ [Next]_vars => TypeOK'
  <1> SUFFICES ASSUME TypeOK, [Next]_vars PROVE TypeOK'
    OBVIOUS
  <1> USE OutputAssumption DEF TypeOK, StartUp, Callback, MotorOrders
  <1>1. CASE Toggle
    BY <1>1, ToggledBit DEF Toggle, registers, history
  <1>2. CASE LineArrives
    BY <1>2 DEF LineArrives, registers, history
  <1>3. CASE Kill
    BY <1>3 DEF Kill, registers
  <1>4. CASE Run
    BY <1>4, CountedRun, NothingType DEF Run, registers
  <1>5. CASE NoOutputs
    BY <1>5 DEF NoOutputs, registers, program
  <1>6. CASE readConfig
    BY <1>6 DEF readConfig, Attempt, registers, program
  <1>7. CASE LineAnalyzerInit
    BY <1>7 DEF LineAnalyzerInit, Attempt, registers, program
  <1>8. CASE CameraLoadConfig
    BY <1>8 DEF CameraLoadConfig, Attempt, registers, program
  <1>9. CASE CameraDataDMAStart
    BY <1>9 DEF CameraDataDMAStart, Attempt, registers, program
  <1>10. CASE StartServo
    BY <1>10, RegisterType DEF StartServo, program
  <1>11. CASE StartMotor0
    BY <1>11, RegisterType DEF StartMotor0, program
  <1>12. CASE StartMotor1
    BY <1>12, RegisterType DEF StartMotor1, program
  <1>13. CASE TakeLine
    <2>1. output' \in Decision
      BY <1>13 DEF TakeLine, Decision
    <2> QED
      BY <1>13, <2>1 DEF TakeLine, registers, history
  <1>14. CASE LookAtSwitch
    BY <1>14, NothingType DEF LookAtSwitch, registers
  <1>15. /\ output.motor0 \in Speeds \cup {0, StartSpeed}
         /\ output.motor1 \in Speeds \cup {0, StartSpeed}
         /\ output.servo \in Positions \cup {0, Centre}
    BY DEF Decision
  <1>16. CASE DriveMotor0
    BY <1>15, <1>16, RegisterType DEF DriveMotor0, program
  <1>17. CASE DriveMotor1
    BY <1>15, <1>17, RegisterType DEF DriveMotor1, program
  <1>18. CASE DriveServo
    BY <1>15, <1>18, RegisterType DEF DriveServo, program
  <1>19. CASE UNCHANGED vars
    BY <1>19 DEF vars, registers, history
  <1> QED
    BY <1>1, <1>2, <1>3, <1>4, <1>5, <1>6, <1>7, <1>8, <1>9, <1>10, <1>11,
       <1>12, <1>13, <1>14, <1>16, <1>17, <1>18, <1>19
    DEF Next, Start, control_loop_cb

LEMMA InvInit == Init => IInv
  BY TypeInit, RegisterField
  DEF Init, IInv, StartInv, CallbackInv, MotorsTogether,
      OutputsOfLoop, Driven, StartUp, Callback, BetweenMotors, ToRegister

LEMMA InvStep == IInv /\ [Next]_vars => IInv'
  <1> SUFFICES ASSUME IInv, [Next]_vars
               PROVE  (StartInv /\ CallbackInv /\ MotorsTogether /\ OutputsOfLoop)'
    BY TypeStep DEF IInv
  <1> USE OutputAssumption
      DEF IInv, TypeOK, StartInv, CallbackInv, MotorsTogether, OutputsOfLoop,
          StartUp, Callback, BetweenMotors, Decided, Standing, Driven
  <1>1. CASE Toggle
    BY <1>1 DEF Toggle, registers, history
  <1>2. CASE LineArrives
    BY <1>2 DEF LineArrives, registers, history
  <1>3. CASE Kill
    BY <1>3 DEF Kill, registers
  <1>4. CASE Run
    BY <1>4 DEF Run, registers
  <1>5. CASE NoOutputs
    BY <1>5 DEF NoOutputs, registers, program
  <1>6. CASE readConfig
    BY <1>6 DEF readConfig, Attempt, registers, program
  <1>7. CASE LineAnalyzerInit
    BY <1>7 DEF LineAnalyzerInit, Attempt, registers, program
  <1>8. CASE CameraLoadConfig
    BY <1>8 DEF CameraLoadConfig, Attempt, registers, program
  <1>9. CASE CameraDataDMAStart
    BY <1>9 DEF CameraDataDMAStart, Attempt, registers, program
  <1>10. CASE StartServo
    BY <1>10 DEF StartServo, program
  <1>11. CASE StartMotor0
    BY <1>11, RegisterField, StartAsOrdered DEF StartMotor0, program
  <1>12. CASE StartMotor1
    <2>1. /\ pc = "start motor1" /\ pc' = "read config"
          /\ motor1'.duty = StartSpeed
          /\ UNCHANGED <<motor0, servo, order, looked>>
      BY <1>12, RegisterField, StartAsOrdered DEF StartMotor1, program
    <2>2. motor0.duty = StartSpeed
      BY <2>1
    <2>3. order.motor0 = StartSpeed /\ order.motor1 = StartSpeed
      <3>1. order = [motor0 |-> StartSpeed, motor1 |-> StartSpeed]
        BY <2>1
      <3> QED
        BY ONLY <3>1
    <2>4. MotorsTogether'
      BY <2>1, <2>2, <2>3, StartAsOrdered
    <2> QED
      BY <2>1, <2>2, <2>4
  <1>13. CASE TakeLine
    BY <1>13 DEF TakeLine, registers, history
  <1>14. CASE LookAtSwitch
    BY <1>14 DEF LookAtSwitch, registers
  <1>15. CASE DriveMotor0
    BY <1>15, RegisterField DEF DriveMotor0, program
  <1>16. CASE DriveMotor1
    <2>1. /\ pc' = "drive servo" /\ motor1'.duty = ToRegister(output.motor1)
          /\ UNCHANGED <<looked, output, motor0, order>>
      BY <1>16, RegisterField DEF DriveMotor1, program
    <2>2. /\ motor0.duty = ToRegister(output.motor0)
          /\ order.motor0 = output.motor0 /\ order.motor1 = output.motor1
      BY <1>16 DEF DriveMotor1
    <2>3. Decided'
      BY <1>16, <2>1 DEF DriveMotor1
    <2> QED
      BY <2>1, <2>2, <2>3
  <1>17. CASE DriveServo
    <2>1. /\ UNCHANGED <<looked, output, motor0, motor1, order, torn>>
          /\ pc' = "event loop" /\ servo' = SetDutyCycle(output.servo, 1)
      BY <1>17 DEF DriveServo, program
    <2>2. /\ looked \in {"on", "off"} /\ Driven(output)
          /\ looked = "off" => output = Nothing
      BY <1>17 DEF DriveServo
    <2>3. ToRegister(0) = 0 /\ Nothing.motor0 = 0 /\ Nothing.motor1 = 0
          /\ Nothing.servo = Centre
      BY DEF ToRegister, Nothing
    <2>4. OutputsOfLoop'
      BY <2>1, <2>2, <2>3
    <2> QED
      BY <1>17, <2>1, <2>4 DEF DriveServo
  <1>18. CASE UNCHANGED vars
    BY <1>18 DEF vars, registers, history
  <1> QED
    BY <1>1, <1>2, <1>3, <1>4, <1>5, <1>6, <1>7, <1>8, <1>9, <1>10, <1>11,
       <1>12, <1>13, <1>14, <1>15, <1>16, <1>17, <1>18
    DEF Next, Start, control_loop_cb

-----------------------------------------------------------------------------
(***************************************************************************)
(* Every reachable state has its type: the outputs only ever hold what     *)
(* start-up or the control loop ordered.                                   *)
(***************************************************************************)
THEOREM TypeCorrect == Spec => []TypeOK
  BY TypeInit, TypeStep, PTL DEF Spec

(***************************************************************************)
(* The outputs are one decision between two callbacks, and the two motors  *)
(* are of one decision but between two writes or after a kill just there,  *)
(* whatever runs were killed or failed before and whatever the speeds.     *)
(***************************************************************************)
THEOREM OutputsWhole == Spec => []WholeDecision
  <1>1. IInv => WholeDecision
    BY DEF IInv, WholeDecision
  <1> QED
    BY <1>1, InvInit, InvStep, PTL DEF Spec
=============================================================================
