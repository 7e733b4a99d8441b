------------------------------- MODULE Skynet -------------------------------
(***************************************************************************)
(* main.c: the start-up of the program, its error exits, and the timer     *)
(* callback from a camera line to the three outputs.                       *)
(*                                                                         *)
(* The outputs are registers of the FPGA: they keep what they have when    *)
(* the program ends, however it ends, and the next run finds them so.      *)
(* What the control loop makes of a line is any decision; ControlLoop says *)
(* which.  One SetDutyCycle is one step; MotorDriver takes it apart.       *)
(***************************************************************************)
EXTENDS Integers

CONSTANTS
  Speeds,      \* duty cycles the loop orders of a motor: with differential
               \* steering or automatic speed also 0 and less
  Positions,   \* duty cycles the loop orders of the servo
  StartSpeed,  \* of both motors, before anything is configured: 40%
  Centre,      \* SERVO_CTR
  MaxRuns      \* bound: times the program is started

ASSUME OutputAssumption ==
  /\ Speeds \subseteq Int
  /\ Positions \subseteq Int
  /\ StartSpeed \in Nat \ {0}
  /\ Centre \in Nat
  /\ MaxRuns \in Nat

VARIABLES
  dipsw,    \* bit 3 of the switches: 1 lets the car drive
  lineHere, \* CameraDataGetLine would return a line
  pc,       \* where the program is
  fault,    \* what this run of it meets
  output,   \* ControlLoopOutputs of the callback
  motor0, motor1, servo,   \* the registers: direction and duty cycle
  runs,
  looked,   \* history: the switch as this run last read it, or "never"
  order,    \*   the speeds last being written to the two motors
  torn      \*   1: killed between the two motors, and not driven since

registers == <<motor0, motor1, servo>>
history == <<looked, order, torn>>
vars == <<dipsw, lineHere, pc, fault, output, registers, runs, history>>

Faults == {"none", "usage", "unmapped", "config unreadable", "key missing",
           "plot unwritable", "camera file unreadable", "camera file malformed"}

StartUp == {"centre servo", "start motor0", "start motor1", "read config",
            "init analyzer", "load camera", "start dma"}

Callback == {"look at switch", "drive motor0", "drive motor1", "drive servo"}

BetweenMotors == {"start motor1", "drive motor1"}

Decision == [motor0 : Speeds \cup {0}, motor1 : Speeds \cup {0},
             servo : Positions \cup {Centre}]

Nothing == [motor0 |-> 0, motor1 |-> 0, servo |-> Centre]

\* A duty below 0 has no uint32_t value: the processor's conversion makes it 0.
ToRegister(duty) == IF duty < 0 THEN 0 ELSE duty

SetDutyCycle(duty, direction) == [dir |-> direction, duty |-> ToRegister(duty)]

-----------------------------------------------------------------------------
(***************************************************************************)
(* The world around the program.                                           *)
(***************************************************************************)
Toggle ==
  /\ dipsw' = 1 - dipsw
  /\ UNCHANGED <<lineHere, pc, fault, output, registers, runs, history>>

LineArrives ==
  /\ lineHere = 0
  /\ lineHere' = 1
  /\ UNCHANGED <<dipsw, pc, fault, output, registers, runs, history>>

\* SIGKILL, or anything else that ends the program where it stands.
Kill ==
  /\ pc # "off"
  /\ pc' = "off"
  /\ torn' = IF pc \in BetweenMotors THEN 1 ELSE torn
  /\ UNCHANGED <<dipsw, lineHere, fault, output, registers, runs, looked, order>>

-----------------------------------------------------------------------------
(***************************************************************************)
(* Start-up.                                                               *)
(***************************************************************************)
\* Bound: MaxRuns.  The state of the program is cleared.
Run ==
  /\ pc = "off"
  /\ runs < MaxRuns
  /\ runs' = runs + 1
  /\ fault' \in Faults
  /\ pc' = "centre servo"
  /\ output' = Nothing
  /\ looked' = "never"
  /\ UNCHANGED <<dipsw, lineHere, registers, order, torn>>

program == <<dipsw, lineHere, fault, output, runs, looked>>

\* Without an argument main returns; without the mapping the first access
\* faults, as FPGAMapMemory's NULL is not looked at.
NoOutputs ==
  /\ pc = "centre servo"
  /\ fault \in {"usage", "unmapped"}
  /\ pc' = "off"
  /\ UNCHANGED <<registers, order, torn, program>>

StartServo ==
  /\ pc = "centre servo"
  /\ fault \notin {"usage", "unmapped"}
  /\ servo' = SetDutyCycle(Centre, 0)
  /\ pc' = "start motor0"
  /\ UNCHANGED <<motor0, motor1, order, torn, program>>

StartMotor0 ==
  /\ pc = "start motor0"
  /\ motor0' = SetDutyCycle(StartSpeed, 0)
  /\ order' = [motor0 |-> StartSpeed, motor1 |-> StartSpeed]
  /\ pc' = "start motor1"
  /\ UNCHANGED <<motor1, servo, torn, program>>

StartMotor1 ==
  /\ pc = "start motor1"
  /\ motor1' = SetDutyCycle(StartSpeed, 0)
  /\ pc' = "read config"
  /\ torn' = 0
  /\ UNCHANGED <<motor0, servo, order, program>>

\* A step of start-up that the fault ends, with a code or a crash.
Attempt(at, next, faults) ==
  /\ pc = at
  /\ pc' = IF fault \in faults THEN "off" ELSE next
  /\ UNCHANGED <<registers, order, torn, program>>

readConfig ==
  Attempt("read config", "init analyzer", {"config unreadable", "key missing"})

LineAnalyzerInit ==
  Attempt("init analyzer", "load camera", {"plot unwritable"})

\* A line that is not a register is read again and again: the call never
\* returns, and the motors keep their start speed.
CameraLoadConfig ==
  /\ fault # "camera file malformed"
  /\ Attempt("load camera", "start dma", {"camera file unreadable"})

CameraDataDMAStart == Attempt("start dma", "event loop", {})

-----------------------------------------------------------------------------
(***************************************************************************)
(* The callback.  Without a line it does nothing.                          *)
(***************************************************************************)
TakeLine ==
  /\ pc = "event loop"
  /\ lineHere = 1
  /\ lineHere' = 0
  /\ output' \in [motor0 : Speeds, motor1 : Speeds, servo : Positions]
  /\ pc' = "look at switch"
  /\ UNCHANGED <<dipsw, fault, registers, runs, history>>

\* Mutant: the test of the bit without its negation.
LookAtSwitchInverted ==
  /\ pc = "look at switch"
  /\ output' = IF dipsw = 1 THEN Nothing ELSE output
  /\ looked' = IF dipsw = 0 THEN "off" ELSE "on"
  /\ pc' = "drive motor0"
  /\ UNCHANGED <<dipsw, lineHere, fault, registers, runs, order, torn>>

LookAtSwitch ==
  /\ pc = "look at switch"
  /\ output' = IF dipsw = 0 THEN Nothing ELSE output
  /\ looked' = IF dipsw = 0 THEN "off" ELSE "on"
  /\ pc' = "drive motor0"
  /\ UNCHANGED <<dipsw, lineHere, fault, registers, runs, order, torn>>

DriveMotor0 ==
  /\ pc = "drive motor0"
  /\ motor0' = SetDutyCycle(output.motor0, 0)
  /\ order' = [motor0 |-> output.motor0, motor1 |-> output.motor1]
  /\ pc' = "drive motor1"
  /\ UNCHANGED <<motor1, servo, torn, program>>

\* Mutant: the servo is not driven.
DriveMotor1Only ==
  /\ pc = "drive motor1"
  /\ motor1' = SetDutyCycle(output.motor1, 0)
  /\ pc' = "event loop"
  /\ torn' = 0
  /\ UNCHANGED <<motor0, servo, order, program>>

DriveMotor1 ==
  /\ pc = "drive motor1"
  /\ motor1' = SetDutyCycle(output.motor1, 0)
  /\ pc' = "drive servo"
  /\ torn' = 0
  /\ UNCHANGED <<motor0, servo, order, program>>

DriveServo ==
  /\ pc = "drive servo"
  /\ servo' = SetDutyCycle(output.servo, 1)
  /\ pc' = "event loop"
  /\ UNCHANGED <<motor0, motor1, order, torn, program>>

Init ==
  /\ dipsw \in {0, 1}
  /\ lineHere = 0
  /\ pc = "off"
  /\ fault = "none"
  /\ output = Nothing
  /\ motor0 = SetDutyCycle(0, 0)
  /\ motor1 = SetDutyCycle(0, 0)
  /\ servo = SetDutyCycle(0, 0)
  /\ runs = 0
  /\ looked = "never"
  /\ order = [motor0 |-> 0, motor1 |-> 0]
  /\ torn = 0

Start ==
  \/ NoOutputs \/ StartServo \/ StartMotor0 \/ StartMotor1
  \/ readConfig \/ LineAnalyzerInit \/ CameraLoadConfig \/ CameraDataDMAStart

control_loop_cb ==
  TakeLine \/ LookAtSwitch \/ DriveMotor0 \/ DriveMotor1 \/ DriveServo

Next == Toggle \/ LineArrives \/ Kill \/ Run \/ Start \/ control_loop_cb

\* The program runs when it can; the camera scans (CameraDma: LinesKeepComing).
Spec ==
  /\ Init /\ [][Next]_vars
  /\ WF_vars(Start \/ control_loop_cb)
  /\ WF_vars(LineArrives)

-----------------------------------------------------------------------------
Register(orders) == [dir : {0, 1}, duty : {ToRegister(duty) : duty \in orders}]

MotorOrders == Speeds \cup {0, StartSpeed}

TypeOK ==
  /\ dipsw \in {0, 1} /\ lineHere \in {0, 1} /\ torn \in {0, 1}
  /\ pc \in {"off", "event loop"} \cup StartUp \cup Callback
  /\ fault \in Faults
  /\ output \in Decision
  /\ motor0 \in Register(MotorOrders)
  /\ motor1 \in Register(MotorOrders)
  /\ servo \in Register(Positions \cup {0, Centre})
  /\ runs \in 0 .. MaxRuns
  /\ looked \in {"never", "on", "off"}
  /\ order \in [motor0 : MotorOrders, motor1 : MotorOrders]

(***************************************************************************)
(* The two motors hold the speeds of one decision: one runs at the speed   *)
(* of the last and the other of the one before only between two writes     *)
(* (main.c:119-120, 218-219), or from a kill just there until both are     *)
(* driven again.                                                           *)
(***************************************************************************)
Driven(speeds) ==
  /\ motor0.duty = ToRegister(speeds.motor0)
  /\ motor1.duty = ToRegister(speeds.motor1)

MotorsTogether == Driven(order) \/ pc \in BetweenMotors \/ torn = 1

Standing == motor0.duty = 0 /\ motor1.duty = 0

(***************************************************************************)
(* Whenever the program waits for the timer, the three outputs are one     *)
(* decision: that of start-up until a line has come, whatever earlier runs *)
(* left behind, then that of the last line; with the kill switch off it is *)
(* to stand with the wheels straight (main.c:105-121).                     *)
(***************************************************************************)
OutputsOfLoop ==
  pc = "event loop" =>
    /\ looked = "never" =>
         /\ motor0.duty = StartSpeed /\ motor1.duty = StartSpeed
         /\ servo = SetDutyCycle(Centre, 0)
    /\ looked = "off" => Standing /\ servo = SetDutyCycle(Centre, 1)
    /\ looked = "on" => Driven(output) /\ servo = SetDutyCycle(output.servo, 1)

(***************************************************************************)
(* The outputs are never a mixture of decisions but in the middle of a     *)
(* write or after a kill there: both parts.  A decision may itself order   *)
(* one motor to stand while the other runs (control_loop.c:118-132).       *)
(***************************************************************************)
WholeDecision == MotorsTogether /\ OutputsOfLoop

\* The program has ended, or reads a malformed camera file for ever.
Gone == pc = "off" \/ (pc = "load camera" /\ fault = "camera file malformed")

(***************************************************************************)
(* The kill switch (main.c:111) is obeyed in the end, as long as the       *)
(* program lives and gets past the camera file: the car stands for good    *)
(* once the switch stays off, and is driven by the decisions of the loop   *)
(* again and again once it stays on.                                       *)
(***************************************************************************)
SwitchObeyed ==
  /\ <>[](dipsw = 0) => <>[](Gone \/ Standing)
  /\ <>[](dipsw = 1) =>
       <>[]Gone \/ []<>(pc = "event loop" /\ looked = "on" /\ Driven(output))
=============================================================================
