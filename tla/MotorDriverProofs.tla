------------------------- MODULE MotorDriverProofs -------------------------
(***************************************************************************)
(* Proofs about MotorDriver, for every period, resolution and sequence of  *)
(* calls, reads and resets.                                                *)
(***************************************************************************)
EXTENDS MotorDriver, TLAPS

(***************************************************************************)
(* Arithmetic of the duty cycle.                                           *)
(***************************************************************************)
LEMMA HalfOfNothing == Half(0) = 0
  <1>1. 0 * Period = 0
    BY PwmAssumption
  <1>2. 0 \div DutyLevels = 0
    BY PwmAssumption
  <1> QED
    BY <1>1, <1>2 DEF Half

\* Half a pulse is less than half a period: a full duty cycle still falls.
LEMMA HalfBound ==
  ASSUME NEW d \in Duty
  PROVE  Half(d) \in Nat /\ Half(d) + Half(d) < Period
  <1> DEFINE q == (d * Period) \div DutyLevels
  <1>1. d \in Nat /\ d < DutyLevels /\ Period \in Nat /\ DutyLevels \in Nat /\ DutyLevels > 0
    BY PwmAssumption DEF Duty
  <1>2. d * Period \in Nat
    BY <1>1
  <1>3. q \in Nat /\ q * DutyLevels <= d * Period
    BY <1>1, <1>2
  <1>4. d * Period < Period * DutyLevels
    BY <1>1, PwmAssumption
  <1>5. q < Period
    <2>1. CASE q >= Period
      <3>1. q * DutyLevels >= Period * DutyLevels
        BY <1>1, <1>3, <2>1
      <3> QED
        BY <1>1, <1>2, <1>3, <1>4, <3>1
    <2> QED
      BY <1>1, <1>3, <2>1
  <1> HIDE DEF q
  <1>6. q \div 2 \in Nat /\ (q \div 2) + (q \div 2) <= q
    BY <1>3
  <1>7. Half(d) = q \div 2
    BY DEF Half, q
  <1> QED
    BY <1>1, <1>3, <1>5, <1>6, <1>7

LEMMA ModulusNat == ASSUME NEW p \in Int PROVE Modulus(p) \in Nat
  <1>1. CASE p < 0
    BY <1>1 DEF Modulus
  <1>2. CASE ~(p < 0)
    <2>1. p \in Nat /\ DutyLevels - 1 \in Nat
      BY <1>2, PwmAssumption
    <2>2. p * (DutyLevels - 1) \in Nat
      BY <2>1
    <2> QED
      BY <1>2, <2>2 DEF Modulus
  <1> QED
    BY <1>1, <1>2

-----------------------------------------------------------------------------
(***************************************************************************)
(* Types.                                                                  *)
(***************************************************************************)
Registers ==
  [direction : 0 .. 1, duty_cycle : Duty, duty : [Channels -> Duty],
   enable : [Channels -> BOOLEAN], readdata : Nat,
   state : {"RESET", "IDLE", "WRITE_DUTY"}]

LEMMA InitRegType == InitReg \in Registers /\ InitReg.state = "RESET"
  BY PwmAssumption DEF InitReg, Registers, All, Channels, Duty

PwmType ==
  /\ count \in [Channels -> 0 .. Period - 1]
  /\ half_duty_new \in [Channels -> Nat]
  /\ half_duty \in [Channels -> Nat]
  /\ pwm_out \in [Channels -> 0 .. 1]

BusType ==
  /\ bus \in [op : {"none", "read", "write"}, address : Nat, data : Nat, left : Nat]
  /\ bus.left <= 1 + WaitCycles

CpuType ==
  /\ pc \in {"idle", "dir", "duty"}
  /\ arg \in [direction : Nat, duty : Nat]
  /\ want \in [direction : 0 .. 1, duty : Duty, set : BOOLEAN]

LEMMA TypeParts == TypeOK <=> r \in Registers /\ PwmType /\ BusType /\ CpuType
  BY DEF TypeOK, Registers, PwmType, BusType, CpuType

LEMMA PwmStepType ==
  ASSUME r \in Registers, PwmType, Pwm
  PROVE  PwmType'
  <1>1. half_duty_new' \in [Channels -> Nat]
    <2>1. \A c \in Channels : r.duty[c] \in Duty
      BY DEF Registers
    <2>2. \A c \in Channels : Half(r.duty[c]) \in Nat
      BY <2>1, HalfBound
    <2> QED
      BY <2>2 DEF PwmType, Pwm, LatchDuty
  <1>2. half_duty' \in [Channels -> Nat]
    BY DEF PwmType, Pwm, TakeDuty
  <1>3. count' \in [Channels -> 0 .. Period - 1]
    BY PwmAssumption DEF PwmType, Pwm, EndOfPeriod
  <1>4. pwm_out' \in [Channels -> 0 .. 1]
    BY DEF PwmType, Pwm
  <1> QED
    BY <1>1, <1>2, <1>3, <1>4 DEF PwmType

LEMMA TransferType ==
  ASSUME r \in Registers, BusType, Transfer
  PROVE  BusType'
  <1>1. r.readdata \in Nat
    BY DEF Registers
  <1>2. CASE bus.left = 0
    BY <1>2 DEF BusType, Transfer
  <1>3. CASE bus.left # 0
    <2>1. bus' = [bus EXCEPT !.left = bus.left - 1,
                             !.data = IF bus.op = "read" THEN r.readdata ELSE bus.data]
      BY <1>3 DEF Transfer
    <2>2. /\ bus.op \in {"none", "read", "write"} /\ bus.address \in Nat
          /\ bus.data \in Nat /\ bus.left \in Nat /\ bus.left <= 1 + WaitCycles
      BY DEF BusType
    <2>3. bus.left - 1 \in Nat /\ bus.left - 1 <= 1 + WaitCycles
      BY <1>3, <2>2, BusAssumption
    <2>4. (IF bus.op = "read" THEN r.readdata ELSE bus.data) \in Nat
      BY <1>1, <2>2
    <2>5. /\ bus' \in [op : {"none", "read", "write"}, address : Nat,
                       data : Nat, left : Nat]
          /\ bus'.left = bus.left - 1
      BY <2>1, <2>2, <2>3, <2>4 DEF BusType
    <2> QED
      BY <2>3, <2>5 DEF BusType
  <1> QED
    BY <1>2, <1>3

\* What each edge makes of the registers.
LEMMA RegisterStep ==
  ASSUME r \in Registers, BusType, Clock
  PROVE  r' \in Registers
  <1> USE DEF Edge
  <1>1. CASE LeaveReset
    BY <1>1, InitRegType DEF LeaveReset, Registers
  <1>2. Rest \in Registers
    BY DEF Rest, Registers, All
  <1>3. CASE NoAccess
    BY <1>2, <1>3 DEF NoAccess
  <1>4. CASE ReadRegister
    <2>1. PICK v \in Nat : r' = [Rest EXCEPT !.readdata = v]
      <3>1. 2 * (r.readdata \div 2) + r.direction \in Nat
        BY DEF Registers
      <3>2. r.duty_cycle \in Nat
        BY PwmAssumption DEF Registers, Duty
      <3> QED
        BY <1>4, <3>1, <3>2 DEF ReadRegister
    <2> QED
      BY <1>2, <2>1 DEF Registers
  <1>5. \A d \in 0 .. 1, m \in Duty : Split(d, m) \in [Channels -> Duty]
    BY PwmAssumption DEF Split, Duty
  <1>6. CASE WriteDirection
    <2>1. bus.data % 2 \in 0 .. 1 /\ r.duty_cycle \in Duty
      BY DEF BusType, Registers
    <2> QED
      BY <1>2, <1>5, <1>6, <2>1 DEF WriteDirection, Registers
  <1>7. CASE WriteDuty
    <2>1. bus.data % DutyLevels \in Duty /\ r.direction \in 0 .. 1
      BY PwmAssumption DEF BusType, Registers, Duty
    <2> QED
      BY <1>2, <1>5, <1>7, <2>1 DEF WriteDuty, Registers
  <1>8. CASE Enable
    BY <1>8 DEF Enable, Registers, All
  <1> QED
    BY <1>1, <1>3, <1>4, <1>6, <1>7, <1>8 DEF Clock

LEMMA ClockEdge ==
  Clock => Pwm /\ Transfer /\ UNCHANGED cpuVars
  BY DEF Clock, LeaveReset, NoAccess, ReadRegister, WriteDirection, WriteDuty,
         Enable, Edge

LEMMA InitTypeOK == Init => TypeOK
  <1> SUFFICES ASSUME Init PROVE TypeOK
    OBVIOUS
  <1>1. r \in Registers
    BY InitRegType DEF Init
  <1>2. PwmType
    BY PwmAssumption DEF Init, PwmType, All
  <1>3. BusType /\ CpuType
    BY PwmAssumption, BusAssumption
       DEF Init, BusType, CpuType, NoTransfer, Nothing, Duty
  <1> QED
    BY <1>1, <1>2, <1>3, TypeParts

LEMMA StepTypeOK == TypeOK /\ [Next]_vars => TypeOK'
  <1> SUFFICES ASSUME r \in Registers, PwmType, BusType, CpuType, [Next]_vars
               PROVE  r' \in Registers /\ PwmType' /\ BusType' /\ CpuType'
    BY TypeParts DEF TypeOK, Registers, PwmType, BusType, CpuType
  <1>1. CASE Clock
    <2>1. CpuType'
      BY <1>1, ClockEdge DEF CpuType, cpuVars
    <2> QED
      BY <1>1, <2>1, ClockEdge, RegisterStep, PwmStepType, TransferType
  <1>2. CASE Reset
    <2>1. r' \in Registers
      BY <1>2, InitRegType DEF Reset
    <2>2. PwmType'
      BY <1>2, PwmAssumption DEF Reset, PwmType, All
    <2>3. BusType' /\ CpuType'
      BY <1>2, PwmAssumption, BusAssumption
         DEF Reset, BusType, CpuType, NoTransfer, Nothing, Duty
    <2> QED
      BY <2>1, <2>2, <2>3
  <1>3. CASE SetDutyCycle
    <2>1. PICK percent \in Percents, direction \in Directions :
            arg' = [direction |-> direction, duty |-> Modulus(percent)]
      BY <1>3 DEF SetDutyCycle
    <2>2. arg' \in [direction : Nat, duty : Nat]
      BY <2>1, ModulusNat, BusAssumption
    <2> QED
      BY <1>3, <2>2 DEF SetDutyCycle, pwmVars, PwmType, BusType, CpuType
  <1>4. CASE IssueDirection
    <2>1. BusType' /\ CpuType'
      <3>1. arg.direction \in Nat /\ arg.direction % 2 \in 0 .. 1 /\ 1 + WaitCycles \in Nat
        BY BusAssumption DEF CpuType
      <3>2. BusType'
        BY <1>4, <3>1, BusAssumption DEF IssueDirection, Issue, BusType
      <3>3. CpuType'
        BY <1>4, <3>1 DEF IssueDirection, CpuType
      <3> QED
        BY <3>2, <3>3
    <2> QED
      BY <1>4, <2>1 DEF IssueDirection, pwmVars, PwmType
  <1>5. CASE IssueDuty
    <2>1. BusType' /\ CpuType'
      <3>1. arg.duty \in Nat /\ arg.duty % DutyLevels \in Duty /\ 1 + WaitCycles \in Nat
        BY BusAssumption, PwmAssumption DEF CpuType, Duty
      <3>2. BusType'
        BY <1>5, <3>1, BusAssumption DEF IssueDuty, Issue, BusType
      <3>3. CpuType'
        BY <1>5, <3>1 DEF IssueDuty, CpuType
      <3> QED
        BY <3>2, <3>3
    <2> QED
      BY <1>5, <2>1 DEF IssueDuty, pwmVars, PwmType
  <1>6. CASE IssueRead
    <2>1. BusType'
      BY <1>6, BusAssumption DEF IssueRead, Issue, BusType
    <2> QED
      BY <1>6, <2>1 DEF IssueRead, pwmVars, cpuVars, PwmType, CpuType
  <1>7. CASE UNCHANGED vars
    BY <1>7 DEF vars, PwmType, BusType, CpuType
  <1> QED
    BY <1>1, <1>2, <1>3, <1>4, <1>5, <1>6, <1>7 DEF Next, Write

(***************************************************************************)
(* Every register, pulse and counter stays in its range: the count never   *)
(* reaches the period, the registers never exceed their bits.              *)
(***************************************************************************)
THEOREM TypeCorrect == Spec => []TypeOK
  BY InitTypeOK, StepTypeOK, PTL DEF Spec

-----------------------------------------------------------------------------
(***************************************************************************)
(* The pins.  Both channels count together and latch together, at most one *)
(* of each pair of pulses is not empty, and an empty pulse keeps its pin   *)
(* low from the second clock of its period on.                             *)
(***************************************************************************)
LockStep ==
  /\ count[0] = count[1]
  /\ r.enable[0] = r.enable[1]

OnePulse ==
  /\ r.duty[0] = 0 \/ r.duty[1] = 0
  /\ half_duty_new[0] = 0 \/ half_duty_new[1] = 0
  /\ half_duty[0] = 0 \/ half_duty[1] = 0

EmptyPulseLow ==
  \A c \in Channels : count[c] > 0 /\ half_duty[c] = 0 => pwm_out[c] = 0

PinInv == TypeOK /\ LockStep /\ OnePulse /\ EmptyPulseLow /\ PinsExclusive

LEMMA InitPinInv == Init => PinInv
  <1> SUFFICES ASSUME Init PROVE PinInv
    OBVIOUS
  <1>1. LockStep /\ OnePulse /\ EmptyPulseLow /\ PinsExclusive
    BY DEF Init, InitReg, All, Channels, LockStep, OnePulse, EmptyPulseLow,
           PinsExclusive
  <1> QED
    BY <1>1, InitTypeOK DEF PinInv

\* The registers, at an edge, are enabled together and hold one duty cycle.
LEMMA RegisterPair ==
  ASSUME TypeOK, LockStep, OnePulse, Clock
  PROVE  /\ r'.enable[0] = r'.enable[1]
         /\ r'.duty[0] = 0 \/ r'.duty[1] = 0
  <1>1. r \in Registers
    BY TypeParts
  <1> USE DEF Edge, Registers, Channels, Rest, All
  <1>2. CASE LeaveReset
    BY <1>2 DEF LeaveReset, InitReg
  <1>3. CASE NoAccess
    BY <1>1, <1>3 DEF NoAccess, OnePulse
  <1>4. CASE ReadRegister
    BY <1>1, <1>4 DEF ReadRegister, OnePulse
  <1>5. \A d, m : Split(d, m)[0] = 0 \/ Split(d, m)[1] = 0
    BY DEF Split
  <1>6. CASE WriteDirection
    BY <1>1, <1>5, <1>6 DEF WriteDirection
  <1>7. CASE WriteDuty
    BY <1>1, <1>5, <1>7 DEF WriteDuty
  <1>8. CASE Enable
    BY <1>1, <1>8 DEF Enable, OnePulse
  <1> QED
    BY <1>2, <1>3, <1>4, <1>6, <1>7, <1>8 DEF Clock

LEMMA PulsePair ==
  ASSUME TypeOK, LockStep, OnePulse, Pwm
  PROVE  /\ half_duty_new'[0] = 0 \/ half_duty_new'[1] = 0
         /\ half_duty'[0] = 0 \/ half_duty'[1] = 0
         /\ count'[0] = count'[1]
  <1> USE DEF Channels
  <1>1. half_duty_new'[0] = 0 \/ half_duty_new'[1] = 0
    BY HalfOfNothing DEF LockStep, OnePulse, Pwm, LatchDuty
  <1>2. half_duty'[0] = 0 \/ half_duty'[1] = 0
    BY DEF LockStep, OnePulse, Pwm, TakeDuty, EndOfPeriod
  <1>3. count'[0] = count'[1]
    BY DEF LockStep, Pwm, EndOfPeriod
  <1> QED
    BY <1>1, <1>2, <1>3

\* A pin whose pulse is empty is low after any edge but at the end of the
\* count 0, and an edge does not raise it.
LEMMA EmptyPulse ==
  ASSUME TypeOK, EmptyPulseLow, Pwm, NEW c \in Channels, half_duty[c] = 0
  PROVE  pwm_out'[c] = 0
  <1>1. count[c] \in 0 .. Period - 1 /\ pwm_out[c] \in 0 .. 1
    BY TypeParts DEF PwmType
  <1>2. pwm_out'[c] = IF count[c] = 0 THEN 0
                      ELSE IF count[c] = Period - 0 THEN 1
                      ELSE pwm_out[c]
    BY DEF Pwm
  <1>3. CASE count[c] = 0
    BY <1>2, <1>3
  <1>4. CASE count[c] # 0
    <2>1. count[c] > 0 /\ count[c] # Period - 0
      BY <1>1, <1>4, PwmAssumption
    <2>2. pwm_out[c] = 0
      BY <2>1 DEF EmptyPulseLow
    <2> QED
      BY <1>2, <1>4, <2>1, <2>2
  <1> QED
    BY <1>3, <1>4

LEMMA StepPinInv == PinInv /\ [Next]_vars => PinInv'
  <1> SUFFICES ASSUME PinInv, [Next]_vars PROVE PinInv'
    OBVIOUS
  <1>1. TypeOK'
    BY StepTypeOK DEF PinInv
  <1>2. CASE Clock
    <2>1. Pwm
      BY <1>2, ClockEdge
    <2>2. LockStep' /\ OnePulse'
      BY <1>2, <2>1, RegisterPair, PulsePair DEF PinInv, LockStep, OnePulse
    <2>3. EmptyPulseLow'
      <3> SUFFICES ASSUME NEW c \in Channels, count'[c] > 0, half_duty'[c] = 0
                   PROVE  pwm_out'[c] = 0
        BY DEF EmptyPulseLow
      <3>1. ~EndOfPeriod(c)
        BY <2>1 DEF Pwm
      <3>2. half_duty[c] = 0
        BY <2>1, <3>1 DEF Pwm, TakeDuty
      <3> QED
        BY <2>1, <3>2, EmptyPulse DEF PinInv
    <2>4. PinsExclusive'
      <3>1. 0 \in Channels /\ 1 \in Channels
        BY DEF Channels
      <3>2. pwm_out'[0] = 0 \/ pwm_out'[1] = 0
        BY <2>1, <3>1, EmptyPulse DEF PinInv, OnePulse
      <3> QED
        BY <3>2 DEF PinsExclusive
    <2> QED
      BY <1>1, <2>2, <2>3, <2>4 DEF PinInv
  <1>3. CASE Reset
    <2>1. LockStep' /\ OnePulse' /\ EmptyPulseLow' /\ PinsExclusive'
      BY <1>3 DEF PinInv, Reset, InitReg, All, Channels, LockStep, OnePulse,
                  EmptyPulseLow, PinsExclusive
    <2> QED
      BY <1>1, <2>1 DEF PinInv
  <1>4. CASE SetDutyCycle \/ Write \/ IssueRead \/ UNCHANGED vars
    <2>1. UNCHANGED <<r, pwmVars>>
      BY <1>4 DEF SetDutyCycle, Write, IssueDirection, IssueDuty, IssueRead, vars,
                  pwmVars
    <2>2. LockStep' /\ OnePulse' /\ EmptyPulseLow' /\ PinsExclusive'
      BY <2>1 DEF PinInv, pwmVars, LockStep, OnePulse, EmptyPulseLow, PinsExclusive
    <2> QED
      BY <1>1, <2>2 DEF PinInv
  <1> QED
    BY <1>2, <1>3, <1>4 DEF Next

(***************************************************************************)
(* The two pins are never high together, for every period and resolution,  *)
(* whatever is written and whenever the driver is reset.                   *)
(***************************************************************************)
THEOREM PinsNeverBoth == Spec => []PinsExclusive
  <1>1. PinInv => PinsExclusive
    BY DEF PinInv
  <1> QED
    BY <1>1, InitPinInv, StepPinInv, PTL DEF Spec

-----------------------------------------------------------------------------
(***************************************************************************)
(* The shape of a pulse: what is latched is a pulse of the duty cycle, so  *)
(* less than half a period, and the pin follows the count.                 *)
(***************************************************************************)
ShortPulses ==
  \A c \in Channels :
    /\ half_duty_new[c] + half_duty_new[c] < Period
    /\ half_duty[c] + half_duty[c] < Period

ShapeInv == TypeOK /\ ShortPulses /\ PulseShape

LEMMA InitShapeInv == Init => ShapeInv
  <1> SUFFICES ASSUME Init PROVE ShapeInv
    OBVIOUS
  <1>1. ShortPulses /\ PulseShape
    BY PwmAssumption DEF Init, All, Channels, ShortPulses, PulseShape
  <1> QED
    BY <1>1, InitTypeOK DEF ShapeInv

LEMMA ShortPulsesStep ==
  ASSUME TypeOK, ShortPulses, Pwm
  PROVE  ShortPulses'
  <1> SUFFICES ASSUME NEW c \in Channels
               PROVE  /\ half_duty_new'[c] + half_duty_new'[c] < Period
                      /\ half_duty'[c] + half_duty'[c] < Period
    BY DEF ShortPulses
  <1>1. r.duty[c] \in Duty
    BY TypeParts DEF Registers
  <1>2. Half(r.duty[c]) + Half(r.duty[c]) < Period
    BY <1>1, HalfBound
  <1>3. half_duty_new'[c] = Half(r.duty[c]) \/ half_duty_new'[c] = half_duty_new[c]
    BY DEF Pwm, LatchDuty
  <1>4. half_duty'[c] = half_duty_new[c] \/ half_duty'[c] = half_duty[c]
    BY DEF Pwm, TakeDuty
  <1> QED
    BY <1>2, <1>3, <1>4 DEF ShortPulses

LEMMA PulseShapeStep ==
  ASSUME TypeOK, ShortPulses, PulseShape, Pwm
  PROVE  PulseShape'
  <1> SUFFICES ASSUME NEW c \in Channels, count'[c] > half_duty'[c]
               PROVE  pwm_out'[c] = 1 <=> count'[c] > Period - half_duty'[c]
    BY DEF PulseShape
  <1> DEFINE n == count[c]
             h == half_duty[c]
  <1>1. /\ n \in Nat /\ n <= Period - 1 /\ h \in Nat /\ h + h < Period
        /\ pwm_out[c] \in 0 .. 1 /\ half_duty'[c] \in Nat
    <2>1. half_duty_new[c] \in Nat
      BY TypeParts DEF PwmType
    <2> QED
      BY <2>1, TypeParts, PwmAssumption DEF PwmType, ShortPulses, Pwm, TakeDuty
  <1>2. ~EndOfPeriod(c)
    BY <1>1 DEF Pwm
  <1>3. count'[c] = n + 1 /\ half_duty'[c] = h
    BY <1>2 DEF Pwm, TakeDuty
  <1>4. pwm_out'[c] = IF n = h THEN 0 ELSE IF n = Period - h THEN 1 ELSE pwm_out[c]
    BY DEF Pwm
  <1>5. n > h => (pwm_out[c] = 1 <=> n > Period - h)
    BY DEF PulseShape
  <1> HIDE DEF n, h
  <1>6. n >= h /\ Period \in Nat
    BY <1>1, <1>3, PwmAssumption
  <1>7. CASE n = h
    BY <1>1, <1>3, <1>4, <1>6, <1>7
  <1>8. CASE n > h /\ n = Period - h
    BY <1>1, <1>3, <1>4, <1>6, <1>8
  <1>9. CASE n > h /\ n # Period - h
    BY <1>1, <1>3, <1>4, <1>5, <1>6, <1>9
  <1> QED
    BY <1>1, <1>6, <1>7, <1>8, <1>9

LEMMA StepShapeInv == ShapeInv /\ [Next]_vars => ShapeInv'
  <1> SUFFICES ASSUME ShapeInv, [Next]_vars PROVE ShapeInv'
    OBVIOUS
  <1>1. TypeOK'
    BY StepTypeOK DEF ShapeInv
  <1>2. CASE Clock
    BY <1>1, <1>2, ClockEdge, ShortPulsesStep, PulseShapeStep DEF ShapeInv
  <1>3. CASE Reset
    <2>1. PulseShape'
      <3> SUFFICES ASSUME NEW c \in Channels, count'[c] > half_duty'[c] PROVE FALSE
        BY DEF PulseShape
      <3>1. count'[c] = 0 /\ half_duty'[c] \in Nat
        BY <1>3, <1>1 DEF Reset, All, TypeOK
      <3> QED
        BY <3>1
    <2>2. ShortPulses'
      BY <1>3 DEF ShapeInv, ShortPulses, Reset
    <2> QED
      BY <1>1, <2>1, <2>2 DEF ShapeInv
  <1>4. CASE SetDutyCycle \/ Write \/ IssueRead \/ UNCHANGED vars
    <2>1. UNCHANGED pwmVars
      BY <1>4 DEF SetDutyCycle, Write, IssueDirection, IssueDuty, IssueRead, vars,
                  pwmVars
    <2>2. ShortPulses' /\ PulseShape'
      BY <2>1 DEF ShapeInv, pwmVars, ShortPulses, PulseShape
    <2> QED
      BY <1>1, <2>2 DEF ShapeInv
  <1> QED
    BY <1>2, <1>3, <1>4 DEF Next

(***************************************************************************)
(* Past its first half every pulse is that of its period, whenever the     *)
(* duty cycle is changed: the anomaly version 2.0 of pwm.vhd removed never *)
(* comes back, for every period and resolution.                            *)
(***************************************************************************)
THEOREM PulsesWhole == Spec => []PulseShape
  <1>1. ShapeInv => PulseShape
    BY DEF ShapeInv
  <1> QED
    BY <1>1, InitShapeInv, StepShapeInv, PTL DEF Spec

-----------------------------------------------------------------------------
(***************************************************************************)
(* No write is lost.  A write may still be unseen only at its first clock, *)
(* or at its second when the machine has just come back to IDLE: it is     *)
(* seen there.                                                             *)
(***************************************************************************)
Matches == r.direction = want.direction /\ r.duty_cycle = want.duty

Unseen ==
  bus.left = 1 + WaitCycles \/ (bus.left = WaitCycles /\ Idle)

WriteCarries ==
  bus.op = "write" /\ bus.left > 0 =>
    \/ /\ bus.address = 0
       /\ bus.data % 2 = want.direction
       /\ r.duty_cycle = want.duty
    \/ /\ bus.address = 1
       /\ bus.data % DutyLevels = want.duty
       /\ r.direction = want.direction

WriteInv ==
  /\ TypeOK
  /\ r.state = "RESET" => r.direction = 0 /\ r.duty_cycle = 0
  /\ WriteCarries
  /\ Matches \/ (bus.op = "write" /\ bus.left > 0 /\ Unseen)

\* One step of the registers, as far as the direction and duty cycle go.
LEMMA WriteStep ==
  ASSUME WriteInv, Clock
  PROVE  /\ r'.state # "RESET"
         /\ \/ r.state # "IDLE" /\ r'.state = "IDLE"
               /\ r'.direction = r.direction /\ r'.duty_cycle = r.duty_cycle
            \/ /\ r.state = "IDLE" /\ ~Strobe("write")
               /\ r'.direction = r.direction /\ r'.duty_cycle = r.duty_cycle
            \/ /\ Strobe("write")
               /\ r'.direction = want.direction /\ r'.duty_cycle = want.duty
  <1>1. r \in Registers
    BY TypeParts DEF WriteInv
  <1> USE DEF Edge, Registers, Rest, Idle
  <1>2. CASE LeaveReset
    BY <1>1, <1>2 DEF LeaveReset, InitReg, WriteInv
  <1>3. CASE NoAccess
    <2>1. ~Strobe("write")
      BY <1>3 DEF NoAccess, WriteInv, WriteCarries, Strobe
    <2> QED
      BY <1>1, <1>3, <2>1 DEF NoAccess
  <1>4. CASE ReadRegister
    <2>1. ~Strobe("write")
      BY <1>4 DEF ReadRegister, Strobe
    <2> QED
      BY <1>1, <1>4, <2>1 DEF ReadRegister
  <1>5. CASE WriteDirection
    <2>1. bus.data % 2 = want.direction /\ r.duty_cycle = want.duty
      BY <1>5 DEF WriteDirection, WriteInv, WriteCarries, Strobe
    <2> QED
      BY <1>1, <1>5, <2>1 DEF WriteDirection
  <1>6. CASE WriteDuty
    <2>1. bus.data % DutyLevels = want.duty /\ r.direction = want.direction
      BY <1>6 DEF WriteDuty, WriteInv, WriteCarries, Strobe
    <2> QED
      BY <1>1, <1>6, <2>1 DEF WriteDuty
  <1>7. CASE Enable
    BY <1>1, <1>7 DEF Enable
  <1> QED
    BY <1>2, <1>3, <1>4, <1>5, <1>6, <1>7 DEF Clock

LEMMA ClockWriteInv ==
  ASSUME WriteInv, TypeOK', Clock, WaitCycles >= 1
  PROVE  WriteInv'
  <1>1. /\ want' = want
        /\ bus.left = 0 => bus' = bus
        /\ bus.left > 0 => /\ bus'.left = bus.left - 1 /\ bus'.op = bus.op
                           /\ bus'.address = bus.address
                           /\ bus.op = "write" => bus'.data = bus.data
        /\ bus.left \in Nat /\ bus.left <= 1 + WaitCycles
    <2>1. /\ bus \in [op : {"none", "read", "write"}, address : Nat,
                     data : Nat, left : Nat]
          /\ bus.left <= 1 + WaitCycles
      BY TypeParts DEF WriteInv, BusType
    <2>2. want' = want /\ Transfer
      BY ClockEdge DEF cpuVars
    <2>3. bus.left = 0 => bus' = bus
      BY <2>2 DEF Transfer
    <2>4. bus.left > 0 =>
            bus' = [bus EXCEPT !.left = bus.left - 1,
                               !.data = IF bus.op = "read" THEN r.readdata ELSE bus.data]
      BY <2>1, <2>2 DEF Transfer
    <2>5. bus.left \in Nat
      BY <2>1
    <2>6. bus.left > 0 => /\ bus'.left = bus.left - 1 /\ bus'.op = bus.op
                          /\ bus'.address = bus.address
                          /\ bus.op = "write" => bus'.data = bus.data
      BY <2>1, <2>4
    <2> QED
      BY <2>1, <2>2, <2>3, <2>5, <2>6
  <1>2. WriteCarries'
    BY <1>1, WriteStep DEF WriteInv, WriteCarries, Strobe, Matches
  <1>3. Matches' \/ (bus'.op = "write" /\ bus'.left > 0 /\ Unseen')
    <2>1. CASE Matches
      BY <1>1, <2>1, WriteStep DEF Matches
    <2>2. CASE ~Matches
      <3>1. bus.op = "write" /\ bus.left > 0 /\ Unseen
        BY <2>2 DEF WriteInv
      <3>2. CASE r.state = "IDLE"
        BY <1>1, <3>1, <3>2, WriteStep DEF Strobe, Matches
      <3>3. CASE r.state # "IDLE"
        <4>1. bus.left = 1 + WaitCycles
          BY <3>1, <3>3 DEF Unseen, Idle
        <4>2. bus'.left = WaitCycles /\ bus'.left > 0 /\ bus'.op = "write"
          BY <1>1, <3>1, <4>1, BusAssumption
        <4>3. r'.state = "IDLE" \/ Matches'
          BY <1>1, <3>3, WriteStep DEF Matches
        <4> QED
          BY <4>2, <4>3 DEF Unseen, Idle
      <3> QED
        BY <3>2, <3>3
    <2> QED
      BY <2>1, <2>2
  <1> QED
    BY <1>2, <1>3, WriteStep DEF WriteInv

LEMMA InitWriteInv == Init => WriteInv
  <1> SUFFICES ASSUME Init PROVE WriteInv
    OBVIOUS
  <1> QED
    BY InitTypeOK DEF Init, InitReg, NoTransfer, Nothing, WriteInv, WriteCarries,
                      Matches

LEMMA StepWriteInv ==
  ASSUME WaitCycles >= 1, WriteInv, [Next]_vars
  PROVE  WriteInv'
  <1>1. TypeOK'
    BY StepTypeOK DEF WriteInv
  <1>2. CASE Clock
    BY <1>1, <1>2, ClockWriteInv
  <1>3. CASE Reset
    BY <1>1, <1>3 DEF Reset, InitReg, NoTransfer, Nothing, WriteInv, WriteCarries,
                      Matches
  <1>4. CASE SetDutyCycle \/ UNCHANGED vars
    <2>1. r' = r /\ bus' = bus /\ want' = want
      BY <1>4 DEF SetDutyCycle, vars
    <2> QED
      BY <1>1, <2>1 DEF WriteInv, WriteCarries, Matches, Unseen, Idle
  <1>5. CASE Write
    <2>1. Matches /\ want \in [direction : 0 .. 1, duty : Duty, set : BOOLEAN]
      BY <1>5, TypeParts DEF Write, IssueDirection, IssueDuty, BusFree, WriteInv,
                             CpuType
    <2>2. 1 + WaitCycles > 0
      BY BusAssumption
    <2>3. /\ r' = r /\ bus'.op = "write" /\ bus'.left = 1 + WaitCycles
          /\ \/ /\ bus'.address = 0
                /\ bus'.data % 2 = want'.direction
                /\ want'.duty = want.duty
             \/ /\ bus'.address = 1
                /\ bus'.data % DutyLevels = want'.duty
                /\ want'.direction = want.direction
      <3>1. CASE IssueDirection
        BY <2>1, <3>1 DEF IssueDirection, Issue
      <3>2. CASE IssueDuty
        BY <2>1, <3>2 DEF IssueDuty, Issue
      <3> QED
        BY <1>5, <3>1, <3>2 DEF Write
    <2> QED
      BY <1>1, <2>1, <2>2, <2>3 DEF WriteInv, WriteCarries, Matches, Unseen
  <1>6. CASE IssueRead
    <2>1. /\ r' = r /\ want' = want /\ bus'.op = "read" /\ Matches
      BY <1>6 DEF IssueRead, Issue, BusFree, WriteInv, cpuVars
    <2> QED
      BY <1>1, <2>1 DEF WriteInv, WriteCarries, Matches
  <1> QED
    BY <1>2, <1>3, <1>4, <1>5, <1>6 DEF Next

(***************************************************************************)
(* A bus that holds its strobe for a second clock loses no write, however  *)
(* closely they follow each other, and even at the clock of a reset's end. *)
(***************************************************************************)
THEOREM WritesArrive ==
  ASSUME WaitCycles >= 1
  PROVE  Spec => []NoWriteLost
  <1>1. WriteInv => NoWriteLost
    BY DEF WriteInv, Matches, NoWriteLost, BusFree
  <1>2. WriteInv /\ [Next]_vars => WriteInv'
    BY StepWriteInv
  <1> QED
    BY <1>1, <1>2, InitWriteInv, PTL DEF Spec

=============================================================================
