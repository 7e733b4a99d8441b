---------------------------- MODULE MotorDriver ----------------------------
(***************************************************************************)
(* One motor (or servo) output, from SetDutyCycle to the two pins.         *)
(*                                                                         *)
(*   SetDutyCycle (motor_driver.c)  --two bus writes-->  registers         *)
(*   (motor_driver_avalon.vhd)  --enable-->  two pwm blocks (pwm.vhd)      *)
(*                                                                         *)
(* One step of the hardware is one rising clock edge: the register machine,*)
(* both pwm blocks and the bus strobe move together.  The processor is not *)
(* clocked with them: between two edges it may do nothing, or start the    *)
(* next transfer when the bus is free.                                     *)
(***************************************************************************)
EXTENDS Integers

CONSTANTS
  Period,       \* clocks in a pwm period: sys_clk / pwm_freq
  DutyLevels,   \* 2^bits_resolution
  Percents,     \* duty cycles SetDutyCycle is called with
  Directions,   \* directions SetDutyCycle is called with
  WaitCycles    \* further clocks the bus holds a strobe

ASSUME PwmAssumption ==
  /\ Period \in Nat /\ Period >= 2
  /\ DutyLevels \in Nat /\ DutyLevels >= 2

ASSUME BusAssumption ==
  /\ Percents \subseteq Int
  /\ Directions \subseteq Nat
  /\ WaitCycles \in Nat

VARIABLES
  r,              \* the registers of motor_driver_avalon
  count,          \* the rest per channel: clocks into the pwm period,
  half_duty_new,  \*   half the pulse, as last latched,
  half_duty,      \*   half the pulse, of this period,
  pwm_out,        \*   and the pin
  bus,            \* the transfer on the slave port, while left > 0
  pc, arg,        \* the program in SetDutyCycle, and its arguments
  want            \* history: what was written since the last reset

pwmVars == <<count, half_duty_new, half_duty, pwm_out>>
cpuVars == <<pc, arg, want>>
vars == <<r, count, half_duty_new, half_duty, pwm_out, bus, pc, arg, want>>

Channels == 0 .. 1
Duty == 0 .. DutyLevels - 1

All(v) == [c \in Channels |-> v]

InitReg == [direction |-> 0, duty_cycle |-> 0, duty |-> All(0),
            enable |-> All(FALSE), readdata |-> 0, state |-> "RESET"]

NoTransfer == [op |-> "none", address |-> 0, data |-> 0, left |-> 0]

Nothing == [direction |-> 0, duty |-> 0, set |-> FALSE]

\* Clocks in half a pulse.
Half(duty) == ((duty * Period) \div DutyLevels) \div 2

\* Mutant: the other pin keeps its duty cycle.
SplitStale(direction, duty) ==
  [c \in Channels |-> IF c = direction THEN duty ELSE r.duty[c]]

\* The duty cycle goes to the pin of the direction, the other pin rests.
Split(direction, duty) == [c \in Channels |-> IF c = direction THEN duty ELSE 0]

Init ==
  /\ r = InitReg
  /\ count = All(0)
  /\ half_duty_new = All(0)
  /\ half_duty = All(0)
  /\ pwm_out = All(0)
  /\ bus = NoTransfer
  /\ pc = "idle"
  /\ arg = [direction |-> 0, duty |-> 0]
  /\ want = Nothing

-----------------------------------------------------------------------------
(***************************************************************************)
(* The pwm block, once per channel.  Outputs compare the count and the     *)
(* half pulse of before the edge.                                          *)
(***************************************************************************)
EndOfPeriod(c) == count[c] = Period - 1

LatchDuty ==
  half_duty_new' = [c \in Channels |-> IF r.enable[c] THEN Half(r.duty[c])
                                       ELSE half_duty_new[c]]

\* Mutant: version 1.0, which changes the duty cycle anywhere in the period.
TakeDutyAtOnce == half_duty' = half_duty_new

TakeDuty ==
  half_duty' = [c \in Channels |-> IF EndOfPeriod(c) THEN half_duty_new[c]
                                   ELSE half_duty[c]]

Pwm ==
  /\ LatchDuty
  /\ TakeDuty
  /\ count' = [c \in Channels |-> IF EndOfPeriod(c) THEN 0 ELSE count[c] + 1]
  /\ pwm_out' = [c \in Channels |->
                   IF count[c] = half_duty[c] THEN 0
                   ELSE IF count[c] = Period - half_duty[c] THEN 1
                   ELSE pwm_out[c]]

-----------------------------------------------------------------------------
(***************************************************************************)
(* The register machine, one action per case of its process.               *)
(***************************************************************************)
Strobe(op) == bus.left > 0 /\ bus.op = op

\* A read takes what readdata held before its last edge.
Transfer ==
  bus' = IF bus.left = 0 THEN bus
         ELSE [bus EXCEPT !.left = bus.left - 1,
                          !.data = IF bus.op = "read" THEN r.readdata ELSE bus.data]

Edge(registers) ==
  /\ r' = registers
  /\ Pwm
  /\ Transfer
  /\ UNCHANGED cpuVars

LeaveReset ==
  /\ r.state = "RESET"
  /\ Edge([InitReg EXCEPT !.state = "IDLE"])

Idle == r.state = "IDLE"

Rest == [r EXCEPT !.enable = All(FALSE)]

\* No strobe, or a write to an address that is not a register.
NoAccess ==
  /\ Idle
  /\ ~Strobe("read")
  /\ Strobe("write") => bus.address \notin {0, 1}
  /\ Edge(Rest)

\* A read of the direction sets only bit 0 of readdata.
ReadRegister ==
  /\ Idle
  /\ Strobe("read")
  /\ Edge([Rest EXCEPT !.readdata =
             CASE bus.address = 0 -> 2 * (r.readdata \div 2) + r.direction
               [] bus.address = 1 -> r.duty_cycle
               [] OTHER           -> 0])

WriteDirection ==
  /\ Idle
  /\ Strobe("write") /\ bus.address = 0
  /\ LET direction == bus.data % 2 IN
     Edge([Rest EXCEPT !.direction = direction,
                       !.duty = Split(direction, r.duty_cycle),
                       !.state = "WRITE_DUTY"])

WriteDuty ==
  /\ Idle
  /\ Strobe("write") /\ bus.address = 1
  /\ LET duty == bus.data % DutyLevels IN
     Edge([Rest EXCEPT !.duty_cycle = duty,
                       !.duty = Split(r.direction, duty),
                       !.state = "WRITE_DUTY"])

\* Mutant: only the pin of the direction latches.
EnableOne ==
  /\ r.state = "WRITE_DUTY"
  /\ Edge([r EXCEPT !.enable = [c \in Channels |-> c = r.direction],
                    !.state = "IDLE"])

Enable ==
  /\ r.state = "WRITE_DUTY"
  /\ Edge([r EXCEPT !.enable = All(TRUE), !.state = "IDLE"])

Clock == LeaveReset \/ NoAccess \/ ReadRegister \/ WriteDirection \/ WriteDuty \/ Enable

(***************************************************************************)
(* reset_n, for any number of clocks.  The registers and the counters are  *)
(* cleared, half_duty and half_duty_new are not.  The bus resets with them *)
(* and drops its transfer.                                                 *)
(***************************************************************************)
Reset ==
  /\ r' = InitReg
  /\ count' = All(0)
  /\ pwm_out' = All(0)
  /\ bus' = NoTransfer
  /\ want' = Nothing
  /\ UNCHANGED <<half_duty_new, half_duty, pc, arg>>

-----------------------------------------------------------------------------
(***************************************************************************)
(* SetDutyCycle: the direction is written, then the duty cycle.  The float *)
(* is truncated; a negative one converts to 0 on this processor, and one   *)
(* above 100 is cut to the register's bits.                                *)
(***************************************************************************)
Modulus(percent) ==
  IF percent < 0 THEN 0 ELSE (percent * (DutyLevels - 1)) \div 100

BusFree == bus.left = 0

\* Mutant: a translator without write wait cycles.
IssueShort(op, address, data) ==
  bus' = [op |-> op, address |-> address, data |-> data, left |-> 1]

Issue(op, address, data) ==
  bus' = [op |-> op, address |-> address, data |-> data, left |-> 1 + WaitCycles]

SetDutyCycle ==
  /\ pc = "idle"
  /\ \E percent \in Percents, direction \in Directions :
       arg' = [direction |-> direction, duty |-> Modulus(percent)]
  /\ pc' = "dir"
  /\ UNCHANGED <<r, pwmVars, bus, want>>

IssueDirection ==
  /\ pc = "dir"
  /\ BusFree
  /\ Issue("write", 0, arg.direction)
  /\ want' = [want EXCEPT !.direction = arg.direction % 2, !.set = TRUE]
  /\ pc' = "duty"
  /\ UNCHANGED <<r, pwmVars, arg>>

IssueDuty ==
  /\ pc = "duty"
  /\ BusFree
  /\ Issue("write", 1, arg.duty)
  /\ want' = [want EXCEPT !.duty = arg.duty % DutyLevels, !.set = TRUE]
  /\ pc' = "idle"
  /\ UNCHANGED <<r, pwmVars, arg>>

\* The JTAG master of the debug port reads a register, between the writes.
IssueRead ==
  /\ BusFree
  /\ \E address \in 0 .. 2 : Issue("read", address, 0)
  /\ UNCHANGED <<r, pwmVars, cpuVars>>

Write == IssueDirection \/ IssueDuty

Next == Clock \/ Reset \/ SetDutyCycle \/ Write \/ IssueRead

Spec == Init /\ [][Next]_vars

\* The clock runs, and a write that was begun in SetDutyCycle goes out.
FairSpec == Spec /\ WF_vars(Clock) /\ SF_vars(Write)

-----------------------------------------------------------------------------
TypeOK ==
  /\ r \in [direction : 0 .. 1, duty_cycle : Duty, duty : [Channels -> Duty],
            enable : [Channels -> BOOLEAN], readdata : Nat,
            state : {"RESET", "IDLE", "WRITE_DUTY"}]
  /\ count \in [Channels -> 0 .. Period - 1]
  /\ half_duty_new \in [Channels -> Nat]
  /\ half_duty \in [Channels -> Nat]
  /\ pwm_out \in [Channels -> 0 .. 1]
  /\ bus \in [op : {"none", "read", "write"}, address : Nat, data : Nat, left : Nat]
  /\ bus.left <= 1 + WaitCycles
  /\ pc \in {"idle", "dir", "duty"}
  /\ arg \in [direction : Nat, duty : Nat]
  /\ want \in [direction : 0 .. 1, duty : Duty, set : BOOLEAN]

(***************************************************************************)
(* The two pins of a motor are never driven at once, whatever is written,  *)
(* in whatever order, and across a reset that forgets the registers but    *)
(* not the pulses: the H-bridge behind them must not see both.             *)
(***************************************************************************)
PinsExclusive == ~(pwm_out[0] = 1 /\ pwm_out[1] = 1)

(***************************************************************************)
(* "Transistion between duty cycles always starts at center of pulse to    *)
(* avoid anomalies in pulse shapes" (pwm.vhd:21-22): past the first half,  *)
(* the pin follows the pulse of this period and no other.                  *)
(***************************************************************************)
PulseShape ==
  \A c \in Channels :
    count[c] > half_duty[c] =>
      (pwm_out[c] = 1 <=> count[c] > Period - half_duty[c])

(***************************************************************************)
(* No write is lost in the clock the machine spends in WRITE_DUTY or in    *)
(* RESET: when a transfer is over, the registers hold what was written.    *)
(***************************************************************************)
NoWriteLost ==
  BusFree => r.direction = want.direction /\ r.duty_cycle = want.duty

\* The half pulses of what the registers hold.
Pulse == [c \in Channels |-> Half(Split(r.direction, r.duty_cycle)[c])]

(***************************************************************************)
(* If the program stops calling, the pins end up with the pulse of the     *)
(* last call, or the driver was reset and not written since.               *)
(***************************************************************************)
Asleep == pc = "idle" /\ (BusFree \/ bus.op = "read")

Settles ==
  <>[]Asleep => <>[](want.set => half_duty = Pulse)
=============================================================================
