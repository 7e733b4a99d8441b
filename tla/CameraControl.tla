--------------------------- MODULE CameraControl ---------------------------
(***************************************************************************)
(* How the sensor is configured.                                           *)
(*                                                                         *)
(*   CameraLoadConfig (camera_control.c)  --one store per line, then a     *)
(*   fixed sleep-->  ov7670_controller  --send / taken / done-->           *)
(*   i2c_sender  --frame-->  the sensor                                    *)
(*                                                                         *)
(* Nothing answers the program: it only sleeps long enough.  The bus does  *)
(* hold a store while the controller is busy, but a store held to the end  *)
(* of a frame is taken from the bus in WAIT_WRITE_FINISHED, where the      *)
(* controller does not look at it.                                         *)
(*                                                                         *)
(* One step of the hardware is one rising clock edge.  The shift register  *)
(* and the divider of the sender are one count of clocks left to send.     *)
(***************************************************************************)
EXTENDS Naturals, Sequences

CONSTANTS
  Frame,      \* clocks of a frame: 32 bits of 256 clocks
  PowerUp,    \* clocks the first send after power-up waits: 255
  Delay,      \* clocks the program sleeps after a store: DELAY_US
  Commands,   \* 2^16, the commands the controller keeps apart
  Files,      \* the configuration files: sequences of lines
  MaxResets   \* bound: resets of the board

Line == [text : {"full", "bare", "other"}, value : Nat]

ASSUME ControlAssumption ==
  /\ Frame \in Nat \ {0}
  /\ PowerUp \in Nat
  /\ Delay \in Nat
  /\ Commands \in Nat \ {0}
  /\ \A f \in Files : f \in Seq(Line)
  /\ MaxResets \in Nat

VARIABLES
  r,          \* the registers of ov7670_controller
  sender,     \* i2c_sender: its power-up pause, the frame, and taken
  bus,        \* the store held on the control port
  pc,         \* where the program is in CameraLoadConfig
  file, pos,  \* the file, and the lines read of it
  stuck,      \* the rest of the line read is a newline alone
  value,      \* what fscanf last converted
  sleep,      \* clocks left of usleep, or of booting
  resets,     \* resets so far
  pending     \* history: stored by the program and not yet in the sensor

hwVars == <<r, sender, bus>>
fileVars == <<file, pos, stuck, value>>
vars == <<r, sender, bus, pc, file, pos, stuck, value, sleep, resets, pending>>

InitReg == [state |-> "RESET", send |-> FALSE, busy |-> FALSE, command |-> 0]

NoStore == [write |-> FALSE, data |-> 0]

Init ==
  /\ r = InitReg
  /\ sender = [pause |-> PowerUp, left |-> 0, taken |-> FALSE, data |-> 0]
  /\ bus = NoStore
  /\ pc = "scan"
  /\ file \in Files
  /\ pos = 0
  /\ stuck = FALSE
  /\ value = 0
  /\ sleep = Delay
  /\ resets = 0
  /\ pending = <<>>

-----------------------------------------------------------------------------
(***************************************************************************)
(* The sender, which no reset reaches.                                     *)
(***************************************************************************)
Load == [sender EXCEPT !.left = Frame, !.taken = TRUE, !.data = r.command]

Sender ==
  IF sender.left > 0
    THEN [sender EXCEPT !.left = sender.left - 1, !.taken = FALSE]
  ELSE IF r.send /\ sender.pause = 0 THEN Load
  ELSE IF r.send THEN [sender EXCEPT !.pause = sender.pause - 1, !.taken = FALSE]
  ELSE [sender EXCEPT !.taken = FALSE]

Done == sender.left = 0

\* The frame ends with this edge: the sensor has it.
Arrives == sender.left = 1

-----------------------------------------------------------------------------
(***************************************************************************)
(* The controller, one action per branch of its process.  waitrequest is   *)
(* busy: the bus lets go of a store in the first clock that is not.        *)
(***************************************************************************)
Transfer == bus' = IF r.busy THEN bus ELSE [bus EXCEPT !.write = FALSE]

Edge(registers) ==
  /\ r' = registers
  /\ sender' = Sender
  /\ Transfer
  /\ pending' = IF Arrives THEN SubSeq(pending, 2, Len(pending)) ELSE pending
  /\ sleep' = IF sleep > 0 THEN sleep - 1 ELSE 0
  /\ UNCHANGED <<pc, fileVars, resets>>

LeaveReset ==
  /\ r.state = "RESET"
  /\ Edge([InitReg EXCEPT !.state = "IDLE"])

Idle ==
  /\ r.state = "IDLE" /\ ~bus.write
  /\ Edge(r)

AcceptCommand ==
  /\ r.state = "IDLE" /\ bus.write
  /\ Edge([state |-> "WRITE_REG", send |-> TRUE, busy |-> TRUE,
           command |-> bus.data % Commands])

AwaitTaken ==
  /\ r.state = "WRITE_REG" /\ ~sender.taken
  /\ Edge(r)

\* Mutant: send stays up while the frame goes out.
TakenKeepsSend ==
  /\ r.state = "WRITE_REG" /\ sender.taken
  /\ Edge([r EXCEPT !.state = "WAIT_WRITE"])

Taken ==
  /\ r.state = "WRITE_REG" /\ sender.taken
  /\ Edge([r EXCEPT !.send = FALSE, !.state = "WAIT_WRITE"])

AwaitDone ==
  /\ r.state = "WAIT_WRITE" /\ ~Done
  /\ Edge(r)

FrameDone ==
  /\ r.state = "WAIT_WRITE" /\ Done
  /\ Edge([r EXCEPT !.send = FALSE, !.busy = FALSE, !.state = "WAIT_WRITE_FINISHED"])

\* A store that was held through the frame leaves the bus here, unseen.
Finish ==
  /\ r.state = "WAIT_WRITE_FINISHED"
  /\ Edge([r EXCEPT !.state = IF bus.write THEN "WAIT_WRITE_FINISHED" ELSE "IDLE"])

Clock == \/ LeaveReset \/ Idle \/ AcceptCommand \/ AwaitTaken \/ Taken
         \/ AwaitDone \/ FrameDone \/ Finish

(***************************************************************************)
(* The board's reset, for any number of clocks.  The processor is reset    *)
(* with the controller and boots for longer than it ever sleeps; a frame   *)
(* that had begun goes on.                                                 *)
(***************************************************************************)
Reset ==
  /\ resets < MaxResets
  /\ resets' = resets + 1
  /\ r' = InitReg
  /\ sender' = Sender
  /\ bus' = NoStore
  /\ pending' = IF Sender.left > 0 THEN <<Sender.data>> ELSE <<>>
  /\ sleep' = Delay
  /\ pc' = "scan"
  /\ pos' = 0
  /\ stuck' = FALSE
  /\ value' = 0
  /\ UNCHANGED file

-----------------------------------------------------------------------------
(***************************************************************************)
(* CameraLoadConfig: while (EOF != fscanf(fp, "0x%x%*[^\n]\n", &value)).   *)
(* A full line (a number and some text, or a number that ends the file) is *)
(* read with the white space behind it.  Of a bare line the number is      *)
(* converted, and the newline stays: from then on, as on any other text,   *)
(* fscanf matches nothing, which is not EOF.                               *)
(***************************************************************************)
Awake == pc = "scan" /\ sleep = 0

AtEnd == pos = Len(file) /\ ~stuck

\* What fscanf meets.
NextText == IF stuck \/ pos = Len(file) THEN "other" ELSE file[pos + 1].text

\* Mutant: the position in the file does not move.
ScanLineAgain ==
  /\ Awake
  /\ NextText \in {"full", "bare"}
  /\ value' = file[pos + 1].value
  /\ stuck' = (NextText = "bare")
  /\ pc' = "store"
  /\ UNCHANGED <<hwVars, pos, file, sleep, resets, pending>>

ScanLine ==
  /\ Awake
  /\ NextText \in {"full", "bare"}
  /\ value' = file[pos + 1].value
  /\ stuck' = (NextText = "bare")
  /\ pos' = pos + 1
  /\ pc' = "store"
  /\ UNCHANGED <<hwVars, file, sleep, resets, pending>>

\* Nothing matches: the value of the line before is stored once more.
ScanNothing ==
  /\ Awake /\ ~AtEnd
  /\ NextText = "other"
  /\ pc' = "store"
  /\ UNCHANGED <<hwVars, fileVars, sleep, resets, pending>>

EndOfFile ==
  /\ Awake /\ AtEnd
  /\ pc' = "done"
  /\ UNCHANGED <<hwVars, fileVars, sleep, resets, pending>>

\* Mutant: the program does not sleep.
CameraSetRegAtOnce ==
  /\ pc = "store"
  /\ ~bus.write
  /\ bus' = [write |-> TRUE, data |-> value]
  /\ pending' = Append(pending, value % Commands)
  /\ pc' = "scan"
  /\ UNCHANGED <<r, sender, fileVars, sleep, resets>>

CameraSetReg ==
  /\ pc = "store"
  /\ ~bus.write
  /\ bus' = [write |-> TRUE, data |-> value]
  /\ pending' = Append(pending, value % Commands)
  /\ sleep' = Delay
  /\ pc' = "scan"
  /\ UNCHANGED <<r, sender, fileVars, resets>>

Program == ScanLine \/ ScanNothing \/ EndOfFile \/ CameraSetReg

Next == Clock \/ Reset \/ Program

Spec == Init /\ [][Next]_vars

\* The clock runs and the program is scheduled.
FairSpec == Spec /\ WF_vars(Clock) /\ WF_vars(Program)

-----------------------------------------------------------------------------
TypeOK ==
  /\ r \in [state : {"RESET", "IDLE", "WRITE_REG", "WAIT_WRITE", "WAIT_WRITE_FINISHED"},
            send : BOOLEAN, busy : BOOLEAN, command : 0 .. Commands - 1]
  /\ sender \in [pause : 0 .. PowerUp, left : 0 .. Frame, taken : BOOLEAN,
                 data : 0 .. Commands - 1]
  /\ bus \in [write : BOOLEAN, data : Nat]
  /\ pc \in {"scan", "store", "done"}
  /\ file \in Files
  /\ pos \in 0 .. Len(file)
  /\ stuck \in BOOLEAN
  /\ value \in Nat
  /\ sleep \in 0 .. Delay
  /\ resets \in 0 .. MaxResets
  /\ pending \in Seq(0 .. Commands - 1)

(***************************************************************************)
(* What the hardware holds of the program's stores, oldest first: the      *)
(* frame on the wire, the command that waits for it, the store on the bus. *)
(***************************************************************************)
InFlight ==
  (IF sender.left > 0 THEN <<sender.data>> ELSE <<>>)
  \o (IF r.state = "WRITE_REG" /\ ~sender.taken THEN <<r.command>> ELSE <<>>)
  \o (IF bus.write THEN <<bus.data % Commands>> ELSE <<>>)

(***************************************************************************)
(* Every register stored by the program since the last reset reaches the   *)
(* sensor once, in the order of the file: none is dropped in               *)
(* WAIT_WRITE_FINISHED, none is sent twice, none overtakes another.        *)
(***************************************************************************)
NothingLost == pending = InFlight

(***************************************************************************)
(* When CameraLoadConfig returns, the sensor has the whole configuration,  *)
(* the first frame with its power-up pause included: main starts the       *)
(* first transfer on a configured camera (main.c:235-245).                 *)
(***************************************************************************)
ConfiguredWhenDone == pc = "done" => pending = <<>>

(***************************************************************************)
(* A file whose lines are all a register value with text behind it is read *)
(* to its end, whatever resets come between: CameraLoadConfig returns.     *)
(***************************************************************************)
WellFormed == \A n \in 1 .. Len(file) : file[n].text = "full"

Loads == WellFormed => <>(pc = "done")
=============================================================================
