------------------------ MODULE CameraControlProofs ------------------------
(***************************************************************************)
(* Proofs about CameraControl.  If the program sleeps for a power-up       *)
(* pause, a frame and the four clocks of the handshake, then for every     *)
(* file, frame length and sequence of resets nothing it stores is lost.    *)
(***************************************************************************)
EXTENDS CameraControl, TLAPS

-----------------------------------------------------------------------------
(***************************************************************************)
(* Types, in the groups the steps change together.                         *)
(***************************************************************************)
States == {"RESET", "IDLE", "WRITE_REG", "WAIT_WRITE", "WAIT_WRITE_FINISHED"}

Command == 0 .. Commands - 1

RegType == r \in [state : States, send : BOOLEAN, busy : BOOLEAN, command : Command]

SenderRecords ==
  [pause : 0 .. PowerUp, left : 0 .. Frame, taken : BOOLEAN, data : Command]

SenderType == sender \in SenderRecords

BusType == bus \in [write : BOOLEAN, data : Nat]

FileType ==
  /\ pc \in {"scan", "store", "done"}
  /\ file \in Files
  /\ pos \in 0 .. Len(file)
  /\ stuck \in BOOLEAN
  /\ value \in Nat

ClockType ==
  /\ sleep \in 0 .. Delay
  /\ resets \in 0 .. MaxResets

PendingType == pending \in Seq(Command)

LEMMA TypeParts ==
  TypeOK <=> /\ RegType /\ SenderType /\ BusType
             /\ FileType /\ ClockType /\ PendingType
  BY DEF TypeOK, RegType, SenderType, SenderRecords, BusType, FileType, ClockType,
         PendingType, States, Command

LEMMA CommandOf == ASSUME NEW v \in Nat PROVE v % Commands \in Command
  BY ControlAssumption DEF Command

LEMMA LineOf ==
  ASSUME FileType, NextText \in {"full", "bare"}
  PROVE  /\ file[pos + 1].value \in Nat
         /\ pos + 1 \in 0 .. Len(file)
  <1>1. file \in Seq(Line)
    BY ControlAssumption DEF FileType
  <1>2. pos # Len(file)
    BY DEF NextText
  <1>3. Len(file) \in Nat /\ pos + 1 \in 1 .. Len(file)
    BY <1>1, <1>2 DEF FileType
  <1>4. file[pos + 1] \in Line
    BY <1>1, <1>3
  <1> QED
    BY <1>3, <1>4 DEF Line

LEMMA SenderStep ==
  ASSUME RegType, SenderType
  PROVE  /\ Sender \in SenderRecords
         /\ sender.left > 0 => /\ Sender.left = sender.left - 1
                               /\ Sender.pause = sender.pause
                               /\ Sender.data = sender.data
                               /\ ~Sender.taken
         /\ sender.left = 0 /\ ~r.send => /\ Sender.left = 0
                                          /\ Sender.pause = sender.pause
                                          /\ ~Sender.taken
         /\ sender.left = 0 /\ r.send /\ sender.pause > 0 =>
              /\ Sender.left = 0
              /\ Sender.pause = sender.pause - 1
              /\ ~Sender.taken
         /\ sender.left = 0 /\ r.send /\ sender.pause = 0 =>
              /\ Sender.left = Frame
              /\ Sender.pause = 0
              /\ Sender.data = r.command
              /\ Sender.taken
  <1>0. /\ sender.left \in 0 .. Frame /\ sender.pause \in 0 .. PowerUp
        /\ sender.taken \in BOOLEAN /\ sender.data \in Command
        /\ r.command \in Command
        /\ Frame \in Nat /\ Frame > 0 /\ PowerUp \in Nat
    BY ControlAssumption DEF SenderType, SenderRecords, RegType
  <1>1. CASE sender.left > 0
    <2>1. Sender = [sender EXCEPT !.left = sender.left - 1, !.taken = FALSE]
      BY <1>1 DEF Sender
    <2>2. sender.left - 1 \in 0 .. Frame
      BY <1>0, <1>1
    <2>3. Sender \in SenderRecords
      BY <1>0, <2>1, <2>2 DEF SenderType, SenderRecords
    <2>4. /\ Sender.left = sender.left - 1 /\ Sender.pause = sender.pause
          /\ Sender.data = sender.data /\ ~Sender.taken
      BY <2>1 DEF SenderType, SenderRecords
    <2> QED
      BY <1>0, <1>1, <2>3, <2>4
  <1>2. CASE sender.left = 0 /\ ~r.send
    <2>1. Sender = [sender EXCEPT !.taken = FALSE]
      BY <1>2 DEF Sender
    <2>2. Sender \in SenderRecords
      BY <1>0, <2>1 DEF SenderType, SenderRecords
    <2>3. Sender.left = 0 /\ Sender.pause = sender.pause /\ ~Sender.taken
      BY <1>2, <2>1 DEF SenderType, SenderRecords
    <2> QED
      BY <1>0, <1>2, <2>2, <2>3
  <1>3. CASE sender.left = 0 /\ r.send /\ sender.pause > 0
    <2>1. Sender = [sender EXCEPT !.pause = sender.pause - 1, !.taken = FALSE]
      BY <1>3 DEF Sender
    <2>2. sender.pause - 1 \in 0 .. PowerUp
      BY <1>0, <1>3
    <2>3. Sender \in SenderRecords
      BY <1>0, <2>1, <2>2 DEF SenderType, SenderRecords
    <2>4. Sender.left = 0 /\ Sender.pause = sender.pause - 1 /\ ~Sender.taken
      BY <1>3, <2>1 DEF SenderType, SenderRecords
    <2> QED
      BY <1>0, <1>3, <2>3, <2>4
  <1>4. CASE sender.left = 0 /\ r.send /\ sender.pause = 0
    <2>1. Sender = [sender EXCEPT !.left = Frame, !.taken = TRUE, !.data = r.command]
      BY <1>4 DEF Sender, Load
    <2>2. Frame \in 0 .. Frame
      BY <1>0
    <2>3. Sender \in SenderRecords
      BY <1>0, <2>1, <2>2 DEF SenderType, SenderRecords
    <2>4. /\ Sender.left = Frame /\ Sender.pause = 0
          /\ Sender.data = r.command /\ Sender.taken
      BY <1>4, <2>1 DEF SenderType, SenderRecords
    <2> QED
      BY <1>0, <1>4, <2>3, <2>4
  <1> QED
    BY <1>0, <1>1, <1>2, <1>3, <1>4

\* The registers after an edge.
LEMMA RegStep ==
  ASSUME RegType, BusType, Clock
  PROVE  RegType' /\ Edge(r')
  <1> USE DEF RegType, States
  <1>1. InitReg \in [state : States, send : BOOLEAN, busy : BOOLEAN, command : Command]
    BY ControlAssumption DEF InitReg, Command
  <1>2. CASE LeaveReset
    BY <1>1, <1>2 DEF LeaveReset, Edge
  <1>3. CASE Idle
    BY <1>3 DEF Idle, Edge
  <1>4. CASE AcceptCommand
    <2>1. bus.data % Commands \in Command
      BY CommandOf DEF BusType
    <2> QED
      BY <1>4, <2>1 DEF AcceptCommand, Edge
  <1>5. CASE AwaitTaken
    BY <1>5 DEF AwaitTaken, Edge
  <1>6. CASE Taken
    BY <1>6 DEF Taken, Edge
  <1>7. CASE AwaitDone
    BY <1>7 DEF AwaitDone, Edge
  <1>8. CASE FrameDone
    BY <1>8 DEF FrameDone, Edge
  <1>9. CASE Finish
    BY <1>9 DEF Finish, Edge
  <1> QED
    BY <1>2, <1>3, <1>4, <1>5, <1>6, <1>7, <1>8, <1>9 DEF Clock

LEMMA EdgeType ==
  ASSUME RegType, SenderType, BusType, ClockType, FileType, PendingType, Edge(r')
  PROVE  /\ SenderType' /\ BusType' /\ ClockType' /\ FileType' /\ PendingType'
  <1>1. SenderType'
    BY SenderStep DEF Edge, SenderType
  <1>2. BusType'
    BY DEF Edge, Transfer, BusType
  <1>3. ClockType'
    BY ControlAssumption DEF Edge, ClockType
  <1>4. FileType'
    BY DEF Edge, FileType, fileVars
  <1>5. PendingType'
    <2>1. SubSeq(pending, 2, Len(pending)) \in Seq(Command)
      BY DEF PendingType
    <2> QED
      BY <2>1 DEF Edge, PendingType
  <1> QED
    BY <1>1, <1>2, <1>3, <1>4, <1>5

LEMMA TypeStep == TypeOK /\ [Next]_vars => TypeOK'
  <1> SUFFICES ASSUME TypeOK, [Next]_vars
               PROVE  RegType' /\ SenderType' /\ BusType' /\ FileType' /\ ClockType' /\ PendingType'
    BY TypeParts DEF TypeOK, RegType, SenderType, SenderRecords, BusType, FileType, ClockType,
         PendingType, States, Command
  <1>0. RegType /\ SenderType /\ BusType /\ FileType /\ ClockType /\ PendingType
    BY TypeParts
  <1>1. CASE Clock
    BY <1>0, <1>1, RegStep, EdgeType
  <1>2. CASE Reset
    <2>1. RegType'
      BY <1>2, ControlAssumption DEF Reset, InitReg, RegType, States, Command
    <2>2. SenderType'
      BY <1>0, <1>2, SenderStep DEF Reset, SenderType
    <2>3. BusType'
      BY <1>2 DEF Reset, NoStore, BusType
    <2>4. FileType'
      <3>1. Len(file) \in Nat
        BY <1>0, ControlAssumption DEF FileType
      <3>2. 0 \in 0 .. Len(file)
        BY <3>1
      <3>3. pos' \in 0 .. Len(file')
        BY <1>2, <3>2 DEF Reset
      <3> QED
        BY <1>0, <1>2, <3>3 DEF Reset, FileType
    <2>5. ClockType'
      BY <1>0, <1>2, ControlAssumption DEF Reset, ClockType
    <2>6. PendingType'
      <3>1. Sender.data \in Command
        BY <1>0, SenderStep DEF SenderRecords
      <3> QED
        BY <1>2, <3>1 DEF Reset, PendingType
    <2> QED
      BY <2>1, <2>2, <2>3, <2>4, <2>5, <2>6
  <1>3. CASE ScanLine
    <2>1. FileType'
      <3>1. file[pos + 1].value \in Nat /\ pos + 1 \in 0 .. Len(file)
        BY <1>0, <1>3, LineOf DEF ScanLine
      <3> QED
        BY <1>0, <1>3, <3>1 DEF ScanLine, FileType
    <2> QED
      BY <1>0, <1>3, <2>1 DEF ScanLine, hwVars, RegType, SenderType, BusType,
         ClockType, PendingType
  <1>4. CASE ScanNothing
    BY <1>0, <1>4 DEF ScanNothing, hwVars, fileVars, RegType, SenderType, BusType,
       FileType, ClockType, PendingType
  <1>5. CASE EndOfFile
    BY <1>0, <1>5 DEF EndOfFile, hwVars, fileVars, RegType, SenderType, BusType,
       FileType, ClockType, PendingType
  <1>6. CASE CameraSetReg
    <2>1. PendingType'
      <3>1. value % Commands \in Command
        BY <1>0, CommandOf DEF FileType
      <3> QED
        BY <1>0, <1>6, <3>1 DEF CameraSetReg, PendingType
    <2>2. BusType' /\ ClockType' /\ FileType'
      BY <1>0, <1>6, ControlAssumption DEF CameraSetReg, fileVars, BusType, ClockType, FileType
    <2> QED
      BY <1>0, <1>6, <2>1, <2>2 DEF CameraSetReg, RegType, SenderType
  <1>7. CASE UNCHANGED vars
    BY <1>0, <1>7 DEF vars, RegType, SenderType, BusType, FileType, ClockType, PendingType
  <1> QED
    BY <1>1, <1>2, <1>3, <1>4, <1>5, <1>6, <1>7 DEF Next, Program

LEMMA TypeInit == Init => TypeOK
  <1> SUFFICES ASSUME Init PROVE TypeOK
    OBVIOUS
  <1>1. Len(file) \in Nat
    BY ControlAssumption DEF Init
  <1>2. RegType /\ SenderType /\ BusType
    BY ControlAssumption DEF Init, InitReg, NoStore, RegType, SenderType, SenderRecords,
       BusType, States, Command
  <1>3. FileType
    <2>1. 0 \in 0 .. Len(file)
      BY <1>1
    <2>2. pos \in 0 .. Len(file)
      BY <2>1 DEF Init
    <2> QED
      BY <2>2 DEF Init, FileType
  <1>4. ClockType /\ PendingType
    BY ControlAssumption DEF Init, ClockType, PendingType
  <1> QED
    BY <1>2, <1>3, <1>4, TypeParts

\* Every reachable state has its type, whatever the delay.
THEOREM TypeCorrect == Spec => []TypeOK
  BY TypeInit, TypeStep, PTL DEF Spec

-----------------------------------------------------------------------------
(***************************************************************************)
(* Timing.  Remaining bounds the clocks until the hardware is at rest: it  *)
(* falls by one with every edge, and the program, which slept longer,      *)
(* never stores before it is 0.                                            *)
(***************************************************************************)
Remaining ==
  CASE r.state = "RESET"               -> sender.left + 1
    [] r.state = "IDLE" /\ bus.write    -> sender.pause + Frame + 4
    [] r.state = "IDLE" /\ ~bus.write   -> sender.left
    [] r.state = "WRITE_REG" /\ ~sender.taken -> sender.pause + Frame + 3
    [] r.state = "WRITE_REG" /\ sender.taken  -> sender.left + 2
    [] r.state = "WAIT_WRITE"          -> sender.left + 2
    [] r.state = "WAIT_WRITE_FINISHED" -> 1

\* The handshake of the controller with the bus and with the sender.
Handshake ==
  /\ r.busy <=> r.state \in {"WRITE_REG", "WAIT_WRITE"}
  /\ r.send <=> r.state = "WRITE_REG"
  /\ sender.taken => r.state \in {"WRITE_REG", "RESET"}
  /\ r.state = "WRITE_REG" => (sender.taken <=> sender.left > 0)
  /\ r.state = "WAIT_WRITE_FINISHED" => sender.left = 0
  /\ bus.write => r.state = "IDLE" /\ sender.left = 0

Timed ==
  /\ Remaining <= sleep
  /\ pc \in {"store", "done"} => sleep = 0

IInv == TypeOK /\ Handshake /\ Timed /\ NothingLost

\* Under the handshake the hardware holds one command at most.
Held ==
  IF sender.left > 0 THEN <<sender.data>>
  ELSE IF r.state = "WRITE_REG" THEN <<r.command>>
  ELSE IF bus.write THEN <<bus.data % Commands>>
  ELSE <<>>

OneInFlight == InFlight = Held

LEMMA InFlightHeld ==
  Handshake /\ RegType /\ SenderType /\ BusType => OneInFlight
  <1> SUFFICES ASSUME Handshake, RegType, SenderType, BusType
               PROVE  InFlight = Held
    BY DEF OneInFlight
  <1> DEFINE a == sender.data
             b == r.command
             c == bus.data % Commands
  <1>1. /\ <<a>> \o <<>> \o <<>> = <<a>>
        /\ <<>> \o <<b>> \o <<>> = <<b>>
        /\ <<>> \o <<>> \o <<c>> = <<c>>
        /\ <<>> \o <<>> \o <<>> = <<>>
    OBVIOUS
  <1> HIDE DEF a, b, c
  <1>2. CASE sender.left > 0
    <2>1. ~bus.write /\ ~(r.state = "WRITE_REG" /\ ~sender.taken)
      BY <1>2 DEF Handshake, SenderType, SenderRecords
    <2> QED
      BY <1>1, <1>2, <2>1 DEF InFlight, Held, a
  <1>3. CASE ~(sender.left > 0) /\ r.state = "WRITE_REG"
    <2>1. ~bus.write /\ ~sender.taken
      BY <1>3 DEF Handshake
    <2> QED
      BY <1>1, <1>3, <2>1 DEF InFlight, Held, b
  <1>4. CASE ~(sender.left > 0) /\ r.state # "WRITE_REG"
    BY <1>1, <1>4 DEF InFlight, Held, c
  <1> QED
    BY <1>2, <1>3, <1>4

IInvParts ==
  /\ RegType /\ SenderType /\ BusType /\ FileType /\ ClockType /\ PendingType
  /\ Handshake /\ Timed
  /\ pending = Held

LEMMA IInvSplit == IInv <=> IInvParts
  BY TypeParts, InFlightHeld DEF IInv, IInvParts, NothingLost, OneInFlight

\* What one edge does besides the registers.
LEMMA EdgeFacts ==
  ASSUME IInvParts, Edge(r')
  PROVE  /\ sender' = Sender
         /\ bus'.write = (bus.write /\ r.busy)
         /\ sleep' = IF sleep > 0 THEN sleep - 1 ELSE 0
         /\ pc' = pc
         /\ sender.left > 1 => Held = <<sender.data>> /\ pending' = pending
         /\ sender.left = 1 => pending' = <<>>
         /\ sender.left = 0 => pending' = pending
  <1>1. sender' = Sender /\ pc' = pc /\ sleep' = IF sleep > 0 THEN sleep - 1 ELSE 0
    BY DEF Edge
  <1>2. bus'.write = (bus.write /\ r.busy)
    BY DEF IInvParts, Edge, Transfer, BusType, RegType
  <1>3. sender.left = 1 => pending' = <<>>
    <2> SUFFICES ASSUME sender.left = 1 PROVE pending' = <<>>
      OBVIOUS
    <2>1. pending = <<sender.data>>
      BY DEF IInvParts, Held
    <2>2. SubSeq(<<sender.data>>, 2, Len(<<sender.data>>)) = <<>>
      OBVIOUS
    <2> QED
      BY <2>1, <2>2 DEF Edge, Arrives
  <1>4. sender.left > 1 => Held = <<sender.data>> /\ pending' = pending
    BY DEF Held, Edge, Arrives, IInvParts, SenderType, SenderRecords
  <1>5. sender.left = 0 => pending' = pending
    BY DEF Edge, Arrives
  <1> QED
    BY <1>1, <1>2, <1>3, <1>4, <1>5

\* The numbers a timing argument is about.
LEMMA Numbers ==
  ASSUME IInvParts
  PROVE  /\ sender.left \in Nat /\ sender.pause \in Nat
         /\ sender.pause <= PowerUp /\ sender.left <= Frame
         /\ Frame \in Nat /\ Frame > 0
         /\ PowerUp \in Nat /\ Delay \in Nat
         /\ sleep \in Nat /\ sleep <= Delay
         /\ sender.taken \in BOOLEAN /\ bus.write \in BOOLEAN
         /\ r.send \in BOOLEAN /\ r.busy \in BOOLEAN
         /\ r.state \in States
  BY ControlAssumption DEF IInvParts, RegType, SenderType, SenderRecords, BusType, ClockType

Shaken == Handshake' /\ Timed' /\ pending' = Held'

LEMMA ClockStep ==
  ASSUME IInvParts, Clock
  PROVE  Shaken
  <1> DEFINE left == sender.left
             pause == sender.pause
  <1>1. Edge(r') /\ RegType'
    BY RegStep DEF IInvParts
  <1>2. /\ sender' = Sender
        /\ bus'.write = (bus.write /\ r.busy)
        /\ sleep' = IF sleep > 0 THEN sleep - 1 ELSE 0
        /\ pc' = pc
        /\ left > 1 => Held = <<sender.data>> /\ pending' = pending
        /\ left = 1 => pending' = <<>>
        /\ left = 0 => pending' = pending
    BY <1>1, EdgeFacts
  <1>3. /\ left > 0 => /\ sender'.left = left - 1 /\ sender'.pause = pause
                       /\ sender'.data = sender.data /\ ~sender'.taken
        /\ left = 0 /\ ~r.send => /\ sender'.left = 0 /\ sender'.pause = pause
                                  /\ ~sender'.taken
        /\ left = 0 /\ r.send /\ pause > 0 => /\ sender'.left = 0
                                               /\ sender'.pause = pause - 1
                                               /\ ~sender'.taken
        /\ left = 0 /\ r.send /\ pause = 0 => /\ sender'.left = Frame
                                               /\ sender'.pause = 0
                                               /\ sender'.data = r.command
                                               /\ sender'.taken
    BY <1>2, SenderStep DEF IInvParts
  <1>4. ~bus'.write
    BY <1>2 DEF IInvParts, Handshake
  <1>5. sleep' = IF sleep > 0 THEN sleep - 1 ELSE 0
    BY <1>2
  <1>6. pc' \in {"store", "done"} => sleep' = 0
    BY <1>2, Numbers DEF IInvParts, Timed
  <1>7. pending = Held /\ Handshake /\ Remaining <= sleep
    BY DEF IInvParts, Timed
  <1>8. SUFFICES Handshake' /\ Remaining' <= sleep' /\ pending' = Held'
    BY <1>6 DEF Shaken, Timed
  <1>9. CASE LeaveReset
    <2>1. r' = [InitReg EXCEPT !.state = "IDLE"] /\ r.state = "RESET"
      BY <1>9 DEF LeaveReset, Edge
    <2>2. r'.state = "IDLE" /\ ~r'.busy /\ ~r'.send
      BY <2>1 DEF InitReg
    <2>3. ~r.send /\ ~bus.write
      BY <1>7, <2>1 DEF Handshake
    <2>4. Handshake'
      BY <1>3, <1>4, <2>2, <2>3, Numbers DEF Handshake
    <2>5. Remaining' <= sleep'
      BY <1>3, <1>4, <1>5, <1>7, <2>1, <2>2, <2>3, Numbers DEF Remaining
    <2>6. pending' = Held'
      BY <1>2, <1>3, <1>4, <1>7, <2>1, <2>2, <2>3, Numbers DEF Held
    <2> QED
      BY <2>4, <2>5, <2>6
  <1>10. CASE Idle
    <2>1. r' = r /\ r.state = "IDLE" /\ ~bus.write
      BY <1>10 DEF Idle, Edge
    <2>3. ~r.send
      BY <1>7, <2>1 DEF Handshake
    <2>4. Handshake'
      BY <1>3, <1>4, <1>7, <2>1, <2>3, Numbers DEF Handshake
    <2>5. Remaining' <= sleep'
      BY <1>3, <1>4, <1>5, <1>7, <2>1, <2>3, Numbers DEF Remaining
    <2>6. pending' = Held'
      BY <1>2, <1>3, <1>4, <1>7, <2>1, <2>3, Numbers DEF Held
    <2> QED
      BY <2>4, <2>5, <2>6
  <1>11. CASE AcceptCommand
    <2>1. /\ r' = [state |-> "WRITE_REG", send |-> TRUE, busy |-> TRUE,
                   command |-> bus.data % Commands]
          /\ r.state = "IDLE" /\ bus.write
      BY <1>11 DEF AcceptCommand, Edge
    <2>2. /\ r'.state = "WRITE_REG" /\ r'.busy /\ r'.send
          /\ r'.command = bus.data % Commands
      BY <2>1
    <2>3. ~r.send /\ left = 0
      BY <1>7, <2>1 DEF Handshake
    <2>4. Handshake'
      BY <1>3, <1>4, <2>2, <2>3, Numbers DEF Handshake
    <2>5. Remaining' <= sleep'
      BY <1>3, <1>4, <1>5, <1>7, <2>1, <2>2, <2>3, Numbers DEF Remaining
    <2>6. pending' = Held'
      BY <1>2, <1>3, <1>4, <1>7, <2>1, <2>2, <2>3, Numbers DEF Held
    <2> QED
      BY <2>4, <2>5, <2>6
  <1>12. CASE AwaitTaken
    <2>1. r' = r /\ r.state = "WRITE_REG" /\ ~sender.taken
      BY <1>12 DEF AwaitTaken, Edge
    <2>3. r.send /\ r.busy /\ left = 0
      BY <1>7, <2>1, Numbers DEF Handshake
    <2>4. Handshake'
      BY <1>3, <1>4, <2>1, <2>3, Numbers DEF Handshake
    <2>5. Remaining' <= sleep'
      BY <1>3, <1>4, <1>5, <1>7, <2>1, <2>3, Numbers DEF Remaining
    <2>6. pending' = Held'
      BY <1>2, <1>3, <1>4, <1>7, <2>1, <2>3, Numbers DEF Held
    <2> QED
      BY <2>4, <2>5, <2>6
  <1>13. CASE Taken
    <2>1. /\ r' = [r EXCEPT !.send = FALSE, !.state = "WAIT_WRITE"]
          /\ r.state = "WRITE_REG" /\ sender.taken
      BY <1>13 DEF Taken, Edge
    <2>3. r.send /\ r.busy /\ left > 0
      BY <1>7, <2>1, Numbers DEF Handshake
    <2>2. r'.state = "WAIT_WRITE" /\ ~r'.send /\ r'.busy
      BY <2>1, <2>3 DEF IInvParts, RegType
    <2>4. Handshake'
      BY <1>3, <1>4, <2>2, <2>3, Numbers DEF Handshake
    <2>5. Remaining' <= sleep'
      BY <1>3, <1>4, <1>5, <1>7, <2>1, <2>2, <2>3, Numbers DEF Remaining
    <2>6. pending' = Held'
      BY <1>2, <1>3, <1>4, <1>7, <2>1, <2>2, <2>3, Numbers DEF Held
    <2> QED
      BY <2>4, <2>5, <2>6
  <1>14. CASE AwaitDone
    <2>1. r' = r /\ r.state = "WAIT_WRITE" /\ left > 0
      BY <1>14, Numbers DEF AwaitDone, Done, Edge
    <2>3. ~r.send /\ r.busy
      BY <1>7, <2>1 DEF Handshake
    <2>4. Handshake'
      BY <1>3, <1>4, <2>1, <2>3, Numbers DEF Handshake
    <2>5. Remaining' <= sleep'
      BY <1>3, <1>4, <1>5, <1>7, <2>1, <2>3, Numbers DEF Remaining
    <2>6. pending' = Held'
      BY <1>2, <1>3, <1>4, <1>7, <2>1, <2>3, Numbers DEF Held
    <2> QED
      BY <2>4, <2>5, <2>6
  <1>15. CASE FrameDone
    <2>1. /\ r' = [r EXCEPT !.send = FALSE, !.busy = FALSE,
                            !.state = "WAIT_WRITE_FINISHED"]
          /\ r.state = "WAIT_WRITE" /\ left = 0
      BY <1>15 DEF FrameDone, Done, Edge
    <2>2. r'.state = "WAIT_WRITE_FINISHED" /\ ~r'.send /\ ~r'.busy
      BY <2>1 DEF IInvParts, RegType
    <2>3. ~r.send /\ ~bus.write
      BY <1>7, <2>1 DEF Handshake
    <2>4. Handshake'
      BY <1>3, <1>4, <2>1, <2>2, <2>3, Numbers DEF Handshake
    <2>5. Remaining' <= sleep'
      BY <1>3, <1>4, <1>5, <1>7, <2>1, <2>2, <2>3, Numbers DEF Remaining
    <2>6. pending' = Held'
      BY <1>2, <1>3, <1>4, <1>7, <2>1, <2>2, <2>3, Numbers DEF Held
    <2> QED
      BY <2>4, <2>5, <2>6
  <1>16. CASE Finish
    <2>0. r.state = "WAIT_WRITE_FINISHED"
      BY <1>16 DEF Finish
    <2>3. ~r.send /\ ~r.busy /\ ~bus.write /\ left = 0
      BY <1>7, <2>0 DEF Handshake
    <2>1. r' = [r EXCEPT !.state = "IDLE"]
      BY <1>16, <2>3 DEF Finish, Edge
    <2>2. r'.state = "IDLE" /\ ~r'.send /\ ~r'.busy
      BY <2>1, <2>3 DEF IInvParts, RegType
    <2>4. Handshake'
      BY <1>3, <1>4, <2>2, <2>3, Numbers DEF Handshake
    <2>5. Remaining' <= sleep'
      BY <1>3, <1>4, <1>5, <1>7, <2>0, <2>2, <2>3, Numbers DEF Remaining
    <2>6. pending' = Held'
      BY <1>2, <1>3, <1>4, <1>7, <2>0, <2>2, <2>3, Numbers DEF Held
    <2> QED
      BY <2>4, <2>5, <2>6
  <1> QED
    BY <1>9, <1>10, <1>11, <1>12, <1>13, <1>14, <1>15, <1>16 DEF Clock

\* The sleep outlasts a pause, a frame and the handshake.
LongSleep == Delay >= PowerUp + Frame + 4

LEMMA StoreStep ==
  ASSUME IInvParts, LongSleep, CameraSetReg
  PROVE  Shaken
  <1>1. /\ bus' = [write |-> TRUE, data |-> value]
        /\ pending' = Append(pending, value % Commands)
        /\ sleep' = Delay /\ pc' = "scan" /\ r' = r /\ sender' = sender
        /\ pc = "store" /\ ~bus.write
    BY DEF CameraSetReg
  <1>2. sleep = 0 /\ Remaining <= 0
    BY <1>1 DEF IInvParts, Timed
  <1>3. r.state = "IDLE" /\ sender.left = 0
    BY <1>1, <1>2, Numbers DEF Remaining, States
  <1>4. bus'.write /\ bus'.data = value
    BY <1>1
  <1>5. pending = <<>>
    BY <1>1, <1>3 DEF IInvParts, Held
  <1>6. Handshake'
    <2>1. ~sender.taken /\ ~r.send /\ ~r.busy
      BY <1>1, <1>3 DEF IInvParts, Handshake
    <2> QED
      BY <1>1, <1>3, <2>1 DEF Handshake
  <1>7. Remaining' <= sleep'
    BY <1>1, <1>3, <1>4, Numbers DEF Remaining, LongSleep
  <1>8. Timed'
    BY <1>1, <1>7 DEF Timed
  <1>9. pending' = Held'
    <2>1. pending' = <<value % Commands>>
      BY <1>1, <1>5
    <2>2. ~(sender'.left > 0) /\ r'.state # "WRITE_REG"
      BY <1>1, <1>3
    <2>3. Held' = <<bus'.data % Commands>>
      BY <1>4, <2>2 DEF Held
    <2> QED
      BY <1>4, <2>1, <2>3
  <1> QED
    BY <1>6, <1>8, <1>9 DEF Shaken

LEMMA ScanStep ==
  ASSUME IInvParts, ScanLine \/ ScanNothing \/ EndOfFile
  PROVE  Shaken
  <1>1. /\ UNCHANGED <<r, sender, bus, pending>> /\ sleep' = sleep
        /\ sleep = 0
    BY DEF ScanLine, ScanNothing, EndOfFile, hwVars, Awake
  <1>2. Handshake'
    BY <1>1 DEF IInvParts, Handshake
  <1>3. Remaining' = Remaining
    BY <1>1 DEF Remaining
  <1>4. Timed'
    BY <1>1, <1>3 DEF IInvParts, Timed
  <1>5. pending' = Held'
    BY <1>1 DEF IInvParts, Held
  <1> QED
    BY <1>2, <1>4, <1>5 DEF Shaken

LEMMA ResetStep ==
  ASSUME IInvParts, LongSleep, Reset
  PROVE  Shaken
  <1>1. /\ r' = InitReg /\ sender' = Sender /\ bus' = NoStore
        /\ pending' = IF Sender.left > 0 THEN <<Sender.data>> ELSE <<>>
        /\ sleep' = Delay /\ pc' = "scan"
    BY DEF Reset
  <1>2. r'.state = "RESET" /\ ~r'.send /\ ~r'.busy /\ ~bus'.write
    BY <1>1 DEF InitReg, NoStore
  <1>3. Handshake'
    BY <1>2 DEF Handshake
  <1>4. sender'.left \in 0 .. Frame
    BY <1>1, SenderStep DEF IInvParts, SenderRecords
  <1>5. Remaining' <= sleep'
    BY <1>1, <1>2, <1>4, Numbers DEF Remaining, LongSleep
  <1>6. Timed'
    BY <1>1, <1>5 DEF Timed
  <1>7. pending' = Held'
    BY <1>1, <1>2 DEF Held
  <1> QED
    BY <1>3, <1>6, <1>7 DEF Shaken

LEMMA IInvStep ==
  ASSUME LongSleep
  PROVE  IInv /\ [Next]_vars => IInv'
  <1> SUFFICES ASSUME IInv, [Next]_vars PROVE IInv'
    OBVIOUS
  <1>1. IInvParts
    BY IInvSplit
  <1>2. TypeOK'
    BY TypeStep DEF IInv
  <1>3. Shaken
    <2>1. CASE UNCHANGED vars
      BY <1>1, <2>1 DEF vars, Shaken, IInvParts, Handshake, Timed, Remaining, Held
    <2> QED
      BY <1>1, <2>1, ClockStep, ResetStep, StoreStep, ScanStep DEF Next, Program
  <1>4. RegType' /\ SenderType' /\ BusType'
    BY <1>2 DEF TypeOK, RegType, SenderType, SenderRecords, BusType, States, Command
  <1>5. OneInFlight'
    <2>1. Handshake'
      BY <1>3 DEF Shaken
    <2> QED
      BY <1>4, <2>1, InFlightHeld, PTL
  <1> QED
    BY <1>2, <1>3, <1>5 DEF IInv, Shaken, NothingLost, OneInFlight

LEMMA IInvInit ==
  ASSUME LongSleep
  PROVE  Init => IInv
  <1> SUFFICES ASSUME Init PROVE IInv
    OBVIOUS
  <1>1. TypeOK
    BY TypeInit
  <1>2. /\ r.state = "RESET" /\ ~r.send /\ ~r.busy
        /\ sender.left = 0 /\ ~sender.taken /\ ~bus.write
        /\ pending = <<>> /\ sleep = Delay /\ pc = "scan"
    BY DEF Init, InitReg, NoStore
  <1>3. Handshake
    BY <1>2 DEF Handshake
  <1>4. Timed
    <2>1. Remaining = 1
      BY <1>2 DEF Remaining
    <2>2. 1 <= Delay
      BY ControlAssumption DEF LongSleep
    <2> QED
      BY <1>2, <2>1, <2>2 DEF Timed
  <1>5. NothingLost
    BY <1>1, <1>2, <1>3, TypeParts, InFlightHeld DEF NothingLost, Held, OneInFlight
  <1> QED
    BY <1>1, <1>3, <1>4, <1>5 DEF IInv

LEMMA Invariant == ASSUME LongSleep PROVE Spec => []IInv
  BY IInvInit, IInvStep, PTL DEF Spec

(***************************************************************************)
(* With a sleep of a power-up pause, a frame and four clocks, every stored *)
(* register reaches the sensor once and in order.  On the board that is    *)
(* 255 + 8192 + 4 clocks of 20 ns: 170 us of the 3000 us slept.            *)
(***************************************************************************)
THEOREM StoresArrive ==
  ASSUME Delay >= PowerUp + Frame + 4
  PROVE  Spec => []NothingLost
  <1>1. LongSleep
    BY DEF LongSleep
  <1>2. IInv => NothingLost
    BY DEF IInv
  <1> QED
    BY <1>1, <1>2, Invariant, PTL

(***************************************************************************)
(* With the same sleep, the sensor holds the whole configuration when      *)
(* CameraLoadConfig returns.                                               *)
(***************************************************************************)
THEOREM ReturnsConfigured ==
  ASSUME Delay >= PowerUp + Frame + 4
  PROVE  Spec => []ConfiguredWhenDone
  <1>1. LongSleep
    BY DEF LongSleep
  <1>2. IInv => ConfiguredWhenDone
    <2> SUFFICES ASSUME IInv, pc = "done" PROVE pending = <<>>
      BY DEF ConfiguredWhenDone
    <2>1. IInvParts
      BY IInvSplit
    <2>2. sleep = 0 /\ Remaining <= 0
      BY <2>1 DEF IInvParts, Timed
    <2>3. r.state = "IDLE" /\ sender.left = 0 /\ ~bus.write
      BY <2>1, <2>2, Numbers DEF Remaining, States
    <2> QED
      BY <2>1, <2>3 DEF IInvParts, Held
  <1> QED
    BY <1>1, <1>2, Invariant, PTL
=============================================================================
