----------------------------- MODULE CameraDma -----------------------------
(***************************************************************************)
(* How one camera line reaches the program.                                *)
(*                                                                         *)
(*   capture (ov7670_capture.vhd)  --beats-->  sink FIFO of the write      *)
(*   master (write_master.v)  --bytes-->  on-chip memory camera_data       *)
(*   --copy-->  line[] in control_loop_cb (camera_data.c, main.c).         *)
(*                                                                         *)
(* The mSGDMA dispatcher holds a FIFO of descriptors (all equal: the same  *)
(* address, MaxLen bytes, end at EOP) and a FIFO of responses.  The        *)
(* program polls it from a timer callback.  Nothing but the protocol of    *)
(* camera_data.c keeps the two sides off camera_data at the same time.     *)
(*                                                                         *)
(* A byte is abstracted to the beat it came from: which row, and whether   *)
(* it closes it.  A response carries, besides its byte count, the bytes    *)
(* the transfer wrote, so that what the program copies can be compared     *)
(* with what was transferred.                                              *)
(***************************************************************************)
EXTENDS Naturals, Sequences

CONSTANTS
  MaxLen,       \* bytes a descriptor may move: LINE_LENGTH
  RowLengths,   \* possible numbers of beats of a row, its EOP beat included
  RowIds,       \* rows are numbered modulo RowIds
  FifoDepth,    \* beats the sink FIFO of the write master holds
  DescDepth,    \* descriptors the dispatcher buffers
  RespDepth,    \* responses the dispatcher buffers
  StatusReads,  \* loads the compiler emits for the two csr->status of a poll
  FlagSkew,     \* TRUE: BUSY may fall before RESPONSE_EMPTY does
  MaxReruns     \* bound: times the program is killed and started again

ASSUME SizesAssumption ==
  /\ MaxLen \in Nat \ {0}
  /\ RowLengths \subseteq Nat \ {0, 1}
  /\ RowIds \in Nat \ {0}
  /\ FifoDepth \in Nat \ {0}
  /\ DescDepth \in Nat \ {0}
  /\ RespDepth \in Nat \ {0}

ASSUME PollAssumption ==
  /\ StatusReads \in {1, 2}
  /\ FlagSkew \in BOOLEAN
  /\ MaxReruns \in Nat

VARIABLES
  cam,      \* [row, pos]: the row being read out, and its beats so far
  fifo,     \* the beats in the sink FIFO
  descs,    \* descriptors buffered in the dispatcher
  moving,   \* <<>>, or <<bytes>>: what the transfer in progress has written
  retiring, \* <<>>, or <<bytes>>: done, its response not yet visible
  resps,    \* the responses in the response FIFO
  mem,      \* the on-chip memory camera_data
  pc,       \* where the program is in CameraDataGetLine
  popped,   \* the response the program took
  line,     \* what it has copied of it
  reruns,   \* times the program was killed and started again
  eopLost   \* history: an EOP beat met a full sink FIFO

camVars == <<cam, eopLost>>
dmaVars == <<descs, moving, retiring, resps>>
cpuVars == <<pc, popped, line, reruns>>
vars == <<cam, fifo, descs, moving, retiring, resps, mem, pc, popped, line,
          reruns, eopLost>>

Beat == [row : 0 .. RowIds - 1, eop : BOOLEAN]

\* camera_data cleared by the program before the first transfer.
Blank == [row |-> RowIds, eop |-> FALSE]

PC == {"boot", "start", "idle", "checkBusy", "kick", "readBytes", "readFlags",
       "copy", "restart"}

Init ==
  /\ cam = [row |-> 0, pos |-> 0]
  /\ fifo = <<>>
  /\ descs = 0
  /\ moving = <<>>
  /\ retiring = <<>>
  /\ resps = <<>>
  /\ mem = [k \in 1 .. MaxLen |-> Blank]
  /\ pc = "boot"
  /\ popped = <<>>
  /\ line = <<>>
  /\ reruns = 0
  /\ eopLost = FALSE

-----------------------------------------------------------------------------
(***************************************************************************)
(* The stream.  The capture block has no ready input and the adapter in    *)
(* front of the write master drops the beat the FIFO does not take: every  *)
(* beat when it is full, and the first beat of a row (SOP) when it is not  *)
(* empty.                                                                  *)
(***************************************************************************)
SinkReady(sop) ==
  /\ Len(fifo) < FifoDepth
  /\ ~(sop /\ fifo # <<>>)

\* Bound: rows are numbered modulo RowIds.
NextRow == (cam.row + 1) % RowIds

RowBeat ==
  \E eop \in BOOLEAN :
    LET pos  == cam.pos + 1
        beat == [row |-> cam.row, eop |-> eop]
    IN
    /\ eop => pos \in RowLengths
    /\ ~eop => \E n \in RowLengths : pos < n
    /\ cam' = IF eop THEN [row |-> NextRow, pos |-> 0]
                     ELSE [cam EXCEPT !.pos = pos]
    /\ fifo' = IF SinkReady(pos = 1) THEN Append(fifo, beat) ELSE fifo
    /\ eopLost' = (eopLost \/ (eop /\ ~SinkReady(pos = 1)))
    /\ UNCHANGED <<dmaVars, mem, cpuVars>>

-----------------------------------------------------------------------------
(***************************************************************************)
(* The DMA engine.                                                         *)
(***************************************************************************)
Busy == descs > 0 \/ moving # <<>>

ResponseEmpty == resps = <<>>

\* A descriptor is issued when the write master is idle and the response
\* FIFO is not full.
IssueDescriptor ==
  /\ descs > 0
  /\ moving = <<>>
  /\ retiring = <<>>
  /\ Len(resps) < RespDepth
  /\ descs' = descs - 1
  /\ moving' = << <<>> >>
  /\ UNCHANGED <<camVars, fifo, retiring, resps, mem, cpuVars>>

\* Mutant: END_EOP left out of the descriptor.
TransferDoneByLength(beat, bytes) == Len(bytes) = MaxLen

\* The transfer is done at the EOP or at MaxLen bytes, whichever comes first.
TransferDone(beat, bytes) == beat.eop \/ Len(bytes) = MaxLen

\* One byte to memory.  Beats behind the end of the transfer stay in the FIFO.
WriteByte ==
  /\ moving # <<>>
  /\ fifo # <<>>
  /\ LET beat  == Head(fifo)
         bytes == Append(moving[1], beat)
     IN
     /\ fifo' = Tail(fifo)
     /\ mem' = [mem EXCEPT ![Len(bytes)] = beat]
     /\ IF TransferDone(beat, bytes)
          THEN /\ moving' = <<>>
               /\ IF FlagSkew
                    THEN retiring' = <<bytes>> /\ UNCHANGED resps
                    ELSE resps' = Append(resps, bytes) /\ UNCHANGED retiring
          ELSE moving' = <<bytes>> /\ UNCHANGED <<retiring, resps>>
  /\ UNCHANGED <<camVars, descs, cpuVars>>

\* The response FIFO's empty flag follows the write by the FIFO's latency,
\* while the busy register falls on the next clock.
ResponseVisible ==
  /\ retiring # <<>>
  /\ resps' = Append(resps, retiring[1])
  /\ retiring' = <<>>
  /\ UNCHANGED <<camVars, fifo, descs, moving, mem, cpuVars>>

-----------------------------------------------------------------------------
(***************************************************************************)
(* The program: CameraDataDMAStart and CameraDataGetLine.  A write to the  *)
(* descriptor port waits while the descriptor FIFO is full, a read of the  *)
(* response port waits while the response FIFO is empty.                   *)
(***************************************************************************)
\* Mutant: the descriptor FIFO takes what it is given.
CameraDataDMAStartAlways ==
  /\ descs' = descs + 1
  /\ UNCHANGED <<moving, retiring, resps>>

CameraDataDMAStart ==
  /\ descs < DescDepth
  /\ descs' = descs + 1
  /\ UNCHANGED <<moving, retiring, resps>>

\* main: camera_data is cleared before the first transfer.
ClearMemory ==
  /\ pc = "boot"
  /\ mem' = [k \in 1 .. MaxLen |-> Blank]
  /\ pc' = "start"
  /\ UNCHANGED <<camVars, fifo, dmaVars, popped, line, reruns>>

\* main: the first transfer, before the timer is started.
StartFirst ==
  /\ pc = "start"
  /\ CameraDataDMAStart
  /\ pc' = "idle"
  /\ UNCHANGED <<camVars, fifo, mem, popped, line, reruns>>

\* Mutant: an engine that is not busy is taken to have answered.
PollOnBusy ==
  /\ pc = "idle"
  /\ pc' = IF Busy THEN "idle" ELSE "readBytes"
  /\ UNCHANGED <<camVars, fifo, dmaVars, mem, popped, line, reruns>>

\* The timer fires and the callback reads the status: with one load both
\* flags are those of one instant, with two loads BUSY is read later.
Poll ==
  /\ pc = "idle"
  /\ pc' = IF ~ResponseEmpty THEN "readBytes"
           ELSE IF StatusReads = 2 THEN "checkBusy"
           ELSE IF Busy THEN "idle"
           ELSE "kick"
  /\ UNCHANGED <<camVars, fifo, dmaVars, mem, popped, line, reruns>>

PollBusy ==
  /\ pc = "checkBusy"
  /\ pc' = IF Busy THEN "idle" ELSE "kick"
  /\ UNCHANGED <<camVars, fifo, dmaVars, mem, popped, line, reruns>>

\* "If we're not busy, kick off another DMA transfer while we're waiting."
KickOff ==
  /\ pc = "kick"
  /\ CameraDataDMAStart
  /\ pc' = "idle"
  /\ UNCHANGED <<camVars, fifo, mem, popped, line, reruns>>

ReadBytes ==
  /\ pc = "readBytes"
  /\ resps # <<>>
  /\ popped' = Head(resps)
  /\ pc' = "readFlags"
  /\ UNCHANGED <<camVars, fifo, dmaVars, mem, line, reruns>>

\* Mutant: the flags are not read, and the response is not popped.
ReadFlagsKeeps ==
  /\ pc = "readFlags"
  /\ pc' = "copy"
  /\ UNCHANGED <<camVars, fifo, dmaVars, mem, popped, line, reruns>>

\* Reading the second word of the response pops it.
ReadFlags ==
  /\ pc = "readFlags"
  /\ resps # <<>>
  /\ resps' = Tail(resps)
  /\ pc' = "copy"
  /\ UNCHANGED <<camVars, fifo, descs, moving, retiring, mem, popped, line, reruns>>

\* Mutant: a whole line is copied, however short the transfer was.
CopyLengthWhole == MaxLen

\* Bytes the program copies: never more than it asked for.
CopyLength == IF Len(popped) > MaxLen THEN MaxLen ELSE Len(popped)

CopyByte ==
  /\ pc = "copy"
  /\ Len(line) < CopyLength
  /\ line' = Append(line, mem[Len(line) + 1])
  /\ pc' = IF Len(line) + 1 = CopyLength THEN "restart" ELSE "copy"
  /\ UNCHANGED <<camVars, fifo, dmaVars, mem, popped, reruns>>

\* Mutant: the next transfer is not started.
RestartForgets ==
  /\ pc = "restart"
  /\ pc' = "idle"
  /\ popped' = <<>>
  /\ line' = <<>>
  /\ UNCHANGED <<camVars, fifo, dmaVars, mem, reruns>>

\* The next transfer is started and the line is returned.
Restart ==
  /\ pc = "restart"
  /\ CameraDataDMAStart
  /\ pc' = "idle"
  /\ popped' = <<>>
  /\ line' = <<>>
  /\ UNCHANGED <<camVars, fifo, mem, reruns>>

\* The program dies or is stopped anywhere and is run again.  Nothing resets
\* the engine: what it was given, and what it has answered, is still there.
Rerun ==
  /\ pc # "boot"
  /\ reruns < MaxReruns
  /\ reruns' = reruns + 1
  /\ pc' = "boot"
  /\ popped' = <<>>
  /\ line' = <<>>
  /\ UNCHANGED <<camVars, fifo, dmaVars, mem>>

Dma == IssueDescriptor \/ WriteByte \/ ResponseVisible

Cpu == \/ ClearMemory \/ StartFirst \/ Poll \/ PollBusy \/ KickOff \/ ReadBytes
       \/ ReadFlags \/ CopyByte \/ Restart

Next == RowBeat \/ Dma \/ Cpu \/ Rerun

Spec == Init /\ [][Next]_vars

(***************************************************************************)
(* The camera free-runs, the engine is clocked hardware, and the timer     *)
(* fires every LOOP_PERIOD: each keeps taking steps.                       *)
(***************************************************************************)
FairSpec == Spec /\ WF_vars(RowBeat) /\ WF_vars(Dma) /\ WF_vars(Cpu)

-----------------------------------------------------------------------------
TypeOK ==
  /\ cam \in [row : 0 .. RowIds - 1, pos : Nat]
  /\ fifo \in Seq(Beat)
  /\ descs \in 0 .. DescDepth
  /\ moving \in Seq(Seq(Beat)) /\ Len(moving) <= 1
  /\ retiring \in Seq(Seq(Beat)) /\ Len(retiring) <= 1
  /\ resps \in Seq(Seq(Beat))
  /\ mem \in [1 .. MaxLen -> Beat \cup {Blank}]
  /\ pc \in PC
  /\ popped \in Seq(Beat)
  /\ line \in Seq(Beat \cup {Blank})
  /\ reruns \in 0 .. MaxReruns
  /\ eopLost \in BOOLEAN

(***************************************************************************)
(* Transfers the engine owes the program, or the program owes the engine:  *)
(* queued, in progress, done but not visible, answered, or taken and not   *)
(* yet replaced.                                                           *)
(***************************************************************************)
Owed == IF pc \in {"copy", "restart"} THEN 1 ELSE 0

Outstanding ==
  descs + Len(moving) + Len(retiring) + Len(resps) + Owed

Running == pc \notin {"boot", "start"}

(***************************************************************************)
(* The pipeline never dies: from the first transfer on, one is always      *)
(* outstanding.  So a poll that finds "no response and not busy" has seen  *)
(* the flags of two different moments: the kick-off of camera_data.c:39-43 *)
(* never starts a transfer that was missing.                               *)
(***************************************************************************)
TransferOutstanding == Running => Outstanding >= 1

(***************************************************************************)
(* Only the first start and a kick-off add a transfer; no step of a        *)
(* running program takes one away.  A second transfer, once there, stays   *)
(* until the program is killed: each line taken is replaced at once.       *)
(***************************************************************************)
Conserved ==
  \/ Outstanding' = Outstanding
  \/ Outstanding' = Outstanding + 1 /\ pc \in {"start", "kick"}
  \/ pc' = "boot"

TransfersConserved == [][Conserved]_vars

(***************************************************************************)
(* With a single transfer outstanding the line the program gets is, byte   *)
(* for byte, what that transfer wrote: the engine never writes into        *)
(* camera_data while CameraDataGetLine copies it.                          *)
(***************************************************************************)
LineIsTransfer ==
  Running /\ Outstanding = 1 /\ pc = "restart" => line = popped

(***************************************************************************)
(* The program never reads the response port when it is empty: such a      *)
(* read is held by waitrequest, and the processor with it.                 *)
(***************************************************************************)
NoHangingRead == pc \in {"readBytes", "readFlags"} => resps # <<>>

(***************************************************************************)
(* Unless an EOP beat was lost to a full FIFO, no transfer joins two rows: *)
(* it stops at EOP, and the leftover of a row longer than MaxLen is a      *)
(* transfer of its own.  With a single transfer outstanding the line the   *)
(* program returns is of one row too.  With two nothing is said of it: the *)
(* engine may write the next row into camera_data in the middle of the     *)
(* copy.                                                                   *)
(***************************************************************************)
OneRow(bytes) == \A k \in 1 .. Len(bytes) : bytes[k].row = bytes[1].row

OneRowPerLine ==
  ~eopLost => /\ \A k \in 1 .. Len(moving) : OneRow(moving[k])
              /\ \A k \in 1 .. Len(retiring) : OneRow(retiring[k])
              /\ \A k \in 1 .. Len(resps) : OneRow(resps[k])
              /\ Running /\ Outstanding = 1 /\ pc = "restart" => OneRow(line)

(***************************************************************************)
(* Lines keep coming: the program returns a line again and again, although *)
(* a write waits for a full descriptor FIFO, the engine for a full         *)
(* response FIFO, and beats are dropped at a full sink FIFO.  Each rerun   *)
(* and each kick-off adds a transfer for good, so it takes MaxReruns <     *)
(* DescDepth: a kick-off finds no descriptor queued and leaves at most     *)
(* RespDepth + 1 outstanding, and with DescDepth + RespDepth outstanding   *)
(* another first start waits for ever (dispatcher.v:395).                  *)
(***************************************************************************)
LinesKeepComing == []<><<Restart>>_vars

-----------------------------------------------------------------------------
(***************************************************************************)
(* The hand-off this implements while no second transfer is outstanding    *)
(* and the program is not killed: LineBuffer, whose owner is read off the  *)
(* place of the one outstanding transfer.  When both flags are seen at one *)
(* instant no second transfer is ever started.                             *)
(***************************************************************************)
SingleTransfer == Outstanding <= 1

NoBytes == <<>>

BufferOwner ==
  IF descs > 0 \/ moving # <<>> \/ retiring # <<>> THEN "engine"
  ELSE IF resps # <<>> THEN "answered"
  ELSE IF Owed = 1 THEN "program"
  ELSE "nobody"

BufferContent ==
  IF BufferOwner = "answered" THEN resps[1]
  ELSE IF BufferOwner = "program" THEN popped
  ELSE NoBytes

BufferTaken == IF pc = "restart" THEN line ELSE NoBytes

Buffer == INSTANCE LineBuffer WITH
  Lines   <- Seq(Beat) \ {<<>>},
  NoLine  <- NoBytes,
  owner   <- BufferOwner,
  content <- BufferContent,
  taken   <- BufferTaken

\* The line buffer is handed off, never shared.
HandOff == Buffer!Spec
=============================================================================
