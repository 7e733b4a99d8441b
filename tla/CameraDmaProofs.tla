-------------------------- MODULE CameraDmaProofs --------------------------
(***************************************************************************)
(* Proofs about CameraDma, for every size of line, row and FIFO, whichever *)
(* way the status register is read, and for any number of restarts.        *)
(***************************************************************************)
EXTENDS CameraDma, SequenceTheorems, TLAPS

(***************************************************************************)
(* Everything in a response, in a transfer, or on its way between them has *)
(* at least one byte once it is done, and never more than a descriptor     *)
(* allows.                                                                 *)
(***************************************************************************)
Done(b) == Len(b) \in 1 .. MaxLen

SizesOK ==
  /\ \A k \in 1 .. Len(moving) : Len(moving[k]) < MaxLen
  /\ \A k \in 1 .. Len(retiring) : Done(retiring[k])
  /\ \A k \in 1 .. Len(resps) : Done(resps[k])
  /\ pc \in {"readFlags", "copy", "restart"} => Done(popped)

\* One transfer at a time in the write master.
OneAtATime == moving # <<>> => retiring = <<>>

\* The program's place and what it holds agree.
CopyOK ==
  /\ NoHangingRead
  /\ pc \notin {"copy", "restart"} => line = <<>>
  /\ pc = "readFlags" => popped = resps[1]
  /\ pc = "copy" => Len(line) < Len(popped)
  /\ pc = "restart" => Len(line) = Len(popped)

Stored(b) == \A k \in 1 .. Len(b) : b[k] = mem[k]

(***************************************************************************)
(* While one transfer is outstanding, its bytes are those in the memory,   *)
(* wherever the transfer is.                                               *)
(***************************************************************************)
MemoryIsTransfer ==
  Running /\ Outstanding = 1 =>
    /\ \A k \in 1 .. Len(moving) : Stored(moving[k])
    /\ \A k \in 1 .. Len(retiring) : Stored(retiring[k])
    /\ \A k \in 1 .. Len(resps) : Stored(resps[k])
    /\ Owed = 1 => /\ Stored(popped)
                   /\ \A k \in 1 .. Len(line) : line[k] = popped[k]

IInv ==
  /\ TypeOK
  /\ SizesOK
  /\ OneAtATime
  /\ CopyOK
  /\ TransferOutstanding
  /\ MemoryIsTransfer

-----------------------------------------------------------------------------
LEMMA AppendProps ==
  ASSUME NEW S, NEW s \in Seq(S), NEW e \in S
  PROVE  /\ Append(s, e) \in Seq(S)
         /\ Len(Append(s, e)) = Len(s) + 1
         /\ \A k \in 1 .. Len(s) : Append(s, e)[k] = s[k]
         /\ Append(s, e)[Len(s) + 1] = e
  OBVIOUS

LEMMA TailProps ==
  ASSUME NEW S, NEW s \in Seq(S), s # <<>>
  PROVE  /\ Tail(s) \in Seq(S)
         /\ Len(Tail(s)) = Len(s) - 1
         /\ Head(s) = s[1]
         /\ Head(s) \in S
         /\ \A k \in 1 .. Len(Tail(s)) : Tail(s)[k] = s[k + 1]
  BY HeadTailProperties

LEMMA SingletonProps ==
  ASSUME NEW S, NEW e \in S
  PROVE  /\ <<e>> \in Seq(S)
         /\ Len(<<e>>) = 1
         /\ <<e>>[1] = e
  OBVIOUS

(***************************************************************************)
(* The variables keep their types.                                         *)
(***************************************************************************)
LEMMA InitTypeOK == Init => TypeOK
  <1> SUFFICES ASSUME Init PROVE TypeOK
    OBVIOUS
  <1>1. 0 \in 0 .. RowIds - 1
    BY SizesAssumption
  <1>2. mem \in [1 .. MaxLen -> Beat \cup {Blank}]
    BY DEF Init
  <1>3. cam \in [row : 0 .. RowIds - 1, pos : Nat]
    BY <1>1 DEF Init
  <1>4. <<>> \in Seq(Beat) /\ <<>> \in Seq(Seq(Beat)) /\ Len(<<>>) = 0
    OBVIOUS
  <1>5. <<>> \in Seq(Beat \cup {Blank})
    OBVIOUS
  <1>6. descs \in 0 .. DescDepth /\ reruns \in 0 .. MaxReruns
    BY SizesAssumption, PollAssumption DEF Init
  <1>7. pc \in PC /\ eopLost \in BOOLEAN
    BY DEF Init, PC
  <1>8. /\ fifo \in Seq(Beat) /\ popped \in Seq(Beat)
        /\ line \in Seq(Beat \cup {Blank})
        /\ moving \in Seq(Seq(Beat)) /\ Len(moving) <= 1
        /\ retiring \in Seq(Seq(Beat)) /\ Len(retiring) <= 1
        /\ resps \in Seq(Seq(Beat))
    BY <1>4, <1>5 DEF Init
  <1> QED
    BY <1>2, <1>3, <1>6, <1>7, <1>8 DEF TypeOK

LEMMA StepTypeOK == TypeOK /\ [Next]_vars => TypeOK'
  <1> SUFFICES ASSUME TypeOK, [Next]_vars PROVE TypeOK'
    OBVIOUS
  <1> USE SizesAssumption DEF TypeOK, PC
  <1>1. CASE RowBeat
    <2>1. PICK eop \in BOOLEAN :
            /\ cam' = IF eop THEN [row |-> NextRow, pos |-> 0]
                             ELSE [cam EXCEPT !.pos = cam.pos + 1]
            /\ fifo' = IF SinkReady(cam.pos + 1 = 1)
                         THEN Append(fifo, [row |-> cam.row, eop |-> eop])
                         ELSE fifo
            /\ eopLost' = (eopLost \/ (eop /\ ~SinkReady(cam.pos + 1 = 1)))
      BY <1>1 DEF RowBeat
    <2>2. cam' \in [row : 0 .. RowIds - 1, pos : Nat]
      <3>1. NextRow \in 0 .. RowIds - 1
        BY DEF NextRow
      <3>2. cam.pos + 1 \in Nat
        OBVIOUS
      <3> QED
        BY <2>1, <3>1, <3>2
    <2>3. [row |-> cam.row, eop |-> eop] \in Beat
      BY DEF Beat
    <2>4. fifo' \in Seq(Beat)
      BY <2>1, <2>3, AppendProps
    <2>5. eopLost' \in BOOLEAN
      BY <2>1
    <2> QED
      BY <1>1, <2>2, <2>4, <2>5 DEF RowBeat, dmaVars, cpuVars
  <1>2. CASE IssueDescriptor
    <2>1. moving' \in Seq(Seq(Beat)) /\ Len(moving') <= 1
      BY <1>2 DEF IssueDescriptor
    <2> QED
      BY <1>2, <2>1 DEF IssueDescriptor, camVars, cpuVars
  <1>3. CASE WriteByte
    <2> DEFINE beat  == Head(fifo)
               bytes == Append(moving[1], beat)
    <2>1. moving[1] \in Seq(Beat) /\ beat \in Beat /\ Tail(fifo) \in Seq(Beat)
      BY <1>3, TailProps DEF WriteByte
    <2>2. bytes \in Seq(Beat) /\ Len(bytes) \in Nat
      BY <2>1, AppendProps
    <2>3. /\ <<bytes>> \in Seq(Seq(Beat))
          /\ Len(<<bytes>>) = 1
          /\ Append(resps, bytes) \in Seq(Seq(Beat))
      BY <2>2, AppendProps, SingletonProps
    <2>4. fifo' = Tail(fifo) /\ mem' = [mem EXCEPT ![Len(bytes)] = beat]
      BY <1>3 DEF WriteByte
    <2>5. mem' \in [1 .. MaxLen -> Beat \cup {Blank}]
      BY <2>1, <2>4
    <2>6. /\ moving' \in Seq(Seq(Beat)) /\ Len(moving') <= 1
          /\ retiring' \in Seq(Seq(Beat)) /\ Len(retiring') <= 1
          /\ resps' \in Seq(Seq(Beat))
      <3>1. \/ moving' = <<>> /\ retiring' = <<bytes>> /\ resps' = resps
            \/ /\ moving' = <<>>
               /\ resps' = Append(resps, bytes)
               /\ retiring' = retiring
            \/ moving' = <<bytes>> /\ retiring' = retiring /\ resps' = resps
        BY <1>3 DEF WriteByte
      <3>2. <<>> \in Seq(Seq(Beat)) /\ Len(<<>>) = 0
        OBVIOUS
      <3>3. /\ retiring \in Seq(Seq(Beat)) /\ Len(retiring) <= 1
            /\ resps \in Seq(Seq(Beat))
        OBVIOUS
      <3> HIDE DEF bytes, TypeOK
      <3>4. CASE moving' = <<>> /\ retiring' = <<bytes>> /\ resps' = resps
        BY <2>3, <3>2, <3>3, <3>4
      <3>5. CASE /\ moving' = <<>>
                 /\ resps' = Append(resps, bytes)
                 /\ retiring' = retiring
        BY <2>3, <3>2, <3>3, <3>5
      <3>6. CASE moving' = <<bytes>> /\ retiring' = retiring /\ resps' = resps
        BY <2>3, <3>2, <3>3, <3>6
      <3> QED
        BY <3>1, <3>4, <3>5, <3>6
    <2> QED
      BY <1>3, <2>1, <2>4, <2>5, <2>6 DEF WriteByte, camVars, cpuVars
  <1>4. CASE ResponseVisible
    <2>1. retiring[1] \in Seq(Beat)
      BY <1>4 DEF ResponseVisible
    <2>2. resps' \in Seq(Seq(Beat))
      BY <1>4, <2>1, AppendProps DEF ResponseVisible
    <2> QED
      BY <1>4, <2>2 DEF ResponseVisible, camVars, cpuVars
  <1>5. CASE ClearMemory
    BY <1>5 DEF ClearMemory, camVars, dmaVars
  <1>6. CASE StartFirst
    BY <1>6 DEF StartFirst, CameraDataDMAStart, camVars
  <1>7. CASE Poll
    BY <1>7 DEF Poll, camVars, dmaVars
  <1>8. CASE PollBusy
    BY <1>8 DEF PollBusy, camVars, dmaVars
  <1>9. CASE KickOff
    BY <1>9 DEF KickOff, CameraDataDMAStart, camVars
  <1>10. CASE ReadBytes
    BY <1>10, TailProps DEF ReadBytes, camVars, dmaVars
  <1>11. CASE ReadFlags
    BY <1>11, TailProps DEF ReadFlags, camVars
  <1>12. CASE CopyByte
    <2>1. Len(line) + 1 \in 1 .. MaxLen
      BY <1>12 DEF CopyByte, CopyLength
    <2>2. line' \in Seq(Beat \cup {Blank})
      BY <1>12, <2>1, AppendProps DEF CopyByte
    <2> QED
      BY <1>12, <2>2 DEF CopyByte, camVars, dmaVars
  <1>13. CASE Restart
    BY <1>13 DEF Restart, CameraDataDMAStart, camVars
  <1>14. CASE Rerun
    BY <1>14, PollAssumption DEF Rerun, camVars, dmaVars
  <1>15. CASE UNCHANGED vars
    BY <1>15 DEF vars
  <1> QED
    BY <1>1, <1>2, <1>3, <1>4, <1>5, <1>6, <1>7, <1>8, <1>9, <1>10, <1>11,
       <1>12, <1>13, <1>14, <1>15 DEF Next, Dma, Cpu

(***************************************************************************)
(* Every variable of the line path stays in its type: in particular the    *)
(* descriptor count never passes what the dispatcher buffers.              *)
(***************************************************************************)
THEOREM TypeCorrect == Spec => []TypeOK
  BY InitTypeOK, StepTypeOK, PTL DEF Spec

-----------------------------------------------------------------------------
(***************************************************************************)
(* The inductive invariant, one lemma per conjunct that a step disturbs.   *)
(***************************************************************************)
LEMMA InitIInv == Init => IInv
  <1> SUFFICES ASSUME Init PROVE IInv
    OBVIOUS
  <1>1. TypeOK
    BY InitTypeOK
  <1>2. SizesOK /\ OneAtATime /\ CopyOK
    BY DEF Init, SizesOK, OneAtATime, CopyOK, NoHangingRead
  <1>3. TransferOutstanding /\ MemoryIsTransfer
    BY DEF Init, TransferOutstanding, MemoryIsTransfer, Running
  <1> QED
    BY <1>1, <1>2, <1>3 DEF IInv

(***************************************************************************)
(* A sequence of at most one element, and what types say of the others.    *)
(***************************************************************************)
LEMMA AtMostOne ==
  ASSUME NEW S, NEW s \in Seq(S), Len(s) <= 1
  PROVE  /\ Len(s) \in {0, 1}
         /\ s = <<>> <=> Len(s) = 0
         /\ s # <<>> => Len(s) = 1 /\ s[1] \in S
  <1>1. Len(s) \in Nat
    BY LenProperties
  <1>2. Len(s) \in {0, 1}
    <2>1. \A n \in Nat : n <= 1 => n \in {0, 1}
      OBVIOUS
    <2> QED
      BY <1>1, <2>1
  <1>3. s = <<>> <=> Len(s) = 0
    BY EmptySeq
  <1>4. s # <<>> => Len(s) = 1 /\ s[1] \in S
    BY <1>2, <1>3, ElementOfSeq
  <1> QED
    BY <1>2, <1>3, <1>4

LEMMA NonEmpty ==
  ASSUME NEW S, NEW s \in Seq(S)
  PROVE  /\ Len(s) \in Nat
         /\ s = <<>> <=> Len(s) = 0
         /\ s # <<>> => s[1] \in S
  BY EmptySeq, LenProperties, ElementOfSeq

LEMMA Counts ==
  ASSUME TypeOK
  PROVE  /\ Len(moving) \in {0, 1} /\ (moving = <<>> <=> Len(moving) = 0)
         /\ moving # <<>> => moving[1] \in Seq(Beat) /\ Len(moving[1]) \in Nat
         /\ Len(retiring) \in {0, 1} /\ (retiring = <<>> <=> Len(retiring) = 0)
         /\ retiring # <<>> => retiring[1] \in Seq(Beat)
         /\ resps \in Seq(Seq(Beat)) /\ Len(resps) \in Nat
         /\ (resps = <<>> <=> Len(resps) = 0)
         /\ descs \in Nat
         /\ Owed \in {0, 1}
  <1>1. /\ moving \in Seq(Seq(Beat)) /\ Len(moving) <= 1
        /\ retiring \in Seq(Seq(Beat)) /\ Len(retiring) <= 1
        /\ resps \in Seq(Seq(Beat))
        /\ descs \in 0 .. DescDepth
    BY DEF TypeOK
  <1>2. /\ Len(moving) \in {0, 1} /\ (moving = <<>> <=> Len(moving) = 0)
        /\ moving # <<>> => moving[1] \in Seq(Beat)
    BY <1>1, AtMostOne
  <1>3. /\ Len(retiring) \in {0, 1} /\ (retiring = <<>> <=> Len(retiring) = 0)
        /\ retiring # <<>> => retiring[1] \in Seq(Beat)
    BY <1>1, AtMostOne
  <1>4. Len(resps) \in Nat /\ (resps = <<>> <=> Len(resps) = 0)
    BY <1>1, NonEmpty
  <1>5. moving # <<>> => Len(moving[1]) \in Nat
    BY <1>2, LenProperties
  <1>6. descs \in Nat
    BY <1>1, SizesAssumption
  <1>7. Owed \in {0, 1}
    BY DEF Owed
  <1> QED
    BY <1>1, <1>2, <1>3, <1>4, <1>5, <1>6, <1>7

(***************************************************************************)
(* When the one outstanding transfer is in one place, it is in no other.   *)
(***************************************************************************)
LEMMA OnePlace ==
  ASSUME TypeOK, Outstanding = 1
  PROVE  /\ Len(moving) = 1 => descs = 0 /\ retiring = <<>> /\ resps = <<>> /\ Owed = 0
         /\ Len(retiring) = 1 => descs = 0 /\ moving = <<>> /\ resps = <<>> /\ Owed = 0
         /\ Len(resps) > 0 => /\ descs = 0 /\ moving = <<>> /\ retiring = <<>>
                              /\ Len(resps) = 1 /\ Owed = 0
         /\ Owed = 1 => descs = 0 /\ moving = <<>> /\ retiring = <<>> /\ resps = <<>>
         /\ descs > 0 => /\ moving = <<>> /\ retiring = <<>> /\ resps = <<>>
                         /\ Owed = 0 /\ descs = 1
  <1>1. /\ Len(moving) \in Nat /\ Len(retiring) \in Nat /\ Len(resps) \in Nat
        /\ descs \in Nat /\ Owed \in Nat
    BY Counts
  <1>2. descs + Len(moving) + Len(retiring) + Len(resps) + Owed = 1
    BY DEF Outstanding
  <1>3. /\ moving = <<>> <=> Len(moving) = 0
        /\ retiring = <<>> <=> Len(retiring) = 0
        /\ resps = <<>> <=> Len(resps) = 0
    BY Counts
  <1>4. Len(moving) = 1 => descs = 0 /\ retiring = <<>> /\ resps = <<>> /\ Owed = 0
    BY <1>1, <1>2, <1>3
  <1>5. Len(retiring) = 1 => descs = 0 /\ moving = <<>> /\ resps = <<>> /\ Owed = 0
    BY <1>1, <1>2, <1>3
  <1>6. Len(resps) > 0 => /\ descs = 0 /\ moving = <<>> /\ retiring = <<>>
                          /\ Len(resps) = 1 /\ Owed = 0
    BY <1>1, <1>2, <1>3
  <1>7. Owed = 1 => descs = 0 /\ moving = <<>> /\ retiring = <<>> /\ resps = <<>>
    BY <1>1, <1>2, <1>3
  <1>8. descs > 0 => /\ moving = <<>> /\ retiring = <<>> /\ resps = <<>>
                      /\ Owed = 0 /\ descs = 1
    BY <1>1, <1>2, <1>3
  <1> QED
    BY <1>4, <1>5, <1>6, <1>7, <1>8, Zenon

(***************************************************************************)
(* What one byte written by the engine does.                               *)
(***************************************************************************)
LEMMA WriteByteStep ==
  ASSUME IInv, WriteByte
  PROVE  \E bytes \in Seq(Beat) :
           /\ Len(moving) = 1
           /\ Len(bytes) = Len(moving[1]) + 1
           /\ Len(bytes) \in 1 .. MaxLen
           /\ \A k \in 1 .. Len(moving[1]) : bytes[k] = moving[1][k]
           /\ mem' = [mem EXCEPT ![Len(bytes)] = bytes[Len(bytes)]]
           /\ \/ moving' = <<>> /\ retiring' = <<bytes>> /\ resps' = resps
              \/ /\ moving' = <<>>
                 /\ resps' = Append(resps, bytes)
                 /\ retiring' = retiring
              \/ /\ moving' = <<bytes>> /\ Len(bytes) < MaxLen
                 /\ retiring' = retiring /\ resps' = resps
  <1> DEFINE beat  == Head(fifo)
             bytes == Append(moving[1], beat)
  <1>1. Len(moving) = 1 /\ moving[1] \in Seq(Beat) /\ beat \in Beat
    <2>1. moving # <<>> /\ fifo # <<>> /\ fifo \in Seq(Beat)
      BY DEF WriteByte, IInv, TypeOK
    <2> QED
      BY <2>1, Counts, TailProps DEF IInv
  <1>2. /\ bytes \in Seq(Beat)
        /\ Len(bytes) = Len(moving[1]) + 1
        /\ \A k \in 1 .. Len(moving[1]) : bytes[k] = moving[1][k]
        /\ bytes[Len(bytes)] = beat
    BY <1>1, AppendProps
  <1>3. Len(bytes) \in 1 .. MaxLen
    <2>1. Len(moving[1]) < MaxLen
      BY <1>1 DEF IInv, SizesOK
    <2> QED
      BY <1>1, <1>2, <2>1, SizesAssumption
  <1>4. mem' = [mem EXCEPT ![Len(bytes)] = bytes[Len(bytes)]]
    BY <1>2 DEF WriteByte
  <1>5. \/ moving' = <<>> /\ retiring' = <<bytes>> /\ resps' = resps
        \/ /\ moving' = <<>>
           /\ resps' = Append(resps, bytes)
           /\ retiring' = retiring
        \/ /\ moving' = <<bytes>> /\ Len(bytes) # MaxLen
           /\ retiring' = retiring /\ resps' = resps
    BY DEF WriteByte, TransferDone
  <1>6. Len(bytes) # MaxLen => Len(bytes) < MaxLen
    BY <1>3, SizesAssumption
  <1> HIDE DEF bytes
  <1> QED
    BY <1>1, <1>2, <1>3, <1>4, <1>5, <1>6

LEMMA WriteByteIInv == ASSUME IInv, TypeOK', WriteByte PROVE IInv' /\ Conserved
  <1>1. PICK bytes \in Seq(Beat) :
           /\ Len(moving) = 1
           /\ Len(bytes) = Len(moving[1]) + 1
           /\ Len(bytes) \in 1 .. MaxLen
           /\ \A k \in 1 .. Len(moving[1]) : bytes[k] = moving[1][k]
           /\ mem' = [mem EXCEPT ![Len(bytes)] = bytes[Len(bytes)]]
           /\ \/ moving' = <<>> /\ retiring' = <<bytes>> /\ resps' = resps
              \/ /\ moving' = <<>>
                 /\ resps' = Append(resps, bytes)
                 /\ retiring' = retiring
              \/ /\ moving' = <<bytes>> /\ Len(bytes) < MaxLen
                 /\ retiring' = retiring /\ resps' = resps
    BY WriteByteStep
  <1>2. /\ pc' = pc /\ popped' = popped /\ line' = line /\ descs' = descs
    BY DEF WriteByte, cpuVars
  <1>3. moving # <<>> /\ retiring = <<>>
    BY DEF WriteByte, IInv, OneAtATime
  <1>4. /\ Append(resps, bytes) \in Seq(Seq(Beat))
        /\ Len(Append(resps, bytes)) = Len(resps) + 1
        /\ \A k \in 1 .. Len(resps) : Append(resps, bytes)[k] = resps[k]
        /\ Append(resps, bytes)[Len(resps) + 1] = bytes
        /\ Len(resps) \in Nat
    <2>1. resps \in Seq(Seq(Beat)) /\ Len(resps) \in Nat
      BY Counts DEF IInv
    <2> QED
      BY <2>1, AppendProps
  <1>5. Done(bytes)
    BY <1>1 DEF Done
  <1>6. SizesOK'
    <2>1. \A k \in 1 .. Len(resps') : Done(resps'[k])
      <3>1. \A k \in 1 .. Len(resps) : Done(resps[k])
        BY DEF IInv, SizesOK
      <3>2. CASE resps' = resps
        BY <3>1, <3>2
      <3>3. CASE resps' = Append(resps, bytes)
        <4> SUFFICES ASSUME NEW k \in 1 .. Len(resps) + 1
                     PROVE  Done(Append(resps, bytes)[k])
          BY <1>4, <3>3
        <4>1. CASE k = Len(resps) + 1
          BY <1>4, <1>5, <4>1
        <4>2. CASE k # Len(resps) + 1
          <5>1. k \in 1 .. Len(resps)
            BY <1>4, <4>2
          <5> QED
            BY <1>4, <3>1, <5>1
        <4> QED
          BY <4>1, <4>2
      <3> QED
        BY <1>1, <3>2, <3>3
    <2>2. \A k \in 1 .. Len(moving') : Len(moving'[k]) < MaxLen
      BY <1>1
    <2>3. \A k \in 1 .. Len(retiring') : Done(retiring'[k])
      BY <1>1, <1>3, <1>5
    <2> QED
      BY <1>2, <2>1, <2>2, <2>3 DEF IInv, SizesOK, Done
  <1>7. OneAtATime'
    BY <1>1, <1>3 DEF OneAtATime
  <1>8. CopyOK'
    <2>1. resps # <<>> => resps' # <<>> /\ resps'[1] = resps[1]
      <3>1. resps' = resps \/ resps' = Append(resps, bytes)
        BY <1>1
      <3>2. resps # <<>> => Len(resps) \in Nat \ {0}
        BY Counts DEF IInv
      <3>3. Append(resps, bytes) # <<>>
        <4>1. Len(Append(resps, bytes)) # 0
          BY <1>4
        <4> QED
          BY <4>1, EmptySeq
      <3> QED
        BY <1>4, <3>1, <3>2, <3>3
    <2> QED
      BY <1>2, <2>1 DEF IInv, CopyOK, NoHangingRead
  <1>9. Outstanding' = Outstanding
    <2>1. Owed' = Owed /\ Owed \in {0, 1} /\ descs \in Nat
      BY <1>2, Counts DEF Owed, IInv
    <2>2. Len(moving') + Len(retiring') + Len(resps') = 1 + Len(resps)
      <3>1. Len(<<bytes>>) = 1 /\ Len(<<>>) = 0
        OBVIOUS
      <3>2. CASE moving' = <<>> /\ retiring' = <<bytes>> /\ resps' = resps
        BY <1>4, <3>1, <3>2
      <3>3. CASE /\ moving' = <<>>
                 /\ resps' = Append(resps, bytes)
                 /\ retiring' = retiring
        BY <1>3, <1>4, <3>1, <3>3
      <3>4. CASE moving' = <<bytes>> /\ retiring' = retiring /\ resps' = resps
        BY <1>3, <1>4, <3>1, <3>4
      <3> QED
        BY <1>1, <3>2, <3>3, <3>4
    <2>3. Len(moving) = 1 /\ Len(retiring) = 0
      BY <1>1, <1>3, EmptySeq
    <2>4. Len(moving') \in Nat /\ Len(retiring') \in Nat /\ Len(resps') \in Nat
      BY Counts DEF TypeOK
    <2>5. descs' = descs /\ Len(resps) \in Nat
      BY <1>2, <1>4
    <2> QED
      BY <2>1, <2>2, <2>3, <2>4, <2>5 DEF Outstanding
  <1>10. TransferOutstanding'
    BY <1>2, <1>9 DEF IInv, TransferOutstanding, Running
  <1>11. MemoryIsTransfer'
    <2> SUFFICES ASSUME Running', Outstanding' = 1
                 PROVE  MemoryIsTransfer'
      BY DEF MemoryIsTransfer
    <2>1. Running /\ Outstanding = 1
      BY <1>2, <1>9 DEF Running
    <2>2. Len(resps) = 0 /\ Owed = 0 /\ descs = 0
      BY <1>1, <2>1, OnePlace, Counts DEF IInv
    <2>3. Stored(moving[1])
      BY <1>1, <2>1 DEF IInv, MemoryIsTransfer
    <2>4. \A k \in 1 .. Len(bytes) : bytes[k] = mem'[k]
      <3> SUFFICES ASSUME NEW k \in 1 .. Len(bytes)
                   PROVE  bytes[k] = mem'[k]
        OBVIOUS
      <3> mem \in [1 .. MaxLen -> Beat \cup {Blank}]
        BY DEF IInv, TypeOK
      <3> Len(moving[1]) \in Nat
        BY <1>3, Counts DEF IInv
      <3>1. CASE k = Len(bytes)
        BY <1>1, <3>1
      <3>2. CASE k # Len(bytes)
        <4>1. k \in 1 .. Len(moving[1])
          BY <1>1, <3>2
        <4>2. bytes[k] = mem[k]
          BY <1>1, <2>3, <4>1 DEF Stored
        <4> QED
          BY <1>1, <3>2, <4>2
      <3> QED
        BY <3>1, <3>2
    <2>5. Owed' = 0
      BY <1>2, <2>2 DEF Owed
    <2>6. /\ \A k \in 1 .. Len(moving') : moving'[k] = bytes
          /\ \A k \in 1 .. Len(retiring') : retiring'[k] = bytes
          /\ \A k \in 1 .. Len(resps') : resps'[k] = bytes
      BY <1>1, <1>3, <1>4, <2>2
    <2> QED
      BY <2>4, <2>5, <2>6 DEF MemoryIsTransfer, Stored
  <1> QED
    BY <1>6, <1>7, <1>8, <1>9, <1>10, <1>11 DEF IInv, Conserved

(***************************************************************************)
(* Outstanding, as a sum of five counts, before and after a step.          *)
(***************************************************************************)
LEMMA CountsNat ==
  ASSUME TypeOK
  PROVE  /\ descs \in Nat /\ Len(moving) \in Nat /\ Len(retiring) \in Nat
         /\ Len(resps) \in Nat /\ Owed \in Nat
         /\ Outstanding \in Nat
  BY Counts DEF Outstanding

LEMMA NoPlace ==
  ASSUME TypeOK, Outstanding = 0
  PROVE  moving = <<>> /\ retiring = <<>> /\ resps = <<>> /\ Owed = 0
  <1>1. \A d, m, r, q, o \in Nat :
          d + m + r + q + o = 0 => m = 0 /\ r = 0 /\ q = 0 /\ o = 0
    OBVIOUS
  <1> QED
    BY <1>1, CountsNat, Counts DEF Outstanding

(***************************************************************************)
(* Steps of the camera, and steps that change nothing.                     *)
(***************************************************************************)
LEMMA FrameIInv ==
  ASSUME IInv, TypeOK', UNCHANGED <<dmaVars, mem, cpuVars>>
  PROVE  IInv' /\ Conserved
  <1>1. /\ descs' = descs /\ moving' = moving /\ retiring' = retiring
        /\ resps' = resps /\ mem' = mem /\ pc' = pc /\ popped' = popped
        /\ line' = line
    BY DEF dmaVars, cpuVars
  <1>2. SizesOK' /\ OneAtATime' /\ CopyOK'
    BY <1>1 DEF IInv, SizesOK, OneAtATime, CopyOK, NoHangingRead, Done
  <1>3. TransferOutstanding' /\ MemoryIsTransfer'
    BY <1>1 DEF IInv, TransferOutstanding, MemoryIsTransfer, Outstanding,
                Running, Owed, Stored
  <1>4. Outstanding' = Outstanding
    BY <1>1 DEF Outstanding, Owed
  <1> QED
    BY <1>2, <1>3, <1>4 DEF IInv, Conserved

LEMMA IssueDescriptorIInv ==
  ASSUME IInv, TypeOK', IssueDescriptor PROVE IInv' /\ Conserved
  <1>1. /\ descs > 0 /\ moving = <<>> /\ retiring = <<>>
        /\ descs' = descs - 1 /\ moving' = << <<>> >>
        /\ retiring' = retiring /\ resps' = resps /\ mem' = mem
        /\ pc' = pc /\ popped' = popped /\ line' = line
    BY DEF IssueDescriptor, cpuVars
  <1>2. Len(moving') = 1 /\ moving'[1] = <<>> /\ Len(<<>>) = 0
    BY <1>1
  <1>3. SizesOK' /\ OneAtATime' /\ CopyOK'
    <2>1. \A k \in 1 .. Len(moving') : Len(moving'[k]) < MaxLen
      BY <1>2, SizesAssumption
    <2> QED
      BY <1>1, <2>1 DEF IInv, SizesOK, OneAtATime, CopyOK, NoHangingRead, Done
  <1>4. Outstanding' = Outstanding
    <2>1. Owed' = Owed
      BY <1>1 DEF Owed
    <2>2. Len(moving) = 0 /\ descs \in Nat /\ Len(retiring) \in Nat
          /\ Len(resps) \in Nat /\ Owed \in Nat
      BY <1>1, CountsNat DEF IInv
    <2> QED
      BY <1>1, <1>2, <2>1, <2>2 DEF Outstanding
  <1>5. TransferOutstanding'
    BY <1>1, <1>4 DEF IInv, TransferOutstanding, Running
  <1>6. MemoryIsTransfer'
    <2> SUFFICES ASSUME Running', Outstanding' = 1 PROVE MemoryIsTransfer'
      BY DEF MemoryIsTransfer
    <2>1. retiring' = <<>> /\ resps' = <<>> /\ Owed' = 0
      BY <1>1, <1>4, OnePlace DEF IInv, Owed
    <2>2. \A k \in 1 .. Len(moving') : moving'[k] = <<>>
      BY <1>2
    <2> QED
      BY <2>1, <2>2 DEF MemoryIsTransfer, Stored
  <1> QED
    BY <1>3, <1>4, <1>5, <1>6 DEF IInv, Conserved

LEMMA ResponseVisibleIInv ==
  ASSUME IInv, TypeOK', ResponseVisible PROVE IInv' /\ Conserved
  <1> DEFINE bytes == retiring[1]
  <1>1. /\ retiring # <<>> /\ retiring' = <<>> /\ resps' = Append(resps, bytes)
        /\ moving' = moving /\ descs' = descs /\ mem' = mem
        /\ pc' = pc /\ popped' = popped /\ line' = line
    BY DEF ResponseVisible, cpuVars
  <1>2. moving = <<>>
    BY <1>1 DEF IInv, OneAtATime
  <1>3. Len(retiring) = 1 /\ bytes \in Seq(Beat) /\ Done(bytes)
    BY <1>1, Counts DEF IInv, SizesOK
  <1>4. /\ Len(Append(resps, bytes)) = Len(resps) + 1
        /\ \A k \in 1 .. Len(resps) : Append(resps, bytes)[k] = resps[k]
        /\ Append(resps, bytes)[Len(resps) + 1] = bytes
        /\ Len(resps) \in Nat
    <2>1. resps \in Seq(Seq(Beat)) /\ Len(resps) \in Nat
      BY Counts DEF IInv
    <2> QED
      BY <1>3, <2>1, AppendProps
  <1> HIDE DEF bytes
  <1>5. SizesOK'
    <2>1. \A k \in 1 .. Len(resps') : Done(resps'[k])
      <3> SUFFICES ASSUME NEW k \in 1 .. Len(resps) + 1 PROVE Done(resps'[k])
        BY <1>1, <1>4
      <3>1. CASE k = Len(resps) + 1
        BY <1>1, <1>3, <1>4, <3>1
      <3>2. CASE k # Len(resps) + 1
        <4>1. k \in 1 .. Len(resps)
          BY <1>4, <3>2
        <4> QED
          BY <1>1, <1>4, <4>1 DEF IInv, SizesOK
      <3> QED
        BY <3>1, <3>2
    <2>2. \A k \in 1 .. Len(retiring') : Done(retiring'[k])
      BY <1>1
    <2> QED
      BY <1>1, <2>1, <2>2 DEF IInv, SizesOK, Done
  <1>6. OneAtATime' /\ CopyOK'
    <2>1. resps # <<>> => resps'[1] = resps[1]
      <3>1. resps # <<>> => Len(resps) \in Nat \ {0}
        BY Counts DEF IInv
      <3> QED
        BY <1>1, <1>4, <3>1
    <2>2. resps' # <<>>
      BY <1>1, <1>4, EmptySeq
    <2> QED
      BY <1>1, <1>2, <2>1, <2>2 DEF IInv, OneAtATime, CopyOK, NoHangingRead
  <1>7. Outstanding' = Outstanding
    <2>1. Owed' = Owed /\ Owed \in Nat /\ descs \in Nat /\ Len(moving) \in Nat
      BY <1>1, CountsNat DEF Owed, IInv
    <2>2. Len(resps') = Len(resps) + 1 /\ Len(retiring') = 0
      BY <1>1, <1>4
    <2> QED
      BY <1>1, <1>3, <1>4, <2>1, <2>2 DEF Outstanding
  <1>8. TransferOutstanding'
    BY <1>1, <1>7 DEF IInv, TransferOutstanding, Running
  <1>9. MemoryIsTransfer'
    <2> SUFFICES ASSUME Running', Outstanding' = 1 PROVE MemoryIsTransfer'
      BY DEF MemoryIsTransfer
    <2>1. Running /\ Outstanding = 1
      BY <1>1, <1>7 DEF Running
    <2>2. Len(resps) = 0 /\ Owed' = 0
      BY <1>1, <1>3, <2>1, OnePlace, Counts DEF IInv, Owed
    <2>3. Stored(bytes)
      BY <1>3, <2>1 DEF IInv, MemoryIsTransfer, bytes
    <2>4. \A k \in 1 .. Len(resps') : resps'[k] = bytes
      BY <1>1, <1>4, <2>2
    <2>5. moving' = <<>> /\ retiring' = <<>> /\ mem' = mem
      BY <1>1, <1>2
    <2> QED
      BY <2>2, <2>3, <2>4, <2>5 DEF MemoryIsTransfer, Stored
  <1> QED
    BY <1>5, <1>6, <1>7, <1>8, <1>9 DEF IInv, Conserved

LEMMA StartIInv ==
  ASSUME IInv, TypeOK', ClearMemory \/ StartFirst \/ KickOff PROVE IInv' /\ Conserved
  <1>1. CASE ClearMemory
    <2>1. /\ pc = "boot" /\ pc' = "start" /\ descs' = descs /\ moving' = moving
          /\ retiring' = retiring /\ resps' = resps /\ popped' = popped
          /\ line' = line
      BY <1>1 DEF ClearMemory, dmaVars
    <2>2. SizesOK' /\ OneAtATime' /\ CopyOK'
      BY <2>1 DEF IInv, SizesOK, OneAtATime, CopyOK, NoHangingRead, Done
    <2>3. Outstanding' = Outstanding
      BY <2>1 DEF Outstanding, Owed
    <2> QED
      BY <2>1, <2>2, <2>3 DEF IInv, TransferOutstanding, MemoryIsTransfer, Running,
                               Conserved
  <1>2. CASE StartFirst \/ KickOff
    <2>1. /\ pc \in {"start", "kick"} /\ pc' = "idle" /\ descs' = descs + 1
          /\ moving' = moving /\ retiring' = retiring /\ resps' = resps
          /\ mem' = mem /\ popped' = popped /\ line' = line
      BY <1>2 DEF StartFirst, KickOff, CameraDataDMAStart
    <2>2. SizesOK' /\ OneAtATime' /\ CopyOK'
      BY <2>1 DEF IInv, SizesOK, OneAtATime, CopyOK, NoHangingRead, Done
    <2>3. Outstanding' = Outstanding + 1 /\ Outstanding \in Nat
      <3>1. Owed' = 0 /\ Owed = 0
        BY <2>1 DEF Owed
      <3> QED
        BY <2>1, <3>1, CountsNat DEF IInv, Outstanding
    <2>4. TransferOutstanding'
      BY <2>3 DEF TransferOutstanding
    <2>5. MemoryIsTransfer'
      <3> SUFFICES ASSUME Running', Outstanding' = 1 PROVE MemoryIsTransfer'
        BY DEF MemoryIsTransfer
      <3>1. Outstanding = 0
        BY <2>3
      <3>2. moving' = <<>> /\ retiring' = <<>> /\ resps' = <<>> /\ Owed' = 0
        BY <2>1, <3>1, NoPlace DEF IInv, Owed
      <3> QED
        BY <3>2 DEF MemoryIsTransfer
    <2> QED
      BY <2>1, <2>2, <2>3, <2>4, <2>5 DEF IInv, Conserved
  <1> QED
    BY <1>1, <1>2

LEMMA PollIInv ==
  ASSUME IInv, TypeOK', Poll \/ PollBusy \/ ReadBytes PROVE IInv' /\ Conserved
  <1>1. /\ descs' = descs /\ moving' = moving /\ retiring' = retiring
        /\ resps' = resps /\ mem' = mem /\ line' = line
        /\ pc \in {"idle", "checkBusy", "readBytes"}
        /\ \/ /\ pc' \in {"readBytes", "idle", "checkBusy", "kick"}
              /\ popped' = popped
              /\ pc' = "readBytes" => resps # <<>>
           \/ /\ pc' = "readFlags" /\ resps # <<>> /\ popped' = Head(resps)
    BY DEF Poll, PollBusy, ReadBytes, dmaVars, ResponseEmpty
  <1>2. SizesOK' /\ CopyOK'
    <2>1. pc' = "readFlags" => resps # <<>> /\ popped' = resps[1] /\ Done(resps[1])
      <3>1. resps # <<>> => Head(resps) = resps[1] /\ Len(resps) \in Nat \ {0}
        BY Counts, TailProps DEF IInv
      <3> QED
        BY <1>1, <3>1 DEF IInv, SizesOK
    <2> QED
      BY <1>1, <2>1 DEF IInv, SizesOK, CopyOK, NoHangingRead, Done
  <1>3. OneAtATime'
    BY <1>1 DEF IInv, OneAtATime
  <1>4. Owed' = 0 /\ Owed = 0 /\ Running
    BY <1>1 DEF Owed, Running
  <1>5. TransferOutstanding' /\ MemoryIsTransfer'
    BY <1>1, <1>4 DEF IInv, TransferOutstanding, MemoryIsTransfer, Outstanding,
                      Stored
  <1>6. Outstanding' = Outstanding
    BY <1>1, <1>4 DEF Outstanding
  <1> QED
    BY <1>2, <1>3, <1>5, <1>6 DEF IInv, Conserved

LEMMA ReadFlagsIInv == ASSUME IInv, TypeOK', ReadFlags PROVE IInv' /\ Conserved
  <1>1. /\ pc = "readFlags" /\ pc' = "copy" /\ resps # <<>>
        /\ resps' = Tail(resps) /\ descs' = descs /\ moving' = moving
        /\ retiring' = retiring /\ mem' = mem /\ popped' = popped
        /\ line' = line
    BY DEF ReadFlags
  <1>2. /\ Len(resps') = Len(resps) - 1
        /\ \A k \in 1 .. Len(resps') : resps'[k] = resps[k + 1]
        /\ Len(resps) \in Nat \ {0}
    BY <1>1, Counts, TailProps DEF IInv
  <1>3. SizesOK'
    <2>1. \A k \in 1 .. Len(resps') : Done(resps'[k])
      BY <1>2 DEF IInv, SizesOK
    <2> QED
      BY <1>1, <2>1 DEF IInv, SizesOK, Done
  <1>4. OneAtATime' /\ CopyOK'
    <2>1. line = <<>> /\ Done(popped) /\ popped \in Seq(Beat)
      BY <1>1 DEF IInv, CopyOK, SizesOK, TypeOK
    <2>2. Len(line) < Len(popped)
      BY <2>1, SizesAssumption DEF Done
    <2> QED
      BY <1>1, <2>2 DEF IInv, OneAtATime, CopyOK, NoHangingRead
  <1>5. Outstanding' = Outstanding
    <2>1. Owed' = 1 /\ Owed = 0
      BY <1>1 DEF Owed
    <2> QED
      BY <1>1, <1>2, <2>1, CountsNat DEF IInv, Outstanding
  <1>6. TransferOutstanding'
    BY <1>1, <1>5 DEF IInv, TransferOutstanding, Running
  <1>7. MemoryIsTransfer'
    <2> SUFFICES ASSUME Running', Outstanding' = 1 PROVE MemoryIsTransfer'
      BY DEF MemoryIsTransfer
    <2>1. Running /\ Outstanding = 1
      BY <1>1, <1>5 DEF Running
    <2>2. moving' = <<>> /\ retiring' = <<>> /\ Len(resps') = 0
      BY <1>1, <1>2, <2>1, OnePlace DEF IInv
    <2>3. Stored(popped) /\ line = <<>>
      BY <1>1, <1>2, <2>1 DEF IInv, MemoryIsTransfer, CopyOK
    <2>4. Stored(popped)' /\ line' = <<>>
      BY <1>1, <2>3 DEF Stored
    <2>5. Len(moving') = 0 /\ Len(retiring') = 0
      BY <2>2
    <2> QED
      BY <2>2, <2>4, <2>5 DEF MemoryIsTransfer
  <1> QED
    BY <1>3, <1>4, <1>5, <1>6, <1>7 DEF IInv, Conserved

LEMMA CopyByteIInv == ASSUME IInv, TypeOK', CopyByte PROVE IInv' /\ Conserved
  <1>1. /\ pc = "copy" /\ line' = Append(line, mem[Len(line) + 1])
        /\ Len(line) < CopyLength
        /\ pc' = IF Len(line) + 1 = CopyLength THEN "restart" ELSE "copy"
        /\ descs' = descs /\ moving' = moving /\ retiring' = retiring
        /\ resps' = resps /\ mem' = mem /\ popped' = popped
    BY DEF CopyByte, dmaVars
  <1>2. /\ Len(line) \in Nat /\ Len(popped) \in 1 .. MaxLen
        /\ CopyLength = Len(popped)
    BY <1>1, SizesAssumption, LenProperties DEF IInv, TypeOK, SizesOK, Done, CopyLength
  <1>3. /\ Len(line') = Len(line) + 1
        /\ \A k \in 1 .. Len(line) : line'[k] = line[k]
        /\ line'[Len(line) + 1] = mem[Len(line) + 1]
    <2>1. line \in Seq(Beat \cup {Blank}) /\ mem[Len(line) + 1] \in Beat \cup {Blank}
      BY <1>1, <1>2, SizesAssumption DEF IInv, TypeOK
    <2> QED
      BY <1>1, <2>1, AppendProps
  <1>4. SizesOK' /\ OneAtATime' /\ CopyOK'
    <2>1. /\ pc' \in {"copy", "restart"}
          /\ pc' = "copy" => Len(line') < Len(popped)
          /\ pc' = "restart" => Len(line') = Len(popped)
      BY <1>1, <1>2, <1>3
    <2> QED
      BY <1>1, <2>1 DEF IInv, SizesOK, OneAtATime, CopyOK, NoHangingRead, Done
  <1>5. Owed' = 1 /\ Owed = 1 /\ Running
    BY <1>1 DEF Owed, Running
  <1>6. TransferOutstanding'
    BY <1>1, <1>5 DEF IInv, TransferOutstanding, Outstanding
  <1>7. MemoryIsTransfer'
    <2> SUFFICES ASSUME Running', Outstanding' = 1 PROVE MemoryIsTransfer'
      BY DEF MemoryIsTransfer
    <2>1. Outstanding = 1
      BY <1>1, <1>5 DEF Outstanding
    <2>2. moving' = <<>> /\ retiring' = <<>> /\ resps' = <<>>
      BY <1>1, <1>5, <2>1, OnePlace DEF IInv
    <2>3. Stored(popped) /\ \A k \in 1 .. Len(line) : line[k] = popped[k]
      BY <1>5, <2>1 DEF IInv, MemoryIsTransfer
    <2>4. \A k \in 1 .. Len(line') : line'[k] = popped[k]
      <3> SUFFICES ASSUME NEW k \in 1 .. Len(line) + 1 PROVE line'[k] = popped[k]
        BY <1>3
      <3>1. CASE k = Len(line) + 1
        <4>1. k \in 1 .. Len(popped)
          BY <1>1, <1>2, <3>1
        <4> QED
          BY <1>3, <2>3, <3>1, <4>1 DEF Stored
      <3>2. CASE k # Len(line) + 1
        <4>1. k \in 1 .. Len(line)
          BY <1>2, <3>2
        <4> QED
          BY <1>3, <2>3, <4>1
      <3> QED
        BY <3>1, <3>2
    <2> QED
      BY <1>1, <2>2, <2>3, <2>4 DEF MemoryIsTransfer, Stored
  <1>8. Outstanding' = Outstanding
    BY <1>1, <1>5 DEF Outstanding
  <1> QED
    BY <1>4, <1>6, <1>7, <1>8 DEF IInv, Conserved

LEMMA RestartIInv == ASSUME IInv, TypeOK', Restart PROVE IInv' /\ Conserved
  <1>1. /\ pc = "restart" /\ pc' = "idle" /\ descs' = descs + 1
        /\ moving' = moving /\ retiring' = retiring /\ resps' = resps
        /\ mem' = mem /\ popped' = <<>> /\ line' = <<>>
    BY DEF Restart, CameraDataDMAStart
  <1>2. SizesOK' /\ OneAtATime' /\ CopyOK'
    BY <1>1 DEF IInv, SizesOK, OneAtATime, CopyOK, NoHangingRead, Done
  <1>3. Owed' = 0 /\ Owed = 1 /\ Running
    BY <1>1 DEF Owed, Running
  <1>4. Outstanding' = Outstanding
    BY <1>1, <1>3, CountsNat DEF IInv, Outstanding
  <1>5. TransferOutstanding'
    BY <1>3, <1>4 DEF IInv, TransferOutstanding
  <1>6. MemoryIsTransfer'
    <2> SUFFICES ASSUME Running', Outstanding' = 1 PROVE MemoryIsTransfer'
      BY DEF MemoryIsTransfer
    <2>1. moving' = <<>> /\ retiring' = <<>> /\ resps' = <<>>
      BY <1>1, <1>3, <1>4, OnePlace DEF IInv
    <2> QED
      BY <1>3, <2>1 DEF MemoryIsTransfer
  <1> QED
    BY <1>2, <1>4, <1>5, <1>6 DEF IInv, Conserved

LEMMA RerunIInv == ASSUME IInv, TypeOK', Rerun PROVE IInv' /\ Conserved
  <1>1. /\ pc' = "boot" /\ descs' = descs /\ moving' = moving
        /\ retiring' = retiring /\ resps' = resps /\ line' = <<>>
    BY DEF Rerun, dmaVars
  <1>2. SizesOK' /\ OneAtATime' /\ CopyOK'
    BY <1>1 DEF IInv, SizesOK, OneAtATime, CopyOK, NoHangingRead, Done
  <1> QED
    BY <1>1, <1>2 DEF IInv, TransferOutstanding, MemoryIsTransfer, Running,
                       Conserved

LEMMA StepIInv == IInv /\ [Next]_vars => IInv' /\ Conserved
  <1> SUFFICES ASSUME IInv, [Next]_vars PROVE IInv' /\ Conserved
    OBVIOUS
  <1>1. TypeOK'
    BY StepTypeOK DEF IInv
  <1>2. CASE RowBeat
    BY <1>1, <1>2, FrameIInv DEF RowBeat
  <1>3. CASE UNCHANGED vars
    BY <1>1, <1>3, FrameIInv DEF vars, dmaVars, cpuVars
  <1>4. CASE Dma
    BY <1>1, <1>4, IssueDescriptorIInv, WriteByteIInv, ResponseVisibleIInv DEF Dma
  <1>5. CASE Cpu
    BY <1>1, <1>5, StartIInv, PollIInv, ReadFlagsIInv, CopyByteIInv, RestartIInv
       DEF Cpu
  <1>6. CASE Rerun
    BY <1>1, <1>6, RerunIInv
  <1> QED
    BY <1>2, <1>3, <1>4, <1>5, <1>6 DEF Next

THEOREM Invariant == Spec => []IInv
  BY InitIInv, StepIInv, PTL DEF Spec

-----------------------------------------------------------------------------
(***************************************************************************)
(* Once the program has started a transfer, one is outstanding for ever:   *)
(* the kick-off of camera_data.c:39-43 is never needed.                    *)
(***************************************************************************)
THEOREM PipelineNeverDies == Spec => []TransferOutstanding
  <1>1. IInv => TransferOutstanding
    BY DEF IInv
  <1> QED
    BY <1>1, Invariant, PTL

(***************************************************************************)
(* The processor is never held by a read of an empty response port.        *)
(***************************************************************************)
THEOREM ReadsNeverHang == Spec => []NoHangingRead
  <1>1. IInv => NoHangingRead
    BY DEF IInv, CopyOK
  <1> QED
    BY <1>1, Invariant, PTL

(***************************************************************************)
(* Two sequences of one length that agree everywhere are one.              *)
(***************************************************************************)
LEMMA LineOfInvariant == IInv => LineIsTransfer
  <1> SUFFICES ASSUME IInv, Running, Outstanding = 1, pc = "restart"
               PROVE  line = popped
    BY DEF LineIsTransfer
  <1>1. Len(line) = Len(popped) /\ Len(popped) \in Nat
    BY LenProperties DEF IInv, CopyOK, TypeOK
  <1>2. \A k \in 1 .. Len(line) : line[k] = popped[k]
    BY DEF IInv, MemoryIsTransfer, Owed
  <1>3. popped \in Seq(Beat \cup {Blank}) /\ line \in Seq(Beat \cup {Blank})
    BY DEF IInv, TypeOK
  <1> QED
    BY <1>1, <1>2, <1>3, SeqEqual

(***************************************************************************)
(* With one transfer outstanding, the line the program returns is byte for *)
(* byte what that transfer moved, for every size of line, row and FIFO.    *)
(***************************************************************************)
THEOREM LineExact == Spec => []LineIsTransfer
  BY LineOfInvariant, Invariant, PTL

(***************************************************************************)
(* No step of the running program loses a transfer, and none but the first *)
(* start and a kick-off adds one.                                          *)
(***************************************************************************)
THEOREM TransferCount == Spec => TransfersConserved
  <1>1. IInv /\ [Next]_vars => [Conserved]_vars
    BY StepIInv
  <1> QED
    BY <1>1, Invariant, PTL DEF Spec, TransfersConserved

-----------------------------------------------------------------------------
(***************************************************************************)
(* Rows, as long as no EOP beat is lost.  In the sink FIFO a beat that     *)
(* does not close its row is followed by one of the same row, or by none   *)
(* and the camera still reads that row out.  The transfer in progress is   *)
(* of the row that the next beat to reach it belongs to.                   *)
(***************************************************************************)
FrontRow == IF fifo = <<>> THEN cam.row ELSE fifo[1].row

RowsFollow ==
  /\ \A k \in 1 .. Len(fifo) - 1 : fifo[k].eop \/ fifo[k + 1].row = fifo[k].row
  /\ fifo # <<>> => fifo[Len(fifo)].eop \/ fifo[Len(fifo)].row = cam.row
  /\ \A k \in 1 .. Len(moving) :
       \A j \in 1 .. Len(moving[k]) : moving[k][j].row = FrontRow

OneRowEach ==
  ~eopLost => /\ \A k \in 1 .. Len(moving) : OneRow(moving[k])
              /\ \A k \in 1 .. Len(retiring) : OneRow(retiring[k])
              /\ \A k \in 1 .. Len(resps) : OneRow(resps[k])

RowInv == OneRowEach /\ (~eopLost => RowsFollow)

LEMMA InitRowInv == Init => RowInv
  BY DEF Init, RowInv, OneRowEach, RowsFollow

LEMMA OfOneRow ==
  ASSUME NEW bytes \in Seq(Beat), NEW r,
         \A j \in 1 .. Len(bytes) : bytes[j].row = r
  PROVE  OneRow(bytes)
  <1> SUFFICES ASSUME NEW k \in 1 .. Len(bytes)
               PROVE  bytes[k].row = bytes[1].row
    BY DEF OneRow
  <1>1. 1 \in 1 .. Len(bytes)
    BY LenProperties
  <1> QED
    BY <1>1

\* A step that moves neither beats nor responses.
LEMMA RowInvKept ==
  ASSUME RowInv, UNCHANGED <<cam, eopLost, fifo, moving, retiring, resps>>
  PROVE  RowInv'
  BY DEF RowInv, OneRowEach, RowsFollow, FrontRow, OneRow

LEMMA RowBeatRows == ASSUME TypeOK, RowInv, RowBeat PROVE RowInv'
  <1>1. PICK eop \in BOOLEAN :
          /\ cam' = IF eop THEN [row |-> NextRow, pos |-> 0]
                           ELSE [cam EXCEPT !.pos = cam.pos + 1]
          /\ fifo' = IF SinkReady(cam.pos + 1 = 1)
                       THEN Append(fifo, [row |-> cam.row, eop |-> eop])
                       ELSE fifo
          /\ eopLost' = (eopLost \/ (eop /\ ~SinkReady(cam.pos + 1 = 1)))
    BY DEF RowBeat
  <1>2. moving' = moving /\ retiring' = retiring /\ resps' = resps
    BY DEF RowBeat, dmaVars
  <1> SUFFICES ASSUME ~eopLost' PROVE RowInv'
    BY DEF RowInv, OneRowEach
  <1>3. ~eopLost /\ RowsFollow
    BY <1>1 DEF RowInv
  <1>4. OneRowEach'
    BY <1>2, <1>3 DEF RowInv, OneRowEach, OneRow
  <1>5. ~eop => cam'.row = cam.row
    BY <1>1 DEF TypeOK
  <1>6. CASE fifo' = fifo
    <2>1. cam'.row = cam.row
      <3>1. \A e \in Beat : Append(fifo, e) # fifo
        BY AppendProps, LenProperties DEF TypeOK
      <3>2. [row |-> cam.row, eop |-> eop] \in Beat
        BY DEF TypeOK, Beat
      <3>3. ~eop
        BY <1>1, <1>6, <3>1, <3>2
      <3> QED
        BY <1>5, <3>3
    <2> QED
      BY <1>2, <1>3, <1>4, <1>6, <2>1 DEF RowInv, RowsFollow, FrontRow
  <1>7. CASE fifo' = Append(fifo, [row |-> cam.row, eop |-> eop])
    <2> DEFINE beat == [row |-> cam.row, eop |-> eop]
    <2>1. beat \in Beat /\ beat.row = cam.row /\ beat.eop = eop
      BY DEF TypeOK, Beat
    <2>2. /\ Len(fifo') = Len(fifo) + 1 /\ Len(fifo) \in Nat
          /\ \A k \in 1 .. Len(fifo) : fifo'[k] = fifo[k]
          /\ fifo'[Len(fifo) + 1] = beat
          /\ fifo = <<>> <=> Len(fifo) = 0
      BY <1>7, <2>1, AppendProps, NonEmpty DEF TypeOK
    <2> HIDE DEF beat
    <2>3. fifo' # <<>>
      BY <2>2
    <2>4. \A k \in 1 .. Len(fifo') - 1 :
            fifo'[k].eop \/ fifo'[k + 1].row = fifo'[k].row
      <3> SUFFICES ASSUME NEW k \in 1 .. Len(fifo)
                   PROVE  fifo'[k].eop \/ fifo'[k + 1].row = fifo'[k].row
        BY <2>2
      <3>1. CASE k = Len(fifo)
        BY <1>3, <2>1, <2>2, <3>1 DEF RowsFollow
      <3>2. CASE k # Len(fifo)
        <4>1. k \in 1 .. Len(fifo) - 1 /\ k + 1 \in 1 .. Len(fifo)
          BY <2>2, <3>2
        <4> QED
          BY <1>3, <2>2, <4>1 DEF RowsFollow
      <3> QED
        BY <3>1, <3>2
    <2>5. fifo'[Len(fifo')].eop \/ fifo'[Len(fifo')].row = cam'.row
      BY <1>5, <2>1, <2>2
    <2>6. FrontRow' = FrontRow
      <3>1. CASE fifo = <<>>
        BY <2>1, <2>2, <2>3, <3>1 DEF FrontRow
      <3>2. CASE fifo # <<>>
        <4>1. fifo'[1] = fifo[1]
          BY <2>2, <3>2
        <4> QED
          BY <2>3, <3>2, <4>1 DEF FrontRow
      <3> QED
        BY <3>1, <3>2
    <2>7. \A k \in 1 .. Len(moving') :
            \A j \in 1 .. Len(moving'[k]) : moving'[k][j].row = FrontRow'
      BY <1>2, <1>3, <2>6 DEF RowsFollow
    <2> QED
      BY <1>4, <2>4, <2>5, <2>7 DEF RowInv, RowsFollow
  <1> QED
    BY <1>1, <1>6, <1>7

LEMMA WriteByteRows == ASSUME IInv, RowInv, WriteByte PROVE RowInv'
  <1> DEFINE beat  == Head(fifo)
             bytes == Append(moving[1], beat)
  <1>1. /\ moving # <<>> /\ fifo # <<>> /\ fifo \in Seq(Beat)
        /\ Len(moving) = 1 /\ moving[1] \in Seq(Beat)
        /\ fifo' = Tail(fifo) /\ cam' = cam /\ eopLost' = eopLost
    BY Counts DEF WriteByte, IInv, TypeOK, camVars
  <1>2. /\ beat = fifo[1] /\ beat \in Beat
        /\ Tail(fifo) \in Seq(Beat) /\ Len(Tail(fifo)) = Len(fifo) - 1
        /\ \A k \in 1 .. Len(Tail(fifo)) : Tail(fifo)[k] = fifo[k + 1]
        /\ Len(fifo) \in Nat \ {0}
    BY <1>1, TailProps, NonEmpty
  <1>3. /\ bytes \in Seq(Beat)
        /\ Len(bytes) = Len(moving[1]) + 1 /\ Len(moving[1]) \in Nat
        /\ \A k \in 1 .. Len(moving[1]) : bytes[k] = moving[1][k]
        /\ bytes[Len(moving[1]) + 1] = beat
    BY <1>1, <1>2, AppendProps, LenProperties
  <1>4. \/ /\ moving' = <<>>
           /\ \/ retiring' = <<bytes>> /\ resps' = resps
              \/ resps' = Append(resps, bytes) /\ retiring' = retiring
        \/ /\ ~beat.eop
           /\ moving' = <<bytes>> /\ retiring' = retiring /\ resps' = resps
    BY DEF WriteByte, TransferDone
  <1> HIDE DEF bytes, beat
  <1> SUFFICES ASSUME ~eopLost PROVE RowInv'
    BY <1>1 DEF RowInv, OneRowEach
  <1>5. RowsFollow
    BY DEF RowInv
  <1>6. \A j \in 1 .. Len(bytes) : bytes[j].row = beat.row
    <2> SUFFICES ASSUME NEW j \in 1 .. Len(bytes) PROVE bytes[j].row = beat.row
      OBVIOUS
    <2>1. CASE j = Len(moving[1]) + 1
      BY <1>3, <2>1
    <2>2. CASE j # Len(moving[1]) + 1
      <3>1. j \in 1 .. Len(moving[1])
        BY <1>3, <2>2
      <3> QED
        BY <1>1, <1>2, <1>3, <1>5, <3>1 DEF RowsFollow, FrontRow
    <2> QED
      BY <2>1, <2>2
  <1>7. OneRow(bytes)
    BY <1>3, <1>6, OfOneRow
  <1>8. OneRowEach'
    <2>1. resps \in Seq(Seq(Beat)) /\ Len(resps) \in Nat
      BY Counts DEF IInv
    <2>2. /\ \A k \in 1 .. Len(retiring) : OneRow(retiring[k])
          /\ \A k \in 1 .. Len(resps) : OneRow(resps[k])
      BY DEF RowInv, OneRowEach
    <2>3. \A k \in 1 .. Len(moving') : OneRow(moving'[k])
      BY <1>4, <1>7
    <2>4. \A k \in 1 .. Len(retiring') : OneRow(retiring'[k])
      BY <1>4, <1>7, <2>2
    <2>5. \A k \in 1 .. Len(resps') : OneRow(resps'[k])
      <3>1. CASE resps' = resps
        BY <2>2, <3>1
      <3>2. CASE resps' = Append(resps, bytes)
        <4>1. /\ Len(resps') = Len(resps) + 1
              /\ \A k \in 1 .. Len(resps) : resps'[k] = resps[k]
              /\ resps'[Len(resps) + 1] = bytes
          BY <1>3, <2>1, <3>2, AppendProps
        <4> SUFFICES ASSUME NEW k \in 1 .. Len(resps) + 1 PROVE OneRow(resps'[k])
          BY <4>1
        <4>2. CASE k = Len(resps) + 1
          BY <1>7, <4>1, <4>2
        <4>3. CASE k # Len(resps) + 1
          <5>1. k \in 1 .. Len(resps)
            BY <2>1, <4>3
          <5> QED
            BY <2>2, <4>1, <5>1
        <4> QED
          BY <4>2, <4>3
      <3> QED
        BY <1>4, <3>1, <3>2
    <2> QED
      BY <2>3, <2>4, <2>5 DEF OneRowEach, OneRow
  <1>9. \A k \in 1 .. Len(fifo') - 1 :
          fifo'[k].eop \/ fifo'[k + 1].row = fifo'[k].row
    <2> SUFFICES ASSUME NEW k \in 1 .. Len(fifo') - 1
                 PROVE  fifo'[k].eop \/ fifo'[k + 1].row = fifo'[k].row
      OBVIOUS
    <2>1. /\ k \in 1 .. Len(fifo') /\ k + 1 \in 1 .. Len(fifo')
          /\ k + 1 \in 1 .. Len(fifo) - 1
      BY <1>1, <1>2
    <2> QED
      BY <1>1, <1>2, <1>5, <2>1 DEF RowsFollow
  <1>10. fifo' # <<>> => fifo'[Len(fifo')].eop \/ fifo'[Len(fifo')].row = cam'.row
    <2> SUFFICES ASSUME fifo' # <<>>
                 PROVE  fifo'[Len(fifo')].eop \/ fifo'[Len(fifo')].row = cam'.row
      OBVIOUS
    <2>1. Len(fifo') \in Nat \ {0}
      BY <1>1, <1>2, NonEmpty
    <2>2. fifo'[Len(fifo')] = fifo[Len(fifo)]
      BY <1>1, <1>2, <2>1
    <2> QED
      BY <1>1, <1>5, <2>2 DEF RowsFollow
  <1>11. \A k \in 1 .. Len(moving') :
           \A j \in 1 .. Len(moving'[k]) : moving'[k][j].row = FrontRow'
    <2>1. CASE moving' = <<>>
      BY <2>1
    <2>2. CASE ~beat.eop /\ moving' = <<bytes>>
      <3>1. FrontRow' = beat.row
        <4>1. CASE fifo' = <<>>
          <5>1. Len(Tail(fifo)) = 0
            BY <1>1, <4>1, EmptySeq
          <5>2. Len(fifo) = 1
            <6>1. Len(fifo) - 1 = 0 /\ Len(fifo) \in Nat
              BY <1>2, <5>1
            <6> QED
              BY <6>1
          <5> QED
            BY <1>1, <1>2, <1>5, <2>2, <4>1, <5>2 DEF RowsFollow, FrontRow
        <4>2. CASE fifo' # <<>>
          <5>1. Len(fifo') \in Nat \ {0}
            BY <1>1, <1>2, <4>2, NonEmpty
          <5>2. fifo'[1] = fifo[2] /\ 1 \in 1 .. Len(fifo) - 1
            BY <1>1, <1>2, <5>1
          <5>3. fifo[1].eop \/ fifo[1 + 1].row = fifo[1].row
            BY <1>5, <5>2 DEF RowsFollow
          <5> QED
            BY <1>2, <2>2, <4>2, <5>2, <5>3 DEF FrontRow
        <4> QED
          BY <4>1, <4>2
      <3> QED
        BY <1>6, <2>2, <3>1
    <2> QED
      BY <1>4, <2>1, <2>2
  <1> QED
    BY <1>8, <1>9, <1>10, <1>11 DEF RowInv, RowsFollow

LEMMA ResponseVisibleRows == ASSUME IInv, RowInv, ResponseVisible PROVE RowInv'
  <1>1. /\ retiring # <<>> /\ retiring' = <<>>
        /\ resps' = Append(resps, retiring[1]) /\ UNCHANGED <<fifo, moving>>
        /\ cam' = cam /\ eopLost' = eopLost
    BY DEF ResponseVisible, camVars
  <1>2. /\ resps \in Seq(Seq(Beat)) /\ Len(resps) \in Nat
        /\ retiring[1] \in Seq(Beat) /\ Len(retiring) = 1
    BY <1>1, Counts DEF IInv
  <1>3. /\ Len(resps') = Len(resps) + 1
        /\ \A k \in 1 .. Len(resps) : resps'[k] = resps[k]
        /\ resps'[Len(resps) + 1] = retiring[1]
    BY <1>1, <1>2, AppendProps
  <1> SUFFICES ASSUME ~eopLost PROVE RowInv'
    BY <1>1 DEF RowInv, OneRowEach
  <1>4. \A k \in 1 .. Len(resps') : OneRow(resps'[k])
    <2> SUFFICES ASSUME NEW k \in 1 .. Len(resps) + 1 PROVE OneRow(resps'[k])
      BY <1>3
    <2>1. CASE k = Len(resps) + 1
      BY <1>2, <1>3, <2>1 DEF RowInv, OneRowEach
    <2>2. CASE k # Len(resps) + 1
      <3>1. k \in 1 .. Len(resps)
        BY <1>2, <2>2
      <3> QED
        BY <1>3, <3>1 DEF RowInv, OneRowEach
    <2> QED
      BY <2>1, <2>2
  <1>5. OneRowEach'
    BY <1>1, <1>4 DEF RowInv, OneRowEach, OneRow
  <1> QED
    BY <1>1, <1>5 DEF RowInv, RowsFollow, FrontRow

LEMMA IssueDescriptorRows == ASSUME RowInv, IssueDescriptor PROVE RowInv'
  <1>1. /\ moving' = << <<>> >> /\ UNCHANGED <<fifo, retiring, resps>>
        /\ cam' = cam /\ eopLost' = eopLost
    BY DEF IssueDescriptor, camVars
  <1>2. Len(moving') = 1 /\ moving'[1] = <<>> /\ Len(<<>>) = 0
    BY <1>1
  <1>3. \A k \in 1 .. Len(moving') : \A j \in 1 .. Len(moving'[k]) : FALSE
    BY <1>2
  <1>4. \A k \in 1 .. Len(moving') : OneRow(moving'[k])
    BY <1>3 DEF OneRow
  <1>5. OneRowEach'
    BY <1>1, <1>4 DEF RowInv, OneRowEach, OneRow
  <1> QED
    BY <1>1, <1>3, <1>5 DEF RowInv, RowsFollow, FrontRow

LEMMA ReadFlagsRows == ASSUME IInv, RowInv, ReadFlags PROVE RowInv'
  <1>1. /\ resps # <<>> /\ resps' = Tail(resps)
        /\ UNCHANGED <<fifo, moving, retiring>>
        /\ cam' = cam /\ eopLost' = eopLost
    BY DEF ReadFlags, camVars
  <1>2. /\ Len(resps') = Len(resps) - 1 /\ Len(resps) \in Nat
        /\ \A k \in 1 .. Len(resps') : resps'[k] = resps[k + 1]
    BY <1>1, Counts, TailProps DEF IInv
  <1>3. \A k \in 1 .. Len(resps') : k + 1 \in 1 .. Len(resps)
    BY <1>2
  <1>4. OneRowEach'
    BY <1>1, <1>2, <1>3 DEF RowInv, OneRowEach, OneRow
  <1> QED
    BY <1>1, <1>4 DEF RowInv, RowsFollow, FrontRow

LEMMA StepRowInv == IInv /\ RowInv /\ [Next]_vars => RowInv'
  <1> SUFFICES ASSUME IInv, RowInv, [Next]_vars PROVE RowInv'
    OBVIOUS
  <1>1. TypeOK
    BY DEF IInv
  <1>2. CASE RowBeat
    BY <1>1, <1>2, RowBeatRows
  <1>3. CASE Dma
    BY <1>3, WriteByteRows, ResponseVisibleRows, IssueDescriptorRows DEF Dma
  <1>4. CASE ReadFlags
    BY <1>4, ReadFlagsRows
  <1>5. CASE \/ ClearMemory \/ StartFirst \/ Poll \/ PollBusy \/ KickOff
             \/ ReadBytes \/ CopyByte \/ Restart
    BY <1>5, RowInvKept DEF ClearMemory, StartFirst, Poll, PollBusy, KickOff,
         ReadBytes, CopyByte, Restart, CameraDataDMAStart, camVars, dmaVars
  <1>6. CASE Rerun \/ UNCHANGED vars
    BY <1>6, RowInvKept DEF Rerun, camVars, dmaVars, vars
  <1> QED
    BY <1>2, <1>3, <1>4, <1>5, <1>6 DEF Next, Cpu

(***************************************************************************)
(* The response the program has taken was one of those in the FIFO.        *)
(***************************************************************************)
Holding == pc \in {"readFlags", "copy", "restart"}

PoppedOneRow == ~eopLost /\ Holding => OneRow(popped)

LEMMA StepPopped == IInv /\ RowInv /\ PoppedOneRow /\ [Next]_vars => PoppedOneRow'
  <1> SUFFICES ASSUME IInv, RowInv, PoppedOneRow, [Next]_vars, ~eopLost', Holding'
               PROVE  OneRow(popped')
    BY DEF PoppedOneRow, OneRow
  <1>1. ~eopLost
    BY DEF Next, RowBeat, Dma, IssueDescriptor, WriteByte, ResponseVisible, Cpu,
           ClearMemory, StartFirst, Poll, PollBusy, KickOff, ReadBytes, ReadFlags,
           CopyByte, Restart, Rerun, camVars, vars
  <1>2. CASE ReadBytes
    <2>1. resps # <<>> /\ popped' = Head(resps)
      BY <1>2 DEF ReadBytes
    <2>2. /\ resps \in Seq(Seq(Beat)) /\ Len(resps) \in Nat
          /\ (resps = <<>> <=> Len(resps) = 0)
      BY Counts DEF IInv
    <2>3. popped' = resps[1] /\ 1 \in 1 .. Len(resps)
      BY <2>1, <2>2, TailProps
    <2>4. OneRow(resps[1])
      BY <1>1, <2>3 DEF RowInv, OneRowEach
    <2> QED
      BY <2>3, <2>4
  <1>3. CASE ~ReadBytes
    <2>1. popped' = popped /\ Holding
      <3>1. CASE RowBeat \/ Dma \/ UNCHANGED vars
        BY <3>1 DEF RowBeat, Dma, IssueDescriptor, WriteByte, ResponseVisible,
                    cpuVars, vars, Holding
      <3>2. CASE ReadFlags \/ CopyByte
        BY <3>2 DEF ReadFlags, CopyByte, Holding
      <3>3. ~(ClearMemory \/ StartFirst \/ KickOff \/ Restart \/ Rerun)
        BY DEF ClearMemory, StartFirst, KickOff, Restart, Rerun, Holding
      <3>4. ~(Poll \/ PollBusy)
        BY DEF Poll, PollBusy, Holding
      <3> QED
        BY <1>3, <3>1, <3>2, <3>3, <3>4 DEF Next, Cpu
    <2> QED
      BY <1>1, <2>1 DEF PoppedOneRow
  <1> QED
    BY <1>2, <1>3

LEMMA RowsOfLine == IInv /\ RowInv /\ PoppedOneRow => OneRowPerLine
  <1> SUFFICES ASSUME IInv, RowInv, PoppedOneRow, ~eopLost PROVE OneRowPerLine
    BY DEF OneRowPerLine
  <1>1. Running /\ Outstanding = 1 /\ pc = "restart" => OneRow(line)
    BY LineOfInvariant DEF LineIsTransfer, PoppedOneRow, Holding
  <1> QED
    BY <1>1 DEF OneRowPerLine, RowInv, OneRowEach

(***************************************************************************)
(* Whatever the lengths of rows, transfers and FIFO, and whatever beats    *)
(* were dropped but an EOP (write_master.v:898-901), no transfer joins two *)
(* rows, and neither does the line the program returns while one transfer  *)
(* is outstanding.                                                         *)
(***************************************************************************)
THEOREM LineIsOneRow == Spec => []OneRowPerLine
  <1>1. Init => RowInv /\ PoppedOneRow
    BY InitRowInv DEF Init, PoppedOneRow, Holding
  <1>2. IInv /\ RowInv /\ [Next]_vars => RowInv'
    BY StepRowInv
  <1>3. IInv /\ RowInv /\ PoppedOneRow /\ [Next]_vars => PoppedOneRow'
    BY StepPopped
  <1>4. IInv /\ RowInv /\ PoppedOneRow => OneRowPerLine
    BY RowsOfLine
  <1> QED
    BY <1>1, <1>2, <1>3, <1>4, Invariant, PTL DEF Spec

-----------------------------------------------------------------------------
(***************************************************************************)
(* The line buffer is handed off.  While no second transfer is outstanding *)
(* and the program is not killed, exactly one is outstanding from the      *)
(* first start on.                                                         *)
(***************************************************************************)
OneTransfer == Outstanding = IF Running THEN 1 ELSE 0

LEMMA InitOneTransfer == Init => OneTransfer
  BY DEF Init, OneTransfer, Outstanding, Running, Owed

\* Nothing moves in an engine that was given nothing.
LEMMA NothingMoves == ASSUME TypeOK, Outstanding = 0 PROVE ~Dma
  <1>1. moving = <<>> /\ retiring = <<>> /\ descs = 0
    <2>1. \A d, m, r, q, o \in Nat : d + m + r + q + o = 0 => d = 0
      OBVIOUS
    <2>2. descs = 0
      BY <2>1, CountsNat DEF Outstanding
    <2> QED
      BY <2>2, NoPlace
  <1> QED
    BY <1>1 DEF Dma, IssueDescriptor, WriteByte, ResponseVisible

Counted == Outstanding \in Nat

LEMMA TypeCounts == TypeOK => Counted
  BY CountsNat DEF Counted

LEMMA StepOneTransfer ==
  ASSUME MaxReruns = 0
  PROVE  IInv /\ OneTransfer /\ SingleTransfer' /\ [Next]_vars => OneTransfer'
  <1> SUFFICES ASSUME IInv, OneTransfer, SingleTransfer', [Next]_vars
               PROVE  OneTransfer'
    OBVIOUS
  <1>1. IInv' /\ TypeOK'
    BY StepIInv, StepTypeOK DEF IInv
  <1>2. CASE Running'
    <2>1. Counted'
      BY <1>1, TypeCounts, PTL
    <2>2. Outstanding' >= 1 /\ Outstanding' <= 1
      BY <1>1, <1>2 DEF IInv, TransferOutstanding, SingleTransfer
    <2>3. \A n \in Nat : n >= 1 /\ n <= 1 => n = 1
      OBVIOUS
    <2> QED
      BY <1>2, <2>1, <2>2, <2>3 DEF OneTransfer, Counted
  <1>3. CASE ~Running'
    <2>1. ~Rerun
      BY DEF Rerun, IInv, TypeOK
    <2>2. ~Running /\ Outstanding = 0
      <3>1. CASE RowBeat \/ Dma \/ UNCHANGED vars
        BY <1>3, <3>1 DEF RowBeat, Dma, IssueDescriptor, WriteByte, ResponseVisible,
                          cpuVars, vars, Running, OneTransfer
      <3>2. CASE Cpu
        BY <1>3, <3>2 DEF Cpu, ClearMemory, StartFirst, Poll, PollBusy, KickOff,
                          ReadBytes, ReadFlags, CopyByte, Restart, Running, OneTransfer
      <3> QED
        BY <2>1, <3>1, <3>2 DEF Next
    <2>3. RowBeat \/ ClearMemory \/ UNCHANGED vars
      <3>1. ~Dma
        BY <2>2, NothingMoves DEF IInv
      <3>2. Cpu => ClearMemory
        BY <1>3, <2>2 DEF Cpu, StartFirst, Poll, PollBusy, KickOff, ReadBytes,
                          ReadFlags, CopyByte, Restart, Running
      <3> QED
        BY <2>1, <3>1, <3>2 DEF Next
    <2>4. Outstanding' = Outstanding
      <3>1. /\ descs' = descs /\ moving' = moving /\ retiring' = retiring
            /\ resps' = resps
        BY <2>3 DEF RowBeat, ClearMemory, dmaVars, vars
      <3>2. Owed' = 0 /\ Owed = 0
        BY <1>3, <2>2 DEF Owed, Running
      <3> QED
        BY <3>1, <3>2 DEF Outstanding
    <2> QED
      BY <1>3, <2>2, <2>4 DEF OneTransfer
  <1> QED
    BY <1>2, <1>3

(***************************************************************************)
(* Every step of the line path is a step of LineBuffer or leaves it as it  *)
(* is.  While the buffer's owner is asked for, OneTransfer says where the  *)
(* one outstanding transfer can be.                                        *)
(***************************************************************************)
bufferVars == <<BufferOwner, BufferContent, BufferTaken>>

LEMMA InitBuffer == Init => Buffer!Init
  BY DEF Init, Buffer!Init, BufferOwner, BufferContent, BufferTaken, Owed

\* No transfer is with the engine.
Idle == moving = <<>> /\ retiring = <<>> /\ descs = 0

\* Whose buffer it is follows from where the transfer is.
OwnerFollows ==
  /\ ~Running => /\ BufferOwner = "nobody" /\ BufferContent = NoBytes
                 /\ BufferTaken = NoBytes /\ Idle
  /\ ~Idle => /\ Running /\ resps = <<>> /\ Owed = 0
              /\ BufferOwner = "engine" /\ BufferContent = NoBytes
              /\ BufferTaken = NoBytes
  /\ resps # <<>> =>
       /\ Running /\ Len(resps) = 1 /\ Idle
       /\ Owed = 0 /\ BufferOwner = "answered"
       /\ BufferContent = resps[1] /\ BufferTaken = NoBytes
  /\ Owed = 1 =>
       /\ Idle /\ resps = <<>>
       /\ BufferOwner = "program" /\ BufferContent = popped

LEMMA OwnerOf == IInv /\ OneTransfer => OwnerFollows
  <1> SUFFICES ASSUME IInv, OneTransfer PROVE OwnerFollows
    OBVIOUS
  <1> USE DEF BufferOwner, BufferContent, BufferTaken, NoBytes, OwnerFollows,
             Idle
  <1>1. CASE ~Running
    <2>1. Outstanding = 0 /\ Owed = 0
      BY <1>1 DEF OneTransfer, Running, Owed
    <2>2. Idle /\ resps = <<>>
      <3>1. \A d, m, r, q, o \in Nat : d + m + r + q + o = 0 => d = 0
        OBVIOUS
      <3>2. descs = 0
        BY <2>1, <3>1, CountsNat DEF IInv, Outstanding
      <3> QED
        BY <2>1, <3>2, NoPlace DEF IInv
    <2> QED
      BY <1>1, <2>1, <2>2 DEF Running
  <1>2. CASE Running
    <2>1. Outstanding = 1 /\ descs \in Nat /\ Len(resps) \in Nat
      BY <1>2, Counts DEF OneTransfer, IInv
    <2>2. /\ moving = <<>> \/ Len(moving) = 1
          /\ retiring = <<>> \/ Len(retiring) = 1
          /\ resps = <<>> \/ Len(resps) > 0
          /\ Owed = 1 <=> pc \in {"copy", "restart"}
          /\ Owed \in {0, 1}
      BY Counts DEF IInv, Owed
    <2>3. /\ ~Idle => resps = <<>> /\ Owed = 0
          /\ resps # <<>> => Idle /\ Len(resps) = 1 /\ Owed = 0
          /\ Owed = 1 => Idle /\ resps = <<>>
      BY <2>1, <2>2, OnePlace DEF IInv
    <2> QED
      BY <1>2, <2>1, <2>2, <2>3
  <1> QED
    BY <1>1, <1>2

\* The answer to the one transfer hands the buffer back.
LEMMA AnswerStep ==
  ASSUME IInv', OwnerFollows, OwnerFollows', ~Idle,
         resps \in Seq(Seq(Beat)), NEW bytes \in Seq(Beat),
         resps' = Append(resps, bytes)
  PROVE  Buffer!Answer
  <1>1. Len(resps') = Len(resps) + 1 /\ Len(resps) \in Nat
    BY AppendProps, LenProperties
  <1>2. resps' # <<>> /\ 1 \in 1 .. Len(resps')
    BY <1>1
  <1>3. resps' \in Seq(Seq(Beat)) /\ Done(resps'[1])
    BY <1>2 DEF IInv, TypeOK, SizesOK, Done
  <1>4. resps'[1] \in Seq(Beat) /\ Len(resps'[1]) # 0
    BY <1>2, <1>3, ElementOfSeq, SizesAssumption DEF Done
  <1>5. resps'[1] \in Seq(Beat) \ {<<>>}
    BY <1>4, EmptySeq
  <1> QED
    BY <1>2, <1>5 DEF OwnerFollows, Buffer!Answer

LEMMA StepBuffer ==
  ASSUME MaxReruns = 0
  PROVE  IInv /\ OneTransfer /\ SingleTransfer' /\ [Next]_vars
           => [Buffer!Next]_bufferVars
  <1> SUFFICES ASSUME IInv, OneTransfer, SingleTransfer', [Next]_vars
               PROVE  Buffer!Next \/ UNCHANGED bufferVars
    BY DEF bufferVars
  <1>1. IInv' /\ OneTransfer'
    BY StepIInv, StepOneTransfer
  <1>2. OwnerFollows /\ OwnerFollows'
    BY <1>1, OwnerOf, PTL
  <1>3. CASE RowBeat \/ ClearMemory \/ Poll \/ PollBusy \/ ReadBytes \/ UNCHANGED vars
    <2>1. /\ descs' = descs /\ moving' = moving /\ retiring' = retiring
          /\ resps' = resps /\ line' = line
          /\ Owed' = Owed /\ (pc' = "restart" <=> pc = "restart")
          /\ Owed = 1 => popped' = popped
      <3>1. CASE RowBeat \/ UNCHANGED vars
        BY <3>1 DEF RowBeat, vars, dmaVars, cpuVars, Owed
      <3>2. CASE ClearMemory
        BY <3>2 DEF ClearMemory, dmaVars, Owed
      <3>3. CASE Poll \/ PollBusy
        <4>1. /\ pc \in {"idle", "checkBusy"}
              /\ pc' \in {"readBytes", "checkBusy", "idle", "kick"}
          BY <3>3 DEF Poll, PollBusy
        <4> QED
          BY <3>3, <4>1 DEF Poll, PollBusy, dmaVars, Owed
      <3>4. CASE ReadBytes
        BY <3>4 DEF ReadBytes, dmaVars, Owed
      <3> QED
        BY <1>3, <3>1, <3>2, <3>3, <3>4
    <2>2. Owed \in {0, 1}
      BY DEF Owed
    <2>3. BufferOwner' = BufferOwner /\ BufferTaken' = BufferTaken
      BY <2>1 DEF BufferOwner, BufferTaken
    <2>4. BufferOwner = "program" => Owed = 1
      BY <2>2 DEF BufferOwner
    <2> QED
      BY <2>1, <2>3, <2>4 DEF bufferVars, BufferContent
  <1>4. CASE IssueDescriptor
    <2>1. ~Idle /\ ~Idle'
      BY <1>4 DEF IssueDescriptor, Idle
    <2> QED
      BY <2>1, <1>2 DEF OwnerFollows, bufferVars
  <1>5. CASE WriteByte
    <2>1. ~Idle
      BY <1>5 DEF WriteByte, Idle
    <2>2. CASE ~Idle'
      BY <2>1, <2>2, <1>2 DEF OwnerFollows, bufferVars
    <2>3. CASE Idle'
      <3>1. /\ resps' = Append(resps, Append(moving[1], Head(fifo)))
            /\ resps \in Seq(Seq(Beat)) /\ moving[1] \in Seq(Beat)
            /\ fifo \in Seq(Beat) /\ fifo # <<>>
        BY <1>5, <2>3, Counts DEF WriteByte, IInv, TypeOK, Idle
      <3>2. Append(moving[1], Head(fifo)) \in Seq(Beat)
        BY <3>1, TailProps, AppendProps
      <3>3. Buffer!Answer
        BY <2>1, <2>3, <3>1, <3>2, AnswerStep, <1>1, <1>2
      <3> QED
        BY <3>3 DEF Buffer!Next
    <2> QED
      BY <2>2, <2>3
  <1>11. CASE ResponseVisible
    <2>1. ~Idle /\ resps' = Append(resps, retiring[1])
      BY <1>11 DEF ResponseVisible, Idle
    <2>2. resps \in Seq(Seq(Beat)) /\ retiring[1] \in Seq(Beat)
      BY <1>11, Counts DEF IInv, ResponseVisible
    <2>3. Buffer!Answer
      BY <2>1, <2>2, AnswerStep, <1>1, <1>2
    <2> QED
      BY <2>3 DEF Buffer!Next
  <1>6. CASE StartFirst
    <2>1. ~Running /\ pc' = "idle" /\ descs' > 0
      BY <1>6, CountsNat
         DEF IInv, StartFirst, CameraDataDMAStart, Running
    <2>2. ~Idle'
      BY <2>1, <1>1 DEF Idle, IInv, TypeOK
    <2>3. Buffer!Grant
      BY <2>1, <2>2, <1>2 DEF OwnerFollows, Buffer!Grant, NoBytes
    <2> QED
      BY <2>3 DEF Buffer!Next
  <1>7. CASE ReadFlags
    <2>1. /\ pc = "readFlags" /\ resps # <<>> /\ popped' = popped
          /\ pc' = "copy" /\ popped = resps[1]
      BY <1>7 DEF ReadFlags, IInv, CopyOK
    <2>2. Owed' = 1 /\ BufferTaken' = NoBytes
      BY <2>1 DEF Owed, BufferTaken
    <2>3. Buffer!Accept
      BY <1>1, <2>1, <2>2, <1>2 DEF OwnerFollows, Buffer!Accept
    <2> QED
      BY <2>3 DEF Buffer!Next
  <1>8. CASE CopyByte
    <2>1. /\ pc = "copy" /\ pc' \in {"copy", "restart"} /\ popped' = popped
      BY <1>8 DEF CopyByte
    <2>2. Owed = 1 /\ Owed' = 1 /\ BufferTaken = NoBytes
      BY <2>1 DEF Owed, BufferTaken
    <2>3. CASE pc' = "copy"
      <3>1. BufferTaken' = NoBytes
        BY <2>3 DEF BufferTaken
      <3> QED
        BY <1>1, <2>1, <2>2, <3>1, <1>2 DEF OwnerFollows, bufferVars
    <2>4. CASE pc' = "restart"
      <3>1. BufferTaken' = popped'
        <4>1. LineIsTransfer'
          BY <1>1, LineOfInvariant, PTL
        <4>2. Running' /\ Outstanding' = 1
          BY <1>1, <2>4 DEF OneTransfer, Running
        <4> QED
          BY <2>4, <4>1, <4>2 DEF LineIsTransfer, BufferTaken
      <3>2. Buffer!Take
        BY <1>1, <2>1, <2>2, <3>1, <1>2 DEF OwnerFollows, Buffer!Take
      <3> QED
        BY <3>2 DEF Buffer!Next
    <2> QED
      BY <2>1, <2>3, <2>4
  <1>9. CASE Restart
    <2>1. pc = "restart" /\ pc' = "idle" /\ descs' > 0
      BY <1>9, CountsNat DEF IInv, Restart, CameraDataDMAStart
    <2>2. Owed = 1 /\ BufferTaken # NoBytes
      <3>1. Len(line) = Len(popped) /\ Len(popped) # 0 /\ line \in Seq(Beat \cup {Blank})
        BY <2>1, SizesAssumption DEF IInv, CopyOK, SizesOK, Done, TypeOK
      <3> QED
        BY <2>1, <3>1, EmptySeq DEF Owed, BufferTaken, NoBytes
    <2>3. ~Idle'
      BY <2>1, <1>1 DEF Idle, IInv, TypeOK
    <2>4. Buffer!Grant
      BY <2>1, <2>2, <2>3, <1>2 DEF OwnerFollows, Buffer!Grant
    <2> QED
      BY <2>4 DEF Buffer!Next
  <1>10. ~Rerun
    BY DEF Rerun, IInv, TypeOK
  <1>12. ~KickOff
    <2> SUFFICES ASSUME KickOff PROVE FALSE
      OBVIOUS
    <2>1. /\ descs' = descs + 1 /\ moving' = moving /\ retiring' = retiring
          /\ resps' = resps /\ pc = "kick" /\ pc' = "idle"
      BY DEF KickOff, CameraDataDMAStart
    <2>2. Outstanding' = Outstanding + 1
      BY <2>1, CountsNat DEF IInv, Outstanding, Owed
    <2>3. Outstanding = 1 /\ Outstanding' = 1
      BY <1>1, <2>1 DEF OneTransfer, Running
    <2> QED
      BY <2>2, <2>3
  <1> QED
    BY <1>3, <1>4, <1>5, <1>6, <1>7, <1>8, <1>9, <1>10, <1>11, <1>12
       DEF Next, Cpu, Dma

(***************************************************************************)
(* The line path implements the hand-off of LineBuffer: as long as the     *)
(* program is not killed and no kick-off has added a second transfer, the  *)
(* engine and the program never have camera_data at the same time, and     *)
(* each line returned is what the engine left (camera_data.c:29-61).  It   *)
(* holds for one load of the status or two, and however late the response  *)
(* is seen after BUSY falls.                                               *)
(***************************************************************************)
THEOREM BufferHandedOff ==
  ASSUME MaxReruns = 0
  PROVE  Spec /\ []SingleTransfer => HandOff
  <1>1. IInv /\ OneTransfer /\ SingleTransfer' /\ [Next]_vars
          => [Buffer!Next]_bufferVars
    BY StepBuffer
  <1>2. IInv /\ OneTransfer /\ SingleTransfer' /\ [Next]_vars => OneTransfer'
    BY StepOneTransfer
  <1> QED
    BY <1>1, <1>2, InitOneTransfer, InitBuffer, Invariant, PTL
       DEF Spec, HandOff, Buffer!Spec, bufferVars
=============================================================================
