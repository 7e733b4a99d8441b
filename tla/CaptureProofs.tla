---------------------------- MODULE CaptureProofs ----------------------------
(***************************************************************************)
(* Proofs about Capture: whenever sensor and block are reset, for frames   *)
(* and rows of any length.  The block samples pclk and href and must not   *)
(* miss what lies between two samples: the invariant says what it may not  *)
(* have seen yet, which is one rising edge at most.                        *)
(***************************************************************************)
EXTENDS Capture, TLAPS

PinsInv ==
  /\ href = 1 => row >= 1
  /\ href = 1 /\ pclk = 1 => clocked >= 1
  /\ vsync = 1 => href = 0 /\ row = 0

FlagsInv ==
  /\ sop = 1 => state = "READ_ROW"
  /\ eop = 1 => state = "WAIT_FOR_VSYNC"
  /\ open = 1 <=> state = "READ_ROW"

\* A row that has begun while the block waits for one: its first edge is
\* still to be seen.
WaitInv ==
  state = "WAIT_FOR_HREF" /\ href = 1 =>
    \/ clocked = 0 /\ pclk = 0
    \/ clocked = 1 /\ pclk = 1 /\ last_pclk = 0

\* The first edge behind a row ends the wait for the end of it.
RowEndInv ==
  state = "WAIT_FOR_ROW_END" /\ href = 0 /\ pclk = 1 => last_pclk = 0

Counting == state \in {"WAIT_FOR_HREF", "WAIT_FOR_ROW_END"}

CountInv ==
  /\ Counting => row_index <= Wanted
  /\ state = "WAIT_FOR_HREF" /\ cut = 0 =>
       row = IF href = 1 THEN row_index + 1 ELSE row_index
  /\ state = "WAIT_FOR_ROW_END" /\ cut = 0 => row = row_index

TakenInv ==
  /\ Counting \/ vsync = 1 => taken = 0
  /\ taken <= 1

\* The bytes of the row the block has seen.
Seen == IF href = 1 /\ Rising THEN clocked - 1 ELSE clocked

IsRow(bytes, n) ==
  /\ Len(bytes) = 1 + n \div 2
  /\ \A k \in 1 .. Len(bytes) :
       /\ bytes[k].row = bytes[1].row
       /\ bytes[k].at = IF k = 1 THEN 0 ELSE 2 * k - 3

ReadInv ==
  state = "READ_ROW" =>
    /\ Seen >= 1
    /\ IsRow(packet, Seen)
    /\ last_byte_useful = 1 <=> Seen % 2 = 0
    /\ IF href = 1 THEN packet[1].row = row ELSE pclk = 0

IInv ==
  /\ TypeOK /\ PinsInv /\ FlagsInv /\ WaitInv /\ RowEndInv
  /\ CountInv /\ TakenInv /\ ReadInv
  /\ RightRow /\ WholeRow

-----------------------------------------------------------------------------
LEMMA InitInv == Init => IInv
  <1> SUFFICES ASSUME Init PROVE IInv
    OBVIOUS
  <1>1. Cleared \in Byte /\ packet \in Seq(Byte)
    BY DEF Init, Cleared, Byte
  <1>2. TypeOK
    BY <1>1, FrameAssumption DEF Init, TypeOK, Quiet, States, Bit
  <1> QED
    BY <1>2, FrameAssumption
    DEF Init, IInv, PinsInv, FlagsInv, WaitInv, RowEndInv, CountInv, Counting,
        TakenInv, ReadInv, RightRow, WholeRow, Quiet

LEMMA DinType ==
  ASSUME TypeOK, PinsInv, href = 1, pclk = 1
  PROVE  din = [row |-> row, at |-> clocked - 1] /\ din \in Byte
  BY DEF TypeOK, PinsInv, din, Byte

LEMMA SensorType ==
  ASSUME TypeOK, PinsInv, Sensor
  PROVE  /\ pclk' \in Bit /\ vsync' \in Bit /\ href' \in Bit
         /\ row' \in Nat /\ clocked' \in Nat
         /\ restarts' \in 0 .. MaxRestarts
         /\ PinsInv'
  <1> USE FrameAssumption DEF TypeOK, PinsInv, Bit
  <1>1. CASE Hold
    BY <1>1 DEF Hold, pins
  <1>2. CASE Rise
    BY <1>2 DEF Rise
  <1>3. CASE Falling
    BY <1>3 DEF Falling, Fall, NextByte, EndRow, Blank, BeginRow, RaiseVsync,
                LowerVsync
  <1>4. CASE Restart
    BY <1>4 DEF Restart
  <1> QED
    BY <1>1, <1>2, <1>3, <1>4 DEF Sensor

\* What every step of the block leaves in its registers.
LEMMA BlockType ==
  ASSUME IInv, Comb \/ Reset
  PROVE  /\ state' \in States /\ last_pclk' \in Bit
         /\ row_index' \in 0 .. Wanted + 1 /\ last_byte_useful' \in Bit
         /\ camera_data' \in Byte /\ data_valid' \in Bit
         /\ sop' \in Bit /\ eop' \in Bit /\ resets' \in 0 .. MaxResets
         /\ sop' = 1 => state' = "READ_ROW" /\ data_valid' = 1
         /\ eop' = 1 => state' = "WAIT_FOR_VSYNC" /\ data_valid' = 1
  <1>1. Cleared \in Byte
    BY DEF Cleared, Byte
  <1>2. href = 1 /\ pclk = 1 => din \in Byte
    BY DinType DEF IInv
  <1> USE FrameAssumption
      DEF IInv, TypeOK, PinsInv, FlagsInv, CountInv, Counting, Bit, States
  <1>3. CASE LeaveReset \/ Reset
    BY <1>1, <1>3 DEF LeaveReset, Initial, Reset, Comb
  <1>4. CASE WaitForVsync /\ UNCHANGED resets
    BY <1>4 DEF WaitForVsync
  <1>5. CASE (WaitForHref \/ PassRow \/ WaitForRowEnd) /\ UNCHANGED resets
    BY <1>5 DEF WaitForHref, PassRow, WaitForRowEnd
  <1>6. CASE TakeRow /\ UNCHANGED resets
    BY <1>2, <1>6 DEF TakeRow, Rising
  <1>7. CASE ReadByte /\ UNCHANGED resets
    BY <1>2, <1>7 DEF ReadByte, Rising
  <1>8. CASE EndPacket /\ UNCHANGED resets
    BY <1>1, <1>8 DEF EndPacket
  <1> QED
    BY <1>3, <1>4, <1>5, <1>6, <1>7, <1>8 DEF Comb

LEMMA TypeStep ==
  ASSUME IInv, Next
  PROVE  TypeOK' /\ PinsInv' /\ FlagsInv'
  <1>1. packet' \in Seq(Byte)
    <2>1. camera_data' \in Byte /\ packet \in Seq(Byte)
      BY BlockType DEF IInv, TypeOK, Next
    <2> QED
      BY <2>1 DEF Next, Observe
  <1>2. open' \in Bit /\ cut' \in Bit /\ taken' \in Nat
    BY DEF Next, Observe, IInv, TypeOK, Bit
  <1>3. TypeOK' /\ PinsInv'
    BY <1>1, <1>2, BlockType, SensorType DEF Next, IInv, TypeOK
  <1>4. open' = 1 <=> state' = "READ_ROW"
    <2> USE DEF IInv, FlagsInv, Next, Observe
    <2>1. CASE LeaveReset \/ Reset
      BY <2>1 DEF LeaveReset, Reset, Initial
    <2>2. CASE WaitForVsync \/ WaitForHref \/ PassRow \/ WaitForRowEnd
      BY <2>2 DEF WaitForVsync, WaitForHref, PassRow, WaitForRowEnd
    <2>3. CASE TakeRow \/ ReadByte \/ EndPacket
      BY <2>3 DEF TakeRow, ReadByte, EndPacket
    <2> QED
      BY <2>1, <2>2, <2>3 DEF Comb
  <1> QED
    BY <1>3, <1>4, BlockType DEF FlagsInv, Next

\* The block against the pins: what it has not seen is one edge at most.
LEMMA CountStep ==
  ASSUME IInv, Next
  PROVE  WaitInv' /\ RowEndInv' /\ CountInv' /\ TakenInv' /\ RightRow'
  <1> USE FrameAssumption
      DEF IInv, TypeOK, PinsInv, FlagsInv, WaitInv, RowEndInv, CountInv,
          Counting, TakenInv, RightRow, Next, Observe, Sensor, Falling, Fall,
          Hold, Rise, NextByte, EndRow, Blank, BeginRow, RaiseVsync, LowerVsync,
          Restart, pins, Bit
  <1>1. CASE LeaveReset \/ Reset
    BY <1>1 DEF LeaveReset, Reset, Initial
  <1>2. CASE WaitForVsync
    BY <1>2 DEF WaitForVsync
  <1>3. CASE WaitForHref
    BY <1>3 DEF WaitForHref, Rising
  <1>4. CASE TakeRow
    BY <1>4, DinType DEF TakeRow, Rising
  <1>5. CASE PassRow
    BY <1>5 DEF PassRow, Rising
  <1>6. CASE WaitForRowEnd
    BY <1>6 DEF WaitForRowEnd, Rising
  <1>7. CASE ReadByte
    BY <1>7 DEF ReadByte
  <1>8. CASE EndPacket
    BY <1>8 DEF EndPacket
  <1> QED
    BY <1>1, <1>2, <1>3, <1>4, <1>5, <1>6, <1>7, <1>8 DEF Comb

LEMMA HalfUp ==
  ASSUME NEW n \in Nat
  PROVE  /\ n % 2 = 1 => (n + 1) \div 2 = 1 + n \div 2 /\ n = 1 + 2 * (n \div 2)
         /\ n % 2 = 0 => (n + 1) \div 2 = n \div 2
         /\ (n + 1) % 2 = 1 - (n % 2)
         /\ n % 2 \in {0, 1}
  OBVIOUS

\* While a row lasts, the sensor moves as the block can see.
LEMMA SeenStep ==
  ASSUME IInv, Sensor, href = 1, last_pclk' = pclk
  PROVE  /\ Seen' = IF Rising THEN Seen + 1 ELSE Seen
         /\ Seen \in Nat
         /\ Rising => Seen = clocked - 1
         /\ IF href' = 1 THEN row' = row ELSE pclk' = 0
  BY DEF IInv, TypeOK, PinsInv, Sensor, Falling, Fall, Hold, Rise, NextByte,
         EndRow, Blank, BeginRow, RaiseVsync, LowerVsync, Restart, pins, Bit,
         Seen, Rising

\* One byte more, sent or not.
LEMMA LongerRow ==
  ASSUME NEW old \in Seq(Byte), NEW n \in Nat, n >= 1, IsRow(old, n),
         NEW new,
         new = IF n % 2 = 1
               THEN Append(old, [row |-> old[1].row, at |-> n])
               ELSE old
  PROVE  IsRow(new, n + 1) /\ new[1].row = old[1].row
  <1>1. Len(old) = 1 + n \div 2 /\ Len(old) \in Nat /\ n \div 2 \in Nat
    BY DEF IsRow
  <1>2. CASE n % 2 = 0
    BY <1>2, HalfUp DEF IsRow
  <1>3. CASE n % 2 = 1
    <2> DEFINE byte == [row |-> old[1].row, at |-> n]
    <2>1. new = Append(old, byte)
      BY <1>3
    <2>2. Len(new) = Len(old) + 1 /\ Len(new) = 1 + (n + 1) \div 2
      BY <1>1, <1>3, <2>1, HalfUp
    <2>3. ASSUME NEW k \in 1 .. Len(old)
          PROVE  new[k] = old[k]
      BY <2>1, <1>1
    <2>4. new[Len(old) + 1] = byte
      BY <2>1, <1>1
    <2>5. new[1].row = old[1].row
      BY <1>1, <2>3
    <2>6. ASSUME NEW k \in 1 .. Len(new)
          PROVE  /\ new[k].row = new[1].row
                 /\ new[k].at = IF k = 1 THEN 0 ELSE 2 * k - 3
      <3>1. CASE k \in 1 .. Len(old)
        BY <3>1, <2>3, <2>5 DEF IsRow
      <3>2. CASE k = Len(old) + 1
        <4>1. new[k].row = old[1].row /\ new[k].at = n
          BY <3>2, <2>4
        <4>2. k # 1 /\ 2 * k - 3 = n
          BY <3>2, <1>1, <1>3, HalfUp
        <4> QED
          BY <4>1, <4>2, <2>5
      <3> QED
        BY <3>1, <3>2, <2>2, <1>1
    <2> QED
      BY <2>2, <2>5, <2>6 DEF IsRow
  <1> QED
    BY <1>2, <1>3, HalfUp

\* Such a row is whole: no two bytes that follow one another are left out.
LEMMA RowIsWhole ==
  ASSUME NEW bytes \in Seq(Byte), NEW n \in Nat, n >= 1, IsRow(bytes, n)
  PROVE  /\ Len(bytes) \in Nat \ {0}
         /\ \A k \in 1 .. Len(bytes) : bytes[k].row = bytes[1].row
         /\ bytes[1].at = 0
         /\ \A k \in 1 .. Len(bytes) - 1 :
              bytes[k + 1].at - bytes[k].at \in {1, 2}
         /\ n - bytes[Len(bytes)].at \in {1, 2}
  <1>1. Len(bytes) = 1 + n \div 2 /\ n \div 2 \in Nat
    BY DEF IsRow
  <1>2. \A k \in 1 .. Len(bytes) :
          /\ bytes[k].row = bytes[1].row
          /\ bytes[k].at = IF k = 1 THEN 0 ELSE 2 * k - 3
    BY DEF IsRow
  <1>3. n = 2 * (n \div 2) \/ n = 2 * (n \div 2) + 1
    OBVIOUS
  <1>4. bytes[1].at = 0
    BY <1>1, <1>2
  <1>5. ASSUME NEW k \in 1 .. Len(bytes) - 1
        PROVE  bytes[k + 1].at - bytes[k].at \in {1, 2}
    <2>1. k \in 1 .. Len(bytes) /\ k + 1 \in 1 .. Len(bytes) /\ k + 1 # 1
      BY <1>1
    <2>2. bytes[k + 1].at = 2 * (k + 1) - 3
      BY <1>2, <2>1
    <2>3. bytes[k].at = IF k = 1 THEN 0 ELSE 2 * k - 3
      BY <1>2, <2>1
    <2> QED
      BY <2>2, <2>3
  <1>6. n - bytes[Len(bytes)].at \in {1, 2}
    <2>1. bytes[Len(bytes)].at
            = IF Len(bytes) = 1 THEN 0 ELSE 2 * Len(bytes) - 3
      BY <1>1, <1>2
    <2> QED
      BY <1>1, <1>3, <2>1
  <1> QED
    BY <1>1, <1>2, <1>4, <1>5, <1>6

LEMMA ReadStep ==
  ASSUME IInv, Next
  PROVE  ReadInv' /\ WholeRow'
  <1> USE DEF IInv, TypeOK, Bit
  <1>1. Observe /\ Sensor /\ (Comb \/ Reset)
    BY DEF Next
  <1>2. CASE LeaveReset \/ Reset \/ WaitForVsync \/ WaitForHref \/ PassRow
             \/ WaitForRowEnd
    <2>1. state' # "READ_ROW"
      BY <1>2 DEF LeaveReset, Reset, WaitForVsync, WaitForHref, PassRow,
                  WaitForRowEnd
    <2>2. eop' = 0
      BY <1>2 DEF LeaveReset, Reset, Initial, WaitForVsync, WaitForHref,
                  PassRow, WaitForRowEnd, FlagsInv
    <2> QED
      BY <2>1, <2>2 DEF ReadInv, WholeRow
  <1>3. CASE TakeRow
    <2>1. href = 1 /\ Rising /\ clocked = 1 /\ pclk = 1 /\ last_pclk' = pclk
      BY <1>3 DEF TakeRow, Rising, WaitInv
    <2>2. packet' = << [row |-> row, at |-> 0] >>
      BY <1>1, <1>3, <2>1, DinType DEF TakeRow, Observe
    <2>3. Seen' = 1 /\ IF href' = 1 THEN row' = row ELSE pclk' = 0
      BY <1>1, <2>1, SeenStep
    <2>4. IsRow(packet', Seen')
      BY <2>2, <2>3 DEF IsRow
    <2>5. last_byte_useful' = 0 /\ eop' = 0 /\ packet'[1].row = row
      BY <1>3, <2>2 DEF TakeRow
    <2> QED
      BY <2>3, <2>4, <2>5 DEF ReadInv, WholeRow
  <1>4. CASE ReadByte
    <2>1. state = "READ_ROW" /\ href = 1 /\ last_pclk' = pclk /\ state' = state
      BY <1>4 DEF ReadByte
    <2>2. eop' = 0 /\ sop' = 0
      BY <1>4 DEF ReadByte, FlagsInv
    <2>3. /\ Seen >= 1 /\ IsRow(packet, Seen) /\ packet[1].row = row
          /\ last_byte_useful = 1 <=> Seen % 2 = 0
      BY <2>1 DEF ReadInv
    <2>4. /\ Seen' = IF Rising THEN Seen + 1 ELSE Seen
          /\ Seen \in Nat
          /\ Rising => Seen = clocked - 1
          /\ IF href' = 1 THEN row' = row ELSE pclk' = 0
      BY <1>1, <2>1, SeenStep
    <2>5. CASE Rising
      <3>1. din = [row |-> packet[1].row, at |-> Seen]
        BY <2>1, <2>3, <2>4, <2>5, DinType DEF Rising
      <3>2. packet' = IF Seen % 2 = 1
                      THEN Append(packet, [row |-> packet[1].row, at |-> Seen])
                      ELSE packet
        <4>1. last_byte_useful = 0 <=> Seen % 2 = 1
          BY <2>3, <2>4, HalfUp
        <4>2. IF last_byte_useful = 0 THEN data_valid' = 1 /\ camera_data' = din
              ELSE data_valid' = 0
          BY <1>4, <2>5 DEF ReadByte
        <4> QED
          BY <1>1, <2>2, <3>1, <4>1, <4>2 DEF Observe
      <3>3. IsRow(packet', Seen + 1) /\ packet'[1].row = packet[1].row
        BY <2>3, <2>4, <3>2, LongerRow
      <3>4. last_byte_useful' = 1 <=> Seen' % 2 = 0
        BY <1>4, <2>3, <2>4, <2>5, HalfUp DEF ReadByte
      <3> QED
        BY <2>2, <2>3, <2>4, <2>5, <3>3, <3>4 DEF ReadInv, WholeRow
    <2>6. CASE ~Rising
      <3>1. packet' = packet /\ last_byte_useful' = last_byte_useful
        BY <1>1, <1>4, <2>2, <2>6 DEF ReadByte, Observe
      <3>2. IsRow(packet', Seen')
        BY <3>1, <2>3, <2>4, <2>6 DEF IsRow
      <3> QED
        BY <2>2, <2>3, <2>4, <2>6, <3>1, <3>2 DEF ReadInv, WholeRow
    <2> QED
      BY <2>5, <2>6
  <1>5. CASE EndPacket
    <2>1. /\ state = "READ_ROW" /\ href = 0 /\ pclk = 0 /\ Seen = clocked
          /\ IsRow(packet, clocked)
      BY <1>5 DEF EndPacket, ReadInv, Seen
    <2>2. clocked' = clocked
      BY <1>1, <2>1 DEF Sensor, Falling, Fall, Hold, Rise, NextByte, EndRow,
                        Blank, BeginRow, RaiseVsync, LowerVsync, Restart, pins
    <2>3. packet' = packet /\ state' = "WAIT_FOR_VSYNC"
      BY <1>1, <1>5 DEF EndPacket, Observe
    <2>4. clocked \in Nat /\ clocked >= 1 /\ packet \in Seq(Byte)
      BY <2>1 DEF ReadInv
    <2>5. WholeRow'
      BY <2>1, <2>2, <2>3, <2>4, RowIsWhole DEF WholeRow
    <2> QED
      BY <2>3, <2>5 DEF ReadInv
  <1> QED
    BY <1>1, <1>2, <1>3, <1>4, <1>5 DEF Comb

LEMMA StepInv == IInv /\ [Next]_vars => IInv'
  <1>1. IInv /\ Next => IInv'
    BY TypeStep, CountStep, ReadStep DEF IInv
  <1>2. IInv /\ UNCHANGED vars => IInv'
    BY DEF IInv, TypeOK, PinsInv, FlagsInv, WaitInv, RowEndInv, CountInv,
           Counting, TakenInv, ReadInv, RightRow, WholeRow, IsRow, Seen, Rising,
           vars, pins, registers, flags, history
  <1> QED
    BY <1>1, <1>2

THEOREM Invariance == Spec => []IInv
  BY InitInv, StepInv, PTL DEF Spec

(***************************************************************************)
(* Every reachable state has its type; row_index never exceeds the row     *)
(* wanted by more than one, so its ten bits never wrap                     *)
(* (ov7670_capture.vhd:42).                                                *)
(***************************************************************************)
THEOREM TypeCorrect == Spec => []TypeOK
  <1>1. IInv => TypeOK
    BY DEF IInv
  <1> QED
    BY <1>1, Invariance, PTL

(***************************************************************************)
(* Unless the sensor cut the frame, the packet is the row wanted of it.    *)
(***************************************************************************)
THEOREM TakesRightRow == Spec => []RightRow
  <1>1. IInv => RightRow
    BY DEF IInv
  <1> QED
    BY <1>1, Invariance, PTL

(***************************************************************************)
(* A packet whose end is sent is one row from its first byte to its end:   *)
(* no byte twice, and no two neighbours left out.                          *)
(***************************************************************************)
THEOREM SendsWholeRow == Spec => []WholeRow
  <1>1. IInv => WholeRow
    BY DEF IInv
  <1> QED
    BY <1>1, Invariance, PTL

(***************************************************************************)
(* A frame gives at most one packet.                                       *)
(***************************************************************************)
THEOREM OnePacket == Spec => []OncePerFrame
  <1>1. IInv => OncePerFrame
    BY DEF IInv, TakenInv, OncePerFrame
  <1> QED
    BY <1>1, Invariance, PTL

(***************************************************************************)
(* No beat lies outside of a packet, and no packet begins inside another.  *)
(***************************************************************************)
THEOREM FramesPackets == Spec => Framing
  <1>1. IInv /\ [Next]_vars =>
          [data_valid' = 1 =>
             (sop' = 1 <=> open = 0) /\ (eop' = 1 => open = 1)]_vars
    <2> SUFFICES ASSUME IInv, Next, data_valid' = 1
                 PROVE  (sop' = 1 <=> open = 0) /\ (eop' = 1 => open = 1)
      OBVIOUS
    <2> USE DEF IInv, FlagsInv, TypeOK, Bit
    <2>1. CASE LeaveReset \/ Reset \/ WaitForVsync \/ WaitForHref \/ PassRow
               \/ WaitForRowEnd
      BY <2>1 DEF LeaveReset, Reset, Initial, WaitForVsync, WaitForHref,
                  PassRow, WaitForRowEnd
    <2>2. CASE TakeRow
      BY <2>2 DEF TakeRow
    <2>3. CASE ReadByte
      BY <2>3 DEF ReadByte
    <2>4. CASE EndPacket
      BY <2>4 DEF EndPacket
    <2> QED
      BY <2>1, <2>2, <2>3, <2>4 DEF Next, Comb
  <1> QED
    BY <1>1, Invariance, PTL DEF Spec, Framing
=============================================================================
