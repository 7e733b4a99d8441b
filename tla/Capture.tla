------------------------------ MODULE Capture ------------------------------
(***************************************************************************)
(* ov7670_capture: from the pins of the camera to the stream of one row of *)
(* each frame.  The block has no handshake with the sensor and no ready    *)
(* from the stream: all it knows of a frame it has counted since vsync.    *)
(*                                                                         *)
(* One step is one edge of clk.  The registers take what the pins were     *)
(* before it, and the pins move: at most one change of pclk, everything    *)
(* else with its falling edge.  The program resets the sensor while the    *)
(* block runs (0x1280 twice in camera_config.txt), which may cut a row and *)
(* a frame anywhere; the board may reset the block.                        *)
(*                                                                         *)
(* A byte of the picture is its row and its place in the row.              *)
(***************************************************************************)
EXTENDS Integers, Sequences

CONSTANTS
  Wanted,       \* row_index of the row taken: 60
  FrameRows,    \* numbers of rows a frame may have
  RowBytes,     \* numbers of bytes a row may have
  MaxRestarts,  \* bound: times the sensor is reset
  MaxResets     \* bound: times the block is reset

ASSUME FrameAssumption ==
  /\ Wanted \in Nat
  /\ FrameRows \subseteq Nat /\ \A n \in FrameRows : n > Wanted
  /\ RowBytes \subseteq Nat \ {0}
  /\ MaxRestarts \in Nat /\ MaxResets \in Nat

VARIABLES
  pclk, vsync, href,   \* the pins
  row,                 \* rows begun since vsync or the restart
  clocked,             \* bytes of the row pclk has risen for
  restarts,
  state, last_pclk, row_index, last_byte_useful,   \* the registers
  camera_data, data_valid, sop, eop,
  resets,
  packet,   \* history: the bytes of the packet on the stream
  open,     \*   its end has not been sent
  taken,    \*   packets begun since vsync or the restart
  cut       \*   the sensor restarted since the block looked at vsync

pins == <<pclk, vsync, href, row, clocked>>
flags == <<data_valid, sop, eop>>
registers == <<state, last_pclk, row_index, last_byte_useful, camera_data,
               flags>>
history == <<packet, open, taken, cut>>
vars == <<pins, restarts, registers, resets, history>>

Bit == {0, 1}

States == {"RESET", "WAIT_FOR_VSYNC", "WAIT_FOR_HREF", "WAIT_FOR_ROW_END",
           "READ_ROW"}

Byte == [row : Nat, at : Nat]

Cleared == [row |-> 0, at |-> 0]

-----------------------------------------------------------------------------
(***************************************************************************)
(* The sensor.                                                             *)
(***************************************************************************)
din == [row |-> row, at |-> IF pclk = 1 THEN clocked - 1 ELSE clocked]

Hold == UNCHANGED <<pins, restarts>>

Rise ==
  /\ pclk = 0
  /\ pclk' = 1
  /\ clocked' = IF href = 1 THEN clocked + 1 ELSE clocked
  /\ UNCHANGED <<vsync, href, row, restarts>>

Fall ==
  /\ pclk = 1
  /\ pclk' = 0
  /\ UNCHANGED restarts

NextByte ==
  /\ Fall
  /\ href = 1
  /\ \E n \in RowBytes : clocked < n
  /\ UNCHANGED <<vsync, href, row, clocked>>

EndRow ==
  /\ Fall
  /\ href = 1
  /\ clocked \in RowBytes
  /\ href' = 0
  /\ UNCHANGED <<vsync, row, clocked>>

Blank ==
  /\ Fall
  /\ href = 0
  /\ UNCHANGED <<vsync, href, row, clocked>>

BeginRow ==
  /\ Fall
  /\ href = 0
  /\ vsync = 0
  /\ \E n \in FrameRows : row < n
  /\ href' = 1
  /\ row' = row + 1
  /\ clocked' = 0
  /\ UNCHANGED vsync

RaiseVsync ==
  /\ Fall
  /\ href = 0
  /\ vsync = 0
  /\ row \in FrameRows
  /\ vsync' = 1
  /\ row' = 0
  /\ UNCHANGED <<href, clocked>>

LowerVsync ==
  /\ Fall
  /\ vsync = 1
  /\ vsync' = 0
  /\ UNCHANGED <<href, row, clocked>>

\* Bound: MaxRestarts.  What was begun is not finished.
Restart ==
  /\ restarts < MaxRestarts
  /\ restarts' = restarts + 1
  /\ pclk' = 0
  /\ vsync' \in Bit
  /\ href' = 0
  /\ row' = 0
  /\ UNCHANGED clocked

Falling ==
  \/ NextByte \/ EndRow \/ Blank \/ BeginRow \/ RaiseVsync \/ LowerVsync

Sensor == Hold \/ Rise \/ Falling \/ Restart

-----------------------------------------------------------------------------
(***************************************************************************)
(* The block.                                                              *)
(***************************************************************************)
Quiet == data_valid = 0 /\ sop = 0 /\ eop = 0

\* Every register but the state: the constant init.
Initial ==
  /\ last_pclk' = 0
  /\ row_index' = 0
  /\ last_byte_useful' = 0
  /\ camera_data' = Cleared
  /\ data_valid' = 0
  /\ sop' = 0
  /\ eop' = 0

\* Mutant: the two assignments swapped.
LeaveResetSwapped ==
  /\ state = "RESET"
  /\ UNCHANGED state
  /\ Initial

LeaveReset ==
  /\ state = "RESET"
  /\ state' = "WAIT_FOR_VSYNC"
  /\ Initial

WaitForVsync ==
  /\ state = "WAIT_FOR_VSYNC"
  /\ data_valid' = 0
  /\ eop' = 0
  /\ state' = IF vsync = 1 THEN "WAIT_FOR_HREF" ELSE state
  /\ last_pclk' = IF vsync = 1 THEN pclk ELSE last_pclk
  /\ row_index' = IF vsync = 1 THEN 0 ELSE row_index
  /\ UNCHANGED <<last_byte_useful, camera_data, sop>>

Rising == last_pclk = 0 /\ pclk = 1

WaitForHref ==
  /\ state = "WAIT_FOR_HREF"
  /\ ~(Rising /\ href = 1)
  /\ data_valid' = 0
  /\ eop' = 0
  /\ last_pclk' = pclk
  /\ UNCHANGED <<state, row_index, last_byte_useful, camera_data, sop>>

\* The row wanted begins; its first byte opens the packet.
TakeRow ==
  /\ state = "WAIT_FOR_HREF"
  /\ Rising /\ href = 1
  /\ row_index = Wanted
  /\ camera_data' = din
  /\ last_byte_useful' = 0
  /\ data_valid' = 1
  /\ sop' = 1
  /\ eop' = 0
  /\ state' = "READ_ROW"
  /\ row_index' = row_index + 1
  /\ last_pclk' = pclk

PassRow ==
  /\ state = "WAIT_FOR_HREF"
  /\ Rising /\ href = 1
  /\ row_index # Wanted
  /\ data_valid' = 0
  /\ eop' = 0
  /\ state' = "WAIT_FOR_ROW_END"
  /\ row_index' = row_index + 1
  /\ last_pclk' = pclk
  /\ UNCHANGED <<last_byte_useful, camera_data, sop>>

\* Mutant: any rising edge ends the row.
WaitForRowEndAny ==
  /\ state = "WAIT_FOR_ROW_END"
  /\ data_valid' = 0
  /\ sop' = 0
  /\ state' = IF Rising THEN "WAIT_FOR_HREF" ELSE state
  /\ last_pclk' = pclk
  /\ UNCHANGED <<row_index, last_byte_useful, camera_data, eop>>

WaitForRowEnd ==
  /\ state = "WAIT_FOR_ROW_END"
  /\ data_valid' = 0
  /\ sop' = 0
  /\ state' = IF Rising /\ href = 0 THEN "WAIT_FOR_HREF" ELSE state
  /\ last_pclk' = pclk
  /\ UNCHANGED <<row_index, last_byte_useful, camera_data, eop>>

\* Mutant: the level of pclk, and not its edge.
ReadByteLevel ==
  /\ state = "READ_ROW"
  /\ href = 1
  /\ sop' = 0
  /\ camera_data' = IF pclk = 1 /\ last_byte_useful = 0 THEN din ELSE camera_data
  /\ data_valid' = IF pclk = 1 /\ last_byte_useful = 0 THEN 1 ELSE 0
  /\ last_byte_useful' = IF pclk = 1 THEN 1 - last_byte_useful ELSE last_byte_useful
  /\ last_pclk' = pclk
  /\ UNCHANGED <<state, row_index, eop>>

\* A row being read: every other byte is sent, from the second on.
ReadByte ==
  /\ state = "READ_ROW"
  /\ href = 1
  /\ sop' = 0
  /\ camera_data' = IF Rising /\ last_byte_useful = 0 THEN din ELSE camera_data
  /\ data_valid' = IF Rising /\ last_byte_useful = 0 THEN 1 ELSE 0
  /\ last_byte_useful' = IF Rising THEN 1 - last_byte_useful ELSE last_byte_useful
  /\ last_pclk' = pclk
  /\ UNCHANGED <<state, row_index, eop>>

\* Mutant: without waiting for the next frame.
EndPacketEarly ==
  /\ state = "READ_ROW"
  /\ href = 0
  /\ state' = "WAIT_FOR_HREF"
  /\ camera_data' = Cleared
  /\ data_valid' = 1
  /\ sop' = 0
  /\ eop' = 1
  /\ last_pclk' = pclk
  /\ row_index' = 0
  /\ UNCHANGED last_byte_useful

\* Mutant: the state is left as it is.
EndPacketStaying ==
  /\ state = "READ_ROW"
  /\ href = 0
  /\ camera_data' = Cleared
  /\ data_valid' = 1
  /\ sop' = 0
  /\ eop' = 1
  /\ last_pclk' = pclk
  /\ UNCHANGED <<state, row_index, last_byte_useful>>

\* The row has ended: a beat of its own closes the packet.
EndPacket ==
  /\ state = "READ_ROW"
  /\ href = 0
  /\ state' = "WAIT_FOR_VSYNC"
  /\ camera_data' = Cleared
  /\ data_valid' = 1
  /\ sop' = 0
  /\ eop' = 1
  /\ last_pclk' = pclk
  /\ UNCHANGED <<row_index, last_byte_useful>>

Comb ==
  /\ \/ LeaveReset \/ WaitForVsync \/ WaitForHref \/ TakeRow \/ PassRow
     \/ WaitForRowEnd \/ ReadByte \/ EndPacket
  /\ UNCHANGED resets

\* Bound: MaxResets.
Reset ==
  /\ resets < MaxResets
  /\ resets' = resets + 1
  /\ state' = "RESET"
  /\ Initial

\* What a listener on the stream and on vsync knows.
Observe ==
  /\ packet' = IF data_valid' = 0 \/ eop' = 1 THEN packet
               ELSE IF sop' = 1 THEN <<camera_data'>>
               ELSE Append(packet, camera_data')
  /\ open' = IF state' = "RESET" \/ (data_valid' = 1 /\ eop' = 1) THEN 0
             ELSE IF data_valid' = 1 /\ sop' = 1 THEN 1 ELSE open
  /\ taken' = IF (vsync' = 1 /\ vsync = 0) \/ restarts' # restarts THEN 0
              ELSE IF data_valid' = 1 /\ sop' = 1 THEN taken + 1 ELSE taken
  /\ cut' = IF restarts' # restarts THEN 1
            ELSE IF state = "WAIT_FOR_VSYNC" /\ vsync = 1 THEN 0 ELSE cut

Init ==
  /\ pclk = 0 /\ vsync = 0 /\ href = 0
  /\ row = 0 /\ clocked = 0
  /\ restarts = 0 /\ resets = 0
  /\ state = "RESET"
  /\ last_pclk = 0
  /\ row_index = 0
  /\ last_byte_useful = 0
  /\ camera_data = Cleared
  /\ Quiet
  /\ packet = <<>> /\ open = 0 /\ taken = 0 /\ cut = 0

Next == (Comb \/ Reset) /\ Sensor /\ Observe

(***************************************************************************)
(* The clock runs, the sensor scans: no pin is held for ever, and blanking *)
(* ends.                                                                   *)
(***************************************************************************)
Step(pin) == (Comb \/ Reset) /\ pin /\ Observe

Fairness ==
  /\ WF_vars(Step(Rise))
  /\ WF_vars(Step(Falling))
  /\ SF_vars(Step(BeginRow))
  /\ SF_vars(Step(RaiseVsync))
  /\ SF_vars(Step(LowerVsync))

Spec == Init /\ [][Next]_vars /\ Fairness

-----------------------------------------------------------------------------
TypeOK ==
  /\ pclk \in Bit /\ vsync \in Bit /\ href \in Bit
  /\ row \in Nat /\ clocked \in Nat
  /\ restarts \in 0 .. MaxRestarts /\ resets \in 0 .. MaxResets
  /\ state \in States
  /\ last_pclk \in Bit
  /\ row_index \in 0 .. Wanted + 1
  /\ last_byte_useful \in Bit
  /\ camera_data \in Byte
  /\ data_valid \in Bit /\ sop \in Bit /\ eop \in Bit
  /\ packet \in Seq(Byte)
  /\ open \in Bit /\ cut \in Bit /\ taken \in Nat

(***************************************************************************)
(* The packet is the row wanted of its frame: the block neither misses a   *)
(* row while it waits for the end of another nor counts one twice          *)
(* (ov7670_capture.vhd:97-122).  A frame the sensor cut short is excepted: *)
(* its rows are counted on into the next one.                              *)
(***************************************************************************)
RightRow == sop = 1 /\ cut = 0 => camera_data.row = Wanted + 1

(***************************************************************************)
(* When the end of a packet is sent, the packet is one row from its first  *)
(* byte to its end, even if the sensor cut the row there: its bytes are in *)
(* order, none is in it twice, and of two that follow one another on the   *)
(* pins at least one is in it (123-157). It is not every other byte, as    *)
(* 131 has it: the first and the second are both sent.                     *)
(***************************************************************************)
WholeRow ==
  eop = 1 =>
    LET last == Len(packet)
    IN  /\ \A k \in 1 .. last : packet[k].row = packet[1].row
        /\ packet[1].at = 0
        /\ \A k \in 1 .. last - 1 : packet[k + 1].at - packet[k].at \in {1, 2}
        /\ clocked - packet[last].at \in {1, 2}

(***************************************************************************)
(* A frame gives at most one packet, whatever is reset when: line path and *)
(* control loop take each packet for a new picture.                        *)
(***************************************************************************)
OncePerFrame == taken <= 1

(***************************************************************************)
(* On the stream every packet has a first beat, and its last one or a      *)
(* reset before the next: no beat lies outside of a packet.                *)
(***************************************************************************)
Framing ==
  [][data_valid' = 1 => (sop' = 1 <=> open = 0) /\ (eop' = 1 => open = 1)]_vars

(***************************************************************************)
(* While the camera scans, rows keep coming, after restarts and resets     *)
(* too.                                                                    *)
(***************************************************************************)
RowsKeepComing == []<>(data_valid = 1 /\ eop = 1)
=============================================================================
