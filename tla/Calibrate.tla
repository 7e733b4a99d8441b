----------------------------- MODULE Calibrate -----------------------------
(***************************************************************************)
(* sequencer.c: run_mem_calibrate, the calibration of the DDR3 memory, one *)
(* DQS group after the other and the latency at the end, for the hard PHY  *)
(* of this board: one rank, a read group to a write group, and an error in *)
(* any group ends it.                                                      *)
(*                                                                         *)
(* A group is read at settings found by trial: delays for its outputs      *)
(* (d), for each of them delays for DQS in (dqs_in_dtaps), for each of     *)
(* them the gate (module DqsEnable), and if it opens the deskew (module    *)
(* Deskew).  What a failed trial leaves in the registers is where the next *)
(* one begins.                                                             *)
(***************************************************************************)
EXTENDS Deskew, Sequences

CONSTANTS
  IF_DQS_WIDTH,      \* groups
  IO_DQS_IN_RESERVE, IO_DQS_OUT_RESERVE,
  DtapsPerPtap,      \* the last delay tried for the outputs
  MaxLatency,        \* read latency begun with
  Boards,            \* the windows a group may have
  Latencies          \* read latencies the settings found may need

Groups == 0 .. IF_DQS_WIDTH - 1

(***************************************************************************)
(* read, write: the windows of the bits.  out: delays of the outputs at    *)
(* which the patterns are written right, whatever the deskew.              *)
(***************************************************************************)
ASSUME CalibrateAssumption ==
  /\ IF_DQS_WIDTH \in Nat \ {0}
  /\ IO_DQS_IN_RESERVE \in Taps /\ IO_DQS_OUT_RESERVE \in Taps
  /\ DtapsPerPtap \in Taps
  /\ MaxLatency \in Nat \ {0} /\ Latencies \subseteq Nat
  /\ Boards \subseteq [read : Windows, write : Windows, out : SUBSET Taps]

VARIABLES
  board, latency,                 \* the board's
  step, g, d, dqs_in_dtaps,       \* where the program is
  orig_start_dqs, failed_substage,
  edges, swept,                   \* what the sweeps of a deskew have found
  dqs_in, dq_in, dqs_out, dq_out, curr_read_lat,    \* registers
  stage,                          \* the register file's current stage
  error,                          \* the failure to report
  pass, mux_sel, tracking, status

loop == <<g, d, dqs_in_dtaps, orig_start_dqs, failed_substage>>
found == <<edges, swept>>
reads == <<dqs_in, dq_in>>
writes == <<dqs_out, dq_out>>
report == <<stage, error>>
hand == <<mux_sel, tracking, status>>
vars == <<board, latency, step, loop, found, reads, writes, curr_read_lat,
          report, pass, hand>>

NIL == <<>>

\* set_failing_group_stage: the first failure stays.
SetFailing(group, st, substage) ==
  error' = IF error = NIL THEN <<st, substage, group>> ELSE error

Zeros == [b \in Bits |-> 0]

NoEdges == [b \in Bits |-> [left |-> none, right |-> none]]

\* The group's first bit without a window, counted over all groups.
BitOf == g * DQ_PER_DQS + Min(Edgeless(edges))

\* Bits may be marginal at the edges of their windows, and fail in a sweep.
Marginal(windows, near) ==
  [b \in Bits |-> IF b \in near
                  THEN [lo |-> windows[b].lo + 1, hi |-> windows[b].hi - 1]
                  ELSE windows[b]]

-----------------------------------------------------------------------------
(***************************************************************************)
(* run_mem_calibrate takes the memory from the controller, stops the       *)
(* tracking and sets every delay back.                                     *)
(***************************************************************************)
BeginGroup(group) ==
  /\ g' = group
  /\ d' = 0
  /\ dq_in' = [dq_in EXCEPT ![group] = Zeros]
  /\ dqs_out' = [dqs_out EXCEPT ![group] = IO_DQS_OUT_RESERVE]
  /\ dq_out' = [dq_out EXCEPT ![group] = Zeros]
  /\ failed_substage' = "guaranteed_read"
  /\ stage' = "vfifo"
  /\ step' = "guaranteed"
  /\ UNCHANGED <<dqs_in_dtaps, orig_start_dqs>>

Start ==
  /\ step = "start"
  /\ status' = "reset" /\ mux_sel' = "sequencer" /\ tracking' = "stopped"
  /\ error' = NIL
  /\ dqs_in' = [group \in Groups |-> IO_DQS_IN_RESERVE]
  /\ curr_read_lat' = MaxLatency
  /\ BeginGroup(0)
  /\ UNCHANGED <<board, latency, found, pass>>

-----------------------------------------------------------------------------
(***************************************************************************)
(* rw_mgr_mem_calibrate_vfifo.  First the patterns are written and read    *)
(* back with a strobe that needs no gate.                                  *)
(***************************************************************************)
GuaranteedRead ==
  /\ step = "guaranteed"
  /\ dqs_out[g] \in board[g].out
  /\ orig_start_dqs' = dqs_in[g]
  /\ dqs_in_dtaps' = dqs_in[g]
  /\ step' = "gate"
  /\ UNCHANGED <<board, latency, found, g, d, failed_substage, reads, writes,
                 curr_read_lat, report, pass, hand>>

GuaranteedReadFails ==
  /\ step = "guaranteed"
  /\ dqs_out[g] \notin board[g].out
  /\ step' = "next_delay"
  /\ UNCHANGED <<board, latency, found, loop, reads, writes, curr_read_lat,
                 report, pass, hand>>

\* For the gate the bits are delayed by different taps, so that one passes.
Spread(b) ==
  IF DQ_PER_DQS = 1 THEN 0 ELSE b * (DELAY_MAX \div (DQ_PER_DQS - 1))

OneBitPasses ==
  \E b \in Bits : Passes(board[g].read, b, dqs_in_dtaps - Spread(b))

\* Before the deskew DQS gets the delay back it had before the trials.
GateFound ==
  /\ step = "gate"
  /\ OneBitPasses
  /\ dq_in' = [dq_in EXCEPT ![g] = Zeros]
  /\ dqs_in' = [dqs_in EXCEPT ![g] = orig_start_dqs]
  /\ step' = "centre"
  /\ UNCHANGED <<board, latency, found, loop, writes, curr_read_lat, report,
                 pass, hand>>

\* The search may fail for reasons of its own.
GateNotFound ==
  /\ step = "gate"
  /\ dq_in' = [dq_in EXCEPT ![g] = Zeros]
  /\ failed_substage' = "dqs_en_phase"
  /\ step' = "next_tap"
  /\ UNCHANGED <<board, latency, found, g, d, dqs_in_dtaps, orig_start_dqs,
                 dqs_in, writes, curr_read_lat, report, pass, hand>>

(***************************************************************************)
(* The two sweeps of a deskew, of reads or of writes, from the delay the   *)
(* strobe has: first the bits are delayed, then the strobe.                *)
(***************************************************************************)
Windowed == IF step = "writes" THEN board[g].write ELSE board[g].read

Strobe == IF step = "writes" THEN dqs_out[g] ELSE dqs_in[g]

SweepLeft ==
  /\ step \in {"centre", "writes", "end"} /\ swept = 0
  /\ \E near \in SUBSET Bits :
       edges' = AfterLeft(Marginal(Windowed, near), Strobe)
  /\ swept' = 1
  /\ UNCHANGED <<board, latency, step, loop, reads, writes, curr_read_lat,
                 report, pass, hand>>

SweepRight ==
  /\ swept = 1
  /\ \E near \in SUBSET Bits :
       edges' = AfterRight(Marginal(Windowed, near), Strobe, edges,
                           step # "writes")
  /\ swept' = 2
  /\ UNCHANGED <<board, latency, step, loop, reads, writes, curr_read_lat,
                 report, pass, hand>>

Swept(at) == step = at /\ swept = 2

Forget == edges' = NoEdges /\ swept' = 0

SetReads ==
  /\ dqs_in' = [dqs_in EXCEPT ![g] = NewDqs(edges, @, TRUE)]
  /\ dq_in' = [dq_in EXCEPT ![g] =
                 [b \in Bits |-> NewDq(edges, dqs_in[g], TRUE, b)]]

\* The outputs get their delays back if they were moved.
Centre ==
  /\ Swept("centre")
  /\ Edgeless(edges) = {} /\ Margins(edges, dqs_in[g], TRUE)
  /\ SetReads
  /\ dqs_out' = [dqs_out EXCEPT ![g] =
                   IF d > 0 THEN IO_DQS_OUT_RESERVE ELSE @]
  /\ stage' = "writes"
  /\ step' = "writes"
  /\ Forget
  /\ UNCHANGED <<board, latency, loop, dq_out, curr_read_lat, error, pass,
                 hand>>

\* A bit without a window is reported, whatever the next trials find.
CentreNoWindow ==
  /\ Swept("centre")
  /\ Edgeless(edges) # {}
  /\ SetFailing(BitOf, "vfifo", "vfifo_center")
  /\ failed_substage' = "vfifo_center"
  /\ step' = "next_tap"
  /\ Forget
  /\ UNCHANGED <<board, latency, g, d, dqs_in_dtaps, orig_start_dqs, reads,
                 writes, curr_read_lat, stage, pass, hand>>

\* Mutant: the tap is not counted.
NextTapUncounted ==
  /\ step = "next_tap"
  /\ IF dqs_in_dtaps < DELAY_MAX
     THEN /\ dqs_in' = [dqs_in EXCEPT ![g] = dqs_in_dtaps + 1]
          /\ step' = "gate"
     ELSE step' = "next_delay" /\ UNCHANGED dqs_in
  /\ UNCHANGED <<board, latency, found, g, d, dqs_in_dtaps, orig_start_dqs,
                 failed_substage, dq_in, writes, curr_read_lat, report, pass,
                 hand>>

CentreNoMargin ==
  /\ Swept("centre")
  /\ Edgeless(edges) = {} /\ ~Margins(edges, dqs_in[g], TRUE)
  /\ SetReads
  /\ failed_substage' = "vfifo_center"
  /\ step' = "next_tap"
  /\ Forget
  /\ UNCHANGED <<board, latency, g, d, dqs_in_dtaps, orig_start_dqs, writes,
                 curr_read_lat, report, pass, hand>>

NextTap ==
  /\ step = "next_tap"
  /\ IF dqs_in_dtaps < DELAY_MAX
     THEN /\ dqs_in_dtaps' = dqs_in_dtaps + 1
          /\ dqs_in' = [dqs_in EXCEPT ![g] = dqs_in_dtaps + 1]
          /\ step' = "gate"
     ELSE /\ step' = "next_delay"
          /\ UNCHANGED <<dqs_in_dtaps, dqs_in>>
  /\ UNCHANGED <<board, latency, found, g, d, orig_start_dqs, failed_substage,
                 dq_in, writes, curr_read_lat, report, pass, hand>>

(***************************************************************************)
(* The next delay of the outputs.  OUT2 has no taps on this device, so     *)
(* that the delay is not added: it replaces that of DQS in OUT1.           *)
(***************************************************************************)
NextDelay ==
  /\ step = "next_delay"
  /\ d + 2 <= DtapsPerPtap
  /\ d' = d + 2
  /\ dqs_out' = [dqs_out EXCEPT ![g] = d + 2]
  /\ step' = "guaranteed"
  /\ UNCHANGED <<board, latency, found, g, dqs_in_dtaps, orig_start_dqs,
                 failed_substage, reads, dq_out, curr_read_lat, report, pass,
                 hand>>

\* An error in any group ends the calibration.
Fail(group, substage) ==
  /\ SetFailing(group, stage, substage)
  /\ pass' = FALSE
  /\ step' = "hand_over"
  /\ Forget
  /\ UNCHANGED <<board, latency, loop, curr_read_lat, stage, hand>>

GiveUp ==
  /\ step = "next_delay"
  /\ d + 2 > DtapsPerPtap
  /\ Fail(g, failed_substage)
  /\ UNCHANGED <<reads, writes>>

-----------------------------------------------------------------------------
(***************************************************************************)
(* rw_mgr_mem_calibrate_writes: the same deskew on the outputs, with a     *)
(* strobe that stays where it is.  The mask bit is centred after it, and   *)
(* may be found to have no window.                                         *)
(***************************************************************************)
SetWrites ==
  /\ dqs_out' = [dqs_out EXCEPT ![g] = NewDqs(edges, @, FALSE)]
  /\ dq_out' = [dq_out EXCEPT ![g] =
                  [b \in Bits |-> NewDq(edges, dqs_out[g], FALSE, b)]]

CentreWrites ==
  /\ Swept("writes")
  /\ Edgeless(edges) = {} /\ Margins(edges, dqs_out[g], FALSE)
  /\ SetWrites
  /\ stage' = "vfifo_after_writes"
  /\ step' = "end"
  /\ Forget
  /\ UNCHANGED <<board, latency, loop, reads, curr_read_lat, error, pass,
                 hand>>

\* The strobe stays where the sweep has left it.
WritesNoWindow ==
  /\ Swept("writes")
  /\ Edgeless(edges) # {}
  /\ \E tap \in dqs_out[g] .. DELAY_MAX : dqs_out' = [dqs_out EXCEPT ![g] = tap]
  /\ Fail(BitOf, "writes_center")
  /\ UNCHANGED <<reads, dq_out>>

WritesNoMargin ==
  /\ Swept("writes")
  /\ Edgeless(edges) = {}
  /\ SetWrites
  /\ Fail(g, "writes_center")
  /\ UNCHANGED reads

(***************************************************************************)
(* rw_mgr_mem_calibrate_vfifo_end: the reads again, now of what is written.*)
(***************************************************************************)
CentreEnd ==
  /\ Swept("end")
  /\ Edgeless(edges) = {} /\ Margins(edges, dqs_in[g], TRUE)
  /\ SetReads
  /\ step' = "next_group"
  /\ Forget
  /\ UNCHANGED <<board, latency, loop, writes, curr_read_lat, report, pass,
                 hand>>

EndNoWindow ==
  /\ Swept("end")
  /\ Edgeless(edges) # {}
  /\ Fail(BitOf, "vfifo_center")
  /\ UNCHANGED <<reads, writes>>

EndNoMargin ==
  /\ Swept("end")
  /\ Edgeless(edges) = {} /\ ~Margins(edges, dqs_in[g], TRUE)
  /\ SetReads
  /\ Fail(g, "vfifo_center")
  /\ UNCHANGED writes

NextGroup ==
  /\ step = "next_group"
  /\ g + 1 \in Groups
  /\ BeginGroup(g + 1)
  /\ UNCHANGED <<board, latency, found, dqs_in, curr_read_lat, error, pass,
                 hand>>

-----------------------------------------------------------------------------
(***************************************************************************)
(* rw_mgr_mem_calibrate_lfifo: the smallest read latency at which all      *)
(* groups are read right, and one more.  What it has to be depends on the  *)
(* board and on the settings found.                                        *)
(***************************************************************************)
BeginLfifo ==
  /\ step = "next_group"
  /\ g + 1 \notin Groups
  /\ latency' \in Latencies
  /\ stage' = "lfifo"
  /\ step' = "lfifo"
  /\ UNCHANGED <<board, found, loop, reads, writes, curr_read_lat,
                 error, pass, hand>>

LfifoPasses ==
  /\ step = "lfifo"
  /\ curr_read_lat > 0 /\ curr_read_lat >= latency
  /\ curr_read_lat' = curr_read_lat - 1
  /\ UNCHANGED <<board, latency, found, step, loop, reads, writes, report,
                 pass, hand>>

\* It failed, or 0 was reached, which is not tried.
LfifoFound ==
  /\ step = "lfifo"
  /\ curr_read_lat = 0 \/ curr_read_lat < latency
  /\ curr_read_lat < MaxLatency
  /\ curr_read_lat' = curr_read_lat + 2
  /\ pass' = TRUE
  /\ step' = "hand_over"
  /\ UNCHANGED <<board, latency, found, loop, reads, writes, report, hand>>

\* Mutant: the latency is not reported.
LfifoFailsUnnamed ==
  /\ step = "lfifo"
  /\ curr_read_lat < latency
  /\ curr_read_lat = MaxLatency
  /\ step' = "hand_over"
  /\ UNCHANGED <<board, latency, loop, found, reads, writes, curr_read_lat,
                 report, pass, hand>>

\* The group is 0xff, all of them.
AllGroups == 255

LfifoFails ==
  /\ step = "lfifo"
  /\ curr_read_lat < latency
  /\ curr_read_lat = MaxLatency
  /\ Fail(AllGroups, "read_latency")
  /\ UNCHANGED <<reads, writes>>

-----------------------------------------------------------------------------
(***************************************************************************)
(* The end of run_mem_calibrate, whether it passed or not: the memory back *)
(* to the controller, then its configuration, then the outcome.            *)
(***************************************************************************)
HandOver ==
  /\ step = "hand_over"
  /\ mux_sel' = "controller"
  /\ step' = "restore"
  /\ UNCHANGED <<board, latency, found, loop, reads, writes, curr_read_lat,
                 report, pass, tracking, status>>

RestoreConfig ==
  /\ step = "restore"
  /\ tracking' = "as_configured"
  /\ step' = "report"
  /\ UNCHANGED <<board, latency, found, loop, reads, writes, curr_read_lat,
                 report, pass, mux_sel, status>>

Report ==
  /\ step = "report"
  /\ status' = IF pass THEN "success" ELSE "fail"
  /\ step' = "done"
  /\ UNCHANGED <<board, latency, found, loop, reads, writes, curr_read_lat,
                 report, pass, mux_sel, tracking>>

Init ==
  /\ board \in [Groups -> Boards]
  /\ latency = 0
  /\ step = "start"
  /\ g = 0 /\ d = 0 /\ dqs_in_dtaps = 0 /\ orig_start_dqs = 0
  /\ failed_substage = "guaranteed_read"
  /\ edges = NoEdges /\ swept = 0
  /\ dqs_in = [group \in Groups |-> 0]
  /\ dq_in = [group \in Groups |-> Zeros]
  /\ dqs_out = [group \in Groups |-> 0]
  /\ dq_out = [group \in Groups |-> Zeros]
  /\ curr_read_lat = MaxLatency
  /\ stage = "nil"
  /\ error = NIL
  /\ pass = FALSE
  /\ mux_sel = "controller" /\ tracking = "as_configured"
  /\ status = "reset"

CalibrateReads ==
  \/ GuaranteedRead \/ GuaranteedReadFails
  \/ GateFound \/ GateNotFound
  \/ SweepLeft \/ SweepRight
  \/ Centre \/ CentreNoWindow \/ CentreNoMargin
  \/ NextTap \/ NextDelay \/ GiveUp

CalibrateWrites ==
  CentreWrites \/ WritesNoWindow \/ WritesNoMargin

CalibrateEnd ==
  CentreEnd \/ EndNoWindow \/ EndNoMargin \/ NextGroup

CalibrateLfifo == BeginLfifo \/ LfifoPasses \/ LfifoFound \/ LfifoFails

Finish == HandOver \/ RestoreConfig \/ Report

Next ==
  Start \/ CalibrateReads \/ CalibrateWrites \/ CalibrateEnd
    \/ CalibrateLfifo \/ Finish

\* The processor runs it to its end.
Spec == Init /\ [][Next]_vars /\ WF_vars(Next)

-----------------------------------------------------------------------------
Steps == {"start", "guaranteed", "gate", "centre", "next_tap", "next_delay",
          "writes", "end", "next_group", "lfifo", "hand_over", "restore",
          "report", "done"}

Stages == {"nil", "vfifo", "writes", "vfifo_after_writes", "lfifo"}

Substages == {"guaranteed_read", "dqs_en_phase", "vfifo_center",
              "writes_center", "read_latency"}

\* What a failure may name: a group or one of all the bits, from 0 on.
Named == 0 .. IF_DQS_WIDTH * DQ_PER_DQS - 1

(***************************************************************************)
(* Only taps a delay chain has are ever set.                               *)
(***************************************************************************)
TypeOK ==
  /\ board \in [Groups -> Boards] /\ latency \in Nat
  /\ step \in Steps
  /\ g \in Groups /\ d \in 0 .. DtapsPerPtap
  /\ dqs_in_dtaps \in Taps /\ orig_start_dqs \in Taps
  /\ failed_substage \in Substages
  /\ edges \in [Bits -> [left : -none .. none, right : -none .. none]]
  /\ swept \in 0 .. 2
  /\ dqs_in \in [Groups -> Taps] /\ dq_in \in [Groups -> [Bits -> Taps]]
  /\ dqs_out \in [Groups -> Taps] /\ dq_out \in [Groups -> [Bits -> Taps]]
  /\ curr_read_lat \in 0 .. MaxLatency + 1
  /\ stage \in Stages
  /\ error = NIL \/ error \in Stages \X Substages \X (Named \cup {AllGroups})
  /\ pass \in BOOLEAN
  /\ mux_sel \in {"sequencer", "controller"}
  /\ tracking \in {"stopped", "as_configured"}
  /\ status \in {"reset", "success", "fail"}

\* A group is transferred right at the settings in the registers.
Right(windows, dqs, dq) == \A b \in Bits : Passes(windows, b, dqs - dq[b])

(***************************************************************************)
(* A calibration that succeeds leaves settings at which every bit of every *)
(* group is read and written right, and a latency with one to spare: what  *)
(* was tried on the way, and the trials that failed, have left nothing     *)
(* behind (5722-5979, 6065-6184, 7193-7464).                               *)
(***************************************************************************)
LeavesRight ==
  status = "success" =>
    /\ \A group \in Groups :
         /\ Right(board[group].read, dqs_in[group], dq_in[group])
         /\ Right(board[group].write, dqs_out[group], dq_out[group])
    /\ curr_read_lat > latency

\* A window the sweeps from start reach both edges of, two taps wide or more.
Covered(window, start) ==
  /\ start - DELAY_MAX <= window.lo /\ window.hi <= DELAY_MAX
  /\ window.hi - window.lo >= 2
  /\ window.lo # start

(***************************************************************************)
(* The middles of the windows, doubled: near enough to one another for the *)
(* taps of the bits, and one that the strobe can be brought to.            *)
(***************************************************************************)
Levelled(windows) ==
  LET Middle(b) == windows[b].lo + windows[b].hi
  IN  /\ \A a, b \in Bits : Middle(a) - Middle(b) <= 2 * DELAY_MAX - 2
      /\ \E b \in Bits : Middle(b) >= 0

(***************************************************************************)
(* The deskew of reads finds a setting where there is plenty: windows that *)
(* are in reach of the sweeps and of the taps are never given up, however  *)
(* marginal their edges are (5019-5420).  But a window that begins at the  *)
(* very tap the strobe starts from may be: its left edge is not set if the *)
(* bit fails in the left sweep and passes in the right one (5186-5204).    *)
(***************************************************************************)
WideIsCentred ==
  /\ swept = 2 /\ step # "writes"
  /\ \A b \in Bits : Covered(board[g].read[b], dqs_in[g])
  /\ Levelled(board[g].read)
  => Edgeless(edges) = {} /\ Margins(edges, dqs_in[g], TRUE)

(***************************************************************************)
(* What a calibration that ends in the stage it is in may give as the      *)
(* reason: the last trial of the group, its deskew (the group, or the bit  *)
(* without a window), or the latency of all.                               *)
(***************************************************************************)
BitsOf(group) == {group * DQ_PER_DQS + b : b \in Bits}

Ending ==
  CASE stage = "vfifo" -> {<<stage, failed_substage, g>>}
    [] stage = "writes" ->
         {<<stage, "writes_center", n>> : n \in {g} \cup BitsOf(g)}
    [] stage = "vfifo_after_writes" ->
         {<<stage, "vfifo_center", n>> : n \in {g} \cup BitsOf(g)}
    [] stage = "lfifo" -> {<<stage, "read_latency", AllGroups>>}
    [] OTHER -> {}

\* A trial of a deskew that found a bit without a window.
BitTrials(group) == {<<"vfifo", "vfifo_center", n>> : n \in BitsOf(group)}

(***************************************************************************)
(* A calibration that fails reports the stage and substage that ended it,  *)
(* for the group it was at, or else a bit that a trial of the same or of   *)
(* an earlier group found without a window, since the first failure stays  *)
(* recorded even if other trials make it good (591-611). The number        *)
(* reported is a group's, a bit's (5266, 7373) or 255 (6172), though the   *)
(* assertion at 593, which is compiled out, has it below the number of     *)
(* groups.                                                                 *)
(***************************************************************************)
FailureNamed ==
  status = "fail" =>
    error \in Ending \cup UNION {BitTrials(group) : group \in 0 .. g}

(***************************************************************************)
(* However the trials go, the calibration ends, with an outcome to read    *)
(* and with the memory back at the controller and the tracking as it was   *)
(* configured (9484-9600).                                                 *)
(***************************************************************************)
Completes ==
  <>[](status # "reset" /\ mux_sel = "controller"
         /\ tracking = "as_configured")
=============================================================================
