------------------------------ MODULE DqsEnable ------------------------------
(***************************************************************************)
(* sequencer.c: rw_mgr_mem_calibrate_vfifo_find_dqs_en_phase, the search   *)
(* for when to open the DQS gate of a read group.  It is the variant that  *)
(* is compiled here: hard PHY, DQS tracking, phase tap 0 not used.         *)
(*                                                                         *)
(* When the gate opens is a setting of three parts: v cycles in the VFIFO, *)
(* p phase taps and dtap delay taps.  The VFIFO can only be pushed on, and *)
(* comes round after VFIFO_SIZE pushes.  A read at a setting passes when   *)
(* it lies in a window that belongs to the board, and whose edges jitter.  *)
(* One action is one read of the memory and what the code does about it    *)
(* before the next.                                                        *)
(***************************************************************************)
EXTENDS Integers

CONSTANTS
  Froms,    \* where the window may begin, in ps from VFIFO 0, taps 0
  Widths,   \* how wide it may be, in ps
  Jitter    \* how far inside its edges reads may still fail, in ps

ASSUME WindowAssumption ==
  Froms \subseteq Nat /\ Widths \subseteq Nat /\ Jitter \in Nat

VARIABLES
  window,          \* the board's
  search,          \* where the search is
  v, p, dtap,      \* the setting the next read is made at
  i,               \* VFIFO positions the loop has gone through
  fail_cnt,
  work_bgn, work_end,       \* the range found, in ps from the search's start
  initial_failing_dtap, dtaps_per_ptap

range == <<work_bgn, work_end>>
tracked == <<initial_failing_dtap, dtaps_per_ptap>>
gateVars == <<window, search, v, p, dtap, i, fail_cnt, range, tracked>>

\* sequencer_defines.h, of this board.
IO_DELAY_PER_OPA_TAP == 312
IO_DELAY_PER_DQS_EN_DCHAIN_TAP == 25
IO_DQS_EN_PHASE_MAX == 7
IO_DQS_EN_DELAY_MAX == 31
VFIFO_SIZE == 16

Cycle == (IO_DQS_EN_PHASE_MAX + 1) * IO_DELAY_PER_OPA_TAP

\* The delay taps in a phase tap, rounded down: what a ptap is taken to be
\* until it has been measured.
StaticTaps == IO_DELAY_PER_OPA_TAP \div IO_DELAY_PER_DQS_EN_DCHAIN_TAP

Delay(vfifo, ptap, taps) ==
  vfifo * Cycle + ptap * IO_DELAY_PER_OPA_TAP
    + taps * IO_DELAY_PER_DQS_EN_DCHAIN_TAP

-----------------------------------------------------------------------------
(***************************************************************************)
(* A read of the memory at the setting: PASS_ONE_BIT, so that one good bit *)
(* of the group is enough.                                                 *)
(***************************************************************************)
Into(from) == (Delay(v, p, dtap) - from) % (VFIFO_SIZE * Cycle)

ReadPasses == Into(window.from) < window.width

ReadFails ==
  \/ Into(window.from) < Jitter
  \/ Into(window.from) >= window.width - Jitter

\* rw_mgr_decr_vfifo goes all the way round.
Decremented(vfifo) == vfifo + VFIFO_SIZE - 1

SearchFails ==
  /\ search' = "failed"
  /\ UNCHANGED <<v, p, dtap, i, range, tracked>>

-----------------------------------------------------------------------------
(***************************************************************************)
(* Step 1: push the VFIFO until a second read has failed.                  *)
(***************************************************************************)
Push ==
  /\ v' = v + 1
  /\ search' = IF v' < VFIFO_SIZE THEN search ELSE "failed"
  /\ UNCHANGED <<window, p, dtap, i, range, tracked>>

PushPassing ==
  search = "push" /\ ReadPasses /\ Push /\ UNCHANGED fail_cnt

PushFirstFailing ==
  search = "push" /\ ReadFails /\ fail_cnt = 0 /\ Push /\ fail_cnt' = 1

PushSecondFailing ==
  /\ search = "push" /\ ReadFails /\ fail_cnt = 1
  /\ fail_cnt' = 2
  /\ search' = "first"
  /\ UNCHANGED <<window, v, p, dtap, i, range, tracked>>

-----------------------------------------------------------------------------
(***************************************************************************)
(* Step 2: the first setting that passes, in order of dtap, v, p.          *)
(***************************************************************************)
FirstFailing ==
  /\ search = "first" /\ ReadFails
  /\ UNCHANGED <<window, fail_cnt>>
  /\ \/ /\ p < IO_DQS_EN_PHASE_MAX
        /\ p' = p + 1
        /\ UNCHANGED <<search, v, dtap, i, range, tracked>>
     \/ /\ p = IO_DQS_EN_PHASE_MAX
        /\ i < VFIFO_SIZE - 1
        /\ p' = 1 /\ v' = v + 1 /\ i' = i + 1
        /\ UNCHANGED <<search, dtap, range, tracked>>
     \/ /\ p = IO_DQS_EN_PHASE_MAX /\ i = VFIFO_SIZE - 1
        /\ dtap < StaticTaps
        /\ p' = 1 /\ v' = v + 1 /\ i' = 0 /\ dtap' = dtap + 1
        /\ UNCHANGED <<search, range, tracked>>
     \/ /\ p = IO_DQS_EN_PHASE_MAX /\ i = VFIFO_SIZE - 1
        /\ dtap = StaticTaps
        /\ SearchFails

\* A phase further; phase 0 is never set, the VFIFO is pushed in its place.
PhaseOn(ptap, end) ==
  \/ /\ ptap <= IO_DQS_EN_PHASE_MAX
     /\ p' = ptap /\ v' = v
     /\ work_end' = end
  \/ /\ ptap > IO_DQS_EN_PHASE_MAX
     /\ p' = 1 /\ v' = v + 1
     /\ work_end' = end + IO_DELAY_PER_OPA_TAP

\* Step 4 begins after the phase that passed, with no delay.
GoForward(ptap, passed) ==
  /\ search' = "end"
  /\ PhaseOn(ptap, passed + IO_DELAY_PER_OPA_TAP)
  /\ dtap' = 0
  /\ UNCHANGED <<window, i, fail_cnt, tracked>>

\* A phase tap alone is enough: step 3 backs up one to find the begin.
FirstPassingPhase ==
  /\ search = "first" /\ ReadPasses
  /\ dtap = 0 /\ p > 1
  /\ work_bgn' = Delay(i, p, dtap) /\ work_end' = Delay(i, p, dtap)
  /\ search' = "begin"
  /\ p' = p - 1
  /\ UNCHANGED <<window, v, dtap, i, fail_cnt, tracked>>

\* Phase 0 is not backed up to; the code goes on from the phase after.
FirstPassingPhase1 ==
  /\ search = "first" /\ ReadPasses
  /\ dtap = 0 /\ p = 1
  /\ work_bgn' = Delay(i, p, dtap)
  /\ GoForward(3, Delay(i, p, dtap))

\* It took delay taps: the window is narrower than what phases alone reach.
FirstPassingDelay ==
  /\ search = "first" /\ ReadPasses
  /\ dtap > 0
  /\ work_bgn' = Delay(i, p, dtap) /\ work_end' = Delay(i, p, dtap)
  /\ search' = "last"
  /\ UNCHANGED <<window, v, p, dtap, i, fail_cnt, tracked>>

-----------------------------------------------------------------------------
(***************************************************************************)
(* Step 3a: delay taps from the failing phase up to the passing one.       *)
(***************************************************************************)
\* Mutant: the begin is left at the phase tap.
BeginPassingKept ==
  /\ search = "begin" /\ ReadPasses
  /\ UNCHANGED work_bgn
  /\ GoForward(p + 2, work_end)

BeginPassing ==
  /\ search = "begin" /\ ReadPasses
  /\ work_bgn' = work_bgn - IO_DELAY_PER_OPA_TAP
                   + dtap * IO_DELAY_PER_DQS_EN_DCHAIN_TAP
  /\ GoForward(p + 2, work_end)

BeginFailing ==
  /\ search = "begin" /\ ReadFails
  /\ dtap < StaticTaps
  /\ dtap' = dtap + 1
  /\ UNCHANGED <<window, search, v, p, i, fail_cnt, range, tracked>>

BeginIsPhase ==
  /\ search = "begin" /\ ReadFails
  /\ dtap = StaticTaps
  /\ UNCHANGED work_bgn
  /\ GoForward(p + 2, work_end)

-----------------------------------------------------------------------------
(***************************************************************************)
(* Step 4a: phases until one fails.  Step 5a: back to the last that        *)
(* passed, over phase 0.                                                   *)
(***************************************************************************)
EndPassing ==
  /\ search = "end" /\ ReadPasses
  /\ PhaseOn(p + 1, work_end + IO_DELAY_PER_OPA_TAP)
  /\ i' = IF p = IO_DQS_EN_PHASE_MAX THEN i + 1 ELSE i
  /\ search' = IF i' < VFIFO_SIZE + 1 THEN search ELSE "failed"
  /\ UNCHANGED <<window, dtap, work_bgn, fail_cnt, tracked>>

\* Mutant: the phase 0 passed over is left in the range.
EndFailingOnePhase ==
  /\ search = "end" /\ ReadFails
  /\ \/ p = 1 /\ p' = IO_DQS_EN_PHASE_MAX /\ v' = Decremented(v)
     \/ p > 1 /\ p' = p - 1 /\ v' = v
  /\ work_end' = work_end - IO_DELAY_PER_OPA_TAP
  /\ search' = "last"
  /\ UNCHANGED <<window, dtap, i, work_bgn, fail_cnt, tracked>>

EndFailing ==
  /\ search = "end" /\ ReadFails
  /\ \/ /\ p = 1
        /\ p' = IO_DQS_EN_PHASE_MAX /\ v' = Decremented(v)
        /\ work_end' = work_end - 2 * IO_DELAY_PER_OPA_TAP
     \/ /\ p > 1
        /\ p' = p - 1 /\ v' = v
        /\ work_end' = work_end - IO_DELAY_PER_OPA_TAP
  /\ search' = "last"
  /\ UNCHANGED <<window, dtap, i, work_bgn, fail_cnt, tracked>>

-----------------------------------------------------------------------------
(***************************************************************************)
(* Delay taps until a read fails: the end of the window.  Then, for the    *)
(* tracking, one phase tap back to find the same end with delay taps.      *)
(***************************************************************************)
BackUpPhase ==
  \/ p = 1 /\ p' = IO_DQS_EN_PHASE_MAX /\ v' = Decremented(v)
  \/ p > 1 /\ p' = p - 1 /\ v' = v

\* With the taps run out the end is where they did, and none are left to
\* measure with.
LastPassing ==
  /\ search = "last" /\ ReadPasses
  /\ IF dtap < IO_DQS_EN_DELAY_MAX
     THEN /\ dtap' = dtap + 1
          /\ work_end' = work_end + IO_DELAY_PER_DQS_EN_DCHAIN_TAP
          /\ UNCHANGED <<search, v, p>>
     ELSE BackUpPhase /\ search' = "measured" /\ UNCHANGED <<dtap, work_end>>
  /\ UNCHANGED <<window, i, work_bgn, fail_cnt, tracked>>

LastFailing ==
  /\ search = "last" /\ ReadFails
  /\ work_end' = IF dtap = 0 THEN work_end
                 ELSE work_end - IO_DELAY_PER_DQS_EN_DCHAIN_TAP
  /\ work_end' >= work_bgn
  /\ BackUpPhase
  /\ initial_failing_dtap' = dtap
  /\ search' = "track_pass"
  /\ UNCHANGED <<window, dtap, i, work_bgn, fail_cnt, dtaps_per_ptap>>

\* The begin passed once and not again.
NilRange ==
  /\ search = "last" /\ ReadFails
  /\ work_end' = IF dtap = 0 THEN work_end
                 ELSE work_end - IO_DELAY_PER_DQS_EN_DCHAIN_TAP
  /\ work_end' < work_bgn
  /\ search' = "failed"
  /\ UNCHANGED <<window, v, p, dtap, i, work_bgn, fail_cnt, tracked>>

\* A tap on, or out of taps: then the static number stands.
TapOn(next) ==
  /\ IF dtap < IO_DQS_EN_DELAY_MAX THEN dtap' = dtap + 1 /\ search' = next
     ELSE dtap' = dtap /\ search' = "measured"
  /\ UNCHANGED <<window, v, p, i, range, fail_cnt, tracked>>

TrackFailing == search = "track_pass" /\ ReadFails /\ TapOn("track_pass")

TrackPassing == search = "track_pass" /\ ReadPasses /\ TapOn("track_fail")

TrackStillPassing == search = "track_fail" /\ ReadPasses /\ TapOn("track_fail")

\* Mutant: measured from the passing phase's first tap.
TrackEndFromNone ==
  /\ search = "track_fail" /\ ReadFails
  /\ dtaps_per_ptap' = dtap
  /\ search' = "measured"
  /\ UNCHANGED <<window, v, p, dtap, i, range, fail_cnt, initial_failing_dtap>>

TrackEnd ==
  /\ search = "track_fail" /\ ReadFails
  /\ dtaps_per_ptap' = dtap - initial_failing_dtap
  /\ search' = "measured"
  /\ UNCHANGED <<window, v, p, dtap, i, range, fail_cnt, initial_failing_dtap>>

-----------------------------------------------------------------------------
(***************************************************************************)
(* Step 6: the middle of the range in taps, and the VFIFO pushed until     *)
(* reads pass there.                                                       *)
(***************************************************************************)
RoundedUp(delay, tap) == (delay + tap - 1) \div tap

\* Less whole cycles, and one rather than none: 1 .. Cycle.
WorkMid == ((((work_bgn + work_end) \div 2) - 1) % Cycle) + 1

\* The last phase below the middle.
MidPhase == RoundedUp(WorkMid, IO_DELAY_PER_OPA_TAP) - 1

\* Mutant: phase 0 is set like the others.
SetCentreAnyPhase ==
  /\ search = "measured"
  /\ p' = MidPhase
  /\ dtap' = RoundedUp(WorkMid - MidPhase * IO_DELAY_PER_OPA_TAP,
                    IO_DELAY_PER_DQS_EN_DCHAIN_TAP)
  /\ i' = 0
  /\ search' = "centre"
  /\ UNCHANGED <<window, v, range, fail_cnt, tracked>>

\* Mutant: the count of pushes goes on from the search for the end.
SetCentreCounting ==
  /\ search = "measured"
  /\ \/ /\ MidPhase = 0
        /\ p' = 1 /\ dtap' = 0
     \/ /\ MidPhase > 0
        /\ p' = MidPhase
        /\ dtap' = RoundedUp(WorkMid - MidPhase * IO_DELAY_PER_OPA_TAP,
                          IO_DELAY_PER_DQS_EN_DCHAIN_TAP)
  /\ search' = "centre"
  /\ UNCHANGED <<window, v, i, range, fail_cnt, tracked>>

SetCentre ==
  /\ search = "measured"
  /\ \/ /\ MidPhase = 0
        /\ p' = 1 /\ dtap' = 0
     \/ /\ MidPhase > 0
        /\ p' = MidPhase
        /\ dtap' = RoundedUp(WorkMid - MidPhase * IO_DELAY_PER_OPA_TAP,
                          IO_DELAY_PER_DQS_EN_DCHAIN_TAP)
  /\ i' = 0
  /\ search' = "centre"
  /\ UNCHANGED <<window, v, range, fail_cnt, tracked>>

CentreFailing ==
  /\ search = "centre" /\ ReadFails
  /\ v' = v + 1 /\ i' = i + 1
  /\ search' = IF i' < VFIFO_SIZE THEN search ELSE "failed"
  /\ UNCHANGED <<window, p, dtap, range, fail_cnt, tracked>>

CentrePassing ==
  /\ search = "centre" /\ ReadPasses
  /\ search' = "found"
  /\ UNCHANGED <<window, v, p, dtap, i, range, fail_cnt, tracked>>

GateInit ==
  /\ window \in [from : Froms, width : Widths]
  /\ search = "push"
  /\ v = 0 /\ p = 1 /\ dtap = 0
  /\ i = 0
  /\ fail_cnt = 0
  /\ work_bgn = 0 /\ work_end = 0
  /\ initial_failing_dtap = 0
  /\ dtaps_per_ptap = StaticTaps

PushVfifo == PushPassing \/ PushFirstFailing \/ PushSecondFailing

FindFirst ==
  FirstFailing \/ FirstPassingPhase \/ FirstPassingPhase1 \/ FirstPassingDelay

FindBegin == BeginPassing \/ BeginFailing \/ BeginIsPhase

FindEnd == EndPassing \/ EndFailing \/ LastPassing \/ LastFailing
             \/ NilRange

Track == TrackFailing \/ TrackPassing \/ TrackStillPassing \/ TrackEnd

FindCentre == SetCentre \/ CentreFailing \/ CentrePassing

GateNext ==
  PushVfifo \/ FindFirst \/ FindBegin \/ FindEnd \/ Track \/ FindCentre

\* The processor runs it to its end.
GateSpec == GateInit /\ [][GateNext]_gateVars /\ WF_gateVars(GateNext)

-----------------------------------------------------------------------------
SearchSteps ==
  {"push", "first", "begin", "end", "last", "track_pass", "track_fail",
   "measured", "centre", "found", "failed"}

(***************************************************************************)
(* Only settings the hardware has are ever written, phase 0 never, and no  *)
(* unsigned delay falls below zero.                                        *)
(***************************************************************************)
GateTypeOK ==
  /\ window \in [from : Froms, width : Widths]
  /\ search \in SearchSteps
  /\ p \in 1 .. IO_DQS_EN_PHASE_MAX
  /\ dtap \in 0 .. IO_DQS_EN_DELAY_MAX
  /\ v \in Nat /\ i \in 0 .. VFIFO_SIZE + 1 /\ fail_cnt \in 0 .. 2
  /\ work_bgn \in Nat /\ work_end \in Nat
  /\ initial_failing_dtap \in 0 .. IO_DQS_EN_DELAY_MAX
  /\ dtaps_per_ptap \in 0 .. IO_DQS_EN_DELAY_MAX

\* Wide enough to be found wherever it begins: phase 0 costs two phases.
Wide ==
  window.width >=
    2 * IO_DELAY_PER_OPA_TAP + 3 * IO_DELAY_PER_DQS_EN_DCHAIN_TAP

\* The first phase that passed was 1.
FromPhase1 == work_bgn % Cycle = IO_DELAY_PER_OPA_TAP

\* The setting step 1 stopped at, because it failed, passes in step 2: it is
\* on an edge, and if that is the end the search has begun in the window.
BegunInWindow == work_bgn = Delay(0, 1, 0)

BeginError == (work_bgn - window.from) % Cycle
EndError == (window.from + window.width - work_end) % Cycle
Slack == IO_DELAY_PER_DQS_EN_DCHAIN_TAP + Jitter

(***************************************************************************)
(* The range found is the window to a delay tap and the jitter, both ends  *)
(* inside it (sequencer.c:4129-4445).  A window whose first phase is 1 is  *)
(* the exception: its begin is not looked for below that phase, and its    *)
(* end comes out a phase tap low.                                          *)
(***************************************************************************)
RangeFound ==
  search = "measured" /\ Wide /\ ~BegunInWindow =>
    /\ FromPhase1 \/ BeginError < Slack
    /\ EndError <= Slack + IF FromPhase1 THEN IO_DELAY_PER_OPA_TAP ELSE 0

(***************************************************************************)
(* What is set is the middle of the window (4526-4581): to two delay taps, *)
(* or to a phase tap when the middle is in phase 0, which is not used, or  *)
(* when the range was a phase tap low.                                     *)
(***************************************************************************)
NearMiddle ==
  search = "found" /\ Wide /\ ~BegunInWindow =>
    LET off == Into(window.from) - window.width \div 2
    IN  IF FromPhase1 \/ MidPhase = 0
        THEN off \in -(IO_DELAY_PER_OPA_TAP + Slack)
                       .. IO_DELAY_PER_OPA_TAP + Slack
        ELSE off \in -2 * Slack .. 2 * Slack

\* Within one, for the jitter.
TapsOfAPhase == StaticTaps - 1 .. StaticTaps + 2

(***************************************************************************)
(* The number of delay taps in a phase tap, as the tracking is told it     *)
(* (4449-4515), is right.  Two cases are left out: backing up passed over  *)
(* phase 0 (the next phase is then the last one), and the first phase that *)
(* passed was 1, whose begin is not looked for.  What is reported there is *)
(* another number.                                                         *)
(***************************************************************************)
TapsTracked ==
  search = "measured" /\ Wide /\ ~FromPhase1 /\ p < IO_DQS_EN_PHASE_MAX =>
    dtaps_per_ptap \in TapsOfAPhase

(***************************************************************************)
(* A wide window is found, wherever it begins and however its edges        *)
(* jitter, unless the search has begun in it: none of the search's own     *)
(* limits gets in the way.                                                 *)
(***************************************************************************)
WideIsFound == Wide => <>(search = "found" \/ BegunInWindow)
=============================================================================
