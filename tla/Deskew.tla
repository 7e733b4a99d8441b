------------------------------- MODULE Deskew -------------------------------
(***************************************************************************)
(* sequencer.c: the per-bit deskew of a DQS group, as rw_mgr_mem_calibrate_*)
(* vfifo_center does it to reads and rw_mgr_mem_calibrate_writes_center to *)
(* writes.  Every bit is sampled by one strobe: bit b is transferred right *)
(* if the strobe, dqs - dq[b] taps late, is in a window of the bit's own.  *)
(* Two sweeps of transfers find the edges of the windows, the left one     *)
(* with delays on the bits and the right one with delays on the strobe.    *)
(* Then the bits are delayed, and for reads the strobe, so that it comes   *)
(* in the middle of all.                                                   *)
(*                                                                         *)
(* Edges are counted in taps from `start', where the strobe began.         *)
(***************************************************************************)
EXTENDS Integers, FiniteSetsExt

CONSTANTS
  DQ_PER_DQS,   \* bits of a group
  DELAY_MAX     \* taps of a delay chain, of a bit or of the strobe

ASSUME DeskewAssumption ==
  DQ_PER_DQS \in Nat \ {0} /\ DELAY_MAX \in Nat \ {0}

Bits == 0 .. DQ_PER_DQS - 1
Taps == 0 .. DELAY_MAX

\* The code's illegal value of an edge.
none == DELAY_MAX + 1

\* The taps a bit may be sampled at.
Windows == [Bits -> [lo : Int, hi : Int]]

Passes(windows, b, x) == windows[b].lo <= x /\ x <= windows[b].hi

-----------------------------------------------------------------------------
(***************************************************************************)
(* A sweep from x on in direction way, +1 or -1.  It stops when no bit     *)
(* passes and every bit has, or had been seen before.                      *)
(***************************************************************************)
StopsAt(windows, x, way, seen, d) ==
  \A b \in Bits :
    /\ ~Passes(windows, b, x + way * d)
    /\ b \in seen \/ \E e \in 0 .. d - 1 : Passes(windows, b, x + way * e)

PassingTaps(windows, x, way, seen, last, b) ==
  {d \in 0 .. last :
     /\ Passes(windows, b, x + way * d)
     /\ \A e \in 0 .. d - 1 : ~StopsAt(windows, x, way, seen, e)}

LeftTaps(windows, start, b) ==
  PassingTaps(windows, start, -1, {}, DELAY_MAX, b)

\* A bit that fails at first has its right edge before the taps that pass.
AfterLeft(windows, start) ==
  [b \in Bits |->
     LET taps == LeftTaps(windows, start, b)
     IN  IF taps = {} THEN [left |-> none, right |-> none]
         ELSE [left |-> Max(taps),
               right |-> IF 0 \in taps THEN none ELSE -Min(taps)]]

\* Reads go on until both edges of all bits have been seen, writes not.
Seen(edges, reading) ==
  {b \in Bits : edges[b].left # none /\ (reading => edges[b].right # none)}

RightTaps(windows, start, edges, reading, b) ==
  PassingTaps(windows, start, 1, Seen(edges, reading), DELAY_MAX - start, b)

\* Mutant: the left edge found by the right sweep is forgotten.
AfterRightOnly(windows, start, edges, reading) ==
  [b \in Bits |->
     LET taps == RightTaps(windows, start, edges, reading, b)
     IN  IF taps = {} THEN edges[b]
         ELSE [edges[b] EXCEPT !.right = Max(taps)]]

\* A bit that passed in the left sweep only is marginal: its right edge is -1.
AfterRight(windows, start, edges, reading) ==
  [b \in Bits |->
     LET taps == RightTaps(windows, start, edges, reading, b)
         seen == edges[b].left # none
     IN  IF taps = {}
         THEN [edges[b] EXCEPT !.right = IF seen /\ @ = none THEN -1 ELSE @]
         ELSE [left |-> IF seen \/ 0 \in taps THEN edges[b].left
                        ELSE -Min(taps),
               right |-> Max(taps)]]

-----------------------------------------------------------------------------
\* Division as in C, towards zero.
Half(n) == IF n >= 0 THEN n \div 2 ELSE -((-n) \div 2)

Clamp(n) == IF n < 0 THEN 0 ELSE IF n > DELAY_MAX THEN DELAY_MAX ELSE n

\* Bits without a window; the first of them is reported.
Edgeless(edges) ==
  {b \in Bits : edges[b].left = none \/ edges[b].right = none}

\* Twice how far the strobe is right of the middle of the bit's window.
Off(edges, b) == edges[b].left - edges[b].right

MinOff(edges) == Min({Off(edges, b) : b \in Bits})

\* How far the strobe has to go to the left, odd numbers to the right.
MidMin(edges) ==
  Half(IF MinOff(edges) > 0 THEN MinOff(edges) + 1 ELSE MinOff(edges))

\* Mutant: the strobe is not kept in its taps.
NewDqsUnclamped(edges, start, reading) == start - MidMin(edges)

(***************************************************************************)
(* Reads move the strobe (ENABLE_DQS_IN_CENTERING is 1), writes leave it   *)
(* where it is (ENABLE_DQS_OUT_CENTERING is 0).                            *)
(***************************************************************************)
NewDqs(edges, start, reading) ==
  IF reading THEN Clamp(start - MidMin(edges)) ELSE start

\* How far the strobe goes to the left.
Moves(edges, start, reading) == start - NewDqs(edges, start, reading)

\* What the strobe does not go, the bits go.
NewDq(edges, start, reading, b) ==
  Clamp(Half(Off(edges, b) - MinOff(edges))
          + MidMin(edges) - Moves(edges, start, reading))

\* Taps from the new setting to the bit's edges.
LeftMargin(edges, start, reading, b) ==
  edges[b].left - NewDq(edges, start, reading, b)
    - Moves(edges, start, reading)

RightMargin(edges, start, reading, b) ==
  edges[b].right + NewDq(edges, start, reading, b)
    + Moves(edges, start, reading)

\* Mutant: only the right edge is looked at.
MarginsRight(edges, start, reading) ==
  \A b \in Bits : RightMargin(edges, start, reading, b) >= 0

Margins(edges, start, reading) ==
  \A b \in Bits : /\ LeftMargin(edges, start, reading, b) >= 0
                  /\ RightMargin(edges, start, reading, b) >= 0
=============================================================================
