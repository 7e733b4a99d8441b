---------------------------- MODULE MCCalibrate ----------------------------
(***************************************************************************)
(* Two groups of two bits, delay chains of five taps and two delays of the *)
(* outputs.  The boards, in order: read windows far left of the strobe;    *)
(* outputs that need the second delay; write windows right of the strobe,  *)
(* which stays where it is; read windows out of reach of each other;       *)
(* narrow windows.                                                         *)
(***************************************************************************)
EXTENDS Calibrate

W(lo, hi) == [lo |-> lo, hi |-> hi]

Both(v, w) == [b \in Bits |-> IF b = 0 THEN v ELSE w]

Good == Both(W(-1, 2), W(0, 3))

MCBoards ==
  {[read |-> Both(W(-4, -1), W(-3, -1)), write |-> Good, out |-> {1}],
   [read |-> Both(W(-1, 1), W(0, 3)), write |-> Good, out |-> {2}],
   [read |-> Both(W(1, 2), W(-1, 0)),
    write |-> Both(W(2, 4), W(0, 4)), out |-> {1, 2}],
   [read |-> Both(W(3, 4), W(-3, -2)), write |-> Good, out |-> {1}],
   [read |-> Both(W(2, 2), W(2, 3)),
    write |-> Both(W(1, 1), W(0, 3)), out |-> {1, 2}]}
=============================================================================
