----------------------------- MODULE MCCapture -----------------------------
(***************************************************************************)
(* Capture for TLC: the third row of frames of three or four rows, rows of *)
(* an even and of an odd number of bytes.                                  *)
(***************************************************************************)
EXTENDS Capture

SmallFrames == {3, 4}
SmallRows == {3, 4}
=============================================================================
