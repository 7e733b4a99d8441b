----------------------------- MODULE MCDqsEnable -----------------------------
(***************************************************************************)
(* DqsEnable for TLC: windows that begin anywhere in two cycles, from      *)
(* narrower than a phase tap to nearly two thirds of a cycle.              *)
(***************************************************************************)
EXTENDS DqsEnable

EveryHalfTap == {13 * k : k \in 0 .. 383}
NarrowAndWide == {150, 420, 700, 1600}
=============================================================================
