------------------------------ MODULE MCSkynet ------------------------------
(***************************************************************************)
(* Skynet for TLC.  Among the speeds are one the register cannot hold and  *)
(* one that lets the motor stand.                                          *)
(***************************************************************************)
EXTENDS Skynet

SomeSpeeds == {-5, 0, 35}
TwoPositions == {4, 8}
=============================================================================
