--------------------------- MODULE MCMotorDriver ---------------------------
(***************************************************************************)
(* MotorDriver for TLC: a short period, four duty levels, and calls with   *)
(* a negative, a zero, a part, a full and an excessive duty cycle.         *)
(***************************************************************************)
EXTENDS MotorDriver

AnyPercent == {-50, 0, 70, 100, 150}
=============================================================================
