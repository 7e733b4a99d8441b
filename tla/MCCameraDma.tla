---------------------------- MODULE MCCameraDma ----------------------------
(***************************************************************************)
(* CameraDma for TLC.  RowLengths holds a row shorter than a transfer, one *)
(* of exactly a transfer, and one that leaves a beat behind it.            *)
(***************************************************************************)
EXTENDS CameraDma

ShortExactLong == {2, 3, 4}
ShortLong == {2, 4}
ExactLong == {2, 3}
=============================================================================
