-------------------------- MODULE MCCameraControl --------------------------
(***************************************************************************)
(* CameraControl for TLC: files with a register written twice in a row (as *)
(* COM7 is), with a value wider than a command, and malformed ones.        *)
(***************************************************************************)
EXTENDS CameraControl

Full(v) == [text |-> "full", value |-> v]
Bare(v) == [text |-> "bare", value |-> v]
Comment == [text |-> "other", value |-> 0]

GoodFiles == {<<>>, <<Full(1)>>, <<Full(1), Full(1), Full(2)>>, <<Full(2), Full(5), Full(3)>>}
BareFile == {<<Full(1), Bare(2), Full(3)>>}
AnyFiles == GoodFiles \cup BareFile \cup {<<Comment, Full(1)>>, <<Full(2), Comment>>, <<Bare(3)>>}
=============================================================================
