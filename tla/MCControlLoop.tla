--------------------------- MODULE MCControlLoop ---------------------------
(***************************************************************************)
(* ControlLoop for TLC.                                                    *)
(***************************************************************************)
EXTENDS ControlLoop

\* Small instances: a line of 6 pixels, the first and the last out of sight.
LineLength == 6
SmallErrors == 1 .. LineLength - 1

\* slow_and_steady.json on a line of 20 pixels instead of 173: an edge may be
\* anywhere from 10 to 147, which is from 1 to 17 here; the ends and a middle.
ShippedLeft == {1, 9, 17}
ShippedRight == {3, 11, 19}
=============================================================================
