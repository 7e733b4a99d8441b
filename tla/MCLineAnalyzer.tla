--------------------------- MODULE MCLineAnalyzer ---------------------------
(***************************************************************************)
(* LineAnalyzer for TLC: lines of 11 pixels on three levels with at most   *)
(* three steps at some columns, so that equal, growing and falling         *)
(* differences, and ones at the threshold, occur on both sides of the      *)
(* middle, next to each other and at both ends of the window, and lines    *)
(* too short for a window.                                                 *)
(***************************************************************************)
EXTENDS LineAnalyzer

Width == 11
Levels == {0, 2, 5}
Columns == {2, 3, 6, 7, 9, 10}

\* Level 0 up to column x, then a, b from behind y and c from behind z.
Stairs(x, y, z, a, b, c) ==
  [p \in 1 .. Width |-> IF p <= x THEN 0 ELSE IF p <= y THEN a ELSE IF p <= z THEN b ELSE c]

LongLines ==
  UNION {{Stairs(x, y, z, a, b, c) : a, b, c \in Levels} :
           <<x, y, z>> \in {t \in Columns \X Columns \X Columns : t[1] < t[2] /\ t[2] < t[3]}}

ShortLines == {<<3>>, <<0, 3>>, <<0, 3, 0>>}

SomeLines == LongLines \cup ShortLines
=============================================================================
