---------------------------- MODULE LineAnalyzer ----------------------------
(***************************************************************************)
(* AnalyzeLine (line_analyzer.c): one pass over a camera line that keeps   *)
(* the two last record differences as edges, and the decision which of     *)
(* them is the left and which the right line of the track.                 *)
(*                                                                         *)
(* One step is one turn of the loop, or the decision after it.  Positions  *)
(* are those of the code, from 0; a Pixel is a member of the sequence line.*)
(***************************************************************************)
EXTENDS Integers, Sequences

CONSTANTS
  Lines,            \* the lines the camera may deliver
  LineThreashold,   \* the configuration, with the names of its fields
  SampleOffset,
  StartOffset,
  EndOffset,
  PointDiff,
  LineHistEnabled

ASSUME AnalyzerAssumption ==
  /\ Lines \subseteq Seq(Nat)
  /\ LineThreashold \in Nat
  /\ SampleOffset \in Nat
  /\ StartOffset \in Nat
  /\ EndOffset \in Nat
  /\ PointDiff \in Nat
  /\ LineHistEnabled \in BOOLEAN

VARIABLES
  pc,             \* "scan" in the loop, "idle" between two calls
  line,           \* the line of the call
  i,              \* the loop's position
  edge_points,    \* the last two records: [old, new]
  last_edge_val,  \* the last record
  LastLinePos,    \* kept between calls
  features        \* the result: where each line is, NotVisible if it is not

callVars == <<line, i, edge_points, last_edge_val>>
vars == <<pc, line, i, edge_points, last_edge_val, LastLinePos, features>>

NoEdge == -1
NotVisible == -1

\* LastLinePos.
Left == 0
Right == 1
Neither == 3

NoFeatures == [left |-> NotVisible, right |-> NotVisible]

Abs(n) == IF n < 0 THEN -n ELSE n

Pixel(p) == line[p + 1]

Half == Len(line) \div 2

Limit == Len(line) - EndOffset - SampleOffset

Difference(p) == Abs(Pixel(p + SampleOffset) - Pixel(p))

Init ==
  /\ pc = "idle"
  /\ line = <<>>
  /\ i = StartOffset
  /\ edge_points = [old |-> NoEdge, new |-> NoEdge]
  /\ last_edge_val = 0
  /\ LastLinePos = Left
  /\ features = NoFeatures

-----------------------------------------------------------------------------
(***************************************************************************)
(* The loop.                                                               *)
(***************************************************************************)
AnalyzeLine ==
  /\ pc = "idle"
  /\ pc' = "scan"
  /\ line' \in Lines
  /\ i' = StartOffset
  /\ edge_points' = [old |-> NoEdge, new |-> NoEdge]
  /\ last_edge_val' = 0
  /\ features' = NoFeatures
  /\ UNCHANGED LastLinePos

InLoop == pc = "scan" /\ i < Limit

\* Mutant: the last of equal differences instead of the first.
IsEdgeLast ==
  Difference(i) >= last_edge_val /\ Difference(i) > LineThreashold

IsEdge == Difference(i) > last_edge_val /\ Difference(i) > LineThreashold

Advance == i' = i + 1 /\ UNCHANGED <<pc, line, LastLinePos, features>>

FoundEdge ==
  /\ InLoop
  /\ IsEdge
  /\ edge_points' = [old |-> edge_points.new, new |-> i]
  /\ last_edge_val' = Difference(i)
  /\ Advance

NoEdgeHere ==
  /\ InLoop
  /\ ~IsEdge
  /\ UNCHANGED <<edge_points, last_edge_val>>
  /\ Advance

-----------------------------------------------------------------------------
(***************************************************************************)
(* The decision.                                                           *)
(***************************************************************************)
AtEnd == pc = "scan" /\ i >= Limit

AnyEdge == edge_points.new # NoEdge

\* Mutant: the distance is not looked at.
TwoEdgesAnywhere == edge_points.old # NoEdge

TwoEdges ==
  /\ edge_points.old # NoEdge
  /\ Abs(edge_points.old - edge_points.new) > PointDiff

Return(position, f) ==
  /\ pc' = "idle"
  /\ LastLinePos' = position
  /\ features' = f
  /\ UNCHANGED callVars

SeeNothing ==
  /\ AtEnd
  /\ ~AnyEdge
  /\ Return(Neither, NoFeatures)

SeeBoth ==
  /\ AtEnd
  /\ AnyEdge
  /\ TwoEdges
  /\ Return(Neither,
            IF edge_points.old > Half
            THEN [left |-> edge_points.old, right |-> edge_points.new]
            ELSE [left |-> edge_points.new, right |-> edge_points.old])

\* Mutant: a line in the right half is the right one whatever came before.
IsRightByHalf == edge_points.new > Half

IsRight ==
  IF LineHistEnabled
  THEN LastLinePos = Right \/ (LastLinePos = Neither /\ edge_points.new > Half)
  ELSE edge_points.new > Half

SeeRight ==
  /\ AtEnd
  /\ AnyEdge /\ ~TwoEdges
  /\ IsRight
  /\ Return(Right, [NoFeatures EXCEPT !.right = edge_points.new])

SeeLeft ==
  /\ AtEnd
  /\ AnyEdge /\ ~TwoEdges
  /\ ~IsRight
  /\ Return(Left, [NoFeatures EXCEPT !.left = edge_points.new])

Scan == FoundEdge \/ NoEdgeHere

Decide == SeeNothing \/ SeeBoth \/ SeeRight \/ SeeLeft

Next == AnalyzeLine \/ Scan \/ Decide

Spec == Init /\ [][Next]_vars

-----------------------------------------------------------------------------
Positions == {NoEdge} \cup Nat

TypeOK ==
  /\ pc \in {"idle", "scan"}
  /\ line \in Lines \cup {<<>>}
  /\ i \in Nat
  /\ edge_points \in [old : Positions, new : Positions]
  /\ last_edge_val \in Nat
  /\ LastLinePos \in {Left, Right, Neither}
  /\ features \in [left : Positions, right : Positions]

\* The positions of set S with an edge, and the first of the steepest there.
Edges(S) == {p \in S : Difference(p) > LineThreashold}

IsSteepest(p, S) ==
  /\ p \in Edges(S)
  /\ \A q \in Edges(S) : \/ Difference(q) < Difference(p)
                         \/ Difference(q) = Difference(p) /\ p <= q

Window == StartOffset .. Limit - 1

Shown == {features.left, features.right} \ {NotVisible}

Idle == pc = "idle" /\ line # <<>>

(***************************************************************************)
(* A line of the track is reported exactly when some difference in the     *)
(* window exceeds the threshold, and the steepest edge, the first of equal *)
(* ones, is always among what is reported.                                 *)
(***************************************************************************)
SteepestFound ==
  Idle => IF Edges(Window) = {} THEN Shown = {}
          ELSE \E p \in Shown : IsSteepest(p, Window)

(***************************************************************************)
(* A second line is reported only to the left of the steepest edge, more   *)
(* than PointDiff away from it, and is the steepest edge there: the two    *)
(* flanks of a line no wider than PointDiff are not taken for two lines.   *)
(* Nothing is said of which of the two is called the left line: with one   *)
(* in each half the code gives the left one out as the right               *)
(* (line_analyzer.c:84-95).                                                *)
(***************************************************************************)
SecondFound ==
  Idle /\ features.left # NotVisible /\ features.right # NotVisible =>
    \E p, q \in Shown :
      /\ IsSteepest(p, Window)
      /\ IsSteepest(q, {x \in Window : x < p})
      /\ p - q > PointDiff

(***************************************************************************)
(* With the history enabled a single line keeps its side from one camera   *)
(* line to the next, wherever in the picture it wanders.                   *)
(***************************************************************************)
SideKept ==
  [][LineHistEnabled /\ pc = "scan" /\ pc' = "idle"
       /\ LastLinePos # Neither /\ LastLinePos' # Neither
     => LastLinePos' = LastLinePos]_vars
=============================================================================
