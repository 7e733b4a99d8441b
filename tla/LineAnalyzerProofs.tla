------------------------- MODULE LineAnalyzerProofs -------------------------
(***************************************************************************)
(* Proofs about LineAnalyzer: whatever the configuration and the lines,    *)
(* the edges it reports are the steepest ones.  The invariant is that of   *)
(* the loop: the two records describe the positions scanned so far.        *)
(***************************************************************************)
EXTENDS LineAnalyzer, TLAPS

Scanned == StartOffset .. i - 1

\* The records, relative to a set of positions.
Records(S) ==
  IF edge_points.new = NoEdge
  THEN last_edge_val = 0 /\ edge_points.old = NoEdge /\ Edges(S) = {}
  ELSE /\ IsSteepest(edge_points.new, S)
       /\ last_edge_val = Difference(edge_points.new)
       /\ IF edge_points.old = NoEdge
          THEN Edges({x \in S : x < edge_points.new}) = {}
          ELSE IsSteepest(edge_points.old, {x \in S : x < edge_points.new})

ScanInv ==
  pc = "scan" => /\ i >= StartOffset
                 /\ i > StartOffset => i <= Limit
                 /\ Records(Scanned)

IInv == TypeOK /\ ScanInv /\ SteepestFound /\ SecondFound

-----------------------------------------------------------------------------
LEMMA LineType == ASSUME TypeOK PROVE line \in Seq(Nat)
  <1>1. <<>> \in Seq(Nat)
    OBVIOUS
  <1>2. line \in Lines \/ line = <<>>
    BY DEF TypeOK
  <1> QED
    BY <1>1, <1>2, AnalyzerAssumption

LEMMA LimitType == ASSUME TypeOK PROVE Limit \in Int /\ Limit <= Len(line)
  BY LineType, AnalyzerAssumption DEF Limit

\* A difference at a position below the limit is a number.
LEMMA DifferenceType ==
  ASSUME TypeOK, NEW p \in Nat, p < Limit
  PROVE  Difference(p) \in Nat
  <1>1. line \in Seq(Nat) /\ Len(line) \in Nat
    BY LineType
  <1>2. p + 1 \in 1 .. Len(line) /\ p + SampleOffset + 1 \in 1 .. Len(line)
    BY <1>1, AnalyzerAssumption DEF Limit
  <1>3. line[p + 1] \in Nat /\ line[p + SampleOffset + 1] \in Nat
    BY <1>1, <1>2
  <1> QED
    BY <1>3 DEF Difference, Pixel, Abs

\* A set with no edge at its last position has the edges of the rest.
LEMMA SkipPosition ==
  ASSUME TypeOK, i >= StartOffset, i < Limit, ~IsEdge, Records(Scanned)
  PROVE  Records(StartOffset .. i)
  <1>1. i \in Nat /\ StartOffset \in Nat /\ Limit \in Int
    BY AnalyzerAssumption, LimitType DEF TypeOK
  <1>2. \A p \in StartOffset .. i : Difference(p) \in Nat
    BY <1>1, DifferenceType
  <1>3. LineThreashold \in Nat /\ last_edge_val \in Nat
    BY AnalyzerAssumption DEF TypeOK
  <1>4. \A p \in StartOffset .. i : p \in Scanned \/ p = i
    BY <1>1 DEF Scanned
  <1>5. Scanned \subseteq StartOffset .. i /\ i \notin Scanned
    BY <1>1 DEF Scanned
  <1>6. CASE edge_points.new = NoEdge
    <2>1. Edges(StartOffset .. i) = {}
      BY <1>2, <1>3, <1>4, <1>6, <1>1 DEF Records, Edges, IsEdge
    <2> QED
      BY <2>1, <1>6 DEF Records
  <1>7. CASE edge_points.new # NoEdge
    <2> DEFINE new == edge_points.new
    <2>1. new \in Scanned /\ new \in Nat /\ new < i
      BY <1>1, <1>7 DEF Records, IsSteepest, Edges, Scanned
    <2>2. {x \in Scanned : x < new} = {x \in StartOffset .. i : x < new}
      <3>1. \A x : x \in Scanned /\ x < new <=> x \in StartOffset .. i /\ x < new
        BY <1>1, <2>1 DEF Scanned
      <3> QED
        BY <3>1
    <2>3. IsSteepest(new, StartOffset .. i)
      <3>1. IsSteepest(new, Scanned) /\ last_edge_val = Difference(new)
        BY <1>7 DEF Records
      <3>2. new \in Edges(StartOffset .. i)
        BY <3>1, <1>5 DEF IsSteepest, Edges
      <3>3. ASSUME NEW q \in Edges(StartOffset .. i)
            PROVE  \/ Difference(q) < Difference(new)
                   \/ Difference(q) = Difference(new) /\ new <= q
        <4>1. CASE q \in Scanned
          BY <3>1, <3>3, <4>1 DEF IsSteepest, Edges
        <4>2. CASE q = i
          <5>1. Difference(i) \in Nat /\ Difference(i) > LineThreashold
            BY <1>1, <1>2, <3>3, <4>2 DEF Edges
          <5>2. ~(Difference(i) > last_edge_val)
            BY <5>1 DEF IsEdge
          <5>3. Difference(i) <= Difference(new)
            BY <5>1, <5>2, <3>1, <1>3
          <5> QED
            BY <5>1, <5>3, <3>1, <1>1, <1>3, <2>1, <4>2
        <4> QED
          BY <1>4, <3>3, <4>1, <4>2 DEF Edges
      <3> QED
        BY <3>2, <3>3 DEF IsSteepest
    <2> QED
      BY <1>7, <2>2, <2>3 DEF Records
  <1> QED
    BY <1>6, <1>7

\* A record at the last position becomes the new edge, the former one the old.
LEMMA TakePosition ==
  ASSUME TypeOK, i >= StartOffset, i < Limit, IsEdge, Records(Scanned)
  PROVE  /\ IsSteepest(i, StartOffset .. i)
         /\ IF edge_points.new = NoEdge
            THEN Edges({x \in StartOffset .. i : x < i}) = {}
            ELSE IsSteepest(edge_points.new, {x \in StartOffset .. i : x < i})
  <1>1. i \in Nat /\ StartOffset \in Nat /\ Limit \in Int
    BY AnalyzerAssumption, LimitType DEF TypeOK
  <1>2. \A p \in StartOffset .. i : Difference(p) \in Nat
    BY <1>1, DifferenceType
  <1>3. LineThreashold \in Nat /\ last_edge_val \in Nat
    BY AnalyzerAssumption DEF TypeOK
  <1>4. \A p \in StartOffset .. i : p \in Scanned \/ p = i
    BY <1>1 DEF Scanned
  <1>5. {x \in StartOffset .. i : x < i} = Scanned
    BY <1>1 DEF Scanned
  <1>6. IsSteepest(i, StartOffset .. i)
    <2>1. i \in Edges(StartOffset .. i)
      BY <1>1 DEF Edges, IsEdge
    <2>2. ASSUME NEW q \in Edges(StartOffset .. i)
          PROVE  \/ Difference(q) < Difference(i)
                 \/ Difference(q) = Difference(i) /\ i <= q
      <3>1. CASE q = i
        BY <3>1, <1>1
      <3>2. CASE q \in Scanned
        <4>1. q \in Edges(Scanned)
          BY <2>2, <3>2 DEF Edges
        <4>2. edge_points.new # NoEdge
          BY <4>1 DEF Records
        <4>3. IsSteepest(edge_points.new, Scanned) /\ last_edge_val = Difference(edge_points.new)
          BY <4>2 DEF Records
        <4>4. Difference(q) < Difference(edge_points.new) \/ Difference(q) = Difference(edge_points.new)
          BY <4>1, <4>3 DEF IsSteepest
        <4>5. Difference(i) \in Nat /\ Difference(q) \in Nat
          BY <1>1, <1>2, <2>2 DEF Edges
        <4> QED
          BY <4>3, <4>4, <4>5, <1>3 DEF IsEdge
      <3> QED
        BY <1>4, <2>2, <3>1, <3>2 DEF Edges
    <2> QED
      BY <2>1, <2>2 DEF IsSteepest
  <1> QED
    BY <1>5, <1>6 DEF Records

-----------------------------------------------------------------------------
LEMMA TypeInit == Init => TypeOK
  BY AnalyzerAssumption
     DEF Init, TypeOK, NoEdge, NoFeatures, NotVisible, Left, Positions

LEMMA TypeStep == TypeOK /\ [Next]_vars => TypeOK'
  <1> SUFFICES ASSUME TypeOK, [Next]_vars PROVE TypeOK'
    OBVIOUS
  <1> USE DEF TypeOK, Positions
  <1>1. CASE AnalyzeLine
    BY <1>1, AnalyzerAssumption DEF AnalyzeLine, NoEdge, NoFeatures, NotVisible
  <1>2. CASE FoundEdge
    <2>1. Difference(i) \in Nat
      BY <1>2, DifferenceType DEF FoundEdge, InLoop
    <2> QED
      BY <1>2, <2>1 DEF FoundEdge, Advance
  <1>3. CASE NoEdgeHere
    BY <1>3 DEF NoEdgeHere, Advance
  <1>4. CASE Decide
    <2> DEFINE F == [left : Positions, right : Positions]
    <2>0. /\ edge_points.new \in Positions /\ edge_points.old \in Positions
          /\ NotVisible \in Positions
      BY DEF NotVisible, NoEdge
    <2>1. \E position \in {Left, Right, Neither}, f \in F : Return(position, f)
      <3>1. CASE SeeNothing
        BY <3>1, <2>0 DEF SeeNothing, NoFeatures
      <3>2. CASE SeeBoth
        <4> DEFINE f == IF edge_points.old > Half
                        THEN [left |-> edge_points.old, right |-> edge_points.new]
                        ELSE [left |-> edge_points.new, right |-> edge_points.old]
        <4>1. f \in F
          BY <2>0
        <4>2. Return(Neither, f)
          BY <3>2 DEF SeeBoth
        <4> QED
          BY <4>1, <4>2
      <3>3. CASE SeeRight
        <4>1. [NoFeatures EXCEPT !.right = edge_points.new] \in F
          BY <2>0 DEF NoFeatures
        <4> QED
          BY <3>3, <4>1 DEF SeeRight
      <3>4. CASE SeeLeft
        <4>1. [NoFeatures EXCEPT !.left = edge_points.new] \in F
          BY <2>0 DEF NoFeatures
        <4> QED
          BY <3>4, <4>1 DEF SeeLeft
      <3> QED
        BY <1>4, <3>1, <3>2, <3>3, <3>4 DEF Decide
    <2> QED
      BY <2>1 DEF Return, callVars
  <1>5. CASE UNCHANGED vars
    BY <1>5 DEF vars
  <1> QED
    BY <1>1, <1>2, <1>3, <1>4, <1>5 DEF Next, Scan

-----------------------------------------------------------------------------
\* At the end of the loop the window has been scanned.
LEMMA EndOfLoop ==
  ASSUME TypeOK, ScanInv, AtEnd
  PROVE  Records(Window)
  <1>1. i \in Nat /\ StartOffset \in Nat /\ Limit \in Int
    BY AnalyzerAssumption, LimitType DEF TypeOK
  <1>2. Scanned = Window
    BY <1>1 DEF ScanInv, AtEnd, Scanned, Window
  <1> QED
    BY <1>2 DEF ScanInv, AtEnd

LEMMA InvInit == Init => IInv
  BY TypeInit DEF Init, IInv, ScanInv, SteepestFound, SecondFound, Idle

\* A step that leaves line alone leaves the differences alone.
LEMMA ScanStep ==
  ASSUME TypeOK, TypeOK', ScanInv, Scan
  PROVE  ScanInv'
  <1>1. i \in Nat /\ StartOffset \in Nat /\ Limit \in Int
    BY AnalyzerAssumption, LimitType DEF TypeOK
  <1>2. pc = "scan" /\ i < Limit /\ i' = i + 1 /\ line' = line
    BY DEF Scan, FoundEdge, NoEdgeHere, InLoop, Advance
  <1>3. i >= StartOffset /\ Records(Scanned)
    BY <1>2 DEF ScanInv
  <1>4. Scanned' = StartOffset .. i /\ Limit' = Limit
    BY <1>1, <1>2 DEF Scanned, Limit
  <1>5. \A p : Difference(p)' = Difference(p)
    BY <1>2 DEF Difference, Pixel
  <1>6. CASE FoundEdge
    <2>1. /\ edge_points' = [old |-> edge_points.new, new |-> i]
          /\ last_edge_val' = Difference(i)
          /\ IsEdge
      BY <1>6 DEF FoundEdge
    <2>2. /\ IsSteepest(i, StartOffset .. i)
          /\ IF edge_points.new = NoEdge
             THEN Edges({x \in StartOffset .. i : x < i}) = {}
             ELSE IsSteepest(edge_points.new, {x \in StartOffset .. i : x < i})
      BY <1>2, <1>3, <2>1, TakePosition
    <2>3. i # NoEdge
      BY <1>1 DEF NoEdge
    <2>4. Records(Scanned)'
      BY <1>4, <1>5, <2>1, <2>2, <2>3 DEF Records, IsSteepest, Edges, Difference
    <2> QED
      BY <1>1, <1>2, <1>3, <1>4, <2>4 DEF ScanInv
  <1>7. CASE NoEdgeHere
    <2>1. ~IsEdge /\ edge_points' = edge_points /\ last_edge_val' = last_edge_val
      BY <1>7 DEF NoEdgeHere
    <2>2. Records(StartOffset .. i)
      BY <1>2, <1>3, <2>1, SkipPosition
    <2>3. Records(Scanned)'
      BY <1>4, <1>5, <2>1, <2>2 DEF Records, IsSteepest, Edges, Difference
    <2> QED
      BY <1>1, <1>2, <1>3, <1>4, <2>3 DEF ScanInv
  <1> QED
    BY <1>6, <1>7 DEF Scan

\* What the decision reports, from the records.
LEMMA DecideStep ==
  ASSUME TypeOK, ScanInv, Decide
  PROVE  SteepestFound' /\ SecondFound'
  <1>1. Records(Window)
    BY EndOfLoop DEF Decide, SeeNothing, SeeBoth, SeeRight, SeeLeft
  <1>2. line' = line /\ edge_points' = edge_points
    BY DEF Decide, SeeNothing, SeeBoth, SeeRight, SeeLeft, Return, callVars
  <1>3. Window' = Window
    BY <1>2 DEF Window, Limit
  <1> DEFINE new == edge_points.new
             old == edge_points.old
  <1>4. \A S : /\ Edges(S)' = Edges(S)
               /\ \A p : IsSteepest(p, S)' <=> IsSteepest(p, S)
    BY <1>2 DEF IsSteepest, Edges, Difference, Pixel
  <1>5. new \in Positions /\ old \in Positions
    BY DEF TypeOK
  <1>6. CASE SeeNothing
    <2>1. Edges(Window) = {}
      BY <1>1, <1>6 DEF SeeNothing, AnyEdge, Records
    <2>2. features' = NoFeatures
      BY <1>6 DEF SeeNothing, Return
    <2> QED
      BY <1>3, <1>4, <2>1, <2>2
         DEF SteepestFound, SecondFound, Shown, NoFeatures, NotVisible
  <1>7. CASE SeeBoth
    <2>1. new # NoEdge /\ old # NoEdge /\ Abs(old - new) > PointDiff
      BY <1>7 DEF SeeBoth, AnyEdge, TwoEdges
    <2>2. /\ IsSteepest(new, Window)
          /\ IsSteepest(old, {x \in Window : x < new})
      BY <1>1, <2>1 DEF Records
    <2>3. old < new /\ new \in Nat /\ old \in Nat
      BY <1>5, <2>1, <2>2 DEF IsSteepest, Edges, Positions
    <2>4. new - old > PointDiff
      BY <2>1, <2>3, AnalyzerAssumption DEF Abs
    <2>5. \/ features' = [left |-> old, right |-> new]
          \/ features' = [left |-> new, right |-> old]
      BY <1>7 DEF SeeBoth, Return
    <2>6. Shown' = {new, old}
      BY <2>3, <2>5 DEF Shown, NotVisible
    <2>7. new \in Edges(Window)
      BY <2>2 DEF IsSteepest
    <2>8. SteepestFound'
      BY <1>3, <1>4, <2>2, <2>6, <2>7 DEF SteepestFound
    <2>9. SecondFound'
      BY <1>3, <1>4, <2>2, <2>4, <2>6 DEF SecondFound
    <2> QED
      BY <2>8, <2>9
  <1>8. CASE SeeRight \/ SeeLeft
    <2>1. new # NoEdge
      BY <1>8 DEF SeeRight, SeeLeft, AnyEdge
    <2>2. IsSteepest(new, Window)
      BY <1>1, <2>1 DEF Records
    <2>3. \/ features' = [left |-> NotVisible, right |-> new]
          \/ features' = [left |-> new, right |-> NotVisible]
      BY <1>8 DEF SeeRight, SeeLeft, Return, NoFeatures
    <2>4. Shown' = {new}
      BY <2>1, <2>3 DEF Shown, NotVisible, NoEdge
    <2>5. new \in Edges(Window)
      BY <2>2 DEF IsSteepest
    <2>6. SteepestFound'
      BY <1>3, <1>4, <2>2, <2>4, <2>5 DEF SteepestFound
    <2>7. SecondFound'
      BY <2>3 DEF SecondFound
    <2> QED
      BY <2>6, <2>7
  <1> QED
    BY <1>6, <1>7, <1>8 DEF Decide

LEMMA InvStep == IInv /\ [Next]_vars => IInv'
  <1> SUFFICES ASSUME IInv, [Next]_vars PROVE IInv'
    OBVIOUS
  <1>0. TypeOK /\ ScanInv /\ TypeOK'
    BY TypeStep DEF IInv
  <1>1. CASE AnalyzeLine
    <2>1. pc' = "scan" /\ i' = StartOffset /\ last_edge_val' = 0
          /\ edge_points' = [old |-> NoEdge, new |-> NoEdge]
      BY <1>1 DEF AnalyzeLine
    <2>2. Scanned' = {}
      BY <2>1, AnalyzerAssumption DEF Scanned
    <2>3. ScanInv'
      BY <2>1, <2>2, AnalyzerAssumption DEF ScanInv, Records, Edges
    <2> QED
      BY <1>0, <2>1, <2>3 DEF IInv, SteepestFound, SecondFound, Idle
  <1>2. CASE Scan
    <2>1. pc' = "scan"
      BY <1>2 DEF Scan, FoundEdge, NoEdgeHere, InLoop, Advance
    <2> QED
      BY <1>0, <1>2, <2>1, ScanStep DEF IInv, SteepestFound, SecondFound, Idle
  <1>3. CASE Decide
    <2>1. pc' = "idle"
      BY <1>3 DEF Decide, SeeNothing, SeeBoth, SeeRight, SeeLeft, Return
    <2> QED
      BY <1>0, <1>3, <2>1, DecideStep DEF IInv, ScanInv
  <1>4. CASE UNCHANGED vars
    BY <1>0, <1>4 DEF IInv, vars, ScanInv, Records, Scanned, Limit, SteepestFound, SecondFound,
       Idle, Shown, Window, Edges, IsSteepest, Difference, Pixel
  <1> QED
    BY <1>1, <1>2, <1>3, <1>4 DEF Next

-----------------------------------------------------------------------------
(***************************************************************************)
(* The analyzer's variables keep their types, for every configuration.     *)
(***************************************************************************)
THEOREM TypeCorrect == Spec => []TypeOK
  BY TypeInit, TypeStep, PTL DEF Spec

(***************************************************************************)
(* The steepest edge of the window is reported, and nothing only if there  *)
(* is none (line_analyzer.c:52-133).                                       *)
(***************************************************************************)
THEOREM FindsSteepest == Spec => []SteepestFound
  <1>1. IInv => SteepestFound
    BY DEF IInv
  <1> QED
    BY <1>1, InvInit, InvStep, PTL DEF Spec

(***************************************************************************)
(* A second line reported is the steepest edge left of the first, more     *)
(* than PointDiff away (line_analyzer.c:76-101).                           *)
(***************************************************************************)
THEOREM FindsSecond == Spec => []SecondFound
  <1>1. IInv => SecondFound
    BY DEF IInv
  <1> QED
    BY <1>1, InvInit, InvStep, PTL DEF Spec

(***************************************************************************)
(* With the history enabled the side of a single line does not change      *)
(* (line_analyzer.c:105-126).                                              *)
(***************************************************************************)
THEOREM KeepsSide == Spec => SideKept
  <1>1. ASSUME TypeOK, [Next]_vars
        PROVE  [LineHistEnabled /\ pc = "scan" /\ pc' = "idle"
                  /\ LastLinePos # Neither /\ LastLinePos' # Neither
                => LastLinePos' = LastLinePos]_vars
    <2>1. CASE AnalyzeLine \/ Scan
      BY <2>1 DEF AnalyzeLine, Scan, FoundEdge, NoEdgeHere, Advance
    <2>2. CASE SeeNothing \/ SeeBoth
      BY <2>2 DEF SeeNothing, SeeBoth, Return
    <2>3. CASE SeeRight
      BY <2>3, <1>1 DEF SeeRight, IsRight, Return
    <2>4. CASE SeeLeft
      BY <2>4, <1>1 DEF SeeLeft, IsRight, Return, TypeOK
    <2>5. CASE UNCHANGED vars
      BY <2>5
    <2> QED
      BY <1>1, <2>1, <2>2, <2>3, <2>4, <2>5 DEF Next, Decide
  <1> QED
    BY <1>1, TypeInit, TypeStep, PTL DEF Spec, SideKept
=============================================================================
