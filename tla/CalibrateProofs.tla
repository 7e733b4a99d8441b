-------------------------- MODULE CalibrateProofs --------------------------
(***************************************************************************)
(* Proofs about Calibrate, for any number of groups and bits, any delay    *)
(* chains and any board: the settings a successful calibration leaves are  *)
(* right, a failed one names its failure, only taps that exist are set, and*)
(* wide windows are centred, and nothing is tried for ever.  And, at the   *)
(* end, about DqsEnable: the search for the DQS gate finds a wide window   *)
(* wherever it lies, and is over after a bounded number of steps.          *)
(***************************************************************************)
EXTENDS Calibrate, DqsEnable, WellFoundedInduction, TLAPS

-----------------------------------------------------------------------------
(* Minima and maxima of sets of integers.                                  *)

\* A set of natural numbers has a least element.
LEMMA LeastIn ==
  ASSUME NEW S, S \subseteq Nat, S # {}
  PROVE  \E x \in S : \A y \in S : x <= y
<1> DEFINE R == OpToRel(<, Nat)
<1>1. IsWellFoundedOn(R, Nat)
  BY NatLessThanWellFounded, Zenon
<1>2. ASSUME NEW x \in Nat, NEW y \in Nat, x < y
      PROVE <<x, y>> \in R
  BY <1>2, Zenon DEF OpToRel
<1> HIDE DEF R
<1>3. PICK x \in S : \A y \in S : ~ (<<y, x>> \in R)
  BY <1>1, WFMin
<1>4. \A y \in S : ~ (y < x)
  BY <1>2, <1>3
<1>5. \A y \in S : x <= y
  BY <1>4
<1> QED
  BY <1>5

\* A set of integers bounded below has a minimum.
LEMMA MinIs ==
  ASSUME NEW S, NEW n \in Int, S \subseteq Int, \A x \in S : n <= x, S # {}
  PROVE  Min(S) \in S /\ \A y \in S : Min(S) <= y
<1> DEFINE T == {t \in Nat : \E x \in S : t = x - n}
<1>1. \A x \in S : x - n \in Nat /\ x - n \in T
  OBVIOUS
<1>2. T \subseteq Nat /\ T # {}
  BY <1>1
<1> HIDE DEF T
<1>3. PICK t \in T : \A u \in T : t <= u
  BY <1>2, LeastIn
<1>4. PICK x \in S : t = x - n
  BY DEF T
<1>5. ASSUME NEW y \in S PROVE x <= y
  <2>1. t <= y - n
    BY <1>1, <1>3
  <2> QED
    BY <1>4, <2>1
<1> QED
  BY <1>5 DEF Min

\* A set of integers bounded above has a maximum.
LEMMA MaxIs ==
  ASSUME NEW S, NEW n \in Int, S \subseteq Int, \A x \in S : x <= n, S # {}
  PROVE  Max(S) \in S /\ \A y \in S : y <= Max(S)
<1> DEFINE T == {t \in Nat : \E x \in S : t = n - x}
<1>1. \A x \in S : n - x \in Nat /\ n - x \in T
  OBVIOUS
<1>2. T \subseteq Nat /\ T # {}
  BY <1>1
<1> HIDE DEF T
<1>3. PICK t \in T : \A u \in T : t <= u
  BY <1>2, LeastIn
<1>4. PICK x \in S : t = n - x
  BY DEF T
<1>5. ASSUME NEW y \in S PROVE y <= x
  <2>1. t <= n - y
    BY <1>1, <1>3
  <2> QED
    BY <1>4, <2>1
<1> QED
  BY <1>5 DEF Max

\* A set within bounds has both.
LEMMA MinMaxIn ==
  ASSUME NEW m \in Int, NEW n \in Int, NEW S, S \subseteq m .. n, S # {}
  PROVE  Min(S) \in S /\ Max(S) \in S
<1>1. S \subseteq Int /\ (\A x \in S : m <= x) /\ (\A x \in S : x <= n)
  OBVIOUS
<1>2. Min(S) \in S
  BY <1>1, MinIs
<1>3. Max(S) \in S
  BY <1>1, MaxIs
<1> QED
  BY <1>2, <1>3

-----------------------------------------------------------------------------
(* The sweeps of a deskew.                                                 *)

EdgeSets == [Bits -> [left : -none .. none, right : -none .. none]]

\* The windows u, bit by bit, are inside the windows w.
Within(u, w) ==
  \A b \in Bits : w[b].lo <= u[b].lo /\ u[b].hi <= w[b].hi

\* What a sweep has found is inside the windows.
Sound(e, w, start) ==
  \A b \in Bits :
    /\ e[b].left # none => w[b].lo <= start - e[b].left
    /\ e[b].right # none => start + e[b].right <= w[b].hi

\* After the left sweep, a bit whose right edge is unknown passed at start.
LeftSound(e, w, start) ==
  /\ Sound(e, w, start)
  /\ \A b \in Bits :
       e[b].left # none /\ e[b].right = none => start <= w[b].hi

\* The taps that pass in a left sweep: inside the window, and bounded.
LEMMA LeftTapsAre ==
  ASSUME NEW u \in Windows, NEW start \in Taps, NEW b \in Bits
  PROVE  LET T == LeftTaps(u, start, b)
         IN  /\ T \subseteq 0 .. DELAY_MAX
             /\ \A d1 \in T : u[b].lo <= start - d1 /\ start - d1 <= u[b].hi
             /\ T # {} => Min(T) \in T /\ Max(T) \in T
<1> DEFINE T == LeftTaps(u, start, b)
<1> USE DeskewAssumption
<1>1. T \subseteq 0 .. DELAY_MAX
  BY DEF LeftTaps, PassingTaps
<1>2. ASSUME NEW d1 \in T
      PROVE  u[b].lo <= start - d1 /\ start - d1 <= u[b].hi
  <2>1. Passes(u, b, start + (-1) * d1)
    BY DEF LeftTaps, PassingTaps
  <2>2. start + (-1) * d1 = start - d1
    BY <1>1 DEF Taps
  <2> QED
    BY <2>1, <2>2 DEF Passes
<1> HIDE DEF T
<1>3. ASSUME T # {} PROVE Min(T) \in T /\ Max(T) \in T
  <2>1. DELAY_MAX \in Int /\ 0 \in Int
    OBVIOUS
  <2> QED
    BY <1>1, <1>3, <2>1, MinMaxIn
<1> QED
  BY <1>1, <1>2, <1>3 DEF T

\* The taps that pass in a right sweep.
LEMMA RightTapsAre ==
  ASSUME NEW u \in Windows, NEW start \in Taps, NEW b \in Bits, NEW e,
         NEW reading
  PROVE  LET T == RightTaps(u, start, e, reading, b)
         IN  /\ T \subseteq 0 .. DELAY_MAX
             /\ \A d1 \in T : u[b].lo <= start + d1 /\ start + d1 <= u[b].hi
             /\ T # {} => Min(T) \in T /\ Max(T) \in T
<1> DEFINE T == RightTaps(u, start, e, reading, b)
<1> USE DeskewAssumption
<1>1. T \subseteq 0 .. DELAY_MAX
  BY DEF RightTaps, PassingTaps, Taps
<1>2. ASSUME NEW d1 \in T
      PROVE  u[b].lo <= start + d1 /\ start + d1 <= u[b].hi
  <2>1. Passes(u, b, start + 1 * d1)
    BY DEF RightTaps, PassingTaps
  <2>2. start + 1 * d1 = start + d1
    BY <1>1 DEF Taps
  <2> QED
    BY <2>1, <2>2 DEF Passes
<1> HIDE DEF T
<1>3. ASSUME T # {} PROVE Min(T) \in T /\ Max(T) \in T
  <2>1. DELAY_MAX \in Int /\ 0 \in Int
    OBVIOUS
  <2> QED
    BY <1>1, <1>3, <2>1, MinMaxIn
<1> QED
  BY <1>1, <1>2, <1>3 DEF T

\* What the left sweep finds, of windows that may be marginal.
LEMMA LeftFinds ==
  ASSUME NEW u \in Windows, NEW w \in Windows, Within(u, w),
         NEW start \in Taps
  PROVE  /\ AfterLeft(u, start) \in EdgeSets
         /\ LeftSound(AfterLeft(u, start), w, start)
<1> DEFINE e == AfterLeft(u, start)
<1> USE DeskewAssumption
<1>1. ASSUME NEW b \in Bits
      PROVE  /\ e[b] \in [left : -none .. none, right : -none .. none]
             /\ e[b].left # none => w[b].lo <= start - e[b].left
             /\ e[b].right # none => start + e[b].right <= w[b].hi
             /\ e[b].left # none /\ e[b].right = none => start <= w[b].hi
  <2> DEFINE T == LeftTaps(u, start, b)
  <2>1. /\ T \subseteq 0 .. DELAY_MAX
        /\ \A d1 \in T : u[b].lo <= start - d1 /\ start - d1 <= u[b].hi
        /\ T # {} => Min(T) \in T /\ Max(T) \in T
    BY LeftTapsAre
  <2>2. e[b] = IF T = {} THEN [left |-> none, right |-> none]
               ELSE [left |-> Max(T),
                     right |-> IF 0 \in T THEN none ELSE -Min(T)]
    BY DEF AfterLeft
  <2>3. /\ w[b].lo <= u[b].lo /\ u[b].hi <= w[b].hi
        /\ w[b].lo \in Int /\ w[b].hi \in Int
        /\ u[b].lo \in Int /\ u[b].hi \in Int
    BY DEF Within, Windows
  <2> HIDE DEF T, e
  <2>4. CASE T = {}
    BY <2>2, <2>4 DEF none
  <2>5. CASE T # {}
    <3> DEFINE lo == Min(T)
    <3> DEFINE hi == Max(T)
    <3>1. /\ lo \in T /\ hi \in T
          /\ lo \in 0 .. DELAY_MAX /\ hi \in 0 .. DELAY_MAX
      BY <2>1, <2>5
    <3>2. e[b].left = hi /\ e[b].right = IF 0 \in T THEN none ELSE -lo
      BY <2>2, <2>5
    <3>3. e[b] \in [left : -none .. none, right : -none .. none]
      <4> HIDE DEF lo, hi
      <4> QED
        BY <2>2, <2>5, <3>1 DEF none, lo, hi
    <3>4. start - hi >= u[b].lo /\ start - lo <= u[b].hi
      BY <2>1, <3>1
    <3>5. 0 \in T => start - 0 <= u[b].hi
      BY <2>1
    <3> HIDE DEF lo, hi
    <3> QED
      BY <2>3, <3>1, <3>2, <3>3, <3>4, <3>5 DEF none, Taps
  <2> QED
    BY <2>4, <2>5
<1>2. e \in EdgeSets
  BY <1>1 DEF EdgeSets, AfterLeft
<1> QED
  BY <1>1, <1>2 DEF LeftSound, Sound

\* What the right sweep adds to what the left one has found.
LEMMA RightFinds ==
  ASSUME NEW u \in Windows, NEW w \in Windows, Within(u, w),
         NEW start \in Taps, NEW e0 \in EdgeSets, NEW reading,
         LeftSound(e0, w, start)
  PROVE  /\ AfterRight(u, start, e0, reading) \in EdgeSets
         /\ Sound(AfterRight(u, start, e0, reading), w, start)
<1> DEFINE e == AfterRight(u, start, e0, reading)
<1> USE DeskewAssumption
<1>1. ASSUME NEW b \in Bits
      PROVE  /\ e[b] \in [left : -none .. none, right : -none .. none]
             /\ e[b].left # none => w[b].lo <= start - e[b].left
             /\ e[b].right # none => start + e[b].right <= w[b].hi
  <2> DEFINE T == RightTaps(u, start, e0, reading, b)
  <2>1. /\ T \subseteq 0 .. DELAY_MAX
        /\ \A d1 \in T : u[b].lo <= start + d1 /\ start + d1 <= u[b].hi
        /\ T # {} => Min(T) \in T /\ Max(T) \in T
    BY RightTapsAre
  <2>2. e[b] = IF T = {}
               THEN [e0[b] EXCEPT !.right =
                       IF e0[b].left # none /\ @ = none THEN -1 ELSE @]
               ELSE [left |-> IF e0[b].left # none \/ 0 \in T
                              THEN e0[b].left ELSE -Min(T),
                     right |-> Max(T)]
    BY DEF AfterRight
  <2>3. /\ w[b].lo <= u[b].lo /\ u[b].hi <= w[b].hi
        /\ w[b].lo \in Int /\ w[b].hi \in Int
        /\ u[b].lo \in Int /\ u[b].hi \in Int
    BY DEF Within, Windows
  <2>4. /\ e0[b] \in [left : -none .. none, right : -none .. none]
        /\ e0[b].left # none => w[b].lo <= start - e0[b].left
        /\ e0[b].right # none => start + e0[b].right <= w[b].hi
        /\ e0[b].left # none /\ e0[b].right = none => start <= w[b].hi
    BY DEF LeftSound, Sound, EdgeSets
  <2> HIDE DEF T, e
  <2>5. CASE T = {}
    BY <2>2, <2>3, <2>4, <2>5 DEF none, Taps
  <2>6. CASE T # {}
    <3> DEFINE lo == Min(T)
    <3> DEFINE hi == Max(T)
    <3>1. /\ lo \in T /\ hi \in T
          /\ lo \in 0 .. DELAY_MAX /\ hi \in 0 .. DELAY_MAX
      BY <2>1, <2>6
    <3>2. start + lo >= u[b].lo /\ start + hi <= u[b].hi
      BY <2>1, <3>1
    <3>3. e[b] = [left |-> IF e0[b].left # none \/ 0 \in T
                           THEN e0[b].left ELSE -lo,
                  right |-> hi]
      BY <2>2, <2>6
    <3> HIDE DEF lo, hi
    <3> QED
      BY <2>3, <2>4, <3>1, <3>2, <3>3 DEF none, Taps
  <2> QED
    BY <2>5, <2>6
<1>2. e \in EdgeSets
  BY <1>1 DEF EdgeSets, AfterRight
<1> QED
  BY <1>1, <1>2 DEF Sound

-----------------------------------------------------------------------------
(* The new delays.                                                         *)

LEMMA HalfIsInt ==
  ASSUME NEW n \in Int
  PROVE  Half(n) \in Int
BY DEF Half

LEMMA ClampIsTap ==
  ASSUME NEW n \in Int
  PROVE  Clamp(n) \in Taps
BY DeskewAssumption DEF Clamp, Taps

\* Only taps that exist are set.
LEMMA NewTaps ==
  ASSUME NEW e \in EdgeSets, NEW start \in Taps, NEW reading \in BOOLEAN
  PROVE  /\ NewDqs(e, start, reading) \in Taps
         /\ \A b \in Bits : NewDq(e, start, reading, b) \in Taps
<1> USE DeskewAssumption
<1>1. \A b \in Bits : Off(e, b) \in -2 * none .. 2 * none
  BY DEF EdgeSets, Off, none
<1>2. MinOff(e) \in Int
  <2> DEFINE S == {Off(e, b) : b \in Bits}
  <2>1. S \subseteq -2 * none .. 2 * none
    BY <1>1
  <2>2. S # {}
    <3>1. 0 \in Bits
      BY DEF Bits
    <3> QED
      BY <3>1
  <2>3. -2 * none \in Int /\ 2 * none \in Int
    BY DEF none
  <2> HIDE DEF S
  <2>4. Min(S) \in S
    BY <2>1, <2>2, <2>3, MinMaxIn
  <2> QED
    BY <2>1, <2>4 DEF MinOff, S, none
<1>3. MidMin(e) \in Int
  BY <1>2, HalfIsInt DEF MidMin
<1>4. NewDqs(e, start, reading) \in Taps
  <2>1. start - MidMin(e) \in Int
    BY <1>3 DEF Taps
  <2> QED
    BY <2>1, ClampIsTap DEF NewDqs
<1>5. ASSUME NEW b \in Bits
      PROVE NewDq(e, start, reading, b) \in Taps
  <2>1. Off(e, b) - MinOff(e) \in Int
    BY <1>1, <1>2 DEF none
  <2>2. Half(Off(e, b) - MinOff(e)) + MidMin(e) - Moves(e, start, reading)
          \in Int
    BY <1>3, <1>4, <2>1, HalfIsInt DEF Taps, Moves
  <2> QED
    BY <2>2, ClampIsTap DEF NewDq
<1> QED
  BY <1>4, <1>5

\* Margins on both sides of what was found inside the windows.
LEMMA MarginsSuffice ==
  ASSUME NEW w \in Windows, NEW e \in EdgeSets, NEW start \in Taps,
         NEW reading \in BOOLEAN,
         Sound(e, w, start), Edgeless(e) = {}, Margins(e, start, reading)
  PROVE  Right(w, NewDqs(e, start, reading),
               [b \in Bits |-> NewDq(e, start, reading, b)])
<1> SUFFICES ASSUME NEW b \in Bits
             PROVE  Passes(w, b, NewDqs(e, start, reading)
                                   - NewDq(e, start, reading, b))
  BY DEF Right
<1> DEFINE dqs == NewDqs(e, start, reading)
<1> DEFINE dq == NewDq(e, start, reading, b)
<1>1. dqs \in Int /\ dq \in Int /\ start \in Int
  BY NewTaps DEF Taps
<1>2. e[b].left # none /\ e[b].right # none
  BY DEF Edgeless
<1>3. w[b].lo <= start - e[b].left /\ start + e[b].right <= w[b].hi
  BY <1>2 DEF Sound
<1>4. /\ e[b].left - dq - (start - dqs) >= 0
      /\ e[b].right + dq + (start - dqs) >= 0
  BY DEF Margins, LeftMargin, RightMargin, Moves
<1>5. e[b].left \in Int /\ e[b].right \in Int /\ w[b].lo \in Int
        /\ w[b].hi \in Int
  BY DeskewAssumption DEF EdgeSets, Windows, none
<1>6. w[b].lo <= dqs - dq /\ dqs - dq <= w[b].hi
  <2> HIDE DEF dqs, dq
  <2> QED
    BY <1>1, <1>3, <1>4, <1>5
<1> QED
  BY <1>6 DEF Passes

LEMMA MarginalWithin ==
  ASSUME NEW w \in Windows, NEW near \in SUBSET Bits
  PROVE  Marginal(w, near) \in Windows /\ Within(Marginal(w, near), w)
BY DEF Marginal, Windows, Within

-----------------------------------------------------------------------------
(* Type correctness.                                                       *)

LEMMA BoardIs ==
  ASSUME TypeOK, NEW group \in Groups
  PROVE  board[group].read \in Windows /\ board[group].write \in Windows
<1>1. board[group] \in Boards
  BY DEF TypeOK
<1>2. board[group] \in [read : Windows, write : Windows, out : SUBSET Taps]
  BY <1>1, CalibrateAssumption
<1> QED
  BY <1>2

\* A bit counted over all groups.
LEMMA BitNamed ==
  ASSUME NEW group \in Groups, NEW b \in Bits
  PROVE  /\ group * DQ_PER_DQS + b \in Named
         /\ group \in Named
<1> USE CalibrateAssumption, DeskewAssumption
<1>1. /\ group \in Nat /\ group <= IF_DQS_WIDTH - 1
      /\ b \in Nat /\ b <= DQ_PER_DQS - 1
      /\ DQ_PER_DQS \in Nat /\ DQ_PER_DQS >= 1 /\ IF_DQS_WIDTH \in Nat
  BY DEF Groups, Bits
<1>2. ASSUME NEW k \in Nat, NEW w \in Nat, NEW n \in Nat, k <= w - 1, n >= 1
      PROVE  k * n \in Nat /\ k <= k * n /\ k * n <= w * n - n /\ w * n \in Nat
  <2>1. w * n - n = (w - 1) * n /\ k * n \in Nat /\ w * n \in Nat
    OBVIOUS
  <2>2. \A x, y \in Nat : x <= y => x * n <= y * n
    OBVIOUS
  <2>3. \A x \in Nat : x <= x * n
    BY <1>2
  <2> QED
    BY <1>2, <2>1, <2>2, <2>3
<1>3. /\ group * DQ_PER_DQS \in Nat
      /\ group <= group * DQ_PER_DQS
      /\ group * DQ_PER_DQS <= IF_DQS_WIDTH * DQ_PER_DQS - DQ_PER_DQS
      /\ IF_DQS_WIDTH * DQ_PER_DQS \in Nat
  BY <1>1, <1>2
<1> QED
  BY <1>1, <1>3 DEF Named

\* The first bit without a window is one of the group's.
LEMMA FirstEdgeless ==
  ASSUME TypeOK, Edgeless(edges) # {}
  PROVE  \E b \in Bits : BitOf = g * DQ_PER_DQS + b
<1>1. Edgeless(edges) \subseteq 0 .. DQ_PER_DQS - 1
  BY DEF Edgeless, Bits
<1>2. 0 \in Int /\ DQ_PER_DQS - 1 \in Int
  BY DeskewAssumption
<1>3. Min(Edgeless(edges)) \in Bits
  BY <1>1, <1>2, MinMaxIn DEF Bits
<1> QED
  BY <1>3 DEF BitOf

LEMMA BitOfNamed ==
  ASSUME TypeOK, Edgeless(edges) # {}
  PROVE  BitOf \in Named
<1>1. g \in Groups
  BY DEF TypeOK
<1> QED
  BY <1>1, FirstEdgeless, BitNamed

\* What has been found so far is inside the windows being swept.
Sweeping ==
  /\ swept # 0 => step \in {"centre", "writes", "end"}
  /\ swept = 1 => LeftSound(edges, Windowed, Strobe)
  /\ swept = 2 => Sound(edges, Windowed, Strobe)

LEMMA Swept0 ==
  ASSUME TypeOK
  PROVE  Windowed \in Windows /\ Strobe \in Taps
<1>1. g \in Groups /\ dqs_in[g] \in Taps /\ dqs_out[g] \in Taps
  BY DEF TypeOK
<1> QED
  BY <1>1, BoardIs DEF Windowed, Strobe

LEMMA InitTypes ==
  ASSUME Init
  PROVE  TypeOK /\ Sweeping
<1> USE CalibrateAssumption, DeskewAssumption
<1>1. 0 \in Taps /\ 0 \in Groups
  BY DEF Taps, Groups
<1>2. Zeros \in [Bits -> Taps]
  BY <1>1 DEF Zeros
<1>3. NoEdges \in [Bits -> [left : -none .. none, right : -none .. none]]
  BY DEF NoEdges, none
<1>4. 0 \in 0 .. DtapsPerPtap /\ MaxLatency \in 0 .. MaxLatency + 1
  BY DEF Taps
<1>5. TypeOK
  <2>1. /\ board \in [Groups -> Boards] /\ latency \in Nat
        /\ g \in Groups /\ d \in 0 .. DtapsPerPtap
        /\ dqs_in_dtaps \in Taps /\ orig_start_dqs \in Taps
    BY <1>1, <1>4 DEF Init
  <2>2. /\ dqs_in \in [Groups -> Taps] /\ dq_in \in [Groups -> [Bits -> Taps]]
        /\ dqs_out \in [Groups -> Taps]
        /\ dq_out \in [Groups -> [Bits -> Taps]]
    BY <1>1, <1>2 DEF Init
  <2>3. /\ edges \in [Bits -> [left : -none .. none, right : -none .. none]]
        /\ curr_read_lat \in 0 .. MaxLatency + 1
        /\ swept \in 0 .. 2
    <3>1. edges = NoEdges /\ swept = 0 /\ curr_read_lat = MaxLatency
      BY Zenon DEF Init
    <3> QED
      BY <1>3, <1>4, <3>1
  <2>4. /\ step = "start" /\ failed_substage = "guaranteed_read"
        /\ stage = "nil" /\ error = NIL
    BY Zenon DEF Init
  <2>5. step \in Steps
    BY <2>4 DEF Steps
  <2>6. failed_substage \in Substages /\ stage \in Stages
    BY <2>4 DEF Stages, Substages
  <2>7. pass \in BOOLEAN
    BY Zenon DEF Init
  <2>8. /\ mux_sel \in {"sequencer", "controller"}
        /\ tracking \in {"stopped", "as_configured"}
        /\ status \in {"reset", "success", "fail"}
    BY DEF Init
  <2> QED
    BY <2>1, <2>2, <2>3, <2>4, <2>5, <2>6, <2>7, <2>8 DEF TypeOK
<1>6. Sweeping
  <2>1. swept = 0
    BY DEF Init
  <2> QED
    BY <2>1 DEF Sweeping
<1> QED
  BY <1>5, <1>6

LEMMA SweepLeftTypes ==
  ASSUME TypeOK, Sweeping, SweepLeft
  PROVE  TypeOK' /\ Sweeping'
<1>1. PICK near \in SUBSET Bits :
        edges' = AfterLeft(Marginal(Windowed, near), Strobe)
  BY DEF SweepLeft
<1>2. Windowed \in Windows /\ Strobe \in Taps
  BY Swept0
<1>3. /\ Marginal(Windowed, near) \in Windows
      /\ Within(Marginal(Windowed, near), Windowed)
  BY <1>2, MarginalWithin
<1>4. edges' \in EdgeSets /\ LeftSound(edges', Windowed, Strobe)
  BY <1>1, <1>2, <1>3, LeftFinds
<1>5. Windowed' = Windowed /\ Strobe' = Strobe
  BY DEF SweepLeft, Windowed, Strobe, reads, writes, loop
<1>6. TypeOK'
  <2>1. /\ UNCHANGED <<board, latency, step, g, d, dqs_in_dtaps>>
        /\ UNCHANGED <<orig_start_dqs, failed_substage, dqs_in, dq_in>>
        /\ UNCHANGED <<dqs_out, dq_out, curr_read_lat, stage, error, pass>>
        /\ UNCHANGED <<mux_sel, tracking, status>>
        /\ swept' = 1
    BY DEF SweepLeft, loop, reads, writes, report, hand
  <2>2. swept' \in 0 .. 2
    BY <2>1
  <2> QED
    BY <1>4, <2>1, <2>2 DEF TypeOK, EdgeSets
<1>7. Sweeping'
  BY <1>4, <1>5 DEF SweepLeft, Sweeping
<1> QED
  BY <1>6, <1>7

LEMMA SweepRightTypes ==
  ASSUME TypeOK, Sweeping, SweepRight
  PROVE  TypeOK' /\ Sweeping'
<1> DEFINE reading == step # "writes"
<1>1. PICK near \in SUBSET Bits :
        edges' = AfterRight(Marginal(Windowed, near), Strobe, edges, reading)
  BY DEF SweepRight
<1> HIDE DEF reading
<1>2. Windowed \in Windows /\ Strobe \in Taps
  BY Swept0
<1>3. /\ Marginal(Windowed, near) \in Windows
      /\ Within(Marginal(Windowed, near), Windowed)
  BY <1>2, MarginalWithin
<1>4. edges \in EdgeSets /\ LeftSound(edges, Windowed, Strobe)
  BY DEF SweepRight, Sweeping, TypeOK, EdgeSets
<1>5. edges' \in EdgeSets /\ Sound(edges', Windowed, Strobe)
  BY <1>1, <1>2, <1>3, <1>4, RightFinds
<1>6. Windowed' = Windowed /\ Strobe' = Strobe
  BY DEF SweepRight, Windowed, Strobe, reads, writes, loop
<1>7. TypeOK'
  <2>1. /\ UNCHANGED <<board, latency, step, g, d, dqs_in_dtaps>>
        /\ UNCHANGED <<orig_start_dqs, failed_substage, dqs_in, dq_in>>
        /\ UNCHANGED <<dqs_out, dq_out, curr_read_lat, stage, error, pass>>
        /\ UNCHANGED <<mux_sel, tracking, status>>
        /\ swept' = 2
    BY DEF SweepRight, loop, reads, writes, report, hand
  <2>2. swept' \in 0 .. 2
    BY <2>1
  <2> QED
    BY <1>5, <2>1, <2>2 DEF TypeOK, EdgeSets
<1>8. Sweeping'
  BY <1>5, <1>6 DEF SweepRight, Sweeping
<1> QED
  BY <1>7, <1>8

LEMMA Ranges ==
  ASSUME TypeOK
  PROVE  /\ g \in Groups /\ d \in 0 .. DtapsPerPtap
         /\ dqs_in_dtaps \in Taps /\ curr_read_lat \in 0 .. MaxLatency + 1
         /\ failed_substage \in Substages
BY DEF TypeOK

\* The bounds as numbers.
LEMMA Bounds ==
  /\ DtapsPerPtap \in Nat /\ DtapsPerPtap <= DELAY_MAX
  /\ MaxLatency \in Nat /\ DELAY_MAX \in Nat
  /\ 0 \in Bits /\ 0 \in Groups
BY CalibrateAssumption, DeskewAssumption DEF Taps, Bits, Groups

LEMMA ForgetTypes ==
  ASSUME Forget
  PROVE  /\ edges' \in [Bits -> [left : -none .. none, right : -none .. none]]
         /\ swept' \in 0 .. 2
         /\ Sweeping'
<1>1. NoEdges \in [Bits -> [left : -none .. none, right : -none .. none]]
  BY DeskewAssumption DEF NoEdges, none
<1>2. edges' = NoEdges /\ swept' = 0
  BY DEF Forget
<1> QED
  BY <1>1, <1>2 DEF Sweeping

\* Nothing is being swept outside the deskews.
LEMMA NotSweeping ==
  ASSUME Sweeping, UNCHANGED found, step \notin {"centre", "writes", "end"}
  PROVE  Sweeping'
<1>1. swept' = 0
  BY DEF Sweeping, found
<1> QED
  BY <1>1 DEF Sweeping

LEMMA SetReadsTypes ==
  ASSUME TypeOK, SetReads
  PROVE  dqs_in' \in [Groups -> Taps] /\ dq_in' \in [Groups -> [Bits -> Taps]]
<1>1. g \in Groups /\ dqs_in[g] \in Taps /\ edges \in EdgeSets
  BY DEF TypeOK, EdgeSets
<1>2. /\ NewDqs(edges, dqs_in[g], TRUE) \in Taps
      /\ \A b \in Bits : NewDq(edges, dqs_in[g], TRUE, b) \in Taps
  BY <1>1, NewTaps
<1>3. [b \in Bits |-> NewDq(edges, dqs_in[g], TRUE, b)] \in [Bits -> Taps]
  BY <1>2
<1> QED
  BY <1>2, <1>3 DEF TypeOK, SetReads

LEMMA SetWritesTypes ==
  ASSUME TypeOK, SetWrites
  PROVE  /\ dqs_out' \in [Groups -> Taps]
         /\ dq_out' \in [Groups -> [Bits -> Taps]]
<1>1. g \in Groups /\ dqs_out[g] \in Taps /\ edges \in EdgeSets
  BY DEF TypeOK, EdgeSets
<1>2. /\ NewDqs(edges, dqs_out[g], FALSE) \in Taps
      /\ \A b \in Bits : NewDq(edges, dqs_out[g], FALSE, b) \in Taps
  BY <1>1, NewTaps
<1>3. [b \in Bits |-> NewDq(edges, dqs_out[g], FALSE, b)] \in [Bits -> Taps]
  BY <1>2
<1> QED
  BY <1>2, <1>3 DEF TypeOK, SetWrites

ErrorOK ==
  error = NIL \/ error \in Stages \X Substages \X (Named \cup {AllGroups})

LEMMA SetFailingTypes ==
  ASSUME TypeOK, NEW group \in Named \cup {AllGroups}, NEW st \in Stages,
         NEW substage \in Substages, SetFailing(group, st, substage)
  PROVE  ErrorOK'
BY DEF TypeOK, SetFailing, ErrorOK

LEMMA FailTypes ==
  ASSUME TypeOK, NEW group \in Named \cup {AllGroups},
         NEW substage \in Substages, Fail(group, substage)
  PROVE  /\ ErrorOK' /\ pass' \in BOOLEAN /\ step' \in Steps
         /\ edges' \in [Bits -> [left : -none .. none, right : -none .. none]]
         /\ swept' \in 0 .. 2
         /\ Sweeping'
<1>1. ErrorOK'
  BY SetFailingTypes DEF Fail, TypeOK
<1>2. pass' \in BOOLEAN
  BY Zenon DEF Fail
<1>3. step' \in Steps
  BY DEF Fail, Steps
<1> QED
  BY <1>1, <1>2, <1>3, ForgetTypes DEF Fail

LEMMA BeginGroupTypes ==
  ASSUME TypeOK, NEW group \in Groups, BeginGroup(group)
  PROVE  /\ g' \in Groups /\ d' \in 0 .. DtapsPerPtap
         /\ dq_in' \in [Groups -> [Bits -> Taps]]
         /\ dqs_out' \in [Groups -> Taps]
         /\ dq_out' \in [Groups -> [Bits -> Taps]]
         /\ failed_substage' \in Substages /\ stage' \in Stages
         /\ step' \in Steps
<1> USE CalibrateAssumption, DeskewAssumption
<1>1. Zeros \in [Bits -> Taps]
  BY DEF Zeros, Taps
<1>2. /\ dq_in' \in [Groups -> [Bits -> Taps]]
      /\ dqs_out' \in [Groups -> Taps]
      /\ dq_out' \in [Groups -> [Bits -> Taps]]
  BY <1>1 DEF BeginGroup, TypeOK
<1>3. g' \in Groups /\ d' \in 0 .. DtapsPerPtap
  <2>1. g' = group /\ d' = 0
    BY DEF BeginGroup
  <2> QED
    BY <2>1, Bounds
<1>4. failed_substage' \in Substages /\ stage' \in Stages /\ step' \in Steps
  BY DEF BeginGroup, Substages, Stages, Steps
<1> QED
  BY <1>2, <1>3, <1>4

LEMMA StartTypes ==
  ASSUME TypeOK, Sweeping, Start
  PROVE  TypeOK' /\ Sweeping'
<1>1. /\ UNCHANGED <<board, latency, dqs_in_dtaps, orig_start_dqs>>
      /\ UNCHANGED <<edges, swept, pass>>
  BY DEF Start, BeginGroup, found
<1>2. 0 \in Groups
  BY CalibrateAssumption DEF Groups
<1>3. /\ g' \in Groups /\ d' \in 0 .. DtapsPerPtap
      /\ dq_in' \in [Groups -> [Bits -> Taps]]
      /\ dqs_out' \in [Groups -> Taps]
      /\ dq_out' \in [Groups -> [Bits -> Taps]]
      /\ failed_substage' \in Substages /\ stage' \in Stages
      /\ step' \in Steps
  BY <1>2, BeginGroupTypes DEF Start
<1>4. /\ status' \in {"reset", "success", "fail"}
      /\ mux_sel' \in {"sequencer", "controller"}
      /\ tracking' \in {"stopped", "as_configured"}
      /\ error' = NIL
  BY DEF Start
<1>5. dqs_in' \in [Groups -> Taps] /\ curr_read_lat' \in 0 .. MaxLatency + 1
  BY CalibrateAssumption DEF Start
<1>6. TypeOK'
  BY <1>1, <1>2, <1>3, <1>4, <1>5 DEF TypeOK, ErrorOK
<1>7. Sweeping'
  BY NotSweeping DEF Start, BeginGroup
<1> QED
  BY <1>6, <1>7

LEMMA GuaranteedReadTypes ==
  ASSUME TypeOK, Sweeping, GuaranteedRead
  PROVE  TypeOK' /\ Sweeping'
<1>1. /\ UNCHANGED <<board, latency, g, d, failed_substage, edges>>
      /\ UNCHANGED <<swept, dqs_in, dq_in, dqs_out, dq_out>>
      /\ UNCHANGED <<curr_read_lat, stage, error, pass, mux_sel>>
      /\ UNCHANGED <<tracking, status>>
  BY DEF GuaranteedRead, found, reads, writes, report, hand
<1>2. step' \in Steps
  BY DEF GuaranteedRead, Steps
<1>3. orig_start_dqs' \in Taps /\ dqs_in_dtaps' \in Taps
  BY DEF GuaranteedRead, TypeOK
<1>4. TypeOK'
  BY <1>1, <1>2, <1>3 DEF TypeOK
<1>5. Sweeping'
  BY NotSweeping DEF GuaranteedRead
<1> QED
  BY <1>4, <1>5

LEMMA GuaranteedReadFailsTypes ==
  ASSUME TypeOK, Sweeping, GuaranteedReadFails
  PROVE  TypeOK' /\ Sweeping'
<1>1. /\ UNCHANGED <<board, latency, g, d, dqs_in_dtaps>>
      /\ UNCHANGED <<orig_start_dqs, failed_substage, edges, swept>>
      /\ UNCHANGED <<dqs_in, dq_in, dqs_out, dq_out, curr_read_lat>>
      /\ UNCHANGED <<stage, error, pass, mux_sel, tracking, status>>
  BY DEF GuaranteedReadFails, loop, found, reads, writes, report, hand
<1>2. step' \in Steps
  BY DEF GuaranteedReadFails, Steps
<1>3. TypeOK'
  BY <1>1, <1>2 DEF TypeOK
<1>4. Sweeping'
  BY NotSweeping DEF GuaranteedReadFails
<1> QED
  BY <1>3, <1>4

LEMMA GateFoundTypes ==
  ASSUME TypeOK, Sweeping, GateFound
  PROVE  TypeOK' /\ Sweeping'
<1>1. /\ UNCHANGED <<board, latency, g, d, dqs_in_dtaps>>
      /\ UNCHANGED <<orig_start_dqs, failed_substage, edges, swept>>
      /\ UNCHANGED <<dqs_out, dq_out, curr_read_lat, stage, error>>
      /\ UNCHANGED <<pass, mux_sel, tracking, status>>
  BY DEF GateFound, loop, found, writes, report, hand
<1>2. step' \in Steps
  BY DEF GateFound, Steps
<1>3. Zeros \in [Bits -> Taps]
  BY DeskewAssumption DEF Zeros, Taps
<1>4. dqs_in' \in [Groups -> Taps] /\ dq_in' \in [Groups -> [Bits -> Taps]]
  BY <1>3 DEF GateFound, TypeOK
<1>5. TypeOK'
  BY <1>1, <1>2, <1>3, <1>4 DEF TypeOK
<1>6. Sweeping'
  BY NotSweeping DEF GateFound
<1> QED
  BY <1>5, <1>6

LEMMA GateNotFoundTypes ==
  ASSUME TypeOK, Sweeping, GateNotFound
  PROVE  TypeOK' /\ Sweeping'
<1>1. /\ UNCHANGED <<board, latency, g, d, dqs_in_dtaps>>
      /\ UNCHANGED <<orig_start_dqs, edges, swept, dqs_in, dqs_out>>
      /\ UNCHANGED <<dq_out, curr_read_lat, stage, error, pass>>
      /\ UNCHANGED <<mux_sel, tracking, status>>
  BY DEF GateNotFound, found, writes, report, hand
<1>2. step' \in Steps
  BY DEF GateNotFound, Steps
<1>3. Zeros \in [Bits -> Taps]
  BY DeskewAssumption DEF Zeros, Taps
<1>4. dq_in' \in [Groups -> [Bits -> Taps]]
  BY <1>3 DEF GateNotFound, TypeOK
<1>5. failed_substage' \in Substages
  BY DEF GateNotFound, Substages
<1>6. TypeOK'
  BY <1>1, <1>2, <1>3, <1>4, <1>5 DEF TypeOK
<1>7. Sweeping'
  BY NotSweeping DEF GateNotFound
<1> QED
  BY <1>6, <1>7

LEMMA CentreTypes ==
  ASSUME TypeOK, Sweeping, Centre
  PROVE  TypeOK' /\ Sweeping'
<1>1. /\ UNCHANGED <<board, latency, g, d, dqs_in_dtaps>>
      /\ UNCHANGED <<orig_start_dqs, failed_substage, dq_out>>
      /\ UNCHANGED <<curr_read_lat, error, pass, mux_sel, tracking>>
      /\ UNCHANGED <<status>>
  BY DEF Centre, loop, hand
<1>2. step' \in Steps
  BY DEF Centre, Steps
<1>3. dqs_in' \in [Groups -> Taps] /\ dq_in' \in [Groups -> [Bits -> Taps]]
  BY SetReadsTypes DEF Centre
<1>4. /\ edges' \in [Bits -> [left : -none .. none, right : -none .. none]]
      /\ swept' \in 0 .. 2
      /\ Sweeping'
  BY ForgetTypes DEF Centre
<1>5. dqs_out' \in [Groups -> Taps]
  BY CalibrateAssumption DEF Centre, TypeOK
<1>6. stage' \in Stages
  BY DEF Centre, Stages
<1>7. TypeOK'
  BY <1>1, <1>2, <1>3, <1>4, <1>5, <1>6 DEF TypeOK
<1>8. Sweeping'
  BY <1>4 DEF Centre
<1> QED
  BY <1>7, <1>8

LEMMA CentreNoWindowTypes ==
  ASSUME TypeOK, Sweeping, CentreNoWindow
  PROVE  TypeOK' /\ Sweeping'
<1>1. /\ UNCHANGED <<board, latency, g, d, dqs_in_dtaps>>
      /\ UNCHANGED <<orig_start_dqs, dqs_in, dq_in, dqs_out, dq_out>>
      /\ UNCHANGED <<curr_read_lat, stage, pass, mux_sel, tracking>>
      /\ UNCHANGED <<status>>
  BY DEF CentreNoWindow, reads, writes, hand
<1>2. step' \in Steps
  BY DEF CentreNoWindow, Steps
<1>3. /\ edges' \in [Bits -> [left : -none .. none, right : -none .. none]]
      /\ swept' \in 0 .. 2
      /\ Sweeping'
  BY ForgetTypes DEF CentreNoWindow
<1>4. BitOf \in Named
  BY BitOfNamed DEF CentreNoWindow
<1>5. "vfifo" \in Stages /\ "vfifo_center" \in Substages
  BY DEF Stages, Substages
<1>6. ErrorOK'
  BY <1>4, <1>5, SetFailingTypes DEF CentreNoWindow
<1>7. failed_substage' \in Substages
  BY DEF CentreNoWindow, Substages
<1>8. TypeOK'
  BY <1>1, <1>2, <1>3, <1>4, <1>5, <1>6, <1>7 DEF TypeOK, ErrorOK
<1>9. Sweeping'
  BY <1>3 DEF CentreNoWindow
<1> QED
  BY <1>8, <1>9

LEMMA CentreNoMarginTypes ==
  ASSUME TypeOK, Sweeping, CentreNoMargin
  PROVE  TypeOK' /\ Sweeping'
<1>1. /\ UNCHANGED <<board, latency, g, d, dqs_in_dtaps>>
      /\ UNCHANGED <<orig_start_dqs, dqs_out, dq_out, curr_read_lat>>
      /\ UNCHANGED <<stage, error, pass, mux_sel, tracking, status>>
  BY DEF CentreNoMargin, writes, report, hand
<1>2. step' \in Steps
  BY DEF CentreNoMargin, Steps
<1>3. dqs_in' \in [Groups -> Taps] /\ dq_in' \in [Groups -> [Bits -> Taps]]
  BY SetReadsTypes DEF CentreNoMargin
<1>4. /\ edges' \in [Bits -> [left : -none .. none, right : -none .. none]]
      /\ swept' \in 0 .. 2
      /\ Sweeping'
  BY ForgetTypes DEF CentreNoMargin
<1>5. failed_substage' \in Substages
  BY DEF CentreNoMargin, Substages
<1>6. TypeOK'
  BY <1>1, <1>2, <1>3, <1>4, <1>5 DEF TypeOK
<1>7. Sweeping'
  BY <1>4 DEF CentreNoMargin
<1> QED
  BY <1>6, <1>7

LEMMA NextTapTypes ==
  ASSUME TypeOK, Sweeping, NextTap
  PROVE  TypeOK' /\ Sweeping'
<1>1. /\ UNCHANGED <<board, latency, g, d, orig_start_dqs>>
      /\ UNCHANGED <<failed_substage, edges, swept, dq_in, dqs_out>>
      /\ UNCHANGED <<dq_out, curr_read_lat, stage, error, pass>>
      /\ UNCHANGED <<mux_sel, tracking, status>>
  BY DEF NextTap, found, writes, report, hand
<1>2. step' \in Steps
  BY DEF NextTap, Steps
<1>3. dqs_in_dtaps < DELAY_MAX => dqs_in_dtaps + 1 \in Taps
  BY Ranges, Bounds DEF Taps
<1>4. dqs_in_dtaps' \in Taps /\ dqs_in' \in [Groups -> Taps]
  BY <1>3 DEF NextTap, TypeOK
<1>5. TypeOK'
  BY <1>1, <1>2, <1>3, <1>4 DEF TypeOK
<1>6. Sweeping'
  BY NotSweeping DEF NextTap
<1> QED
  BY <1>5, <1>6

LEMMA NextDelayTypes ==
  ASSUME TypeOK, Sweeping, NextDelay
  PROVE  TypeOK' /\ Sweeping'
<1>1. /\ UNCHANGED <<board, latency, g, dqs_in_dtaps, orig_start_dqs>>
      /\ UNCHANGED <<failed_substage, edges, swept, dqs_in, dq_in>>
      /\ UNCHANGED <<dq_out, curr_read_lat, stage, error, pass>>
      /\ UNCHANGED <<mux_sel, tracking, status>>
  BY DEF NextDelay, found, reads, report, hand
<1>2. step' \in Steps
  BY DEF NextDelay, Steps
<1>3. d + 2 \in 0 .. DtapsPerPtap /\ d + 2 \in Taps
  <2>1. d + 2 <= DtapsPerPtap
    BY DEF NextDelay
  <2> QED
    BY <2>1, Ranges, Bounds DEF Taps
<1>4. d' \in 0 .. DtapsPerPtap /\ dqs_out' \in [Groups -> Taps]
  BY <1>3 DEF NextDelay, TypeOK
<1>5. TypeOK'
  BY <1>1, <1>2, <1>3, <1>4 DEF TypeOK
<1>6. Sweeping'
  BY NotSweeping DEF NextDelay
<1> QED
  BY <1>5, <1>6

LEMMA GiveUpTypes ==
  ASSUME TypeOK, Sweeping, GiveUp
  PROVE  TypeOK' /\ Sweeping'
<1>1. /\ UNCHANGED <<board, latency, g, d, dqs_in_dtaps>>
      /\ UNCHANGED <<orig_start_dqs, failed_substage, dqs_in, dq_in>>
      /\ UNCHANGED <<dqs_out, dq_out, curr_read_lat, stage, mux_sel>>
      /\ UNCHANGED <<tracking, status>>
  BY DEF GiveUp, Fail, loop, reads, writes, hand
<1>2. g \in Groups /\ 0 \in Bits /\ failed_substage \in Substages
  BY Ranges, Bounds
<1>3. g \in Named \cup {AllGroups}
  BY <1>2, BitNamed
<1>4. /\ ErrorOK' /\ pass' \in BOOLEAN /\ step' \in Steps
      /\ edges' \in [Bits -> [left : -none .. none, right : -none .. none]]
      /\ swept' \in 0 .. 2
      /\ Sweeping'
  BY FailTypes, <1>2, <1>3 DEF GiveUp
<1>5. TypeOK'
  BY <1>1, <1>2, <1>3, <1>4 DEF TypeOK, ErrorOK
<1>6. Sweeping'
  BY <1>4 DEF GiveUp, Fail
<1> QED
  BY <1>5, <1>6

LEMMA CentreWritesTypes ==
  ASSUME TypeOK, Sweeping, CentreWrites
  PROVE  TypeOK' /\ Sweeping'
<1>1. /\ UNCHANGED <<board, latency, g, d, dqs_in_dtaps>>
      /\ UNCHANGED <<orig_start_dqs, failed_substage, dqs_in, dq_in>>
      /\ UNCHANGED <<curr_read_lat, error, pass, mux_sel, tracking>>
      /\ UNCHANGED <<status>>
  BY DEF CentreWrites, loop, reads, hand
<1>2. step' \in Steps
  BY DEF CentreWrites, Steps
<1>3. dqs_out' \in [Groups -> Taps] /\ dq_out' \in [Groups -> [Bits -> Taps]]
  BY SetWritesTypes DEF CentreWrites
<1>4. /\ edges' \in [Bits -> [left : -none .. none, right : -none .. none]]
      /\ swept' \in 0 .. 2
      /\ Sweeping'
  BY ForgetTypes DEF CentreWrites
<1>5. stage' \in Stages
  BY DEF CentreWrites, Stages
<1>6. TypeOK'
  BY <1>1, <1>2, <1>3, <1>4, <1>5 DEF TypeOK
<1>7. Sweeping'
  BY <1>4 DEF CentreWrites
<1> QED
  BY <1>6, <1>7

LEMMA WritesNoWindowTypes ==
  ASSUME TypeOK, Sweeping, WritesNoWindow
  PROVE  TypeOK' /\ Sweeping'
<1>1. /\ UNCHANGED <<board, latency, g, d, dqs_in_dtaps>>
      /\ UNCHANGED <<orig_start_dqs, failed_substage, dqs_in, dq_in>>
      /\ UNCHANGED <<dq_out, curr_read_lat, stage, mux_sel>>
      /\ UNCHANGED <<tracking, status>>
  BY DEF WritesNoWindow, Fail, loop, reads, hand
<1>2. dqs_out' \in [Groups -> Taps]
  <2>1. PICK tap \in dqs_out[g] .. DELAY_MAX :
          dqs_out' = [dqs_out EXCEPT ![g] = tap]
    BY DEF WritesNoWindow
  <2>2. tap \in Taps
    <3>1. dqs_out[g] \in Taps
      BY Ranges DEF TypeOK
    <3> QED
      BY <3>1, DeskewAssumption DEF Taps
  <2> QED
    BY <2>1, <2>2 DEF TypeOK
<1>3. BitOf \in Named
  BY BitOfNamed DEF WritesNoWindow
<1>4. "writes_center" \in Substages
  BY DEF Substages
<1>5. /\ ErrorOK' /\ pass' \in BOOLEAN /\ step' \in Steps
      /\ edges' \in [Bits -> [left : -none .. none, right : -none .. none]]
      /\ swept' \in 0 .. 2
      /\ Sweeping'
  BY FailTypes, <1>3, <1>4 DEF WritesNoWindow
<1>6. TypeOK'
  BY <1>2, <1>1, <1>5 DEF TypeOK, ErrorOK
<1>7. Sweeping'
  BY <1>5 DEF WritesNoWindow, Fail
<1> QED
  BY <1>6, <1>7

LEMMA EndNoWindowTypes ==
  ASSUME TypeOK, Sweeping, EndNoWindow
  PROVE  TypeOK' /\ Sweeping'
<1>1. /\ UNCHANGED <<board, latency, g, d, dqs_in_dtaps>>
      /\ UNCHANGED <<orig_start_dqs, failed_substage, dqs_in, dq_in>>
      /\ UNCHANGED <<dqs_out, dq_out, curr_read_lat, stage, mux_sel>>
      /\ UNCHANGED <<tracking, status>>
  BY DEF EndNoWindow, Fail, loop, reads, writes, hand
<1>2. BitOf \in Named
  BY BitOfNamed DEF EndNoWindow
<1>3. "vfifo_center" \in Substages
  BY DEF Substages
<1>4. /\ ErrorOK' /\ pass' \in BOOLEAN /\ step' \in Steps
      /\ edges' \in [Bits -> [left : -none .. none, right : -none .. none]]
      /\ swept' \in 0 .. 2
      /\ Sweeping'
  BY FailTypes, <1>2, <1>3 DEF EndNoWindow
<1>5. TypeOK'
  BY <1>1, <1>2, <1>3, <1>4 DEF TypeOK, ErrorOK
<1>6. Sweeping'
  BY <1>4 DEF EndNoWindow, Fail
<1> QED
  BY <1>5, <1>6

LEMMA WritesNoMarginTypes ==
  ASSUME TypeOK, Sweeping, WritesNoMargin
  PROVE  TypeOK' /\ Sweeping'
<1>1. /\ UNCHANGED <<board, latency, g, d, dqs_in_dtaps>>
      /\ UNCHANGED <<orig_start_dqs, failed_substage, dqs_in, dq_in>>
      /\ UNCHANGED <<curr_read_lat, stage, mux_sel, tracking, status>>
  BY DEF WritesNoMargin, Fail, loop, reads, hand
<1>2. g \in Groups /\ 0 \in Bits /\ "writes_center" \in Substages
  BY Ranges, Bounds DEF Substages
<1>3. g \in Named \cup {AllGroups}
  BY <1>2, BitNamed
<1>4. /\ ErrorOK' /\ pass' \in BOOLEAN /\ step' \in Steps
      /\ edges' \in [Bits -> [left : -none .. none, right : -none .. none]]
      /\ swept' \in 0 .. 2
      /\ Sweeping'
  BY FailTypes, <1>2, <1>3 DEF WritesNoMargin
<1>5. dqs_out' \in [Groups -> Taps] /\ dq_out' \in [Groups -> [Bits -> Taps]]
  BY SetWritesTypes DEF WritesNoMargin
<1>6. TypeOK'
  BY <1>1, <1>2, <1>3, <1>4, <1>5 DEF TypeOK, ErrorOK
<1>7. Sweeping'
  BY <1>4 DEF WritesNoMargin, Fail
<1> QED
  BY <1>6, <1>7

LEMMA EndNoMarginTypes ==
  ASSUME TypeOK, Sweeping, EndNoMargin
  PROVE  TypeOK' /\ Sweeping'
<1>1. /\ UNCHANGED <<board, latency, g, d, dqs_in_dtaps>>
      /\ UNCHANGED <<orig_start_dqs, failed_substage, dqs_out, dq_out>>
      /\ UNCHANGED <<curr_read_lat, stage, mux_sel, tracking, status>>
  BY DEF EndNoMargin, Fail, loop, writes, hand
<1>2. g \in Groups /\ 0 \in Bits /\ "vfifo_center" \in Substages
  BY Ranges, Bounds DEF Substages
<1>3. g \in Named \cup {AllGroups}
  BY <1>2, BitNamed
<1>4. /\ ErrorOK' /\ pass' \in BOOLEAN /\ step' \in Steps
      /\ edges' \in [Bits -> [left : -none .. none, right : -none .. none]]
      /\ swept' \in 0 .. 2
      /\ Sweeping'
  BY FailTypes, <1>2, <1>3 DEF EndNoMargin
<1>5. dqs_in' \in [Groups -> Taps] /\ dq_in' \in [Groups -> [Bits -> Taps]]
  BY SetReadsTypes DEF EndNoMargin
<1>6. TypeOK'
  BY <1>1, <1>2, <1>3, <1>4, <1>5 DEF TypeOK, ErrorOK
<1>7. Sweeping'
  BY <1>4 DEF EndNoMargin, Fail
<1> QED
  BY <1>6, <1>7

LEMMA CentreEndTypes ==
  ASSUME TypeOK, Sweeping, CentreEnd
  PROVE  TypeOK' /\ Sweeping'
<1>1. /\ UNCHANGED <<board, latency, g, d, dqs_in_dtaps>>
      /\ UNCHANGED <<orig_start_dqs, failed_substage, dqs_out, dq_out>>
      /\ UNCHANGED <<curr_read_lat, stage, error, pass, mux_sel>>
      /\ UNCHANGED <<tracking, status>>
  BY DEF CentreEnd, loop, writes, report, hand
<1>2. step' \in Steps
  BY DEF CentreEnd, Steps
<1>3. dqs_in' \in [Groups -> Taps] /\ dq_in' \in [Groups -> [Bits -> Taps]]
  BY SetReadsTypes DEF CentreEnd
<1>4. /\ edges' \in [Bits -> [left : -none .. none, right : -none .. none]]
      /\ swept' \in 0 .. 2
      /\ Sweeping'
  BY ForgetTypes DEF CentreEnd
<1>5. TypeOK'
  BY <1>1, <1>2, <1>3, <1>4 DEF TypeOK
<1>6. Sweeping'
  BY <1>4 DEF CentreEnd
<1> QED
  BY <1>5, <1>6

LEMMA NextGroupTypes ==
  ASSUME TypeOK, Sweeping, NextGroup
  PROVE  TypeOK' /\ Sweeping'
<1>1. /\ UNCHANGED <<board, latency, dqs_in_dtaps, orig_start_dqs>>
      /\ UNCHANGED <<edges, swept, dqs_in, curr_read_lat, error, pass>>
      /\ UNCHANGED <<mux_sel, tracking, status>>
  BY DEF NextGroup, BeginGroup, found, hand
<1>2. /\ g' \in Groups /\ d' \in 0 .. DtapsPerPtap
      /\ dq_in' \in [Groups -> [Bits -> Taps]]
      /\ dqs_out' \in [Groups -> Taps]
      /\ dq_out' \in [Groups -> [Bits -> Taps]]
      /\ failed_substage' \in Substages /\ stage' \in Stages
      /\ step' \in Steps
  BY BeginGroupTypes DEF NextGroup
<1>3. TypeOK'
  BY <1>1, <1>2 DEF TypeOK
<1>4. Sweeping'
  BY NotSweeping DEF NextGroup, BeginGroup
<1> QED
  BY <1>3, <1>4

LEMMA BeginLfifoTypes ==
  ASSUME TypeOK, Sweeping, BeginLfifo
  PROVE  TypeOK' /\ Sweeping'
<1>1. /\ UNCHANGED <<board, g, d, dqs_in_dtaps, orig_start_dqs>>
      /\ UNCHANGED <<failed_substage, edges, swept, dqs_in, dq_in>>
      /\ UNCHANGED <<dqs_out, dq_out, curr_read_lat, error, pass>>
      /\ UNCHANGED <<mux_sel, tracking, status>>
  BY DEF BeginLfifo, loop, found, reads, writes, hand
<1>2. step' \in Steps
  BY DEF BeginLfifo, Steps
<1>3. stage' \in Stages /\ latency' \in Nat
  BY CalibrateAssumption DEF BeginLfifo, Stages
<1>4. TypeOK'
  BY <1>1, <1>2, <1>3 DEF TypeOK
<1>5. Sweeping'
  BY NotSweeping DEF BeginLfifo
<1> QED
  BY <1>4, <1>5

LEMMA LfifoPassesTypes ==
  ASSUME TypeOK, Sweeping, LfifoPasses
  PROVE  TypeOK' /\ Sweeping'
<1>1. /\ UNCHANGED <<board, latency, step, g, d, dqs_in_dtaps>>
      /\ UNCHANGED <<orig_start_dqs, failed_substage, edges, swept>>
      /\ UNCHANGED <<dqs_in, dq_in, dqs_out, dq_out, stage, error>>
      /\ UNCHANGED <<pass, mux_sel, tracking, status>>
  BY DEF LfifoPasses, loop, found, reads, writes, report, hand
<1>2. curr_read_lat' \in 0 .. MaxLatency + 1
  BY Ranges, Bounds DEF LfifoPasses
<1>3. TypeOK'
  BY <1>1, <1>2 DEF TypeOK
<1>4. Sweeping'
  BY NotSweeping DEF LfifoPasses
<1> QED
  BY <1>3, <1>4

LEMMA LfifoFoundTypes ==
  ASSUME TypeOK, Sweeping, LfifoFound
  PROVE  TypeOK' /\ Sweeping'
<1>1. /\ UNCHANGED <<board, latency, g, d, dqs_in_dtaps>>
      /\ UNCHANGED <<orig_start_dqs, failed_substage, edges, swept>>
      /\ UNCHANGED <<dqs_in, dq_in, dqs_out, dq_out, stage, error>>
      /\ UNCHANGED <<mux_sel, tracking, status>>
  BY DEF LfifoFound, loop, found, reads, writes, report, hand
<1>2. step' \in Steps
  BY DEF LfifoFound, Steps
<1>3. curr_read_lat' \in 0 .. MaxLatency + 1
  <2>1. curr_read_lat < MaxLatency /\ curr_read_lat' = curr_read_lat + 2
    BY DEF LfifoFound
  <2> QED
    BY <2>1, Ranges, Bounds
<1>4. pass' \in BOOLEAN
  BY Zenon DEF LfifoFound
<1>5. TypeOK'
  BY <1>1, <1>2, <1>3, <1>4 DEF TypeOK
<1>6. Sweeping'
  BY NotSweeping DEF LfifoFound
<1> QED
  BY <1>5, <1>6

LEMMA LfifoFailsTypes ==
  ASSUME TypeOK, Sweeping, LfifoFails
  PROVE  TypeOK' /\ Sweeping'
<1>1. /\ UNCHANGED <<board, latency, g, d, dqs_in_dtaps>>
      /\ UNCHANGED <<orig_start_dqs, failed_substage, dqs_in, dq_in>>
      /\ UNCHANGED <<dqs_out, dq_out, curr_read_lat, stage, mux_sel>>
      /\ UNCHANGED <<tracking, status>>
  BY DEF LfifoFails, Fail, loop, reads, writes, hand
<1>2. "read_latency" \in Substages
  BY DEF Substages
<1>3. /\ ErrorOK' /\ pass' \in BOOLEAN /\ step' \in Steps
      /\ edges' \in [Bits -> [left : -none .. none, right : -none .. none]]
      /\ swept' \in 0 .. 2
      /\ Sweeping'
  BY FailTypes, <1>2 DEF LfifoFails
<1>4. TypeOK'
  BY <1>1, <1>2, <1>3 DEF TypeOK, ErrorOK
<1>5. Sweeping'
  BY <1>3 DEF LfifoFails, Fail
<1> QED
  BY <1>4, <1>5

LEMMA HandOverTypes ==
  ASSUME TypeOK, Sweeping, HandOver
  PROVE  TypeOK' /\ Sweeping'
<1>1. /\ UNCHANGED <<board, latency, g, d, dqs_in_dtaps>>
      /\ UNCHANGED <<orig_start_dqs, failed_substage, edges, swept>>
      /\ UNCHANGED <<dqs_in, dq_in, dqs_out, dq_out, curr_read_lat>>
      /\ UNCHANGED <<stage, error, pass, tracking, status>>
  BY DEF HandOver, loop, found, reads, writes, report
<1>2. step' \in Steps
  BY DEF HandOver, Steps
<1>3. mux_sel' \in {"sequencer", "controller"}
  BY DEF HandOver
<1>4. TypeOK'
  BY <1>1, <1>2, <1>3 DEF TypeOK
<1>5. Sweeping'
  BY NotSweeping DEF HandOver
<1> QED
  BY <1>4, <1>5

LEMMA RestoreConfigTypes ==
  ASSUME TypeOK, Sweeping, RestoreConfig
  PROVE  TypeOK' /\ Sweeping'
<1>1. /\ UNCHANGED <<board, latency, g, d, dqs_in_dtaps>>
      /\ UNCHANGED <<orig_start_dqs, failed_substage, edges, swept>>
      /\ UNCHANGED <<dqs_in, dq_in, dqs_out, dq_out, curr_read_lat>>
      /\ UNCHANGED <<stage, error, pass, mux_sel, status>>
  BY DEF RestoreConfig, loop, found, reads, writes, report
<1>2. step' \in Steps
  BY DEF RestoreConfig, Steps
<1>3. tracking' \in {"stopped", "as_configured"}
  BY DEF RestoreConfig
<1>4. TypeOK'
  BY <1>1, <1>2, <1>3 DEF TypeOK
<1>5. Sweeping'
  BY NotSweeping DEF RestoreConfig
<1> QED
  BY <1>4, <1>5

LEMMA ReportTypes ==
  ASSUME TypeOK, Sweeping, Report
  PROVE  TypeOK' /\ Sweeping'
<1>1. /\ UNCHANGED <<board, latency, g, d, dqs_in_dtaps>>
      /\ UNCHANGED <<orig_start_dqs, failed_substage, edges, swept>>
      /\ UNCHANGED <<dqs_in, dq_in, dqs_out, dq_out, curr_read_lat>>
      /\ UNCHANGED <<stage, error, pass, mux_sel, tracking>>
  BY DEF Report, loop, found, reads, writes, report
<1>2. step' \in Steps
  BY DEF Report, Steps
<1>3. status' \in {"reset", "success", "fail"}
  BY Zenon DEF Report
<1>4. TypeOK'
  BY <1>1, <1>2, <1>3 DEF TypeOK
<1>5. Sweeping'
  BY NotSweeping DEF Report
<1> QED
  BY <1>4, <1>5

LEMMA StepTypes ==
  ASSUME TypeOK, Sweeping, [Next]_vars
  PROVE  TypeOK' /\ Sweeping'
<1>1. CASE Start
  BY <1>1, StartTypes
<1>2. CASE SweepLeft
  BY <1>2, SweepLeftTypes
<1>3. CASE SweepRight
  BY <1>3, SweepRightTypes
<1>4. CASE GuaranteedRead
  BY <1>4, GuaranteedReadTypes
<1>5. CASE GuaranteedReadFails
  BY <1>5, GuaranteedReadFailsTypes
<1>6. CASE GateFound
  BY <1>6, GateFoundTypes
<1>7. CASE GateNotFound
  BY <1>7, GateNotFoundTypes
<1>8. CASE Centre
  BY <1>8, CentreTypes
<1>9. CASE CentreNoWindow
  BY <1>9, CentreNoWindowTypes
<1>10. CASE CentreNoMargin
  BY <1>10, CentreNoMarginTypes
<1>11. CASE NextTap
  BY <1>11, NextTapTypes
<1>12. CASE NextDelay
  BY <1>12, NextDelayTypes
<1>13. CASE GiveUp
  BY <1>13, GiveUpTypes
<1>14. CASE CentreWrites
  BY <1>14, CentreWritesTypes
<1>15. CASE WritesNoWindow
  BY <1>15, WritesNoWindowTypes
<1>16. CASE WritesNoMargin
  BY <1>16, WritesNoMarginTypes
<1>17. CASE CentreEnd
  BY <1>17, CentreEndTypes
<1>18. CASE EndNoWindow
  BY <1>18, EndNoWindowTypes
<1>19. CASE EndNoMargin
  BY <1>19, EndNoMarginTypes
<1>20. CASE NextGroup
  BY <1>20, NextGroupTypes
<1>21. CASE BeginLfifo
  BY <1>21, BeginLfifoTypes
<1>22. CASE LfifoPasses
  BY <1>22, LfifoPassesTypes
<1>23. CASE LfifoFound
  BY <1>23, LfifoFoundTypes
<1>24. CASE LfifoFails
  BY <1>24, LfifoFailsTypes
<1>25. CASE HandOver
  BY <1>25, HandOverTypes
<1>26. CASE RestoreConfig
  BY <1>26, RestoreConfigTypes
<1>27. CASE Report
  BY <1>27, ReportTypes
<1>28. CASE UNCHANGED vars
  <2>1. UNCHANGED <<board, latency, step, loop, found, reads, writes,
                    curr_read_lat, report, pass, hand>>
    BY <1>28 DEF vars
  <2>2. TypeOK'
    BY <2>1 DEF loop, found, reads, writes, report, hand, TypeOK
  <2>3. Sweeping'
    BY <2>1 DEF loop, found, reads, writes, Sweeping, Windowed, Strobe
  <2> QED
    BY <2>2, <2>3
<1> QED
  BY <1>1, <1>2, <1>3, <1>4, <1>5, <1>6, <1>7, <1>8,
     <1>9, <1>10, <1>11, <1>12, <1>13, <1>14, <1>15, <1>16,
     <1>17, <1>18, <1>19, <1>20, <1>21, <1>22, <1>23, <1>24,
     <1>25, <1>26, <1>27, <1>28
     DEF Next, CalibrateReads, CalibrateWrites, CalibrateEnd, CalibrateLfifo,
         Finish

\* Types hold, and the settings of the sweeps are those of their steps.
THEOREM Types == Spec => [](TypeOK /\ Sweeping)
<1>1. Init => TypeOK /\ Sweeping
  BY InitTypes
<1>2. TypeOK /\ Sweeping /\ [Next]_vars => (TypeOK /\ Sweeping)'
  BY StepTypes
<1> QED
  BY <1>1, <1>2, PTL DEF Spec

(***************************************************************************)
(* Whatever the board, only taps that exist are set (5275-5345,            *)
(* 7612-7745), and a failure names a group or a bit there is.              *)
(***************************************************************************)
THEOREM TypeCorrect == Spec => []TypeOK
BY Types, PTL

-----------------------------------------------------------------------------
(* A successful calibration.                                               *)

Ends == {"hand_over", "restore", "report", "done"}

\* Only a calibration at its end has passed.
Passing ==
  /\ pass = TRUE => step \in Ends
  /\ status # "reset" => step = "done"
  /\ status = "success" => pass = TRUE
  /\ status = "fail" => pass # TRUE

LEMMA InitPassing ==
  ASSUME Init
  PROVE  Passing
<1>1. pass = FALSE
  BY Zenon DEF Init
<1>2. status = "reset"
  BY DEF Init
<1> QED
  BY <1>1, <1>2 DEF Passing

\* A step before the end leaves pass alone.
LEMMA StillRunning ==
  ASSUME Passing, step \notin Ends, UNCHANGED <<pass, status>>
  PROVE  Passing'
BY DEF Passing, Ends

LEMMA StillSame ==
  ASSUME Passing, UNCHANGED <<step, pass, status>>
  PROVE  Passing'
BY DEF Passing

LEMMA Failing ==
  ASSUME Passing, step \notin Ends, NEW group, NEW substage,
         Fail(group, substage)
  PROVE  Passing' /\ pass' = FALSE /\ step' = "hand_over"
<1>1. pass' = FALSE /\ step' = "hand_over" /\ status' = status
  BY DEF Fail, hand
<1>2. status = "reset"
  BY DEF Passing, Ends
<1> QED
  BY <1>1, <1>2 DEF Passing, Ends

LEMMA StepPassing ==
  ASSUME TypeOK, Passing, [Next]_vars
  PROVE  Passing'
<1>1. CASE Start
  <2>1. step = "start" /\ pass' = pass /\ status' = "reset"
    BY <1>1 DEF Start
  <2> QED
    BY <2>1 DEF Passing, Ends
<1>2. CASE SweepLeft
  BY <1>2, StillRunning DEF SweepLeft, Ends, hand
<1>3. CASE SweepRight
  BY <1>3, StillSame DEF SweepRight, hand
<1>4. CASE GuaranteedRead
  BY <1>4, StillRunning DEF GuaranteedRead, Ends, hand
<1>5. CASE GuaranteedReadFails
  BY <1>5, StillRunning DEF GuaranteedReadFails, Ends, hand
<1>6. CASE GateFound
  BY <1>6, StillRunning DEF GateFound, Ends, hand
<1>7. CASE GateNotFound
  BY <1>7, StillRunning DEF GateNotFound, Ends, hand
<1>8. CASE Centre
  BY <1>8, StillRunning DEF Centre, Swept, Ends, hand
<1>9. CASE CentreNoWindow
  BY <1>9, StillRunning DEF CentreNoWindow, Swept, Ends, hand
<1>10. CASE CentreNoMargin
  BY <1>10, StillRunning DEF CentreNoMargin, Swept, Ends, hand
<1>11. CASE NextTap
  BY <1>11, StillRunning DEF NextTap, Ends, hand
<1>12. CASE NextDelay
  BY <1>12, StillRunning DEF NextDelay, Ends, hand
<1>13. CASE GiveUp
  BY <1>13, Failing DEF GiveUp, Swept, Ends
<1>14. CASE CentreWrites
  BY <1>14, StillRunning DEF CentreWrites, Swept, Ends, hand
<1>15. CASE WritesNoWindow
  BY <1>15, Failing DEF WritesNoWindow, Swept, Ends
<1>16. CASE WritesNoMargin
  BY <1>16, Failing DEF WritesNoMargin, Swept, Ends
<1>17. CASE CentreEnd
  BY <1>17, StillRunning DEF CentreEnd, Swept, Ends, hand
<1>18. CASE EndNoWindow
  BY <1>18, Failing DEF EndNoWindow, Swept, Ends
<1>19. CASE EndNoMargin
  BY <1>19, Failing DEF EndNoMargin, Swept, Ends
<1>20. CASE NextGroup
  BY <1>20, StillRunning DEF NextGroup, Ends, hand
<1>21. CASE BeginLfifo
  BY <1>21, StillRunning DEF BeginLfifo, Ends, hand
<1>22. CASE LfifoPasses
  BY <1>22, StillRunning DEF LfifoPasses, Ends, hand
<1>23. CASE LfifoFound
  <2>1. step = "lfifo" /\ step' = "hand_over" /\ status' = status
    BY <1>23 DEF LfifoFound, hand
  <2> QED
    BY <2>1 DEF Passing, Ends
<1>24. CASE LfifoFails
  BY <1>24, Failing DEF LfifoFails, Swept, Ends
<1>25. CASE HandOver
  <2>1. step # "done" /\ step' \in Ends /\ UNCHANGED <<pass, status>>
    BY <1>25 DEF HandOver, Ends
  <2> QED
    BY <2>1 DEF Passing
<1>26. CASE RestoreConfig
  <2>1. step # "done" /\ step' \in Ends /\ UNCHANGED <<pass, status>>
    BY <1>26 DEF RestoreConfig, Ends
  <2> QED
    BY <2>1 DEF Passing
<1>27. CASE Report
  <2>1. step' = "done" /\ pass' = pass
    BY <1>27 DEF Report
  <2>2. /\ status' = "success" => pass = TRUE
        /\ status' = "fail" => pass # TRUE
    BY <1>27, Zenon DEF Report, TypeOK
  <2> QED
    BY <2>1, <2>2 DEF Passing, Ends
<1>28. CASE UNCHANGED vars
  BY <1>28, StillSame DEF vars, hand
<1> QED
  BY <1>1, <1>2, <1>3, <1>4, <1>5, <1>6, <1>7, <1>8,
     <1>9, <1>10, <1>11, <1>12, <1>13, <1>14, <1>15, <1>16,
     <1>17, <1>18, <1>19, <1>20, <1>21, <1>22, <1>23, <1>24,
     <1>25, <1>26, <1>27, <1>28
     DEF Next, CalibrateReads, CalibrateWrites, CalibrateEnd, CalibrateLfifo,
         Finish

GroupRight(group) ==
  /\ Right(board[group].read, dqs_in[group], dq_in[group])
  /\ Right(board[group].write, dqs_out[group], dq_out[group])

(***************************************************************************)
(* The groups that are done are right, and stay so: the trials of a group  *)
(* set its own registers only.                                             *)
(***************************************************************************)
Settled ==
  /\ \A group \in Groups : group < g => GroupRight(group)
  /\ step \in {"end", "next_group"} =>
       Right(board[g].write, dqs_out[g], dq_out[g])
  /\ step = "next_group" => Right(board[g].read, dqs_in[g], dq_in[g])
  /\ step = "lfifo" \/ pass = TRUE => \A group \in Groups : GroupRight(group)

LEMMA InitSettled ==
  ASSUME Init
  PROVE  Settled
<1>1. g = 0 /\ step = "start" /\ pass = FALSE
  BY Zenon DEF Init
<1>2. \A group \in Groups : ~ (group < 0)
  BY CalibrateAssumption DEF Groups
<1> QED
  BY <1>1, <1>2 DEF Settled

\* Steps that set no register.
LEMMA RegistersKept ==
  ASSUME Settled, UNCHANGED <<board, g, dqs_in, dq_in, dqs_out, dq_out>>,
         step' = step \/ step' \notin {"end", "next_group", "lfifo"},
         pass' = TRUE => pass = TRUE \/ step = "lfifo"
  PROVE  Settled'
<1>1. \A group : GroupRight(group)' = GroupRight(group)
  BY DEF GroupRight
<1> QED
  BY <1>1 DEF Settled

\* Steps that set registers of the group, and leave those of the others.
OnlyGroup ==
  \A group \in Groups : group # g =>
    /\ dqs_in'[group] = dqs_in[group] /\ dq_in'[group] = dq_in[group]
    /\ dqs_out'[group] = dqs_out[group] /\ dq_out'[group] = dq_out[group]

LEMMA OthersKept ==
  ASSUME TypeOK, Settled, UNCHANGED <<board, g>>, OnlyGroup
  PROVE  \A group \in Groups : group < g' => GroupRight(group)'
<1>1. \A group \in Groups : group < g => group # g
  BY Ranges, CalibrateAssumption DEF Groups
<1> QED
  BY <1>1 DEF Settled, OnlyGroup, GroupRight

\* A trial is no end of the group.
LEMMA TrialSettled ==
  ASSUME TypeOK, Settled, Passing, UNCHANGED <<board, g>>, OnlyGroup,
         step \notin Ends, pass' = TRUE => pass = TRUE,
         step' \notin {"end", "next_group", "lfifo"}
  PROVE  Settled'
<1>1. pass' # TRUE
  BY DEF Passing
<1> QED
  BY <1>1, OthersKept DEF Settled

\* What a deskew sets is right when the margins are.
LEMMA ReadsRight ==
  ASSUME TypeOK, Sweeping, swept = 2, step # "writes",
         Edgeless(edges) = {}, Margins(edges, dqs_in[g], TRUE), SetReads
  PROVE  Right(board[g].read, dqs_in'[g], dq_in'[g])
<1>1. g \in Groups /\ board[g].read \in Windows /\ dqs_in[g] \in Taps
        /\ edges \in EdgeSets
  BY BoardIs DEF TypeOK, EdgeSets
<1>2. Sound(edges, board[g].read, dqs_in[g])
  BY DEF Sweeping, Windowed, Strobe
<1>3. /\ dqs_in'[g] = NewDqs(edges, dqs_in[g], TRUE)
      /\ dq_in'[g] = [b \in Bits |-> NewDq(edges, dqs_in[g], TRUE, b)]
  BY <1>1 DEF SetReads, TypeOK
<1> QED
  BY <1>1, <1>2, <1>3, MarginsSuffice

LEMMA WritesRight ==
  ASSUME TypeOK, Sweeping, swept = 2, step = "writes",
         Edgeless(edges) = {}, Margins(edges, dqs_out[g], FALSE), SetWrites
  PROVE  Right(board[g].write, dqs_out'[g], dq_out'[g])
<1>1. g \in Groups /\ board[g].write \in Windows /\ dqs_out[g] \in Taps
        /\ edges \in EdgeSets
  BY BoardIs DEF TypeOK, EdgeSets
<1>2. Sound(edges, board[g].write, dqs_out[g])
  BY DEF Sweeping, Windowed, Strobe
<1>3. /\ dqs_out'[g] = NewDqs(edges, dqs_out[g], FALSE)
      /\ dq_out'[g] = [b \in Bits |-> NewDq(edges, dqs_out[g], FALSE, b)]
  BY <1>1 DEF SetWrites, TypeOK
<1> QED
  BY <1>1, <1>2, <1>3, MarginsSuffice

LEMMA SetReadsOnly ==
  ASSUME TypeOK, SetReads, UNCHANGED writes
  PROVE  OnlyGroup
BY DEF TypeOK, SetReads, OnlyGroup, writes

LEMMA SetWritesOnly ==
  ASSUME TypeOK, SetWrites, UNCHANGED reads
  PROVE  OnlyGroup
BY DEF TypeOK, SetWrites, OnlyGroup, reads

LEMMA CentreWritesSettled ==
  ASSUME TypeOK, Sweeping, Passing, Settled, CentreWrites
  PROVE  Settled'
<1>1. /\ UNCHANGED <<board, g, pass>> /\ UNCHANGED reads
      /\ step = "writes" /\ step' = "end" /\ swept = 2
      /\ SetWrites /\ Edgeless(edges) = {} /\ Margins(edges, dqs_out[g], FALSE)
  BY DEF CentreWrites, Swept, loop
<1>2. Right(board[g].write, dqs_out'[g], dq_out'[g])
  BY <1>1, WritesRight
<1>3. \A group \in Groups : group < g' => GroupRight(group)'
  BY <1>1, SetWritesOnly, OthersKept
<1>4. pass' # TRUE
  BY <1>1 DEF Passing, Ends
<1> QED
  BY <1>1, <1>2, <1>3, <1>4 DEF Settled

LEMMA CentreEndSettled ==
  ASSUME TypeOK, Sweeping, Passing, Settled, CentreEnd
  PROVE  Settled'
<1>1. /\ UNCHANGED <<board, g, pass, dqs_out, dq_out>> /\ UNCHANGED writes
      /\ step = "end" /\ step' = "next_group" /\ swept = 2
      /\ SetReads /\ Edgeless(edges) = {} /\ Margins(edges, dqs_in[g], TRUE)
  BY DEF CentreEnd, Swept, loop, writes
<1>2. Right(board[g].read, dqs_in'[g], dq_in'[g])
  BY <1>1, ReadsRight
<1>3. \A group \in Groups : group < g' => GroupRight(group)'
  BY <1>1, SetReadsOnly, OthersKept
<1>4. pass' # TRUE
  BY <1>1 DEF Passing, Ends
<1>5. Right(board[g].write, dqs_out[g], dq_out[g])
  BY <1>1 DEF Settled
<1> QED
  BY <1>1, <1>2, <1>3, <1>4, <1>5 DEF Settled

LEMMA StartSettled ==
  ASSUME Passing, Start
  PROVE  Settled'
<1>1. g' = 0 /\ step = "start" /\ step' = "guaranteed" /\ pass' = pass
  BY DEF Start, BeginGroup
<1>2. pass' # TRUE
  BY <1>1 DEF Passing, Ends
<1>3. \A group \in Groups : ~ (group < 0)
  BY CalibrateAssumption DEF Groups
<1> QED
  BY <1>1, <1>2, <1>3 DEF Settled

LEMMA NextGroupSettled ==
  ASSUME TypeOK, Passing, Settled, NextGroup
  PROVE  Settled'
<1>1. /\ step = "next_group" /\ step' = "guaranteed" /\ g' = g + 1
      /\ UNCHANGED <<board, dqs_in, pass>>
  BY DEF NextGroup, BeginGroup
<1>2. pass' # TRUE
  BY <1>1 DEF Passing, Ends
<1>3. ASSUME NEW group \in Groups, group < g + 1
      PROVE  GroupRight(group)'
  <2>1. group < g \/ group = g
    BY <1>3, Ranges, CalibrateAssumption DEF Groups
  <2>2. GroupRight(group)
    BY <1>1, <2>1 DEF Settled, GroupRight
  <2>3. group # g + 1
    BY <1>3, Ranges, CalibrateAssumption DEF Groups
  <2>4. /\ dq_in'[group] = dq_in[group] /\ dqs_out'[group] = dqs_out[group]
        /\ dq_out'[group] = dq_out[group]
    BY <2>3 DEF NextGroup, BeginGroup, TypeOK
  <2> QED
    BY <1>1, <2>2, <2>4 DEF GroupRight
<1> QED
  BY <1>1, <1>2, <1>3 DEF Settled

LEMMA BeginLfifoSettled ==
  ASSUME TypeOK, Passing, Settled, BeginLfifo
  PROVE  Settled'
<1>1. /\ step = "next_group" /\ step' = "lfifo" /\ g + 1 \notin Groups
      /\ UNCHANGED <<board, g, dqs_in, dq_in, dqs_out, dq_out, pass>>
  BY DEF BeginLfifo, loop, reads, writes
<1>2. \A group \in Groups : group < g \/ group = g
  <2>1. g + 1 \notin Groups
    BY <1>1
  <2> QED
    BY <2>1, Ranges, CalibrateAssumption DEF Groups
<1>3. \A group \in Groups : GroupRight(group)
  BY <1>1, <1>2 DEF Settled, GroupRight
<1>4. \A group \in Groups : GroupRight(group)'
  BY <1>1, <1>3 DEF GroupRight
<1> QED
  BY <1>1, <1>4 DEF Settled

LEMMA StepSettled ==
  ASSUME TypeOK, Sweeping, Passing, Settled, [Next]_vars
  PROVE  Settled'
<1>1. CASE Start
  BY <1>1, StartSettled
<1>2. CASE SweepLeft
  <2>1. /\ UNCHANGED <<board, g, dqs_in, dq_in, dqs_out, dq_out>>
        /\ step' = step
        /\ pass' = TRUE => pass = TRUE \/ step = "lfifo"
    BY <1>2 DEF SweepLeft, loop, reads, writes
  <2> QED
    BY <2>1, RegistersKept
<1>3. CASE SweepRight
  <2>1. /\ UNCHANGED <<board, g, dqs_in, dq_in, dqs_out, dq_out>>
        /\ step' = step
        /\ pass' = TRUE => pass = TRUE \/ step = "lfifo"
    BY <1>3 DEF SweepRight, loop, reads, writes
  <2> QED
    BY <2>1, RegistersKept
<1>4. CASE GuaranteedRead
  <2>1. /\ UNCHANGED <<board, g, dqs_in, dq_in, dqs_out, dq_out>>
        /\ step' \notin {"end", "next_group", "lfifo"}
        /\ pass' = TRUE => pass = TRUE \/ step = "lfifo"
    BY <1>4 DEF GuaranteedRead, loop, reads, writes
  <2> QED
    BY <2>1, RegistersKept
<1>5. CASE GuaranteedReadFails
  <2>1. /\ UNCHANGED <<board, g, dqs_in, dq_in, dqs_out, dq_out>>
        /\ step' \notin {"end", "next_group", "lfifo"}
        /\ pass' = TRUE => pass = TRUE \/ step = "lfifo"
    BY <1>5 DEF GuaranteedReadFails, loop, reads, writes
  <2> QED
    BY <2>1, RegistersKept
<1>6. CASE GateFound
  <2>1. /\ UNCHANGED <<board, g>> /\ step \notin Ends
        /\ step' \notin {"end", "next_group", "lfifo"}
        /\ pass' = TRUE => pass = TRUE
    BY <1>6 DEF GateFound, loop, Ends
  <2>2. OnlyGroup
    BY <1>6 DEF GateFound, OnlyGroup, TypeOK, reads, writes
  <2> QED
    BY <2>1, <2>2, TrialSettled
<1>7. CASE GateNotFound
  <2>1. /\ UNCHANGED <<board, g>> /\ step \notin Ends
        /\ step' \notin {"end", "next_group", "lfifo"}
        /\ pass' = TRUE => pass = TRUE
    BY <1>7 DEF GateNotFound, loop, Ends
  <2>2. OnlyGroup
    BY <1>7 DEF GateNotFound, OnlyGroup, TypeOK, reads, writes
  <2> QED
    BY <2>1, <2>2, TrialSettled
<1>8. CASE Centre
  <2>1. /\ UNCHANGED <<board, g>> /\ step \notin Ends
        /\ step' \notin {"end", "next_group", "lfifo"}
        /\ pass' = TRUE => pass = TRUE
    BY <1>8 DEF Centre, Swept, loop, Ends
  <2>2. OnlyGroup
    BY <1>8 DEF Centre, SetReads, OnlyGroup, TypeOK
  <2> QED
    BY <2>1, <2>2, TrialSettled
<1>9. CASE CentreNoWindow
  <2>1. /\ UNCHANGED <<board, g, dqs_in, dq_in, dqs_out, dq_out>>
        /\ step' \notin {"end", "next_group", "lfifo"}
        /\ pass' = TRUE => pass = TRUE \/ step = "lfifo"
    BY <1>9 DEF CentreNoWindow, loop, reads, writes
  <2> QED
    BY <2>1, RegistersKept
<1>10. CASE CentreNoMargin
  <2>1. /\ UNCHANGED <<board, g>> /\ step \notin Ends
        /\ step' \notin {"end", "next_group", "lfifo"}
        /\ pass' = TRUE => pass = TRUE
    BY <1>10 DEF CentreNoMargin, Swept, loop, Ends
  <2>2. OnlyGroup
    BY <1>10, SetReadsOnly DEF CentreNoMargin
  <2> QED
    BY <2>1, <2>2, TrialSettled
<1>11. CASE NextTap
  <2>1. /\ UNCHANGED <<board, g>> /\ step \notin Ends
        /\ step' \notin {"end", "next_group", "lfifo"}
        /\ pass' = TRUE => pass = TRUE
    BY <1>11 DEF NextTap, loop, Ends
  <2>2. OnlyGroup
    BY <1>11 DEF NextTap, OnlyGroup, TypeOK, reads, writes
  <2> QED
    BY <2>1, <2>2, TrialSettled
<1>12. CASE NextDelay
  <2>1. /\ UNCHANGED <<board, g>> /\ step \notin Ends
        /\ step' \notin {"end", "next_group", "lfifo"}
        /\ pass' = TRUE => pass = TRUE
    BY <1>12 DEF NextDelay, loop, Ends
  <2>2. OnlyGroup
    BY <1>12 DEF NextDelay, OnlyGroup, TypeOK, reads, writes
  <2> QED
    BY <2>1, <2>2, TrialSettled
<1>13. CASE GiveUp
  <2>1. /\ UNCHANGED <<board, g, dqs_in, dq_in, dqs_out, dq_out>>
        /\ step' \notin {"end", "next_group", "lfifo"}
        /\ pass' = TRUE => pass = TRUE \/ step = "lfifo"
    BY <1>13 DEF GiveUp, Fail, loop, reads, writes
  <2> QED
    BY <2>1, RegistersKept
<1>14. CASE CentreWrites
  BY <1>14, CentreWritesSettled
<1>15. CASE WritesNoWindow
  <2>1. /\ UNCHANGED <<board, g>> /\ step \notin Ends
        /\ step' \notin {"end", "next_group", "lfifo"}
        /\ pass' = TRUE => pass = TRUE
    BY <1>15 DEF WritesNoWindow, Swept, Fail, loop, Ends
  <2>2. OnlyGroup
    <3>1. PICK tap \in dqs_out[g] .. DELAY_MAX :
            dqs_out' = [dqs_out EXCEPT ![g] = tap]
      BY <1>15 DEF WritesNoWindow
    <3> QED
      BY <1>15, <3>1 DEF WritesNoWindow, OnlyGroup, reads, TypeOK
  <2> QED
    BY <2>1, <2>2, TrialSettled
<1>16. CASE WritesNoMargin
  <2>1. /\ UNCHANGED <<board, g>> /\ step \notin Ends
        /\ step' \notin {"end", "next_group", "lfifo"}
        /\ pass' = TRUE => pass = TRUE
    BY <1>16 DEF WritesNoMargin, Swept, Fail, loop, Ends
  <2>2. OnlyGroup
    BY <1>16, SetWritesOnly DEF WritesNoMargin
  <2> QED
    BY <2>1, <2>2, TrialSettled
<1>17. CASE CentreEnd
  BY <1>17, CentreEndSettled
<1>18. CASE EndNoWindow
  <2>1. /\ UNCHANGED <<board, g, dqs_in, dq_in, dqs_out, dq_out>>
        /\ step' \notin {"end", "next_group", "lfifo"}
        /\ pass' = TRUE => pass = TRUE \/ step = "lfifo"
    BY <1>18 DEF EndNoWindow, Fail, loop, reads, writes
  <2> QED
    BY <2>1, RegistersKept
<1>19. CASE EndNoMargin
  <2>1. /\ UNCHANGED <<board, g>> /\ step \notin Ends
        /\ step' \notin {"end", "next_group", "lfifo"}
        /\ pass' = TRUE => pass = TRUE
    BY <1>19 DEF EndNoMargin, Swept, Fail, loop, Ends
  <2>2. OnlyGroup
    BY <1>19, SetReadsOnly DEF EndNoMargin
  <2> QED
    BY <2>1, <2>2, TrialSettled
<1>20. CASE NextGroup
  BY <1>20, NextGroupSettled
<1>21. CASE BeginLfifo
  BY <1>21, BeginLfifoSettled
<1>22. CASE LfifoPasses
  <2>1. /\ UNCHANGED <<board, g, dqs_in, dq_in, dqs_out, dq_out>>
        /\ step' = step
        /\ pass' = TRUE => pass = TRUE \/ step = "lfifo"
    BY <1>22 DEF LfifoPasses, loop, reads, writes
  <2> QED
    BY <2>1, RegistersKept
<1>23. CASE LfifoFound
  <2>1. /\ UNCHANGED <<board, g, dqs_in, dq_in, dqs_out, dq_out>>
        /\ step' \notin {"end", "next_group", "lfifo"}
        /\ pass' = TRUE => pass = TRUE \/ step = "lfifo"
    BY <1>23 DEF LfifoFound, loop, reads, writes
  <2> QED
    BY <2>1, RegistersKept
<1>24. CASE LfifoFails
  <2>1. /\ UNCHANGED <<board, g, dqs_in, dq_in, dqs_out, dq_out>>
        /\ step' \notin {"end", "next_group", "lfifo"}
        /\ pass' = TRUE => pass = TRUE \/ step = "lfifo"
    BY <1>24 DEF LfifoFails, Fail, loop, reads, writes
  <2> QED
    BY <2>1, RegistersKept
<1>25. CASE HandOver
  <2>1. /\ UNCHANGED <<board, g, dqs_in, dq_in, dqs_out, dq_out>>
        /\ step' \notin {"end", "next_group", "lfifo"}
        /\ pass' = TRUE => pass = TRUE \/ step = "lfifo"
    BY <1>25 DEF HandOver, loop, reads, writes
  <2> QED
    BY <2>1, RegistersKept
<1>26. CASE RestoreConfig
  <2>1. /\ UNCHANGED <<board, g, dqs_in, dq_in, dqs_out, dq_out>>
        /\ step' \notin {"end", "next_group", "lfifo"}
        /\ pass' = TRUE => pass = TRUE \/ step = "lfifo"
    BY <1>26 DEF RestoreConfig, loop, reads, writes
  <2> QED
    BY <2>1, RegistersKept
<1>27. CASE Report
  <2>1. /\ UNCHANGED <<board, g, dqs_in, dq_in, dqs_out, dq_out>>
        /\ step' \notin {"end", "next_group", "lfifo"}
        /\ pass' = TRUE => pass = TRUE \/ step = "lfifo"
    BY <1>27 DEF Report, loop, reads, writes
  <2> QED
    BY <2>1, RegistersKept
<1>28. CASE UNCHANGED vars
  BY <1>28, RegistersKept DEF vars, loop, reads, writes
<1> QED
  BY <1>1, <1>2, <1>3, <1>4, <1>5, <1>6, <1>7, <1>8,
     <1>9, <1>10, <1>11, <1>12, <1>13, <1>14, <1>15, <1>16,
     <1>17, <1>18, <1>19, <1>20, <1>21, <1>22, <1>23, <1>24,
     <1>25, <1>26, <1>27, <1>28
     DEF Next, CalibrateReads, CalibrateWrites, CalibrateEnd, CalibrateLfifo,
         Finish

\* The latency begun with until the search, which goes on while it suffices.
LatencyFits ==
  /\ step \notin {"lfifo"} \cup Ends => curr_read_lat = MaxLatency
  /\ step = "lfifo" =>
       curr_read_lat = MaxLatency \/ latency <= curr_read_lat + 1
  /\ pass = TRUE => latency < curr_read_lat

LEMMA InitLatency ==
  ASSUME Init
  PROVE  LatencyFits
<1>1. step = "start" /\ pass = FALSE /\ curr_read_lat = MaxLatency
  BY Zenon DEF Init
<1> QED
  BY <1>1 DEF LatencyFits

LEMMA LatencyKept ==
  ASSUME LatencyFits, UNCHANGED <<latency, curr_read_lat>>,
         \/ step' = step
         \/ step' # "lfifo" /\ step \notin {"lfifo"} \cup Ends
         \/ step' \in Ends,
         pass' = TRUE => pass = TRUE
  PROVE  LatencyFits'
BY DEF LatencyFits, Ends

LEMMA LfifoPassesLatency ==
  ASSUME TypeOK, Passing, LatencyFits, LfifoPasses
  PROVE  LatencyFits'
<1>1. /\ step = "lfifo" /\ step' = step /\ pass' = pass /\ latency' = latency
      /\ latency <= curr_read_lat /\ curr_read_lat' = curr_read_lat - 1
  BY DEF LfifoPasses
<1>2. latency \in Nat /\ curr_read_lat \in Nat
  <2>1. latency \in Nat
    BY DEF TypeOK
  <2> QED
    BY <2>1, Ranges, Bounds
<1>3. pass' # TRUE
  BY <1>1 DEF Passing, Ends
<1>4. latency' <= curr_read_lat' + 1
  BY <1>1, <1>2
<1> QED
  BY <1>1, <1>3, <1>4 DEF LatencyFits

LEMMA LfifoFoundLatency ==
  ASSUME TypeOK, LatencyFits, LfifoFound
  PROVE  LatencyFits'
<1>1. /\ step = "lfifo" /\ step' = "hand_over" /\ latency' = latency
      /\ curr_read_lat < MaxLatency /\ curr_read_lat' = curr_read_lat + 2
  BY DEF LfifoFound
<1>2. latency \in Nat /\ curr_read_lat \in Nat
  <2>1. latency \in Nat
    BY DEF TypeOK
  <2> QED
    BY <2>1, Ranges, Bounds
<1>3. curr_read_lat = MaxLatency \/ latency <= curr_read_lat + 1
  BY <1>1 DEF LatencyFits
<1>4. latency < curr_read_lat + 2
  <2>1. curr_read_lat < MaxLatency
    BY <1>1
  <2>2. latency <= curr_read_lat + 1
    BY <1>2, <1>3, <2>1, Bounds
  <2> QED
    BY <1>2, <2>2
<1>5. step' # "lfifo" /\ step' \in Ends
  BY <1>1 DEF Ends
<1> QED
  BY <1>1, <1>4, <1>5 DEF LatencyFits

LEMMA StepLatency ==
  ASSUME TypeOK, Passing, LatencyFits, [Next]_vars
  PROVE  LatencyFits'
<1>1. CASE Start
  <2>1. /\ step \notin {"lfifo"} \cup Ends /\ step' \notin Ends
        /\ curr_read_lat' = MaxLatency /\ pass' = pass
    BY <1>1 DEF Start, BeginGroup, Ends, LatencyFits
  <2> QED
    BY <2>1 DEF LatencyFits, Passing
<1>2. CASE SweepLeft
  <2>1. /\ UNCHANGED <<latency, curr_read_lat>>
        /\ step' = step
        /\ pass' = TRUE => pass = TRUE
    BY <1>2 DEF SweepLeft, Ends
  <2> QED
    BY <2>1, LatencyKept
<1>3. CASE SweepRight
  <2>1. /\ UNCHANGED <<latency, curr_read_lat>>
        /\ step' = step
        /\ pass' = TRUE => pass = TRUE
    BY <1>3 DEF SweepRight, Ends
  <2> QED
    BY <2>1, LatencyKept
<1>4. CASE GuaranteedRead
  <2>1. /\ UNCHANGED <<latency, curr_read_lat>>
        /\ step' # "lfifo" /\ step \notin {"lfifo"} \cup Ends
        /\ pass' = TRUE => pass = TRUE
    BY <1>4 DEF GuaranteedRead, Ends
  <2> QED
    BY <2>1, LatencyKept
<1>5. CASE GuaranteedReadFails
  <2>1. /\ UNCHANGED <<latency, curr_read_lat>>
        /\ step' # "lfifo" /\ step \notin {"lfifo"} \cup Ends
        /\ pass' = TRUE => pass = TRUE
    BY <1>5 DEF GuaranteedReadFails, Ends
  <2> QED
    BY <2>1, LatencyKept
<1>6. CASE GateFound
  <2>1. /\ UNCHANGED <<latency, curr_read_lat>>
        /\ step' # "lfifo" /\ step \notin {"lfifo"} \cup Ends
        /\ pass' = TRUE => pass = TRUE
    BY <1>6 DEF GateFound, Ends
  <2> QED
    BY <2>1, LatencyKept
<1>7. CASE GateNotFound
  <2>1. /\ UNCHANGED <<latency, curr_read_lat>>
        /\ step' # "lfifo" /\ step \notin {"lfifo"} \cup Ends
        /\ pass' = TRUE => pass = TRUE
    BY <1>7 DEF GateNotFound, Ends
  <2> QED
    BY <2>1, LatencyKept
<1>8. CASE Centre
  <2>1. /\ UNCHANGED <<latency, curr_read_lat>>
        /\ step' # "lfifo" /\ step \notin {"lfifo"} \cup Ends
        /\ pass' = TRUE => pass = TRUE
    BY <1>8 DEF Centre, Swept, Ends
  <2> QED
    BY <2>1, LatencyKept
<1>9. CASE CentreNoWindow
  <2>1. /\ UNCHANGED <<latency, curr_read_lat>>
        /\ step' # "lfifo" /\ step \notin {"lfifo"} \cup Ends
        /\ pass' = TRUE => pass = TRUE
    BY <1>9 DEF CentreNoWindow, Swept, Ends
  <2> QED
    BY <2>1, LatencyKept
<1>10. CASE CentreNoMargin
  <2>1. /\ UNCHANGED <<latency, curr_read_lat>>
        /\ step' # "lfifo" /\ step \notin {"lfifo"} \cup Ends
        /\ pass' = TRUE => pass = TRUE
    BY <1>10 DEF CentreNoMargin, Swept, Ends
  <2> QED
    BY <2>1, LatencyKept
<1>11. CASE NextTap
  <2>1. /\ UNCHANGED <<latency, curr_read_lat>>
        /\ step' # "lfifo" /\ step \notin {"lfifo"} \cup Ends
        /\ pass' = TRUE => pass = TRUE
    BY <1>11 DEF NextTap, Ends
  <2> QED
    BY <2>1, LatencyKept
<1>12. CASE NextDelay
  <2>1. /\ UNCHANGED <<latency, curr_read_lat>>
        /\ step' # "lfifo" /\ step \notin {"lfifo"} \cup Ends
        /\ pass' = TRUE => pass = TRUE
    BY <1>12 DEF NextDelay, Ends
  <2> QED
    BY <2>1, LatencyKept
<1>13. CASE GiveUp
  <2>1. /\ UNCHANGED <<latency, curr_read_lat>>
        /\ step' \in Ends
        /\ pass' = TRUE => pass = TRUE
    BY <1>13 DEF GiveUp, Fail, Ends
  <2> QED
    BY <2>1, LatencyKept
<1>14. CASE CentreWrites
  <2>1. /\ UNCHANGED <<latency, curr_read_lat>>
        /\ step' # "lfifo" /\ step \notin {"lfifo"} \cup Ends
        /\ pass' = TRUE => pass = TRUE
    BY <1>14 DEF CentreWrites, Swept, Ends
  <2> QED
    BY <2>1, LatencyKept
<1>15. CASE WritesNoWindow
  <2>1. /\ UNCHANGED <<latency, curr_read_lat>>
        /\ step' \in Ends
        /\ pass' = TRUE => pass = TRUE
    BY <1>15 DEF WritesNoWindow, Swept, Fail, Ends
  <2> QED
    BY <2>1, LatencyKept
<1>16. CASE WritesNoMargin
  <2>1. /\ UNCHANGED <<latency, curr_read_lat>>
        /\ step' \in Ends
        /\ pass' = TRUE => pass = TRUE
    BY <1>16 DEF WritesNoMargin, Swept, Fail, Ends
  <2> QED
    BY <2>1, LatencyKept
<1>17. CASE CentreEnd
  <2>1. /\ UNCHANGED <<latency, curr_read_lat>>
        /\ step' # "lfifo" /\ step \notin {"lfifo"} \cup Ends
        /\ pass' = TRUE => pass = TRUE
    BY <1>17 DEF CentreEnd, Swept, Ends
  <2> QED
    BY <2>1, LatencyKept
<1>18. CASE EndNoWindow
  <2>1. /\ UNCHANGED <<latency, curr_read_lat>>
        /\ step' \in Ends
        /\ pass' = TRUE => pass = TRUE
    BY <1>18 DEF EndNoWindow, Swept, Fail, Ends
  <2> QED
    BY <2>1, LatencyKept
<1>19. CASE EndNoMargin
  <2>1. /\ UNCHANGED <<latency, curr_read_lat>>
        /\ step' \in Ends
        /\ pass' = TRUE => pass = TRUE
    BY <1>19 DEF EndNoMargin, Swept, Fail, Ends
  <2> QED
    BY <2>1, LatencyKept
<1>20. CASE NextGroup
  <2>1. /\ UNCHANGED <<latency, curr_read_lat>>
        /\ step' # "lfifo" /\ step \notin {"lfifo"} \cup Ends
        /\ pass' = TRUE => pass = TRUE
    BY <1>20 DEF NextGroup, BeginGroup, Ends
  <2> QED
    BY <2>1, LatencyKept
<1>21. CASE BeginLfifo
  <2>1. /\ step \notin {"lfifo"} \cup Ends /\ step' \notin Ends
        /\ curr_read_lat' = MaxLatency /\ pass' = pass
    BY <1>21 DEF BeginLfifo, BeginGroup, Ends, LatencyFits
  <2> QED
    BY <2>1 DEF LatencyFits, Passing
<1>22. CASE LfifoPasses
  BY <1>22, LfifoPassesLatency
<1>23. CASE LfifoFound
  BY <1>23, LfifoFoundLatency
<1>24. CASE LfifoFails
  <2>1. /\ UNCHANGED <<latency, curr_read_lat>>
        /\ step' \in Ends
        /\ pass' = TRUE => pass = TRUE
    BY <1>24 DEF LfifoFails, Fail, Ends
  <2> QED
    BY <2>1, LatencyKept
<1>25. CASE HandOver
  <2>1. /\ UNCHANGED <<latency, curr_read_lat>>
        /\ step' \in Ends
        /\ pass' = TRUE => pass = TRUE
    BY <1>25 DEF HandOver, Ends
  <2> QED
    BY <2>1, LatencyKept
<1>26. CASE RestoreConfig
  <2>1. /\ UNCHANGED <<latency, curr_read_lat>>
        /\ step' \in Ends
        /\ pass' = TRUE => pass = TRUE
    BY <1>26 DEF RestoreConfig, Ends
  <2> QED
    BY <2>1, LatencyKept
<1>27. CASE Report
  <2>1. /\ UNCHANGED <<latency, curr_read_lat>>
        /\ step' \in Ends
        /\ pass' = TRUE => pass = TRUE
    BY <1>27 DEF Report, Ends
  <2> QED
    BY <2>1, LatencyKept
<1>28. CASE UNCHANGED vars
  BY <1>28, LatencyKept DEF vars
<1> QED
  BY <1>1, <1>2, <1>3, <1>4, <1>5, <1>6, <1>7, <1>8,
     <1>9, <1>10, <1>11, <1>12, <1>13, <1>14, <1>15, <1>16,
     <1>17, <1>18, <1>19, <1>20, <1>21, <1>22, <1>23, <1>24,
     <1>25, <1>26, <1>27, <1>28
     DEF Next, CalibrateReads, CalibrateWrites, CalibrateEnd, CalibrateLfifo,
         Finish


LEMMA SuccessIsRight ==
  ASSUME TypeOK, Passing, Settled, LatencyFits
  PROVE  LeavesRight
<1>1. ASSUME status = "success"
      PROVE  /\ \A group \in Groups :
                  /\ Right(board[group].read, dqs_in[group], dq_in[group])
                  /\ Right(board[group].write, dqs_out[group], dq_out[group])
             /\ curr_read_lat > latency
  <2>1. pass = TRUE
    BY <1>1 DEF Passing
  <2>2. \A group \in Groups : GroupRight(group)
    BY <2>1 DEF Settled
  <2>3. curr_read_lat > latency
    <3>1. latency < curr_read_lat
      BY <2>1 DEF LatencyFits
    <3> QED
      BY <3>1
  <2> QED
    BY <2>2, <2>3 DEF GroupRight
<1> QED
  BY <1>1 DEF LeavesRight

RightInv == TypeOK /\ Sweeping /\ Passing /\ Settled /\ LatencyFits

(***************************************************************************)
(* A calibration that succeeds leaves settings at which every bit of every *)
(* group is read and written right, and a latency with one to spare:       *)
(* whatever the windows of the board, however marginal their edges, and    *)
(* whatever was tried before (5722-5979, 6065-6184, 7193-7464).            *)
(***************************************************************************)
THEOREM SettingsRight == Spec => []LeavesRight
<1>1. Init => RightInv
  BY InitTypes, InitPassing, InitSettled, InitLatency DEF RightInv
<1>2. RightInv /\ [Next]_vars => RightInv'
  BY StepTypes, StepPassing, StepSettled, StepLatency DEF RightInv
<1>3. RightInv => LeavesRight
  BY SuccessIsRight DEF RightInv
<1> QED
  BY <1>1, <1>2, <1>3, PTL DEF Spec

-----------------------------------------------------------------------------
(* A failed calibration.                                                   *)

Trials == {"guaranteed", "gate", "centre", "next_tap", "next_delay"}

Staged ==
  /\ step \in Trials => stage = "vfifo"
  /\ step = "writes" => stage = "writes"
  /\ step = "end" => stage = "vfifo_after_writes"
  /\ step = "lfifo" => stage = "lfifo"

\* A trial's failure, of this group or of an earlier one, since made good.
MadeGood == \E group \in 0 .. g : error \in BitTrials(group)

Recorded ==
  /\ step \notin Ends => error = NIL \/ MadeGood
  /\ step \in Ends => pass = TRUE \/ error \in Ending \/ MadeGood

Reported == Staged /\ Recorded

LEMMA InitReported ==
  ASSUME Init
  PROVE  Reported
<1>1. step = "start" /\ error = NIL
  BY Zenon DEF Init
<1> QED
  BY <1>1 DEF Reported, Staged, Recorded, Trials, Ends

\* What may be recorded depends on these only.
LEMMA SameNames ==
  ASSUME UNCHANGED <<g, stage, failed_substage>>
  PROVE  /\ Ending' = Ending
         /\ error' = error => (MadeGood => MadeGood')
BY DEF Ending, BitsOf, MadeGood, BitTrials

\* A failure that ends the calibration.
LEMMA FailReported ==
  ASSUME Reported, step \notin Ends, NEW substage, NEW group,
         <<stage, substage, group>> \in Ending,
         Fail(group, substage)
  PROVE  Reported'
<1> DEFINE named == <<stage, substage, group>>
<1>1. /\ UNCHANGED <<g, stage, failed_substage>> /\ step' = "hand_over"
      /\ error' = IF error = NIL THEN named ELSE error
  BY DEF Fail, SetFailing, loop
<1>2. Staged'
  BY <1>1 DEF Staged, Trials
<1>3. named \in Ending
  OBVIOUS
<1> HIDE DEF named
<1>4. CASE error = NIL
  <2>1. error' \in Ending'
    BY <1>1, <1>3, <1>4, SameNames
  <2> QED
    BY <1>1, <1>2, <2>1 DEF Reported, Recorded, Ends
<1>5. CASE error # NIL
  <2>1. error' = error /\ MadeGood
    BY <1>1, <1>5 DEF Reported, Recorded
  <2>2. MadeGood'
    BY <1>1, <2>1, SameNames
  <2> QED
    BY <1>1, <1>2, <2>2 DEF Reported, Recorded, Ends
<1> QED
  BY <1>4, <1>5

\* Steps on the way that report nothing.
LEMMA NothingReported ==
  ASSUME Reported, UNCHANGED <<g, error>>, step \notin Ends, step' \notin Ends,
         Staged'
  PROVE  Reported'
<1>1. error = NIL \/ MadeGood
  BY DEF Reported, Recorded
<1>2. MadeGood => MadeGood'
  BY DEF MadeGood, BitTrials, BitsOf
<1> QED
  BY <1>1, <1>2 DEF Reported, Recorded

\* The way out, when the outcome is settled.
LEMMA ReportedKept ==
  ASSUME Reported, UNCHANGED <<g, error, stage, pass, failed_substage>>,
         step' = step \/ (step \in Ends /\ step' \in Ends)
  PROVE  Reported'
<1>1. Ending' = Ending /\ (MadeGood => MadeGood')
  BY SameNames
<1> QED
  BY <1>1 DEF Reported, Recorded, Staged, Ends, Trials

LEMMA CentreNoWindowReported ==
  ASSUME TypeOK, Reported, CentreNoWindow
  PROVE  Reported'
<1>1. /\ UNCHANGED <<g, stage>> /\ step = "centre" /\ step' = "next_tap"
      /\ error' = IF error = NIL THEN <<"vfifo", "vfifo_center", BitOf>>
                  ELSE error
      /\ Edgeless(edges) # {}
  BY DEF CentreNoWindow, SetFailing, Swept
<1>2. Staged'
  BY <1>1 DEF Reported, Staged, Trials
<1>3. MadeGood'
  <2>1. CASE error = NIL
    <3>1. BitOf \in BitsOf(g)
      BY <1>1, FirstEdgeless DEF BitsOf
    <3>2. error' \in BitTrials(g)
      BY <1>1, <2>1, <3>1 DEF BitTrials
    <3>3. g \in 0 .. g
      BY Ranges, CalibrateAssumption DEF Groups
    <3> QED
      BY <1>1, <3>2, <3>3 DEF MadeGood, BitTrials, BitsOf
  <2>2. CASE error # NIL
    <3>1. MadeGood /\ error' = error
      BY <1>1, <2>2 DEF Reported, Recorded, Ends
    <3> QED
      BY <1>1, <3>1 DEF MadeGood, BitTrials, BitsOf
  <2> QED
    BY <2>1, <2>2
<1> QED
  BY <1>1, <1>2, <1>3 DEF Reported, Recorded, Ends

LEMMA NextGroupReported ==
  ASSUME TypeOK, Reported, NextGroup
  PROVE  Reported'
<1>1. /\ g' = g + 1 /\ error' = error /\ stage' = "vfifo"
      /\ step = "next_group" /\ step' = "guaranteed"
  BY DEF NextGroup, BeginGroup
<1>2. 0 .. g \subseteq 0 .. g + 1
  BY Ranges, CalibrateAssumption DEF Groups
<1>3. MadeGood => MadeGood'
  BY <1>1, <1>2 DEF MadeGood, BitTrials, BitsOf
<1> QED
  BY <1>1, <1>3 DEF Reported, Recorded, Staged, Ends, Trials

LEMMA StartReported ==
  ASSUME Start
  PROVE  Reported'
<1>1. error' = NIL /\ stage' = "vfifo" /\ step' = "guaranteed"
  BY DEF Start, BeginGroup
<1> QED
  BY <1>1 DEF Reported, Recorded, Staged, Ends, Trials

LEMMA LfifoFoundReported ==
  ASSUME LfifoFound
  PROVE  Reported'
<1>1. pass' = TRUE /\ step' = "hand_over"
  BY DEF LfifoFound
<1> QED
  BY <1>1 DEF Reported, Recorded, Staged, Ends, Trials

LEMMA StepReported ==
  ASSUME TypeOK, Reported, [Next]_vars
  PROVE  Reported'
<1>1. CASE Start
  BY <1>1, StartReported
<1>2. CASE SweepLeft
  <2>1. /\ UNCHANGED <<g, error, stage, pass, failed_substage>>
        /\ step' = step
    BY <1>2 DEF SweepLeft, loop, report
  <2> QED
    BY <2>1, ReportedKept
<1>3. CASE SweepRight
  <2>1. /\ UNCHANGED <<g, error, stage, pass, failed_substage>>
        /\ step' = step
    BY <1>3 DEF SweepRight, loop, report
  <2> QED
    BY <2>1, ReportedKept
<1>4. CASE GuaranteedRead
  <2>1. UNCHANGED <<g, error>> /\ step \notin Ends /\ step' \notin Ends
    BY <1>4 DEF GuaranteedRead, loop, report, Ends
  <2>2. Staged'
    BY <1>4 DEF GuaranteedRead, report, Reported, Staged, Trials
  <2> QED
    BY <2>1, <2>2, NothingReported
<1>5. CASE GuaranteedReadFails
  <2>1. UNCHANGED <<g, error>> /\ step \notin Ends /\ step' \notin Ends
    BY <1>5 DEF GuaranteedReadFails, loop, report, Ends
  <2>2. Staged'
    BY <1>5 DEF GuaranteedReadFails, report, Reported, Staged, Trials
  <2> QED
    BY <2>1, <2>2, NothingReported
<1>6. CASE GateFound
  <2>1. UNCHANGED <<g, error>> /\ step \notin Ends /\ step' \notin Ends
    BY <1>6 DEF GateFound, loop, report, Ends
  <2>2. Staged'
    BY <1>6 DEF GateFound, report, Reported, Staged, Trials
  <2> QED
    BY <2>1, <2>2, NothingReported
<1>7. CASE GateNotFound
  <2>1. UNCHANGED <<g, error>> /\ step \notin Ends /\ step' \notin Ends
    BY <1>7 DEF GateNotFound, loop, report, Ends
  <2>2. Staged'
    BY <1>7 DEF GateNotFound, report, Reported, Staged, Trials
  <2> QED
    BY <2>1, <2>2, NothingReported
<1>8. CASE Centre
  <2>1. UNCHANGED <<g, error>> /\ step \notin Ends /\ step' \notin Ends
    BY <1>8 DEF Centre, Swept, loop, report, Ends
  <2>2. Staged'
    BY <1>8 DEF Centre, Swept, report, Reported, Staged, Trials
  <2> QED
    BY <2>1, <2>2, NothingReported
<1>9. CASE CentreNoWindow
  BY <1>9, CentreNoWindowReported
<1>10. CASE CentreNoMargin
  <2>1. UNCHANGED <<g, error>> /\ step \notin Ends /\ step' \notin Ends
    BY <1>10 DEF CentreNoMargin, Swept, loop, report, Ends
  <2>2. Staged'
    BY <1>10 DEF CentreNoMargin, Swept, report, Reported, Staged, Trials
  <2> QED
    BY <2>1, <2>2, NothingReported
<1>11. CASE NextTap
  <2>1. UNCHANGED <<g, error>> /\ step \notin Ends /\ step' \notin Ends
    BY <1>11 DEF NextTap, loop, report, Ends
  <2>2. Staged'
    BY <1>11 DEF NextTap, report, Reported, Staged, Trials
  <2> QED
    BY <2>1, <2>2, NothingReported
<1>12. CASE NextDelay
  <2>1. UNCHANGED <<g, error>> /\ step \notin Ends /\ step' \notin Ends
    BY <1>12 DEF NextDelay, loop, report, Ends
  <2>2. Staged'
    BY <1>12 DEF NextDelay, report, Reported, Staged, Trials
  <2> QED
    BY <2>1, <2>2, NothingReported
<1>13. CASE GiveUp
  <2>1. step \notin Ends /\ stage = "vfifo" /\ Fail(g, failed_substage)
    BY <1>13 DEF GiveUp, Swept, Reported, Staged, Trials, Ends
  <2>2. <<stage, failed_substage, g>> \in Ending
    BY <2>1 DEF Ending
  <2> QED
    BY <2>1, <2>2, FailReported
<1>14. CASE CentreWrites
  <2>1. UNCHANGED <<g, error>> /\ step \notin Ends /\ step' \notin Ends
    BY <1>14 DEF CentreWrites, Swept, loop, report, Ends
  <2>2. Staged'
    BY <1>14 DEF CentreWrites, Swept, report, Reported, Staged, Trials
  <2> QED
    BY <2>1, <2>2, NothingReported
<1>15. CASE WritesNoWindow
  <2>1. /\ step \notin Ends /\ stage = "writes" /\ Edgeless(edges) # {}
        /\ Fail(BitOf, "writes_center")
    BY <1>15 DEF WritesNoWindow, Swept, Reported, Staged, Trials, Ends
  <2>2. BitOf \in BitsOf(g)
    BY <2>1, FirstEdgeless DEF BitsOf
  <2>3. <<stage, "writes_center", BitOf>> \in Ending
    BY <2>1, <2>2 DEF Ending
  <2> QED
    BY <2>1, <2>3, FailReported
<1>16. CASE WritesNoMargin
  <2>1. step \notin Ends /\ stage = "writes" /\ Fail(g, "writes_center")
    BY <1>16 DEF WritesNoMargin, Swept, Reported, Staged, Trials, Ends
  <2>2. <<stage, "writes_center", g>> \in Ending
    BY <2>1 DEF Ending
  <2> QED
    BY <2>1, <2>2, FailReported
<1>17. CASE CentreEnd
  <2>1. UNCHANGED <<g, error>> /\ step \notin Ends /\ step' \notin Ends
    BY <1>17 DEF CentreEnd, Swept, loop, report, Ends
  <2>2. Staged'
    BY <1>17 DEF CentreEnd, Swept, report, Reported, Staged, Trials
  <2> QED
    BY <2>1, <2>2, NothingReported
<1>18. CASE EndNoWindow
  <2>1. /\ step \notin Ends /\ stage = "vfifo_after_writes" /\ Edgeless(edges) # {}
        /\ Fail(BitOf, "vfifo_center")
    BY <1>18 DEF EndNoWindow, Swept, Reported, Staged, Trials, Ends
  <2>2. BitOf \in BitsOf(g)
    BY <2>1, FirstEdgeless DEF BitsOf
  <2>3. <<stage, "vfifo_center", BitOf>> \in Ending
    BY <2>1, <2>2 DEF Ending
  <2> QED
    BY <2>1, <2>3, FailReported
<1>19. CASE EndNoMargin
  <2>1. step \notin Ends /\ stage = "vfifo_after_writes" /\ Fail(g, "vfifo_center")
    BY <1>19 DEF EndNoMargin, Swept, Reported, Staged, Trials, Ends
  <2>2. <<stage, "vfifo_center", g>> \in Ending
    BY <2>1 DEF Ending
  <2> QED
    BY <2>1, <2>2, FailReported
<1>20. CASE NextGroup
  BY <1>20, NextGroupReported
<1>21. CASE BeginLfifo
  <2>1. UNCHANGED <<g, error>> /\ step \notin Ends /\ step' \notin Ends
    BY <1>21 DEF BeginLfifo, loop, report, Ends
  <2>2. Staged'
    BY <1>21 DEF BeginLfifo, report, Reported, Staged, Trials
  <2> QED
    BY <2>1, <2>2, NothingReported
<1>22. CASE LfifoPasses
  <2>1. /\ UNCHANGED <<g, error, stage, pass, failed_substage>>
        /\ step' = step
    BY <1>22 DEF LfifoPasses, loop, report
  <2> QED
    BY <2>1, ReportedKept
<1>23. CASE LfifoFound
  BY <1>23, LfifoFoundReported
<1>24. CASE LfifoFails
  <2>1. step \notin Ends /\ stage = "lfifo" /\ Fail(AllGroups, "read_latency")
    BY <1>24 DEF LfifoFails, Swept, Reported, Staged, Trials, Ends
  <2>2. <<stage, "read_latency", AllGroups>> \in Ending
    BY <2>1 DEF Ending
  <2> QED
    BY <2>1, <2>2, FailReported
<1>25. CASE HandOver
  BY <1>25, ReportedKept DEF HandOver, loop, report, Ends
<1>26. CASE RestoreConfig
  BY <1>26, ReportedKept DEF RestoreConfig, loop, report, Ends
<1>27. CASE Report
  BY <1>27, ReportedKept DEF Report, loop, report, Ends
<1>28. CASE UNCHANGED vars
  <2>1. /\ UNCHANGED <<g, error, stage, pass, failed_substage>>
        /\ step' = step
    BY <1>28 DEF vars, loop, report
  <2> QED
    BY <2>1, ReportedKept
<1> QED
  BY <1>1, <1>2, <1>3, <1>4, <1>5, <1>6, <1>7, <1>8,
     <1>9, <1>10, <1>11, <1>12, <1>13, <1>14, <1>15, <1>16,
     <1>17, <1>18, <1>19, <1>20, <1>21, <1>22, <1>23, <1>24,
     <1>25, <1>26, <1>27, <1>28
     DEF Next, CalibrateReads, CalibrateWrites, CalibrateEnd, CalibrateLfifo,
         Finish


(***************************************************************************)
(* A calibration that fails reports the stage and substage that ended it,  *)
(* for the group or the bit, or else a bit that a trial of a deskew found  *)
(* without a window, as the first failure stays recorded (591-611).        *)
(***************************************************************************)
THEOREM FailureReported == Spec => []FailureNamed
<1> DEFINE Inv == TypeOK /\ Sweeping /\ Passing /\ Reported
<1>1. Init => Inv
  BY InitTypes, InitPassing, InitReported
<1>2. Inv /\ [Next]_vars => Inv'
  BY StepTypes, StepPassing, StepReported
<1>3. Inv => FailureNamed
  <2> SUFFICES ASSUME Inv, status = "fail"
               PROVE  error \in Ending \/ MadeGood
    BY DEF FailureNamed, MadeGood
  <2> QED
    BY DEF Passing, Reported, Recorded, Ends
<1> QED
  BY <1>1, <1>2, <1>3, PTL DEF Spec

-----------------------------------------------------------------------------
(* The deskew finds a setting where there is one.                          *)

\* The windows u, bit by bit, are the windows w but for a tap at each edge.
Near(u, w) ==
  \A b \in Bits :
    /\ w[b].lo <= u[b].lo /\ u[b].lo <= w[b].lo + 1
    /\ w[b].hi - 1 <= u[b].hi /\ u[b].hi <= w[b].hi

LEMMA MarginalNear ==
  ASSUME NEW w \in Windows, NEW near \in SUBSET Bits
  PROVE  Near(Marginal(w, near), w)
BY DEF Marginal, Windows, Near

\* A sweep does not stop before a tap at which a bit passes that it waits for.
LEMMA SweepWaits ==
  ASSUME NEW u \in Windows, NEW x \in Int, NEW way \in {-1, 1}, NEW seen,
         NEW last \in Nat, NEW b \in Bits, b \notin seen,
         NEW tap \in 0 .. last, Passes(u, b, x + way * tap)
  PROVE  tap \in PassingTaps(u, x, way, seen, last, b)
<1> SUFFICES ASSUME NEW e \in 0 .. tap - 1, StopsAt(u, x, way, seen, e)
             PROVE  FALSE
  BY DEF PassingTaps
<1>1. /\ ~Passes(u, b, x + way * e)
      /\ \E f \in 0 .. e - 1 : Passes(u, b, x + way * f)
  BY DEF StopsAt
<1>2. PICK f \in 0 .. e - 1 : Passes(u, b, x + way * f)
  BY <1>1
<1>3. u[b].lo \in Int /\ u[b].hi \in Int
  BY DEF Windows
<1>4. e \in Int /\ f \in Int /\ tap \in Int /\ f < e /\ e < tap
  OBVIOUS
<1>5. CASE way = 1
  <2>1. \A n \in Int : x + way * n = x + n
    BY <1>5
  <2> QED
    BY <1>1, <1>2, <1>3, <1>4, <2>1 DEF Passes
<1>6. CASE way = -1
  <2>1. \A n \in Int : x + way * n = x - n
    BY <1>6
  <2> QED
    BY <1>1, <1>2, <1>3, <1>4, <2>1 DEF Passes
<1> QED
  BY <1>5, <1>6

\* The taps at which a bit passes in the left sweep are all found.
LEMMA LeftTapsAll ==
  ASSUME NEW u \in Windows, NEW start \in Taps, NEW b \in Bits,
         NEW tap \in 0 .. DELAY_MAX, u[b].lo <= start - tap, start - tap <= u[b].hi
  PROVE  tap \in LeftTaps(u, start, b)
<1>1. start \in Int /\ DELAY_MAX \in Nat /\ -1 \in {-1, 1}
  BY DeskewAssumption DEF Taps
<1>2. start + (-1) * tap = start - tap
  BY <1>1
<1>3. Passes(u, b, start + (-1) * tap)
  BY <1>2 DEF Passes
<1> QED
  BY <1>1, <1>3, SweepWaits DEF LeftTaps

\* And those of the right sweep, of a bit whose edges are not known.
LEMMA RightTapsAll ==
  ASSUME NEW u \in Windows, NEW start \in Taps, NEW b \in Bits, NEW e,
         NEW reading, b \notin Seen(e, reading),
         NEW tap \in 0 .. DELAY_MAX - start,
         u[b].lo <= start + tap, start + tap <= u[b].hi
  PROVE  tap \in RightTaps(u, start, e, reading, b)
<1>1. start \in Int /\ DELAY_MAX - start \in Nat
  BY DeskewAssumption DEF Taps
<1>2. start + 1 * tap = start + tap /\ 1 \in {-1, 1}
  BY <1>1
<1>3. Passes(u, b, start + 1 * tap)
  BY <1>2 DEF Passes
<1> QED
  BY <1>1, <1>2, <1>3, SweepWaits DEF RightTaps

\* A tap found below, or above, all others is their minimum, or maximum.
LEMMA LeastGreatest ==
  ASSUME NEW m \in Int, NEW n \in Int, NEW S, S \subseteq m .. n, NEW x \in S
  PROVE  /\ (\A y \in S : x <= y) => Min(S) = x
         /\ (\A y \in S : y <= x) => Max(S) = x
<1>1. S \subseteq Int /\ (\A y \in S : m <= y) /\ (\A y \in S : y <= n)
  OBVIOUS
<1>2. Min(S) \in S /\ \A y \in S : Min(S) <= y
  BY <1>1, MinIs
<1>3. Max(S) \in S /\ \A y \in S : y <= Max(S)
  BY <1>1, MaxIs
<1>4. Min(S) \in Int /\ Max(S) \in Int /\ x \in Int
  BY <1>1, <1>2, <1>3
<1>5. Min(S) <= x /\ x <= Max(S)
  BY <1>2, <1>3
<1>6. (\A y \in S : x <= y) => x <= Min(S)
  BY <1>2
<1>7. (\A y \in S : y <= x) => Max(S) <= x
  BY <1>3
<1>8. \A j, k \in Int : j <= k /\ k <= j => j = k
  OBVIOUS
<1> QED
  BY <1>4, <1>5, <1>6, <1>7, <1>8

\* What the left sweep finds of a window it reaches the left edge of.
LEMMA LeftExact ==
  ASSUME NEW u \in Windows, NEW start \in Taps, NEW b \in Bits,
         start - DELAY_MAX <= u[b].lo, u[b].lo <= u[b].hi
  PROVE  LET e == AfterLeft(u, start)[b]
         IN  /\ u[b].lo > start => e.left = none /\ e.right = none
             /\ u[b].lo <= start =>
                  /\ e.left = start - u[b].lo
                  /\ e.right = IF start <= u[b].hi THEN none ELSE u[b].hi - start
<1> DEFINE T == LeftTaps(u, start, b)
<1> DEFINE e == AfterLeft(u, start)[b]
<1>1. /\ u[b].lo \in Int /\ u[b].hi \in Int /\ start \in Nat
      /\ start <= DELAY_MAX /\ DELAY_MAX \in Nat
  BY DeskewAssumption DEF Windows, Taps
<1>2. /\ T \subseteq 0 .. DELAY_MAX
      /\ \A t \in T : u[b].lo <= start - t /\ start - t <= u[b].hi
  BY LeftTapsAre
<1>3. \A t \in 0 .. DELAY_MAX :
        u[b].lo <= start - t /\ start - t <= u[b].hi => t \in T
  BY LeftTapsAll
<1>4. e = IF T = {} THEN [left |-> none, right |-> none]
          ELSE [left |-> Max(T), right |-> IF 0 \in T THEN none ELSE -Min(T)]
  BY DEF AfterLeft
<1> HIDE DEF T, e
<1>5. CASE u[b].lo > start
  <2>1. T = {}
    BY <1>1, <1>2, <1>5
  <2> QED
    BY <1>4, <1>5, <2>1, <1>1 DEF e
<1>6. CASE u[b].lo <= start
  <2>1. start - u[b].lo \in T
    BY <1>1, <1>3, <1>6
  <2>2. \A t \in T : t \in Nat /\ t <= start - u[b].lo /\ start - u[b].hi <= t
    BY <1>1, <1>2
  <2>3. Max(T) = start - u[b].lo
    <3>1. \A t \in T : t <= start - u[b].lo
      BY <2>2
    <3>2. 0 \in Int /\ DELAY_MAX \in Int
      BY <1>1
    <3> QED
      BY <1>2, <2>1, <3>1, <3>2, LeastGreatest
  <2>4. 0 \in T <=> start <= u[b].hi
    BY <1>1, <1>2, <1>3, <1>6
  <2>5. start > u[b].hi => Min(T) = start - u[b].hi
    <3> SUFFICES ASSUME start > u[b].hi PROVE Min(T) = start - u[b].hi
      OBVIOUS
    <3>1. start - u[b].hi \in T
      BY <1>1, <1>3, <1>6
    <3>2. \A t \in T : start - u[b].hi <= t
      BY <2>2
    <3>3. 0 \in Int /\ DELAY_MAX \in Int
      BY <1>1
    <3> QED
      BY <1>2, <3>1, <3>2, <3>3, LeastGreatest
  <2>6. e.left = start - u[b].lo
    BY <1>4, <2>1, <2>3
  <2>7. e.right = IF start <= u[b].hi THEN none ELSE u[b].hi - start
    <3>1. T # {}
      BY <2>1
    <3>2. e.right = IF 0 \in T THEN none ELSE -Min(T)
      BY <1>4, <3>1
    <3> QED
      BY <1>1, <2>4, <2>5, <3>2
  <2> QED
    BY <1>1, <1>6, <2>6, <2>7 DEF e
<1> QED
  BY <1>1, <1>5, <1>6

\* A bit's edges are those of a window but for a tap.
FoundIn(edge, win, start) ==
  \E l \in {win.lo, win.lo + 1}, h \in {win.hi - 1, win.hi} :
    edge.left = start - l /\ edge.right = h - start

\* The edges of a window the sweeps reach are found to a tap.
LEMMA EdgesFound ==
  ASSUME NEW w \in Windows, NEW v1 \in Windows, NEW v2 \in Windows,
         Near(v1, w), Near(v2, w), NEW start \in Taps, NEW b \in Bits,
         Covered(w[b], start)
  PROVE  FoundIn(AfterRight(v2, start, AfterLeft(v1, start), TRUE)[b], w[b], start)
<1> DEFINE e0 == AfterLeft(v1, start)
<1> DEFINE e == AfterRight(v2, start, e0, TRUE)[b]
<1> DEFINE T == RightTaps(v2, start, e0, TRUE, b)
<1> DEFINE Edges(l, h) == e.left = start - l /\ e.right = h - start
<1>1. /\ w[b].lo \in Int /\ w[b].hi \in Int /\ v1[b].lo \in Int
      /\ v1[b].hi \in Int /\ v2[b].lo \in Int /\ v2[b].hi \in Int
      /\ start \in Nat /\ start <= DELAY_MAX /\ DELAY_MAX \in Nat
  BY DeskewAssumption DEF Windows, Taps
<1>2. /\ start - DELAY_MAX <= w[b].lo /\ w[b].hi <= DELAY_MAX
      /\ w[b].hi - w[b].lo >= 2 /\ w[b].lo # start
  BY DEF Covered
<1>3. /\ w[b].lo <= v1[b].lo /\ v1[b].lo <= w[b].lo + 1
      /\ w[b].hi - 1 <= v1[b].hi /\ v1[b].hi <= w[b].hi
      /\ w[b].lo <= v2[b].lo /\ v2[b].lo <= w[b].lo + 1
      /\ w[b].hi - 1 <= v2[b].hi /\ v2[b].hi <= w[b].hi
  BY DEF Near
<1>4. /\ v1[b].lo \in {w[b].lo, w[b].lo + 1} /\ v1[b].hi \in {w[b].hi - 1, w[b].hi}
      /\ v2[b].lo \in {w[b].lo, w[b].lo + 1} /\ v2[b].hi \in {w[b].hi - 1, w[b].hi}
      /\ v1[b].lo <= v1[b].hi /\ v2[b].lo <= v2[b].hi
      /\ start - DELAY_MAX <= v1[b].lo /\ v2[b].hi <= DELAY_MAX
  BY <1>1, <1>2, <1>3
<1>5. /\ v1[b].lo > start => e0[b].left = none /\ e0[b].right = none
      /\ v1[b].lo <= start =>
           /\ e0[b].left = start - v1[b].lo
           /\ e0[b].right = IF start <= v1[b].hi THEN none ELSE v1[b].hi - start
  BY <1>4, LeftExact
<1>6. b \notin Seen(e0, TRUE) <=> e0[b].left = none \/ e0[b].right = none
  BY DEF Seen
<1>7. /\ T \subseteq 0 .. DELAY_MAX
      /\ \A t \in T : v2[b].lo <= start + t /\ start + t <= v2[b].hi
  BY RightTapsAre
<1>8. b \notin Seen(e0, TRUE) =>
        \A t \in 0 .. DELAY_MAX - start :
          v2[b].lo <= start + t /\ start + t <= v2[b].hi => t \in T
  BY RightTapsAll
<1>9. e = IF T = {}
          THEN [e0[b] EXCEPT !.right =
                  IF e0[b].left # none /\ e0[b].right = none THEN -1 ELSE @]
          ELSE [left |-> IF e0[b].left # none \/ 0 \in T THEN e0[b].left
                         ELSE -Min(T),
                right |-> Max(T)]
  BY DEF AfterRight
<1>10. e0[b] \in [left : Int, right : Int]
  <2>1. e0 \in EdgeSets
    <3>1. Within(v1, v1)
      BY DEF Within, Windows
    <3> QED
      BY <3>1, LeftFinds
  <2> QED
    BY <1>1, <2>1 DEF EdgeSets, none
<1>11. start - v1[b].lo # none
  BY <1>1, <1>4 DEF none
<1> HIDE DEF T, e0, e
<1> USE DEF none
<1>12. CASE v1[b].lo > start
  <2>1. v2[b].lo > start
    BY <1>1, <1>2, <1>3, <1>12
  <2>2. \A t \in 0 .. DELAY_MAX - start :
          v2[b].lo <= start + t /\ start + t <= v2[b].hi => t \in T
    BY <1>5, <1>6, <1>8, <1>12
  <2>3. v2[b].lo - start \in T /\ v2[b].hi - start \in T
    BY <1>1, <1>4, <2>1, <2>2
  <2>4. \A t \in T : v2[b].lo - start <= t /\ t <= v2[b].hi - start
    BY <1>1, <1>7
  <2>5. Min(T) = v2[b].lo - start /\ Max(T) = v2[b].hi - start
    <3>1. 0 \in Int /\ DELAY_MAX \in Int
      BY <1>1
    <3> QED
      BY <1>7, <2>3, <2>4, <3>1, LeastGreatest
  <2>6. 0 \notin T /\ e0[b].left = none
    BY <1>1, <1>5, <1>12, <2>1, <2>4
  <2>7. Edges(v2[b].lo, v2[b].hi)
    BY <1>1, <1>9, <2>3, <2>5, <2>6
  <2> QED
    BY <1>4, <2>7 DEF e, e0, FoundIn
<1>13. CASE v1[b].lo <= start /\ start <= v1[b].hi
  <2>1. e0[b].left = start - v1[b].lo /\ e0[b].right = none
    BY <1>5, <1>13
  <2>2. \A t \in 0 .. DELAY_MAX - start :
          v2[b].lo <= start + t /\ start + t <= v2[b].hi => t \in T
    BY <1>6, <1>8, <2>1
  <2>3. CASE start <= v2[b].hi
    <3>1. v2[b].hi - start \in T
      BY <1>1, <1>4, <2>2, <2>3
    <3>2. \A t \in T : t <= v2[b].hi - start
      BY <1>1, <1>7
    <3>3. Max(T) = v2[b].hi - start
      <4>1. 0 \in Int /\ DELAY_MAX \in Int
        BY <1>1
      <4> QED
        BY <1>7, <3>1, <3>2, <4>1, LeastGreatest
    <3>4. Edges(v1[b].lo, v2[b].hi)
      BY <1>9, <1>11, <2>1, <3>1, <3>3
    <3> QED
      BY <1>4, <3>4 DEF e, e0, FoundIn
  <2>4. CASE v2[b].hi < start
    <3>1. T = {}
      BY <1>1, <1>7, <2>4
    <3>2. v2[b].hi - start = -1
      BY <1>1, <1>3, <1>13, <2>4
    <3>3. Edges(v1[b].lo, v2[b].hi)
      BY <1>9, <1>10, <1>11, <2>1, <3>1, <3>2
    <3> QED
      BY <1>4, <3>3 DEF e, e0, FoundIn
  <2>5. start <= v2[b].hi \/ v2[b].hi < start
    BY <1>1
  <2> QED
    BY <2>3, <2>4, <2>5, Zenon
<1>14. CASE v1[b].hi < start
  <2>1. e0[b].left = start - v1[b].lo /\ e0[b].right = v1[b].hi - start
    BY <1>1, <1>4, <1>5, <1>14
  <2>2. CASE T = {}
    <3>1. e0[b].right # none
      BY <1>1, <1>14, <2>1
    <3>2. Edges(v1[b].lo, v1[b].hi)
      BY <1>9, <1>10, <2>1, <2>2, <3>1
    <3> QED
      BY <1>4, <3>2 DEF e, e0, FoundIn
  <2>3. CASE T # {}
    <3>1. \A t \in T : t = 0 /\ v2[b].hi = start
      BY <1>1, <1>3, <1>7, <1>14
    <3>2. 0 \in T /\ v2[b].hi = start
      BY <2>3, <3>1
    <3>3. Max(T) = 0
      <4>1. 0 \in Int /\ DELAY_MAX \in Int
        BY <1>1
      <4>2. \A t \in T : t <= 0
        BY <3>1
      <4> QED
        BY <1>7, <3>2, <4>1, <4>2, LeastGreatest
    <3>4. Edges(v1[b].lo, v2[b].hi)
      BY <1>1, <1>9, <2>1, <2>3, <3>2, <3>3
    <3> QED
      BY <1>4, <3>4 DEF e, e0, FoundIn
  <2> QED
    BY <2>2, <2>3
<1>15. \/ v1[b].lo > start \/ (v1[b].lo <= start /\ start <= v1[b].hi)
       \/ v1[b].hi < start
  BY <1>1
<1> QED
  BY <1>12, <1>13, <1>14, <1>15, Zenon

\* Half, by what it is of a number rounded towards zero.
LEMMA HalfIs ==
  ASSUME NEW n \in Int
  PROVE  /\ Half(n) \in Int
         /\ n >= 0 => 2 * Half(n) <= n /\ n <= 2 * Half(n) + 1
         /\ n <= 0 => 2 * Half(n) - 1 <= n /\ n <= 2 * Half(n)
BY DEF Half

\* The smallest offset is that of a bit.
LEMMA MinOffIs ==
  ASSUME NEW e \in EdgeSets
  PROVE  \E m \in Bits : /\ MinOff(e) = Off(e, m)
                         /\ \A b \in Bits : Off(e, m) <= Off(e, b)
<1> DEFINE S == {Off(e, b) : b \in Bits}
<1>1. \A b \in Bits : Off(e, b) \in -2 * none .. 2 * none
  BY DeskewAssumption DEF EdgeSets, Off, none
<1>2. -2 * none \in Int /\ 2 * none \in Int /\ 0 \in Bits
  BY DeskewAssumption DEF none, Bits
<1>3. S \subseteq Int /\ (\A x \in S : -2 * none <= x) /\ S # {}
  BY <1>1, <1>2
<1>4. Min(S) \in S /\ \A y \in S : Min(S) <= y
  <2> HIDE DEF S
  <2> QED
    BY <1>2, <1>3, MinIs
<1>5. PICK m \in Bits : Min(S) = Off(e, m)
  BY <1>4
<1>6. \A b \in Bits : Off(e, m) <= Off(e, b)
  BY <1>4, <1>5
<1> QED
  BY <1>5, <1>6 DEF MinOff

(***************************************************************************)
(* Edges found to a tap, of windows in reach of the sweeps and near enough *)
(* to each other for the taps, leave margins on both sides.                *)
(***************************************************************************)
LEMMA EdgesSuffice ==
  ASSUME NEW w \in Windows, NEW e \in EdgeSets, NEW start \in Taps,
         \A b \in Bits : Covered(w[b], start), Levelled(w),
         \A b \in Bits : FoundIn(e[b], w[b], start)
  PROVE  Edgeless(e) = {} /\ Margins(e, start, TRUE)
<1>1. DELAY_MAX \in Nat /\ start \in Int /\ 0 <= start /\ start <= DELAY_MAX
  BY DeskewAssumption DEF Taps
<1>2. \A b \in Bits :
        /\ w[b].lo \in Int /\ w[b].hi \in Int
        /\ start - DELAY_MAX <= w[b].lo /\ w[b].hi <= DELAY_MAX
        /\ w[b].hi - w[b].lo >= 2
  BY DEF Windows, Covered
<1>3. /\ \A a, b \in Bits : (w[a].lo + w[a].hi) - (w[b].lo + w[b].hi)
                              <= 2 * DELAY_MAX - 2
      /\ \E b \in Bits : w[b].lo + w[b].hi >= 0
  BY DEF Levelled
<1>4. Edgeless(e) = {}
  <2> SUFFICES ASSUME NEW b \in Bits
               PROVE  e[b].left # none /\ e[b].right # none
    BY DEF Edgeless
  <2>1. PICK l \in {w[b].lo, w[b].lo + 1}, h \in {w[b].hi - 1, w[b].hi} :
          e[b].left = start - l /\ e[b].right = h - start
    BY DEF FoundIn
  <2> QED
    BY <1>1, <1>2, <2>1 DEF none
<1>5. PICK m \in Bits : /\ MinOff(e) = Off(e, m)
                        /\ \A b \in Bits : Off(e, m) <= Off(e, b)
  BY MinOffIs
<1>6. PICK l0 \in {w[m].lo, w[m].lo + 1}, h0 \in {w[m].hi - 1, w[m].hi} :
        e[m].left = start - l0 /\ e[m].right = h0 - start
  BY DEF FoundIn
<1>7. /\ l0 \in Int /\ h0 \in Int /\ l0 <= h0 /\ h0 <= DELAY_MAX
      /\ w[m].lo + w[m].hi - 1 <= l0 + h0 /\ l0 + h0 <= w[m].lo + w[m].hi + 1
      /\ MinOff(e) = 2 * start - (l0 + h0)
  BY <1>1, <1>2, <1>5, <1>6 DEF Off
<1>8. l0 + h0 >= -1
  <2>1. PICK z \in Bits : w[z].lo + w[z].hi >= 0
    BY <1>3
  <2>2. PICK l \in {w[z].lo, w[z].lo + 1}, h \in {w[z].hi - 1, w[z].hi} :
          e[z].left = start - l /\ e[z].right = h - start
    BY DEF FoundIn
  <2>3. Off(e, z) = 2 * start - (l + h) /\ l \in Int /\ h \in Int /\ l + h >= -1
    BY <1>1, <1>2, <2>1, <2>2 DEF Off
  <2>4. 2 * start - (l0 + h0) <= 2 * start - (l + h)
    BY <1>5, <1>7, <2>3
  <2> QED
    BY <1>1, <1>7, <2>3, <2>4
<1> DEFINE mid == MidMin(e)
<1> DEFINE dqs == NewDqs(e, start, TRUE)
<1>9. /\ mid \in Int
      /\ 2 * start - (l0 + h0) <= 2 * mid
      /\ 2 * mid <= 2 * start - (l0 + h0) + 1
  <2> DEFINE n == 2 * start - (l0 + h0)
  <2>1. n \in Int /\ n + 1 \in Int
    BY <1>1, <1>7
  <2>2. mid = Half(IF n > 0 THEN n + 1 ELSE n)
    BY <1>7 DEF MidMin
  <2> HIDE DEF n
  <2>3. CASE n > 0
    BY <2>1, <2>2, <2>3, HalfIs DEF n
  <2>4. CASE n <= 0
    BY <2>1, <2>2, <2>4, HalfIs DEF n
  <2> QED
    BY <2>1, <2>3, <2>4
<1>10. ASSUME NEW b \in Bits
       PROVE  /\ LeftMargin(e, start, TRUE, b) >= 0
              /\ RightMargin(e, start, TRUE, b) >= 0
  <2> DEFINE half == Half(Off(e, b) - MinOff(e))
  <2> DEFINE dq == NewDq(e, start, TRUE, b)
  <2>1. PICK l \in {w[b].lo, w[b].lo + 1}, h \in {w[b].hi - 1, w[b].hi} :
          e[b].left = start - l /\ e[b].right = h - start
    BY DEF FoundIn
  <2>2. /\ l \in Int /\ h \in Int /\ l <= h
        /\ w[b].lo + w[b].hi - 1 <= l + h /\ l + h <= w[b].lo + w[b].hi + 1
        /\ Off(e, b) = 2 * start - (l + h)
    BY <1>1, <1>2, <2>1 DEF Off
  <2>3. l + h <= l0 + h0
    <3>1. 2 * start - (l0 + h0) <= 2 * start - (l + h)
      BY <1>5, <1>7, <2>2
    <3> QED
      BY <1>1, <1>7, <2>2, <3>1
  <2>4. (l0 + h0) - (l + h) <= 2 * DELAY_MAX
    <3>1. (w[m].lo + w[m].hi) - (w[b].lo + w[b].hi) <= 2 * DELAY_MAX - 2
      BY <1>3
    <3> QED
      BY <1>1, <1>2, <1>7, <2>2, <3>1
  <2>5. l0 + h0 = -1 => (l0 + h0) - (l + h) <= 2 * DELAY_MAX - 2
    <3>1. PICK z \in Bits : w[z].lo + w[z].hi >= 0
      BY <1>3
    <3> QED
      BY <1>1, <1>2, <1>3, <1>7, <2>2, <3>1
  <2>6. /\ half \in Int
        /\ 2 * half <= (l0 + h0) - (l + h)
        /\ (l0 + h0) - (l + h) <= 2 * half + 1
    <3>1. Off(e, b) - MinOff(e) = (l0 + h0) - (l + h)
      BY <1>1, <1>7, <2>2
    <3>2. (l0 + h0) - (l + h) \in Int /\ (l0 + h0) - (l + h) >= 0
      BY <1>7, <2>2, <2>3
    <3> QED
      BY <3>1, <3>2, HalfIs
  <2>7. /\ dqs = Clamp(start - mid)
        /\ dq = Clamp(half + mid - (start - dqs))
    BY DEF NewDqs, NewDq, Moves
  <2>8. dqs \in Int /\ dq \in Int
    <3>1. NewDqs(e, start, TRUE) \in Taps /\ NewDq(e, start, TRUE, b) \in Taps
      BY NewTaps
    <3>2. Taps \subseteq Int
      BY DEF Taps
    <3> QED
      BY <3>1, <3>2
  <2>10. /\ LeftMargin(e, start, TRUE, b) = e[b].left - dq - (start - dqs)
         /\ RightMargin(e, start, TRUE, b) = e[b].right + dq + (start - dqs)
    BY DEF LeftMargin, RightMargin, Moves
  <2> HIDE DEF half, dq, dqs, mid
  <2>9. l <= dqs - dq /\ dqs - dq <= h
    <3>1. /\ DELAY_MAX \in Nat /\ start \in Int /\ l \in Int /\ h \in Int
          /\ l0 \in Int /\ h0 \in Int /\ mid \in Int /\ half \in Int
          /\ l <= h /\ l0 <= h0 /\ h0 <= DELAY_MAX /\ l0 + h0 >= -1
      BY <1>1, <1>7, <1>8, <1>9, <2>2, <2>6
    <3>2. /\ 2 * start - (l0 + h0) <= 2 * mid
          /\ 2 * mid <= 2 * start - (l0 + h0) + 1
          /\ 2 * half <= (l0 + h0) - (l + h)
          /\ (l0 + h0) - (l + h) <= 2 * half + 1
          /\ l + h <= l0 + h0
      BY <1>9, <2>3, <2>6
    <3>3. CASE l0 + h0 >= 0
      <4>1. 0 <= start - mid /\ start - mid <= DELAY_MAX
        BY <3>1, <3>2, <3>3
      <4>2. dqs = start - mid
        BY <2>7, <3>1, <4>1 DEF Clamp
      <4>3. dq = half
        <5>1. half + mid - (start - dqs) = half
          BY <3>1, <4>2
        <5>2. 0 <= half /\ half <= DELAY_MAX
          BY <2>4, <3>1, <3>2
        <5> QED
          BY <2>7, <3>1, <5>1, <5>2 DEF Clamp
      <4> QED
        BY <3>1, <3>2, <4>2, <4>3
    <3>4. CASE l0 + h0 = -1
      <4>1. start - mid = -1
        BY <3>1, <3>2, <3>4
      <4>2. dqs = 0
        BY <2>7, <3>1, <4>1 DEF Clamp
      <4>3. dq = half + 1
        <5>1. half + mid - (start - dqs) = half + 1
          BY <3>1, <4>1, <4>2
        <5>2. 0 <= half + 1 /\ half + 1 <= DELAY_MAX
          BY <2>5, <3>1, <3>2, <3>4
        <5> QED
          BY <2>7, <3>1, <5>1, <5>2 DEF Clamp
      <4> QED
        BY <3>1, <3>2, <3>4, <4>2, <4>3
    <3>5. l0 + h0 >= 0 \/ l0 + h0 = -1
      BY <3>1
    <3> QED
      BY <3>3, <3>4, <3>5
  <2>11. /\ e[b].left - dq - (start - dqs) = (dqs - dq) - l
         /\ e[b].right + dq + (start - dqs) = h - (dqs - dq)
    BY <1>1, <2>1, <2>2, <2>8
  <2>12. (dqs - dq) - l >= 0 /\ h - (dqs - dq) >= 0
    BY <2>2, <2>8, <2>9
  <2> QED
    BY <2>10, <2>11, <2>12
<1> QED
  BY <1>4, <1>10 DEF Margins

\* What has been found so far is what the sweeps find from where they began.
Traced ==
  /\ swept = 1 =>
       \E near \in SUBSET Bits :
         edges = AfterLeft(Marginal(Windowed, near), Strobe)
  /\ swept = 2 /\ step # "writes" =>
       \E near, later \in SUBSET Bits :
         edges = AfterRight(Marginal(Windowed, later), Strobe,
                            AfterLeft(Marginal(Windowed, near), Strobe), TRUE)

LEMMA InitTraced == Init => Traced
<1>1. Init => swept = 0
  BY DEF Init
<1> QED
  BY <1>1 DEF Traced

\* Every step but the sweeps forgets what was found, or has found nothing.
LEMMA OthersForget ==
  ASSUME Sweeping, Next, ~SweepLeft, ~SweepRight
  PROVE  swept' = 0
<1>1. CASE Forget
  BY <1>1 DEF Forget
<1>2. CASE step \notin {"centre", "writes", "end"} /\ UNCHANGED found
  BY <1>2 DEF Sweeping, found
<1>3. CASE Start
  BY <1>2, <1>3 DEF Start
<1>4. CASE \/ GuaranteedRead \/ GuaranteedReadFails \/ GateFound
           \/ GateNotFound \/ NextTap \/ NextDelay \/ NextGroup
  BY <1>2, <1>4 DEF GuaranteedRead, GuaranteedReadFails, GateFound,
     GateNotFound, NextTap, NextDelay, NextGroup
<1>5. CASE \/ BeginLfifo \/ LfifoPasses \/ LfifoFound
           \/ HandOver \/ RestoreConfig \/ Report
  BY <1>2, <1>5 DEF BeginLfifo, LfifoPasses, LfifoFound, HandOver,
     RestoreConfig, Report
<1>6. CASE \/ Centre \/ CentreNoWindow \/ CentreNoMargin \/ CentreWrites
           \/ CentreEnd
  BY <1>1, <1>6 DEF Centre, CentreNoWindow, CentreNoMargin, CentreWrites,
     CentreEnd
<1>7. CASE \/ GiveUp \/ WritesNoWindow \/ WritesNoMargin \/ EndNoWindow
           \/ EndNoMargin \/ LfifoFails
  BY <1>1, <1>7 DEF GiveUp, WritesNoWindow, WritesNoMargin, EndNoWindow,
     EndNoMargin, LfifoFails, Fail
<1> QED
  BY <1>3, <1>4, <1>5, <1>6, <1>7
     DEF Next, CalibrateReads, CalibrateWrites, CalibrateEnd, CalibrateLfifo,
         Finish

LEMMA StepTraced ==
  ASSUME Sweeping, Traced, [Next]_vars
  PROVE  Traced'
<1>1. CASE SweepLeft
  <2>1. Windowed' = Windowed /\ Strobe' = Strobe /\ swept' = 1
    BY <1>1 DEF SweepLeft, Windowed, Strobe, reads, writes, loop
  <2>2. \E near \in SUBSET Bits :
          edges' = AfterLeft(Marginal(Windowed, near), Strobe)
    BY <1>1 DEF SweepLeft
  <2> QED
    BY <2>1, <2>2 DEF Traced
<1>2. CASE SweepRight
  <2>1. /\ Windowed' = Windowed /\ Strobe' = Strobe
        /\ swept = 1 /\ swept' = 2 /\ step' = step
    BY <1>2 DEF SweepRight, Windowed, Strobe, reads, writes, loop
  <2>2. PICK later \in SUBSET Bits :
          edges' = AfterRight(Marginal(Windowed, later), Strobe, edges,
                              step # "writes")
    BY <1>2 DEF SweepRight
  <2>3. PICK near \in SUBSET Bits :
          edges = AfterLeft(Marginal(Windowed, near), Strobe)
    BY <2>1 DEF Traced
  <2>4. CASE step = "writes"
    BY <2>1, <2>4 DEF Traced
  <2>5. CASE step # "writes"
    <3>1. (step # "writes") = TRUE
      BY <2>5
    <3>2. edges' = AfterRight(Marginal(Windowed, later), Strobe,
                     AfterLeft(Marginal(Windowed, near), Strobe), TRUE)
      BY <2>2, <2>3, <3>1, Zenon
    <3>3. \E n, l \in SUBSET Bits :
            edges' = AfterRight(Marginal(Windowed, l), Strobe,
                       AfterLeft(Marginal(Windowed, n), Strobe), TRUE)
      BY <3>2, Zenon
    <3>4. \E n, l \in SUBSET Bits :
            edges' = AfterRight(Marginal(Windowed', l), Strobe',
                       AfterLeft(Marginal(Windowed', n), Strobe'), TRUE)
      BY <2>1, <3>3
    <3>5. swept' # 1
      BY <2>1
    <3> QED
      BY <3>4, <3>5, Zenon DEF Traced
  <2> QED
    BY <2>4, <2>5
<1>3. CASE Next /\ ~SweepLeft /\ ~SweepRight
  <2>1. swept' = 0
    BY <1>3, OthersForget
  <2> QED
    BY <2>1 DEF Traced
<1>4. CASE UNCHANGED vars
  <2>1. /\ Windowed' = Windowed /\ Strobe' = Strobe
        /\ swept' = swept /\ step' = step /\ edges' = edges
    BY <1>4 DEF vars, found, Windowed, Strobe, reads, writes, loop
  <2> QED
    BY <2>1 DEF Traced
<1> QED
  BY <1>1, <1>2, <1>3, <1>4

(***************************************************************************)
(* The deskew of reads gives no window up that the sweeps reach and the    *)
(* taps can centre, for any number of bits, any delay chains and whichever *)
(* bits are marginal in which sweep (5019-5420).                           *)
(***************************************************************************)
THEOREM WideCentred == Spec => []WideIsCentred
<1> DEFINE Inv == TypeOK /\ Sweeping /\ Traced
<1>1. Init => Inv
  BY InitTypes, InitTraced
<1>2. Inv /\ [Next]_vars => Inv'
  BY StepTypes, StepTraced
<1>3. Inv => WideIsCentred
  <2> SUFFICES ASSUME Inv, swept = 2, step # "writes",
                      \A b \in Bits : Covered(board[g].read[b], dqs_in[g]),
                      Levelled(board[g].read)
               PROVE  Edgeless(edges) = {} /\ Margins(edges, dqs_in[g], TRUE)
    BY DEF WideIsCentred
  <2> DEFINE w == board[g].read
  <2> DEFINE start == dqs_in[g]
  <2>1. Windowed = w /\ Strobe = start
    BY DEF Windowed, Strobe
  <2>2. w \in Windows /\ start \in Taps /\ edges \in EdgeSets
    BY <2>1, Swept0 DEF TypeOK, EdgeSets
  <2>3. PICK near, later \in SUBSET Bits :
          edges = AfterRight(Marginal(w, later), start,
                             AfterLeft(Marginal(w, near), start), TRUE)
    BY <2>1 DEF Traced
  <2> HIDE DEF w, start
  <2>4. /\ Marginal(w, near) \in Windows /\ Near(Marginal(w, near), w)
        /\ Marginal(w, later) \in Windows /\ Near(Marginal(w, later), w)
    BY <2>2, MarginalWithin, MarginalNear
  <2>5. \A b \in Bits : Covered(w[b], start)
    BY DEF w, start
  <2>6. \A b \in Bits : FoundIn(edges[b], w[b], start)
    BY <2>2, <2>3, <2>4, <2>5, EdgesFound
  <2>7. Levelled(w)
    BY DEF w
  <2>8. Edgeless(edges) = {} /\ Margins(edges, start, TRUE)
    BY <2>2, <2>5, <2>6, <2>7, EdgesSuffice
  <2> QED
    BY <2>8 DEF start
<1> QED
  BY <1>1, <1>2, <1>3, PTL DEF Spec

-----------------------------------------------------------------------------
(***************************************************************************)
(* The calibration comes to its end: where it is only moves forward, in    *)
(* the order of the groups, the parts of a group, the delays of the        *)
(* outputs, the parts of a trial, the taps of DQS, the steps at a tap, the *)
(* sweeps and, at last, the latencies tried.                               *)
(***************************************************************************)
Finishing == {"lfifo", "hand_over", "restore", "report", "done"}

Stretch ==
  CASE step = "start" -> 0
    [] step \in Finishing -> IF_DQS_WIDTH + 1
    [] OTHER -> g + 1

Part ==
  CASE step \in {"writes", "hand_over"} -> 1
    [] step \in {"end", "restore"} -> 2
    [] step \in {"next_group", "report"} -> 3
    [] step = "done" -> 4
    [] OTHER -> 0

Trial ==
  CASE step \in {"gate", "centre", "next_tap"} -> 1
    [] step = "next_delay" -> 2
    [] OTHER -> 0

AtTap ==
  CASE step = "centre" -> 1
    [] step = "next_tap" -> 2
    [] OTHER -> 0

Progress ==
  <<Stretch, Part, d, Trial, dqs_in_dtaps, AtTap, swept,
    MaxLatency + 1 - curr_read_lat>>

\* The first numbers that differ decide.
Precedes(before, after) ==
  \E n \in 1 .. 8 :
    before[n] < after[n] /\ \A m \in 1 .. n - 1 : before[m] = after[m]

ProgressBounds ==
  <<IF_DQS_WIDTH + 1, 4, DtapsPerPtap, 2, DELAY_MAX, 2, 2, MaxLatency + 1>>

Bounded == \A n \in 1 .. 8 : Progress[n] \in 0 .. ProgressBounds[n]

\* The numbers that say where the calibration is.
LEMMA ProgressIs ==
  ASSUME TypeOK
  PROVE  /\ Stretch \in 0 .. IF_DQS_WIDTH + 1 /\ Part \in 0 .. 4
         /\ d \in 0 .. DtapsPerPtap /\ DtapsPerPtap \in Nat /\ Trial \in 0 .. 2
         /\ dqs_in_dtaps \in 0 .. DELAY_MAX /\ DELAY_MAX \in Nat
         /\ AtTap \in 0 .. 2 /\ swept \in 0 .. 2
         /\ g \in Nat /\ g < IF_DQS_WIDTH /\ IF_DQS_WIDTH \in Nat
         /\ MaxLatency \in Nat /\ curr_read_lat \in 0 .. MaxLatency + 1
         /\ MaxLatency + 1 - curr_read_lat \in 0 .. MaxLatency + 1
<1>1. /\ d \in 0 .. DtapsPerPtap /\ DtapsPerPtap \in Nat
      /\ dqs_in_dtaps \in 0 .. DELAY_MAX /\ DELAY_MAX \in Nat /\ swept \in 0 .. 2
      /\ g \in Nat /\ g < IF_DQS_WIDTH /\ IF_DQS_WIDTH \in Nat
      /\ MaxLatency \in Nat /\ curr_read_lat \in 0 .. MaxLatency + 1
  BY CalibrateAssumption, DeskewAssumption DEF TypeOK, Taps, Groups
<1>2. Stretch \in 0 .. IF_DQS_WIDTH + 1
  BY <1>1 DEF Stretch, Finishing
<1>3. Part \in 0 .. 4 /\ Trial \in 0 .. 2 /\ AtTap \in 0 .. 2
  BY DEF Part, Trial, AtTap
<1> QED
  BY <1>1, <1>2, <1>3

\* In terms of the numbers, what a step has to show.
Onward ==
  \/ Stretch < Stretch'
  \/ /\ Stretch = Stretch'
     /\ \/ Part < Part'
        \/ /\ Part = Part'
           /\ \/ d < d'
              \/ /\ d = d'
                 /\ \/ Trial < Trial'
                    \/ /\ Trial = Trial' /\ dqs_in_dtaps < dqs_in_dtaps'
                    \/ /\ Trial = Trial' /\ dqs_in_dtaps = dqs_in_dtaps'
                       /\ \/ AtTap < AtTap'
                          \/ AtTap = AtTap' /\ swept < swept'
                          \/ /\ AtTap = AtTap' /\ swept = swept'
                             /\ curr_read_lat' < curr_read_lat

\* And then it moves forward.
LEMMA OnwardPrecedes ==
  ASSUME TypeOK, TypeOK', Onward
  PROVE  Precedes(Progress, Progress')
<1>1. /\ Progress[1] = Stretch /\ Progress'[1] = Stretch'
      /\ Progress[2] = Part /\ Progress'[2] = Part'
      /\ Progress[3] = d /\ Progress'[3] = d'
      /\ Progress[4] = Trial /\ Progress'[4] = Trial'
      /\ Progress[5] = dqs_in_dtaps /\ Progress'[5] = dqs_in_dtaps'
      /\ Progress[6] = AtTap /\ Progress'[6] = AtTap'
      /\ Progress[7] = swept /\ Progress'[7] = swept'
      /\ Progress[8] = MaxLatency + 1 - curr_read_lat
      /\ Progress'[8] = MaxLatency + 1 - curr_read_lat'
  BY DEF Progress
<1>2. curr_read_lat' < curr_read_lat => Progress[8] < Progress'[8]
  <2>1. curr_read_lat \in Nat /\ curr_read_lat' \in Nat /\ MaxLatency \in Nat
    BY CalibrateAssumption DEF TypeOK
  <2> DEFINE before == curr_read_lat
             after == curr_read_lat'
             most == MaxLatency
  <2>2. before \in Nat /\ after \in Nat /\ most \in Nat
    BY <2>1
  <2> HIDE DEF before, after, most
  <2>3. after < before => most + 1 - before < most + 1 - after
    BY <2>2
  <2> QED
    BY <1>1, <2>3 DEF before, after, most
<1>3. CASE /\ Progress[1] < Progress'[1]
  BY <1>3 DEF Precedes
<1>4. CASE /\ Progress[1] = Progress'[1] /\ Progress[2] < Progress'[2]
  <2>1. \A m \in 1 .. 2 - 1 : Progress[m] = Progress'[m]
    BY <1>4
  <2> QED
    BY <1>4, <2>1 DEF Precedes
<1>5. CASE /\ Progress[1] = Progress'[1] /\ Progress[2] = Progress'[2]
          /\ Progress[3] < Progress'[3]
  <2>1. \A m \in 1 .. 3 - 1 : Progress[m] = Progress'[m]
    BY <1>5
  <2> QED
    BY <1>5, <2>1 DEF Precedes
<1>6. CASE /\ Progress[1] = Progress'[1] /\ Progress[2] = Progress'[2]
          /\ Progress[3] = Progress'[3] /\ Progress[4] < Progress'[4]
  <2>1. \A m \in 1 .. 4 - 1 : Progress[m] = Progress'[m]
    BY <1>6
  <2> QED
    BY <1>6, <2>1 DEF Precedes
<1>7. CASE /\ Progress[1] = Progress'[1] /\ Progress[2] = Progress'[2]
          /\ Progress[3] = Progress'[3] /\ Progress[4] = Progress'[4]
          /\ Progress[5] < Progress'[5]
  <2>1. \A m \in 1 .. 5 - 1 : Progress[m] = Progress'[m]
    BY <1>7
  <2> QED
    BY <1>7, <2>1 DEF Precedes
<1>8. CASE /\ Progress[1] = Progress'[1] /\ Progress[2] = Progress'[2]
          /\ Progress[3] = Progress'[3] /\ Progress[4] = Progress'[4]
          /\ Progress[5] = Progress'[5] /\ Progress[6] < Progress'[6]
  <2>1. \A m \in 1 .. 6 - 1 : Progress[m] = Progress'[m]
    BY <1>8
  <2> QED
    BY <1>8, <2>1 DEF Precedes
<1>9. CASE /\ Progress[1] = Progress'[1] /\ Progress[2] = Progress'[2]
          /\ Progress[3] = Progress'[3] /\ Progress[4] = Progress'[4]
          /\ Progress[5] = Progress'[5] /\ Progress[6] = Progress'[6]
          /\ Progress[7] < Progress'[7]
  <2>1. \A m \in 1 .. 7 - 1 : Progress[m] = Progress'[m]
    BY <1>9
  <2> QED
    BY <1>9, <2>1 DEF Precedes
<1>10. CASE /\ Progress[1] = Progress'[1] /\ Progress[2] = Progress'[2]
          /\ Progress[3] = Progress'[3] /\ Progress[4] = Progress'[4]
          /\ Progress[5] = Progress'[5] /\ Progress[6] = Progress'[6]
          /\ Progress[7] = Progress'[7] /\ Progress[8] < Progress'[8]
  <2>1. \A m \in 1 .. 8 - 1 : Progress[m] = Progress'[m]
    BY <1>10
  <2> QED
    BY <1>10, <2>1 DEF Precedes
<1> QED
  BY <1>1, <1>2, <1>3, <1>4, <1>5, <1>6, <1>7, <1>8, <1>9, <1>10 DEF Onward

\* Each action moves forward.
LEMMA StepOnward ==
  ASSUME TypeOK, TypeOK', Sweeping, Next
  PROVE  Onward
<1> USE DEF Onward, Stretch, Part, Trial, AtTap, Finishing, loop, found
<1>0. /\ d \in Nat /\ dqs_in_dtaps \in Nat /\ swept \in 0 .. 2
      /\ g \in Nat /\ g < IF_DQS_WIDTH /\ IF_DQS_WIDTH \in Nat
      /\ MaxLatency \in Nat /\ curr_read_lat \in Nat
  BY ProgressIs
<1>1. CASE Start
  BY <1>0, <1>1 DEF Start, BeginGroup
<1>2. CASE GuaranteedRead
  BY <1>0, <1>2 DEF GuaranteedRead
<1>3. CASE GuaranteedReadFails
  BY <1>0, <1>3 DEF GuaranteedReadFails
<1>4. CASE GateFound
  BY <1>0, <1>4 DEF GateFound
<1>5. CASE GateNotFound
  BY <1>0, <1>5 DEF GateNotFound
<1>6. CASE SweepLeft
  BY <1>0, <1>6 DEF SweepLeft
<1>7. CASE SweepRight
  BY <1>0, <1>7 DEF SweepRight, Sweeping
<1>8. CASE Centre
  BY <1>0, <1>8 DEF Centre, SetReads, Forget, Swept
<1>9. CASE CentreNoWindow
  BY <1>0, <1>9 DEF CentreNoWindow, SetReads, Forget, Swept
<1>10. CASE CentreNoMargin
  BY <1>0, <1>10 DEF CentreNoMargin, SetReads, Forget, Swept
<1>11. CASE NextTap
  BY <1>0, <1>11 DEF NextTap
<1>12. CASE NextDelay
  BY <1>0, <1>12 DEF NextDelay
<1>13. CASE GiveUp
  BY <1>0, <1>13 DEF GiveUp, Fail, Forget
<1>14. CASE CentreWrites
  BY <1>0, <1>14 DEF CentreWrites, SetWrites, Forget, Swept
<1>15. CASE WritesNoWindow
  BY <1>0, <1>15 DEF WritesNoWindow, Fail, Forget, Swept
<1>16. CASE WritesNoMargin
  BY <1>0, <1>16 DEF WritesNoMargin, Fail, Forget, Swept, SetWrites
<1>17. CASE CentreEnd
  BY <1>0, <1>17 DEF CentreEnd, SetReads, Forget, Swept
<1>18. CASE EndNoWindow
  BY <1>0, <1>18 DEF EndNoWindow, Fail, Forget, Swept
<1>19. CASE EndNoMargin
  BY <1>0, <1>19 DEF EndNoMargin, Fail, Forget, Swept
<1>20. CASE NextGroup
  BY <1>0, <1>20 DEF NextGroup, BeginGroup
<1>21. CASE BeginLfifo
  BY <1>0, <1>21 DEF BeginLfifo
<1>22. CASE LfifoPasses
  BY <1>0, <1>22 DEF LfifoPasses
<1>23. CASE LfifoFound
  BY <1>0, <1>23 DEF LfifoFound
<1>24. CASE LfifoFails
  BY <1>0, <1>24 DEF LfifoFails, Fail, Forget
<1>25. CASE HandOver
  BY <1>0, <1>25 DEF HandOver
<1>26. CASE RestoreConfig
  BY <1>0, <1>26 DEF RestoreConfig
<1>27. CASE Report
  BY <1>0, <1>27 DEF Report
<1> QED
  BY <1>1, <1>2, <1>3, <1>4, <1>5, <1>6, <1>7, <1>8, <1>9,
     <1>10, <1>11, <1>12, <1>13, <1>14, <1>15, <1>16, <1>17, <1>18,
     <1>19, <1>20, <1>21, <1>22, <1>23, <1>24, <1>25, <1>26, <1>27
  DEF Next, CalibrateReads, CalibrateWrites, CalibrateEnd, CalibrateLfifo,
      Finish

(***************************************************************************)
(* Every step of the calibration moves it forward, and there is an end to  *)
(* that: no group, tap, delay, sweep or latency is tried for ever          *)
(* (5765-5973).  TLC shows, as Completes, that the end is always reached.  *)
(***************************************************************************)
THEOREM MovesForward ==
  Spec => []Bounded /\ [][Precedes(Progress, Progress')]_vars
<1>1. TypeOK => Bounded
  <2> SUFFICES ASSUME TypeOK PROVE Bounded
    OBVIOUS
  <2>1. /\ Progress[1] = Stretch /\ ProgressBounds[1] = IF_DQS_WIDTH + 1
        /\ Progress[2] = Part /\ ProgressBounds[2] = 4
        /\ Progress[3] = d /\ ProgressBounds[3] = DtapsPerPtap
        /\ Progress[4] = Trial /\ ProgressBounds[4] = 2
        /\ Progress[5] = dqs_in_dtaps /\ ProgressBounds[5] = DELAY_MAX
        /\ Progress[6] = AtTap /\ ProgressBounds[6] = 2
        /\ Progress[7] = swept /\ ProgressBounds[7] = 2
        /\ Progress[8] = MaxLatency + 1 - curr_read_lat
        /\ ProgressBounds[8] = MaxLatency + 1
    BY DEF Progress, ProgressBounds
  <2>2. ASSUME NEW n \in 1 .. 8 PROVE Progress[n] \in 0 .. ProgressBounds[n]
    <3>1. n \in {1, 2, 3, 4, 5, 6, 7, 8}
      OBVIOUS
    <3> QED
      BY <2>1, <3>1, ProgressIs
  <2> QED
    BY <2>2 DEF Bounded
<1>2. TypeOK /\ Sweeping /\ TypeOK' /\ [Next]_vars => [Precedes(Progress, Progress')]_vars
  BY StepOnward, OnwardPrecedes
<1> QED
  BY <1>1, <1>2, Types, PTL DEF Spec

-----------------------------------------------------------------------------
(***************************************************************************)
(* The search for when to open the DQS gate (DqsEnable), for a window of   *)
(* any width that begins anywhere.  A setting is a place on a ring, all    *)
(* the cycles of the VFIFO, counted from where the window begins: a read   *)
(* passes from Jitter up to Jitter before the window's end, and fails from *)
(* its end on.                                                             *)
(***************************************************************************)
Ring == VFIFO_SIZE * Cycle

Place == Into(window.from)

\* A phase tap, and the two that passing over phase 0 makes.
Ptap == IO_DELAY_PER_OPA_TAP
TwoPtaps == 2 * IO_DELAY_PER_OPA_TAP
Dtap == IO_DELAY_PER_DQS_EN_DCHAIN_TAP

\* How far the phase before is.
Back == IF p = 1 THEN TwoPtaps ELSE Ptap

\* A read at this place may fail.
MayFail(place) == place < Jitter \/ place >= window.width - Jitter

\* Reads have failed at two pushes.
Narrow == window.width <= Ring - Cycle + 2 * Jitter

\* In "push", a read that failed was at a push before.
HasFailed ==
  fail_cnt = 1 =>
    \E u \in 0 .. v - 1 : MayFail((Delay(u, 1, 0) - window.from) % Ring)

\* In "first", the place counted on from where the scan began failing, over
\* the end of the ring: the scan is outside of the window, or just in it.
Scanning ==
  \E place \in {Place, Place + Ring} :
    /\ place >= window.width - Jitter + Delay(i, p, 0) - Ptap
    /\ place < Ring + Jitter + Back

\* In "begin", the taps are those from a phase that failed up to the first
\* that passed.
AtBegin ==
  /\ (work_bgn - window.from) % Cycle = (Place - dtap * Dtap + Ptap) % Cycle
  /\ work_end = work_bgn
  /\ \E place \in {Place, Place + Ring} :
       /\ place - dtap * Dtap >= Ring - Ptap
       /\ place - dtap * Dtap < Ring + Jitter
       /\ place - dtap * Dtap + Ptap < Ring + window.width
       /\ dtap > 0 => place - Dtap < Ring + Jitter

\* The begin found is in the window by less than a delay tap and the jitter,
\* or by less than two phases and the jitter if the way back was phase 0.
BeginRight ==
  \/ BeginError < Slack
  \/ FromPhase1 /\ BeginError < TwoPtaps + Jitter

\* Where the end of the range is.
EndPlace == BeginError + work_end - work_bgn

\* The range keeps up with the setting, or is behind by the phase that the
\* way over phase 0 leaves out.
InStep(behind) ==
  /\ Place = EndPlace + behind
  /\ behind \in {0, Ptap}
  /\ behind = Ptap => FromPhase1

\* In "end", the phase before passed.
AtEnd ==
  \E behind \in {0, Ptap} :
    /\ InStep(behind)
    /\ \/ Place - Back >= 0 /\ Place - Back < window.width
       \/ /\ behind = Ptap /\ p = 3
          /\ Place - TwoPtaps >= 0 /\ Place - TwoPtaps < window.width

\* In "last", the tap before passed, and two phases on a read failed.
AtLast ==
  \E behind \in {0, Ptap} :
    /\ InStep(behind)
    /\ Place - dtap * Dtap >= 0
    /\ Place - dtap * Dtap + TwoPtaps >= window.width - Jitter
    /\ dtap > 0 => Place - Dtap < window.width
    /\ dtap = 0 => Place - behind < window.width

\* The end found is in the window, and at most this far from its end.
EndRight ==
  /\ work_bgn <= work_end
  /\ window.width - EndPlace > 0
  /\ window.width - EndPlace <= Slack + IF FromPhase1 THEN Ptap ELSE 0

\* The tracking's two ends: one with a phase more, one with taps more.
Measured == ~FromPhase1 /\ p < IO_DQS_EN_PHASE_MAX

\* The first place where a read failed, going up by delay taps.
OnEnd(place) ==
  place >= window.width - Jitter /\ place < window.width + Dtap

\* In "track_pass", a phase below the end found.
AtTrackPass == dtap = initial_failing_dtap /\ OnEnd(Place + Ptap)

\* In "track_fail", the tap before passed.
AtTrackFail ==
  /\ OnEnd(Place + Ptap - (dtap - initial_failing_dtap) * Dtap)
  /\ Place - Dtap < window.width

\* The setting is that of the middle, but for whole cycles.
Centred ==
  LET off == (Place % Cycle) - window.width \div 2
  IN  IF FromPhase1 \/ MidPhase = 0
      THEN off \in -(Ptap + Slack) .. Ptap + Slack
      ELSE off \in -2 * Slack .. 2 * Slack

\* What each step of the search knows of its settings, whatever the window.
GateTypes ==
  /\ GateTypeOK
  /\ search = "push" =>
       /\ v < VFIFO_SIZE /\ p = 1 /\ dtap = 0 /\ i = 0
       /\ fail_cnt <= 1
  /\ search = "first" => i < VFIFO_SIZE /\ dtap <= StaticTaps
  /\ search = "begin" =>
       /\ p < IO_DQS_EN_PHASE_MAX /\ i < VFIFO_SIZE
       /\ work_bgn >= TwoPtaps /\ work_end >= TwoPtaps
       /\ dtap <= StaticTaps
  /\ search = "end" =>
       /\ work_end >= TwoPtaps /\ dtap = 0
       /\ i < VFIFO_SIZE + 1
  /\ search = "last" => work_end >= dtap * Dtap
  /\ search \in {"track_pass", "track_fail"} => initial_failing_dtap <= dtap
  /\ search = "centre" => i < VFIFO_SIZE
  /\ search \notin {"measured", "centre", "found", "failed"} =>
       dtaps_per_ptap = StaticTaps

\* The steps that have a range.
RangeSteps == {"end", "last", "track_pass", "track_fail", "measured", "centre", "found"}

\* The search in a wide window.
OnTheWay ==
  /\ search = "first" => dtap = 0 /\ Scanning
  /\ search = "begin" => AtBegin
  /\ ~BegunInWindow =>
     /\ search \in RangeSteps => BeginRight
     /\ search = "end" => AtEnd
     /\ search = "last" => AtLast
     /\ search \in RangeSteps \ {"end", "last"} => EndRight
     /\ search = "track_pass" /\ Measured => AtTrackPass
     /\ search = "track_fail" /\ Measured => AtTrackFail
     /\ search = "measured" /\ Measured => dtaps_per_ptap \in TapsOfAPhase

\* The inductive invariant: once reads have failed at two pushes the window
\* cannot fill the ring, and a wide one is not jumped over.
GateInv ==
  /\ GateTypes
  /\ search = "push" => HasFailed
  /\ search \notin {"push", "failed"} => Narrow
  /\ Wide => OnTheWay

\* What is set, and what is found.
CentreInv ==
  /\ search \in {"centre", "found"} /\ Wide /\ ~BegunInWindow => Centred
  /\ search = "found" => Place < window.width

\* What a wide window has beyond two phases is more than both edges jitter,
\* in all: then no phase or tap on the way jumps over what surely passes.
SteadyEdges == 2 * Jitter < 3 * IO_DELAY_PER_DQS_EN_DCHAIN_TAP

USE DEF IO_DELAY_PER_OPA_TAP, IO_DELAY_PER_DQS_EN_DCHAIN_TAP, IO_DQS_EN_PHASE_MAX,
        IO_DQS_EN_DELAY_MAX, VFIFO_SIZE, Cycle, Ring, Ptap, TwoPtaps,
        Dtap

\* A step on the ring.
LEMMA Around ==
  ASSUME NEW x \in Int, NEW c \in Int, -Ring < c, c < Ring
  PROVE  (x + c) % Ring = IF (x % Ring) + c >= Ring THEN (x % Ring) + c - Ring
                             ELSE IF (x % Ring) + c < 0 THEN (x % Ring) + c + Ring
                             ELSE (x % Ring) + c
OBVIOUS

\* The same, up to the ring.
LEMMA Further ==
  ASSUME NEW x \in Int, NEW c \in Int, 0 <= c, c < Ring
  PROVE  (x + c) % Ring = (x % Ring) + c \/ (x + c) % Ring = (x % Ring) + c - Ring
OBVIOUS

\* Places are on the ring.
LEMMA InRing == \A x \in Int : x % Ring \in Nat /\ x % Ring < Ring
OBVIOUS

\* Places are the same but for cycles.
LEMMA InCycle ==
  ASSUME NEW x \in Int
  PROVE  /\ x % Cycle \in 0 .. Cycle - 1
         /\ x \in 0 .. Cycle - 1 => x % Cycle = x
         /\ (x % Ring) % Cycle = x % Cycle
         /\ \A k \in Int : (x + k * Cycle) % Cycle = x % Cycle
         /\ (x + Ring) % Cycle = x % Cycle
<1>1. x % Cycle \in 0 .. Cycle - 1
  OBVIOUS
<1>4. x \in 0 .. Cycle - 1 => x % Cycle = x
  OBVIOUS
<1>2. (x % Ring) % Cycle = x % Cycle
  OBVIOUS
<1>3. ASSUME NEW k \in Int PROVE (x + k * Cycle) % Cycle = x % Cycle
  OBVIOUS
<1>5. (x + Ring) % Cycle = x % Cycle
  OBVIOUS
<1> QED
  BY <1>1, <1>2, <1>3, <1>4, <1>5

\* Going round the ring is whole cycles.
LEMMA RingIsCycles == \A x \in Int : (x % Ring) % Cycle = x % Cycle
OBVIOUS

\* A place some cycles on.
LEMMA CyclesOn == \A x \in Int, k \in Int : x + k * Cycle \in Int
OBVIOUS

\* What the remainder leaves off is whole cycles.
LEMMA CyclesOff ==
  ASSUME NEW x \in Int
  PROVE  \E k \in Int : x % Cycle = x + k * Cycle
<1>1. x = Cycle * (x \div Cycle) + (x % Cycle) /\ x \div Cycle \in Int
  OBVIOUS
<1>2. x % Cycle = x + (-(x \div Cycle)) * Cycle /\ -(x \div Cycle) \in Int
  BY <1>1
<1> QED
  BY <1>2

\* Whole cycles do not matter to what is counted on from there.
LEMMA SameInCycle ==
  ASSUME NEW x \in Int, NEW y \in Int, x % Cycle = y % Cycle, NEW c \in Int
  PROVE  (x + c) % Cycle = (y + c) % Cycle
OBVIOUS

\* The delay taps in a phase.
LEMMA TwelveTaps == StaticTaps = 12
<1>1. 312 \div 25 = 12
  OBVIOUS
<1> QED
  BY <1>1 DEF StaticTaps

\* Step 6: the setting of the middle of the range, but for phase 0.
LEMMA MidSetting ==
  ASSUME GateTypeOK
  PROVE  /\ WorkMid \in 1 .. Cycle
         /\ MidPhase \in 0 .. IO_DQS_EN_PHASE_MAX
         /\ LET rest == WorkMid - MidPhase * Ptap
                taps == RoundedUp(rest, Dtap)
            IN  /\ rest \in 1 .. Ptap
                /\ taps \in 1 .. StaticTaps + 1
                /\ rest <= taps * Dtap /\ taps * Dtap < rest + Dtap
<1> DEFINE mid == ((work_bgn + work_end) \div 2) - 1
<1>1. mid \in Int
  BY DEF GateTypeOK
<1>2. mid % 2496 \in 0 .. 2495
  BY <1>1
<1>3. WorkMid = (mid % 2496) + 1
  BY DEF WorkMid
<1> HIDE DEF mid
<1>4. WorkMid \in 1 .. 2496
  BY <1>2, <1>3
<1>5. MidPhase = (WorkMid + 311) \div 312 - 1
  BY <1>4 DEF MidPhase, RoundedUp
<1>6. /\ MidPhase \in 0 .. 7
      /\ WorkMid - MidPhase * 312 \in 1 .. 312
  BY <1>4, <1>5
<1> DEFINE rest == WorkMid - MidPhase * 312
<1>7. rest \in 1 .. 312
  BY <1>6
<1>8. RoundedUp(rest, 25) = (rest + 24) \div 25
  BY <1>7 DEF RoundedUp
<1> HIDE DEF rest
<1>9. /\ RoundedUp(rest, 25) \in 1 .. 13
      /\ rest <= RoundedUp(rest, 25) * 25
      /\ RoundedUp(rest, 25) * 25 < rest + 25
  BY <1>7, <1>8
<1> QED
  BY <1>4, <1>6, <1>7, <1>9, TwelveTaps DEF rest

(***************************************************************************)
(* Types: every setting written exists, whatever the window.               *)
(***************************************************************************)
LEMMA InitGateTypes == GateInit => GateTypes
BY TwelveTaps DEF GateInit, GateTypes, GateTypeOK, SearchSteps

\* Every step of the search keeps the types.
LEMMA StepGateTypes ==
  ASSUME GateTypes, GateNext
  PROVE  GateTypes'
<1> USE DEF GateTypes, GateTypeOK, SearchSteps, range, tracked
<1>0. StaticTaps = 12
  BY TwelveTaps
<1>1. CASE PushPassing
  BY <1>1 DEF PushPassing, Push
<1>2. CASE PushFirstFailing
  BY <1>2 DEF PushFirstFailing, Push
<1>3. CASE PushSecondFailing
  BY <1>3 DEF PushSecondFailing
<1>4. CASE FirstFailing
  BY <1>0, <1>4 DEF FirstFailing, SearchFails
<1>5. CASE FirstPassingPhase
  BY <1>5 DEF FirstPassingPhase, Delay
<1>6. CASE FirstPassingPhase1
  BY <1>6 DEF FirstPassingPhase1, Delay, GoForward, PhaseOn
<1>7. CASE FirstPassingDelay
  BY <1>7 DEF FirstPassingDelay, Delay
<1>8. CASE BeginPassing
  BY <1>0, <1>8 DEF BeginPassing, GoForward, PhaseOn
<1>9. CASE BeginFailing
  BY <1>9 DEF BeginFailing
<1>10. CASE BeginIsPhase
  BY <1>0, <1>10 DEF BeginIsPhase, GoForward, PhaseOn
<1>11. CASE EndPassing
  BY <1>11 DEF EndPassing, PhaseOn
<1>12. CASE EndFailing
  BY <1>12 DEF EndFailing, Decremented
<1>13. CASE LastPassing
  BY <1>0, <1>13 DEF LastPassing, BackUpPhase, Decremented
<1>14. CASE LastFailing
  BY <1>0, <1>14 DEF LastFailing, BackUpPhase, Decremented
<1>15. CASE NilRange
  BY <1>15 DEF NilRange
<1>16. CASE TrackFailing
  BY <1>0, <1>16 DEF TrackFailing, TapOn
<1>17. CASE TrackPassing
  BY <1>0, <1>17 DEF TrackPassing, TapOn
<1>18. CASE TrackStillPassing
  BY <1>0, <1>18 DEF TrackStillPassing, TapOn
<1>19. CASE TrackEnd
  BY <1>0, <1>19 DEF TrackEnd
<1>20. CASE SetCentre
  <2>1. MidPhase \in 0 .. 7
    BY MidSetting
  <2>2. RoundedUp(WorkMid - MidPhase * 312, 25) \in 1 .. 13
    BY <1>0, MidSetting
  <2> QED
    BY <1>20, <2>1, <2>2 DEF SetCentre
<1>21. CASE CentreFailing
  BY <1>21 DEF CentreFailing
<1>22. CASE CentrePassing
  BY <1>22 DEF CentrePassing
<1> QED
  BY <1>1, <1>2, <1>3, <1>4, <1>5, <1>6, <1>7, <1>8, <1>9, <1>10, <1>11, <1>12,
     <1>13, <1>14, <1>15, <1>16, <1>17, <1>18, <1>19, <1>20, <1>21, <1>22,
     GateNext DEF GateNext, PushVfifo, FindFirst, FindBegin, FindEnd, Track, FindCentre

\* The place of a setting.
LEMMA PlaceIs ==
  ASSUME GateTypes
  PROVE  /\ Delay(v, p, dtap) \in Int /\ window.from \in Int /\ window.width \in Nat
         /\ Place = (Delay(v, p, dtap) - window.from) % Ring
         /\ Place \in Nat /\ Place < Ring
<1>0. window \in [from : Froms, width : Widths]
  BY DEF GateTypes, GateTypeOK
<1>1. /\ v \in Int /\ p \in Int /\ dtap \in Int
      /\ window.from \in Int /\ window.width \in Nat
  <2>1. v \in Int /\ p \in Int /\ dtap \in Int
    BY DEF GateTypes, GateTypeOK
  <2>2. window.from \in Froms /\ window.width \in Widths
    BY <1>0
  <2>3. window.from \in Nat /\ window.width \in Nat
    BY <2>2, WindowAssumption
  <2> QED
    BY <2>1, <2>3
<1>2. Delay(v, p, dtap) \in Int
  BY <1>1 DEF Delay
<1>3. Place = (Delay(v, p, dtap) - window.from) % Ring
  BY DEF Place, Into
<1>4. /\ (Delay(v, p, dtap) - window.from) % Ring \in Nat
      /\ (Delay(v, p, dtap) - window.from) % Ring < Ring
  <2>1. Delay(v, p, dtap) - window.from \in Int
    BY <1>1, <1>2
  <2> QED
    BY <2>1, InRing
<1> QED
  BY <1>1, <1>2, <1>3, <1>4

\* Where a setting is that is c after the one before.
LEMMA Moved ==
  ASSUME GateTypes, GateTypes', window' = window,
         NEW c \in Int, -Ring < c, c < Ring,
         Delay(v', p', dtap') = Delay(v, p, dtap) + c
  PROVE  /\ Place' = IF Place + c >= Ring THEN Place + c - Ring
                     ELSE IF Place + c < 0 THEN Place + c + Ring
                     ELSE Place + c
         /\ Place' \in Nat /\ Place' < Ring
<1> DEFINE x == Delay(v, p, dtap) - window.from
<1>1. Place' = (Delay(v', p', dtap') - window.from) % Ring
  BY DEF Place, Into
<1>2. x \in Int /\ Place = x % Ring
  BY PlaceIs
<1>3. Delay(v', p', dtap') - window.from = x + c
  BY PlaceIs
<1> HIDE DEF x
<1>4. /\ (x + c) % Ring = IF (x % Ring) + c >= Ring THEN (x % Ring) + c - Ring
                          ELSE IF (x % Ring) + c < 0 THEN (x % Ring) + c + Ring
                          ELSE (x % Ring) + c
  BY <1>2, Around
<1>5. (x + c) % Ring \in Nat /\ (x + c) % Ring < Ring
  BY <1>2, InRing
<1> QED
  BY <1>1, <1>2, <1>3, <1>4, <1>5

\* The window of a wide board, and its jitter.
LEMMA Sizes ==
  ASSUME Jitter <= 37, GateTypes
  PROVE  /\ Jitter \in Nat /\ Jitter <= 37 /\ window.width \in Nat
         /\ Wide => window.width >= 699
BY PlaceIs, WindowAssumption DEF Wide

\* A read's outcome, by its place.
LEMMA Outcomes ==
  /\ ReadPasses <=> Place < window.width
  /\ ReadFails <=> MayFail(Place)
BY DEF ReadPasses, ReadFails, MayFail, Place

\* Two places a cycle apart or more, both ways round, and both outside of what
\* surely passes, bound its width.
LEMMA CycleApart ==
  ASSUME NEW j \in Nat, j <= 37, NEW c \in Int, Cycle <= c, c <= Ring - Cycle,
         NEW x \in Nat, x < Ring, NEW y \in Nat, y < Ring,
         y = x + c \/ y = x + c - Ring, NEW w \in Nat,
         x < j \/ x >= w - j, y < j \/ y >= w - j
  PROVE  w <= Ring - Cycle + 2 * j
OBVIOUS

\* Two reads that fail at different pushes are a cycle apart, both ways.
LEMMA TwoFailed ==
  ASSUME Jitter <= 37, GateTypes, v < VFIFO_SIZE, p = 1, dtap = 0,
         NEW u \in 0 .. v - 1, MayFail((Delay(u, 1, 0) - window.from) % Ring),
         MayFail(Place)
  PROVE  Narrow
<1> DEFINE k == v - u
           c == k * Cycle
           x == Delay(u, 1, 0) - window.from
           y == x % Ring
<1>1. /\ Jitter \in Nat /\ Jitter <= 37 /\ window.width \in Nat
      /\ window.from \in Int /\ v \in Nat /\ u \in Nat
  BY Sizes, PlaceIs DEF GateTypes, GateTypeOK
<1>2. k \in 1 .. VFIFO_SIZE - 1 /\ x \in Int
  BY <1>1 DEF Delay
<1>3. Delay(v, p, dtap) - window.from = x + c
  BY <1>1 DEF Delay
<1>5. MayFail(y)
  OBVIOUS
<1> HIDE DEF y, x, k
<1>7. c \in Int /\ -Ring < c /\ c < Ring /\ Cycle <= c /\ c <= Ring - Cycle
  BY <1>2
<1> HIDE DEF c
<1>4. Place = (x + c) % Ring
  BY <1>3, PlaceIs
<1>6. /\ y \in Nat /\ y < Ring /\ Place \in Nat /\ Place < Ring
      /\ Place = y + c \/ Place = y + c - Ring
  <2>0. y = x % Ring
    BY DEF y
  <2>1. y \in Nat /\ y < Ring /\ Place \in Nat /\ Place < Ring
    <3>1. y \in Nat /\ y < Ring
      BY <1>2, <2>0, InRing
    <3> QED
      BY <3>1, PlaceIs
  <2>2. (x + c) % Ring = (x % Ring) + c \/ (x + c) % Ring = (x % Ring) + c - Ring
    BY <1>2, <1>7, Further
  <2> DEFINE z == (x + c) % Ring
             y0 == x % Ring
  <2>3. Place = z /\ (z = y0 + c \/ z = y0 + c - Ring) /\ y = y0
    BY <1>4, <2>0, <2>2
  <2> HIDE DEF z, y0
  <2> QED
    BY <2>1, <2>3
<1> QED
  BY <1>1, <1>5, <1>6, <1>7, CycleApart DEF MayFail, Narrow

\* Step 1 (4106-4127): the second read that fails leaves a window that is narrow.
LEMMA StepPush ==
  ASSUME Jitter <= 37, GateInv, GateTypes', PushVfifo
  PROVE  GateInv'
<1>0. GateTypes /\ search = "push" /\ HasFailed
  BY DEF GateInv, PushVfifo, PushPassing, PushFirstFailing, PushSecondFailing
<1>1. /\ window' = window /\ p' = p /\ dtap' = dtap /\ i' = i
      /\ p = 1 /\ dtap = 0 /\ i = 0 /\ v < VFIFO_SIZE /\ v \in Nat
  BY <1>0 DEF GateTypes, GateTypeOK, PushVfifo, PushPassing, PushFirstFailing,
     PushSecondFailing, Push
<1>2. CASE PushPassing
  <2>1. search' \in {"push", "failed"} /\ v' = v + 1 /\ fail_cnt' = fail_cnt
    BY <1>0, <1>2 DEF PushPassing, Push
  <2>2. HasFailed'
    BY <1>0, <1>1, <2>1 DEF HasFailed, MayFail, Delay
  <2> QED
    BY <2>1, <2>2 DEF GateInv, OnTheWay, RangeSteps
<1>3. CASE PushFirstFailing
  <2>1. search' \in {"push", "failed"} /\ v' = v + 1
    BY <1>0, <1>3 DEF PushFirstFailing, Push
  <2>2. MayFail(Place)
    BY <1>3, Outcomes DEF PushFirstFailing
  <2>3. Place = (Delay(v, 1, 0) - window.from) % Ring
    BY <1>0, <1>1, PlaceIs
  <2>4. HasFailed'
    BY <1>0, <1>1, <2>1, <2>2, <2>3 DEF HasFailed, MayFail, Delay
  <2> QED
    BY <2>1, <2>4 DEF GateInv, OnTheWay, RangeSteps
<1>4. CASE PushSecondFailing
  <2>1. /\ search' = "first" /\ v' = v /\ fail_cnt = 1
    BY <1>4 DEF PushSecondFailing
  <2>2. MayFail(Place)
    BY <1>4, Outcomes DEF PushSecondFailing
  <2>3. Narrow
    BY <1>0, <1>1, <2>1, <2>2, TwoFailed DEF HasFailed
  <2>4. Narrow' /\ Place' = Place
    BY <1>1, <2>1, <2>3 DEF Narrow, Place, Into, Delay
  <2>5. Wide => Scanning
    <3>1. Place \in Nat /\ Place < Ring /\ Jitter \in Nat /\ Jitter <= 37 /\ window.width \in Nat
      BY <1>0, PlaceIs, Sizes
    <3>2. Delay(i, p, 0) = Ptap
      BY <1>1 DEF Delay
    <3>3. CASE Place < Jitter
      <4>1. /\ Place + Ring >= window.width - Jitter + Delay(i, p, 0) - Ptap
            /\ Place + Ring < Ring + Jitter + Back
        BY <2>3, <3>1, <3>2, <3>3, <1>1 DEF Narrow, Back
      <4> QED
        BY <4>1 DEF Scanning
    <3>4. CASE Place >= window.width - Jitter
      <4>1. /\ Place >= window.width - Jitter + Delay(i, p, 0) - Ptap
            /\ Place < Ring + Jitter + Back
        BY <3>1, <3>2, <3>4, <1>1 DEF Back
      <4> QED
        BY <4>1 DEF Scanning
    <3> QED
      BY <2>2, <3>3, <3>4 DEF MayFail
  <2>6. Wide' => Scanning'
    BY <1>1, <2>1, <2>4, <2>5 DEF Scanning, Delay, Back, Wide
  <2> QED
    BY <1>1, <2>1, <2>4, <2>6 DEF GateInv, OnTheWay, RangeSteps
<1> QED
  BY <1>2, <1>3, <1>4 DEF PushVfifo

\* A step of the search once reads have failed at two pushes.
LEMMA Carried ==
  ASSUME GateInv, GateTypes', window' = window, search \notin {"push", "failed"},
         search' # "push", Wide => OnTheWay'
  PROVE  GateInv'
BY DEF GateInv, Narrow, Wide

\* The scan goes on to the next phase.
LEMMA ScanOn ==
  ASSUME NEW j \in Nat, j <= 37, NEW w \in Nat, w >= 699,
         NEW x \in Nat, x < Ring, NEW y \in {x, x + Ring},
         NEW back \in {Ptap, TwoPtaps}, y < Ring + j + back,
         x < j \/ x >= w - j,
         NEW c \in {Ptap, TwoPtaps}, NEW z,
         z = IF x + c >= Ring THEN x + c - Ring
             ELSE IF x + c < 0 THEN x + c + Ring ELSE x + c
  PROVE  y < Ring + j /\ y + c \in {z, z + Ring}
<1>1. y < Ring + j
  OBVIOUS
<1>2. x + c < Ring => z = x + c
  OBVIOUS
<1>3. x + c >= Ring => z = x + c - Ring
  OBVIOUS
<1>4. y = x \/ y = x + Ring
  OBVIOUS
<1> QED
  BY <1>1, <1>2, <1>3, <1>4

\* Step 2 (4131-4208), a read that fails: the scan goes on round the ring, and
\* has not been round it.
LEMMA StepFirstFailing ==
  ASSUME Jitter <= 37, GateInv, GateTypes', Wide, FirstFailing
  PROVE  OnTheWay'
<1>1. /\ GateTypes /\ Narrow /\ search = "first" /\ dtap = 0 /\ Scanning
      /\ i \in Nat /\ i < VFIFO_SIZE /\ p \in Nat /\ 1 <= p /\ p <= 7 /\ v \in Nat
  BY DEF GateInv, OnTheWay, FirstFailing, GateTypes, GateTypeOK
<1>2. /\ Jitter \in Nat /\ Jitter <= 37 /\ window.width \in Nat
      /\ window.width >= 699 /\ Place \in Nat /\ Place < Ring
  BY <1>1, Sizes, PlaceIs
<1>3. Place < Jitter \/ Place >= window.width - Jitter
  BY Outcomes DEF FirstFailing, MayFail
<1>4. Back \in {Ptap, TwoPtaps}
  BY DEF Back
<1>5. PICK place \in {Place, Place + Ring} :
        /\ place >= window.width - Jitter + Delay(i, p, 0) - Ptap
        /\ place < Ring + Jitter + Back
  BY <1>1 DEF Scanning
<1>6. ASSUME NEW c \in {Ptap, TwoPtaps}, search' = "first", dtap' = 0,
             Delay(v', p', dtap') = Delay(v, p, dtap) + c,
             Delay(i', p', 0) = Delay(i, p, 0) + c, window' = window,
             c <= Back'
      PROVE  OnTheWay'
  <2>1. /\ Place' = IF Place + c >= Ring THEN Place + c - Ring
                    ELSE IF Place + c < 0 THEN Place + c + Ring ELSE Place + c
    BY <1>1, <1>6, Moved
  <2>2. place < Ring + Jitter /\ place + c \in {Place', Place' + Ring}
    BY <1>2, <1>3, <1>4, <1>5, <2>1, ScanOn
  <2>3. /\ place + c >= window'.width - Jitter + Delay(i', p', 0) - Ptap
        /\ place + c < Ring + Jitter + Back'
    BY <1>1, <1>2, <1>5, <1>6, <2>2 DEF Delay, Back
  <2>4. Scanning'
    BY <2>2, <2>3 DEF Scanning
  <2> QED
    BY <1>6, <2>4 DEF OnTheWay, RangeSteps
<1>7. CASE p < IO_DQS_EN_PHASE_MAX /\ p' = p + 1 /\ UNCHANGED <<search, v, dtap, i>>
  BY <1>1, <1>6, <1>7 DEF FirstFailing, Delay, Back
<1>8. CASE p = IO_DQS_EN_PHASE_MAX /\ p' = 1 /\ v' = v + 1 /\ i' = i + 1
             /\ UNCHANGED <<search, dtap>>
  BY <1>1, <1>6, <1>8 DEF FirstFailing, Delay, Back
<1>9. ~ (p = IO_DQS_EN_PHASE_MAX /\ i = VFIFO_SIZE - 1)
  BY <1>1, <1>2, <1>3, <1>4, <1>5 DEF Delay, Back
<1> QED
  BY <1>7, <1>8, <1>9 DEF FirstFailing

\* The setting and the range it is counted in are the same but for cycles.
LEMMA CountedFrom ==
  ASSUME GateTypes, NEW u \in Nat
  PROVE  (Delay(u, p, dtap) - window.from) % Cycle = Place % Cycle
<1> DEFINE x == Delay(v, p, dtap) - window.from
           k == u - v
<1>1. /\ x \in Int /\ k \in Int /\ Place = x % Ring
      /\ Delay(u, p, dtap) - window.from = x + k * Cycle
  <2>1. v \in Nat /\ p \in Nat /\ dtap \in Nat
    BY DEF GateTypes, GateTypeOK
  <2> QED
    BY <2>1, PlaceIs DEF Delay
<1> HIDE DEF x, k
<1>2. (x + k * Cycle) % Cycle = x % Cycle /\ (x % Ring) % Cycle = x % Cycle
  BY <1>1, InCycle
<1> QED
  BY <1>1, <1>2

\* The first phase that passes, after one that failed.
LEMMA FirstIsPast ==
  ASSUME Jitter <= 37, GateInv, Wide, search = "first", ReadPasses,
         i > 0 \/ p > 1
  PROVE  Place < Jitter + Back /\ Place < window.width
<1>1. /\ GateTypes /\ Scanning
      /\ i \in Nat /\ i < VFIFO_SIZE /\ p \in Nat /\ 1 <= p /\ p <= 7 /\ v \in Nat
  BY DEF GateInv, OnTheWay, GateTypes, GateTypeOK
<1>2. /\ Jitter \in Nat /\ Jitter <= 37 /\ window.width \in Nat
      /\ window.width >= 699 /\ Place \in Nat /\ Place < Ring
  BY <1>1, Sizes, PlaceIs
<1>3. Place < window.width
  BY Outcomes
<1>4. Delay(i, p, 0) >= TwoPtaps
  BY <1>1 DEF Delay
<1>5. Back \in {Ptap, TwoPtaps} /\ Delay(i, p, 0) \in Int
  BY <1>1 DEF Back, Delay
<1>6. PICK place \in {Place, Place + Ring} :
        /\ place >= window.width - Jitter + Delay(i, p, 0) - Ptap
        /\ place < Ring + Jitter + Back
  BY <1>1 DEF Scanning
<1>7. place # Place
  BY <1>2, <1>3, <1>4, <1>5, <1>6
<1> QED
  BY <1>2, <1>3, <1>5, <1>6, <1>7

\* Step 2, the first phase that passes, and one back.
LEMMA StepFirstPassingPhase ==
  ASSUME Jitter <= 37, GateInv, GateTypes', Wide, FirstPassingPhase
  PROVE  OnTheWay'
<1>1. /\ GateTypes /\ Narrow /\ search' = "begin" /\ dtap = 0 /\ p > 1 /\ p \in Nat
      /\ dtap' = 0 /\ v' = v /\ p' = p - 1 /\ window' = window /\ i' = i
      /\ i \in Nat /\ v \in Nat
      /\ work_bgn' = Delay(i, p, dtap) /\ work_end' = work_bgn'
  BY DEF GateInv, FirstPassingPhase, GateTypes, GateTypeOK
<1>2. /\ Jitter \in Nat /\ Jitter <= 37 /\ window.width \in Nat
      /\ window.width >= 699 /\ Place \in Nat /\ Place < Ring
  BY <1>1, Sizes, PlaceIs
<1>3. Place < Jitter + Ptap /\ Place < window.width
  BY <1>1, FirstIsPast DEF FirstPassingPhase, Back
<1>4. Delay(v', p', dtap') = Delay(v, p, dtap) + (-Ptap)
  BY <1>1 DEF Delay
<1>5. Place' = IF Place + (-Ptap) >= Ring THEN Place + (-Ptap) - Ring
               ELSE IF Place + (-Ptap) < 0 THEN Place + (-Ptap) + Ring
               ELSE Place + (-Ptap)
  BY <1>1, <1>4, Moved
<1>6. /\ Place' = Place - Ptap \/ Place' = Place - Ptap + Ring
      /\ Place' \in Int
      /\ Place + Ring - Ptap \in {Place', Place' + Ring}
  BY <1>2, <1>5
<1>7. (Place' + Ptap) % Cycle = Place % Cycle
  <2>1. Place' + Ptap = Place \/ Place' + Ptap = Place + Ring
    <3>1. CASE Place' = Place - Ptap
      BY <1>2, <3>1
    <3>2. CASE Place' = Place - Ptap + Ring
      BY <1>2, <3>2
    <3> QED
      BY <1>6, <3>1, <3>2
  <2>2. (Place + Ring) % Cycle = Place % Cycle
    BY <1>2, InCycle
  <2> QED
    BY <2>1, <2>2
<1>8. (work_bgn' - window'.from) % Cycle = Place % Cycle
  BY <1>1, CountedFrom
<1>9. AtBegin'
  <2> DEFINE place == Place + Ring - Ptap
  <2>1. /\ place - dtap' * Dtap >= Ring - Ptap
        /\ place - dtap' * Dtap < Ring + Jitter
        /\ place - dtap' * Dtap + Ptap < Ring + window'.width
        /\ dtap' > 0 => place - Dtap < Ring + Jitter
    BY <1>1, <1>2, <1>3
  <2> HIDE DEF place
  <2>2. place \in {Place', Place' + Ring}
    BY <1>6 DEF place
  <2>3. (work_bgn' - window'.from) % Cycle = (Place' - dtap' * Dtap + Ptap) % Cycle
    <3>1. Place' - dtap' * Dtap + Ptap = Place' + Ptap
      BY <1>1, <1>6
    <3> QED
      BY <1>7, <1>8, <3>1
  <2> QED
    BY <1>1, <2>1, <2>2, <2>3 DEF AtBegin
<1> QED
  BY <1>1, <1>9 DEF OnTheWay, RangeSteps

\* Step 2, the first phase that passes is 1: there is no way back.
LEMMA StepFirstPassingPhase1 ==
  ASSUME Jitter <= 37, GateInv, GateTypes', Wide, FirstPassingPhase1
  PROVE  OnTheWay'
<1>1. /\ GateTypes /\ Narrow /\ search' = "end" /\ dtap = 0 /\ p = 1
      /\ dtap' = 0 /\ v' = v /\ p' = 3 /\ window' = window
      /\ i \in Nat /\ v \in Nat
      /\ work_bgn' = Delay(i, p, dtap) /\ work_end' = work_bgn' + Ptap
  BY DEF GateInv, FirstPassingPhase1, GoForward, PhaseOn, GateTypes, GateTypeOK
<1>2. /\ Jitter \in Nat /\ Jitter <= 37 /\ window.width \in Nat
      /\ window.width >= 699 /\ Place \in Nat /\ Place < Ring
  BY <1>1, Sizes, PlaceIs
<1>3. CASE i = 0
  <2>1. BegunInWindow'
    BY <1>1, <1>3 DEF BegunInWindow, Delay
  <2> QED
    BY <1>1, <2>1 DEF OnTheWay
<1>4. CASE i > 0
  <2>1. Place < Jitter + TwoPtaps /\ Place < window.width
    BY <1>1, <1>4, FirstIsPast DEF FirstPassingPhase1, Back
  <2>2. (work_bgn' - window'.from) % Cycle = Place % Cycle
    BY <1>1, CountedFrom
  <2>3. BeginError' = Place
    BY <1>2, <2>1, <2>2, InCycle DEF BeginError
  <2>4. FromPhase1'
    <3>1. work_bgn' = Ptap + i * Cycle
      BY <1>1 DEF Delay
    <3>2. (Ptap + i * Cycle) % Cycle = Ptap % Cycle /\ Ptap % Cycle = Ptap
      BY <1>1, InCycle
    <3> QED
      BY <3>1, <3>2 DEF FromPhase1
  <2>5. Delay(v', p', dtap') = Delay(v, p, dtap) + TwoPtaps
    BY <1>1 DEF Delay
  <2>6. Place' = Place + TwoPtaps
    <3>1. Place' = IF Place + TwoPtaps >= Ring THEN Place + TwoPtaps - Ring
                   ELSE IF Place + TwoPtaps < 0 THEN Place + TwoPtaps + Ring
                   ELSE Place + TwoPtaps
      BY <1>1, <2>5, Moved
    <3> QED
      BY <1>2, <2>1, <3>1
  <2>7. EndPlace' = Place + Ptap
    <3>1. work_bgn' \in Int
      BY <1>1 DEF Delay
    <3> QED
      BY <1>1, <1>2, <2>3, <3>1 DEF EndPlace
  <2>8. InStep(Ptap)'
    BY <1>2, <2>4, <2>6, <2>7 DEF InStep
  <2>9. AtEnd'
    BY <1>1, <1>2, <2>1, <2>6, <2>8 DEF AtEnd
  <2>10. BeginRight'
    BY <1>2, <2>1, <2>3, <2>4 DEF BeginRight
  <2> QED
    BY <1>1, <2>9, <2>10 DEF OnTheWay, RangeSteps
<1> QED
  BY <1>1, <1>3, <1>4

\* Step 2.
LEMMA StepFirst ==
  ASSUME Jitter <= 37, GateInv, GateTypes', FindFirst
  PROVE  GateInv'
<1>1. search = "first" /\ window' = window
  BY DEF FindFirst, FirstFailing, FirstPassingPhase, FirstPassingPhase1, FirstPassingDelay,
     GoForward, SearchFails
<1>2. search' # "push"
  BY DEF FindFirst, FirstFailing, FirstPassingPhase, FirstPassingPhase1, FirstPassingDelay,
     GoForward, SearchFails
<1>3. Wide => dtap = 0
  BY <1>1 DEF GateInv, OnTheWay
<1>4. dtap \in Nat
  BY DEF GateInv, GateTypes, GateTypeOK
<1>5. Wide => ~ FirstPassingDelay
  BY <1>3, <1>4 DEF FirstPassingDelay
<1>6. Wide => OnTheWay'
  BY <1>5, StepFirstFailing, StepFirstPassingPhase, StepFirstPassingPhase1 DEF FindFirst
<1> QED
  BY <1>1, <1>2, <1>6, Carried

\* What "begin" knows of the setting it is at.
PhaseFound(place) ==
  /\ place \in {Place, Place + Ring}
  /\ place - dtap * Dtap >= Ring - Ptap
  /\ place - dtap * Dtap < Ring + Jitter
  /\ place - dtap * Dtap + Ptap < Ring + window.width
  /\ dtap > 0 => place - Dtap < Ring + Jitter

\* A read that fails on the way up to the passing phase is before the window.
LEMMA StillBefore ==
  ASSUME NEW j \in Nat, j <= 37, NEW w \in Nat, w >= 699,
         NEW x \in Nat, x < Ring, NEW y \in {x, x + Ring}, NEW taps \in Nat,
         taps <= 12, y - taps * Dtap < Ring + j, x < j \/ x >= w - j
  PROVE  y < Ring + j
OBVIOUS

\* Step 3a, a tap that fails: still before the window.
LEMMA StepBeginFailing ==
  ASSUME Jitter <= 37, GateInv, GateTypes', Wide, BeginFailing
  PROVE  OnTheWay'
<1>1. /\ GateTypes /\ AtBegin /\ search' = "begin" /\ window' = window
      /\ dtap' = dtap + 1 /\ dtap \in Nat /\ dtap < 12 /\ v' = v /\ p' = p
      /\ v \in Nat /\ p \in Nat
      /\ work_bgn' = work_bgn /\ work_end' = work_end
  BY TwelveTaps DEF GateInv, BeginFailing, GateTypes, GateTypeOK, OnTheWay, range
<1>2. /\ Jitter \in Nat /\ Jitter <= 37 /\ window.width \in Nat
      /\ window.width >= 699 /\ Place \in Nat /\ Place < Ring
  BY <1>1, Sizes, PlaceIs
<1>3. PICK place : PhaseFound(place)
  BY <1>1 DEF AtBegin, PhaseFound
<1>4. Place < Jitter \/ Place >= window.width - Jitter
  BY Outcomes DEF BeginFailing, MayFail
<1>5. place < Ring + Jitter
  BY <1>1, <1>2, <1>3, <1>4, StillBefore DEF PhaseFound
<1>6. Delay(v', p', dtap') = Delay(v, p, dtap) + Dtap
  BY <1>1 DEF Delay
<1>7. Place' = IF Place + Dtap >= Ring THEN Place + Dtap - Ring
               ELSE IF Place + Dtap < 0 THEN Place + Dtap + Ring ELSE Place + Dtap
  BY <1>1, <1>6, Moved
<1>8. /\ Place' = Place + Dtap \/ Place' = Place + Dtap - Ring
      /\ place + Dtap \in {Place', Place' + Ring}
  BY <1>2, <1>3, <1>5, <1>7 DEF PhaseFound
<1>9. PhaseFound(place + Dtap)'
  BY <1>1, <1>2, <1>3, <1>5, <1>8 DEF PhaseFound
<1>10. (Place' - dtap' * Dtap + Ptap) % Cycle = (Place - dtap * Dtap + Ptap) % Cycle
  <2> DEFINE x == Place - dtap * Dtap + Ptap
             y == Place' - dtap' * Dtap + Ptap
  <2>1. x \in Int /\ y \in Int
    BY <1>1, <1>2, <1>8
  <2>2. y = x \/ x = y + Ring
    <3>1. CASE Place' = Place + Dtap
      BY <1>1, <1>2, <3>1
    <3>2. CASE Place' = Place + Dtap - Ring
      BY <1>1, <1>2, <3>2
    <3> QED
      BY <1>8, <3>1, <3>2
  <2> HIDE DEF x, y
  <2>3. x % Cycle = y % Cycle
    <3>1. CASE y = x
      BY <3>1
    <3>2. CASE x = y + Ring
      BY <2>1, <3>2, InCycle
    <3> QED
      BY <2>2, <3>1, <3>2
  <2> QED
    BY <2>3 DEF x, y
<1>11. AtBegin'
  BY <1>1, <1>9, <1>10 DEF AtBegin, PhaseFound
<1> QED
  BY <1>1, <1>11 DEF OnTheWay, RangeSteps

\* From the begin on to the phase after the first that passed.
LEMMA StepForward ==
  ASSUME Jitter <= 37, GateInv, GateTypes', Wide, search = "begin",
         GoForward(p + 2, work_end), NEW place, PhaseFound(place),
         BeginError' \in Int, BeginRight',
         BeginError' + work_end - work_bgn' = place - dtap * Dtap + Ptap - Ring
  PROVE  OnTheWay'
<1> DEFINE first == place - dtap * Dtap + Ptap - Ring
<1>1. /\ GateTypes /\ Narrow /\ search' = "end" /\ window' = window
      /\ dtap' = 0 /\ dtap \in Nat /\ dtap <= 12 /\ v \in Nat /\ p \in Nat /\ p <= 6
      /\ work_bgn' \in Nat /\ work_end \in Nat
      /\ \/ p < 6 /\ p' = p + 2 /\ v' = v /\ work_end' = work_end + Ptap
         \/ p = 6 /\ p' = 1 /\ v' = v + 1 /\ work_end' = work_end + TwoPtaps
  BY TwelveTaps DEF GateInv, GoForward, PhaseOn, GateTypes, GateTypeOK
<1>2. /\ Jitter \in Nat /\ Jitter <= 37 /\ window.width \in Nat
      /\ window.width >= 699 /\ Place \in Nat /\ Place < Ring
      /\ window.width <= Ring - Cycle + 2 * Jitter
  BY <1>1, Sizes, PlaceIs DEF Narrow
<1>3. /\ place \in Nat /\ place \in {Place, Place + Ring}
      /\ first \in Nat /\ first < window.width
  BY <1>1, <1>2 DEF PhaseFound
<1>4. ASSUME NEW c \in {Ptap, TwoPtaps}, work_end' = work_end + c, c = Back',
             Delay(v', p', dtap') = Delay(v, p, dtap) + (c + Ptap - dtap * Dtap)
      PROVE  OnTheWay'
  <2> DEFINE by == c + Ptap - dtap * Dtap
  <2>1. by \in Int /\ -Ring < by /\ by < Ring
    BY <1>1
  <2>2. first + c = place + by - Ring
    BY <1>1, <1>3
  <2> HIDE DEF by, first
  <2>3. Place' = IF Place + by >= Ring THEN Place + by - Ring
                 ELSE IF Place + by < 0 THEN Place + by + Ring ELSE Place + by
    BY <1>1, <1>4, <2>1, Moved DEF by
  <2>4. Place' = first + c
    BY <1>2, <1>3, <2>1, <2>2, <2>3
  <2>5. EndPlace' = first + c
    <3>1. EndPlace' = BeginError' + (work_end + c) - work_bgn'
      BY <1>4 DEF EndPlace
    <3>2. BeginError' + work_end - work_bgn' = first
      BY DEF first
    <3>3. c \in Int /\ work_end \in Int /\ work_bgn' \in Int /\ first \in Int
      BY <1>1, <1>3
    <3>4. BeginError' \in Int
      OBVIOUS
    <3>5. BeginError' + (work_end + c) - work_bgn' = (BeginError' + work_end - work_bgn') + c
      BY <3>3, <3>4
    <3> QED
      BY <3>1, <3>2, <3>5
  <2>6. InStep(0)'
    BY <1>3, <2>4, <2>5 DEF InStep
  <2>7. Place' - Back' >= 0 /\ Place' - Back' < window'.width
    <3>1. Back' = c /\ window'.width = window.width /\ c \in Int
      BY <1>1, <1>4
    <3> QED
      BY <1>2, <1>3, <2>4, <3>1
  <2>8. AtEnd'
    BY <2>6, <2>7 DEF AtEnd
  <2> QED
    BY <1>1, <2>8 DEF OnTheWay, RangeSteps
<1>5. CASE p < 6 /\ p' = p + 2 /\ v' = v /\ work_end' = work_end + Ptap
  <2>1. Delay(v', p', dtap') = Delay(v, p, dtap) + (Ptap + Ptap - dtap * Dtap)
    BY <1>1, <1>5 DEF Delay
  <2> QED
    BY <1>1, <1>4, <1>5, <2>1 DEF Back
<1>6. CASE p = 6 /\ p' = 1 /\ v' = v + 1 /\ work_end' = work_end + TwoPtaps
  <2>1. Delay(v', p', dtap') = Delay(v, p, dtap) + (TwoPtaps + Ptap - dtap * Dtap)
    BY <1>1, <1>6 DEF Delay
  <2> QED
    BY <1>1, <1>4, <1>6, <2>1 DEF Back
<1> QED
  BY <1>1, <1>5, <1>6

\* Step 3a, the first tap that passes is the begin.
LEMMA StepBeginPassing ==
  ASSUME Jitter <= 37, GateInv, GateTypes', Wide, BeginPassing
  PROVE  OnTheWay'
<1>1. /\ GateTypes /\ Narrow /\ AtBegin /\ window' = window
      /\ dtap \in Nat /\ dtap <= 12 /\ search = "begin"
      /\ work_bgn \in Nat /\ work_end = work_bgn
      /\ work_bgn' = work_bgn - Ptap + dtap * Dtap
      /\ GoForward(p + 2, work_end)
  BY TwelveTaps DEF GateInv, BeginPassing, GateTypes, GateTypeOK, OnTheWay, AtBegin,
     GoForward
<1>2. /\ Jitter \in Nat /\ Jitter <= 37 /\ window.width \in Nat /\ window.from \in Int
      /\ window.width >= 699 /\ Place \in Nat /\ Place < Ring
      /\ window.width <= Ring - Cycle + 2 * Jitter
  BY <1>1, Sizes, PlaceIs DEF Narrow
<1>3. PICK place : PhaseFound(place)
  BY <1>1 DEF AtBegin, PhaseFound
<1>4. Place < window.width
  BY Outcomes DEF BeginPassing
<1>5. place = Place + Ring
  BY <1>1, <1>2, <1>3, <1>4 DEF PhaseFound
<1>6. Place < Jitter + Dtap
  <2>1. CASE dtap = 0
    BY <1>2, <1>3, <1>5, <2>1 DEF PhaseFound
  <2>2. CASE dtap > 0
    BY <1>2, <1>3, <1>5, <2>2 DEF PhaseFound
  <2> QED
    BY <1>1, <2>1, <2>2
<1>7. BeginError' = Place
  <2> DEFINE x == work_bgn - window.from
             y == Place - dtap * Dtap + Ptap
             c == dtap * Dtap - Ptap
  <2>1. x \in Int /\ y \in Int /\ c \in Int /\ x % Cycle = y % Cycle
    BY <1>1, <1>2 DEF AtBegin
  <2>2. work_bgn' - window'.from = x + c /\ y + c = Place
    BY <1>1, <1>2
  <2> HIDE DEF x, y, c
  <2>3. (x + c) % Cycle = Place % Cycle
    BY <2>1, <2>2, SameInCycle
  <2>4. Place % Cycle = Place
    BY <1>2, <1>6, InCycle
  <2> QED
    BY <2>2, <2>3, <2>4 DEF BeginError
<1>8. BeginError' + work_end - work_bgn' = place - dtap * Dtap + Ptap - Ring
  BY <1>1, <1>2, <1>5, <1>7
<1>9. BeginError' \in Int /\ BeginRight'
  BY <1>2, <1>6, <1>7 DEF BeginRight, Slack
<1> QED
  BY <1>1, <1>3, <1>8, <1>9, StepForward

\* Step 3a, no tap passed: the phase was the begin.
LEMMA StepBeginIsPhase ==
  ASSUME Jitter <= 37, GateInv, GateTypes', Wide, BeginIsPhase
  PROVE  OnTheWay'
<1>1. /\ GateTypes /\ Narrow /\ AtBegin /\ window' = window
      /\ dtap = 12 /\ search = "begin"
      /\ work_bgn \in Nat /\ work_end = work_bgn /\ work_bgn' = work_bgn
      /\ GoForward(p + 2, work_end)
  BY TwelveTaps DEF GateInv, BeginIsPhase, GateTypes, GateTypeOK, OnTheWay, AtBegin,
     GoForward
<1>2. /\ Jitter \in Nat /\ Jitter <= 37 /\ window.width \in Nat /\ window.from \in Int
      /\ window.width >= 699 /\ Place \in Nat /\ Place < Ring
      /\ window.width <= Ring - Cycle + 2 * Jitter
  BY <1>1, Sizes, PlaceIs DEF Narrow
<1>3. PICK place : PhaseFound(place)
  BY <1>1 DEF AtBegin, PhaseFound
<1>4. Place < Jitter \/ Place >= window.width - Jitter
  BY Outcomes DEF BeginIsPhase, MayFail
<1>5. place < Ring + Jitter
  BY <1>1, <1>2, <1>3, <1>4, StillBefore DEF PhaseFound
<1> DEFINE first == place - dtap * Dtap + Ptap - Ring
<1>6. /\ first \in Nat /\ first < Jitter + 12
      /\ Place - dtap * Dtap + Ptap = first \/ Place - dtap * Dtap + Ptap = first + Ring
  BY <1>1, <1>2, <1>3, <1>5 DEF PhaseFound
<1> HIDE DEF first
<1>7. BeginError' = first
  <2>1. (work_bgn' - window'.from) % Cycle = (Place - dtap * Dtap + Ptap) % Cycle
    BY <1>1 DEF AtBegin
  <2>2. (Place - dtap * Dtap + Ptap) % Cycle = first % Cycle
    BY <1>6, InCycle
  <2>3. first % Cycle = first
    BY <1>2, <1>6, InCycle
  <2> QED
    BY <2>1, <2>2, <2>3 DEF BeginError
<1>8. BeginError' + work_end - work_bgn' = place - dtap * Dtap + Ptap - Ring
  <2>1. BeginError' + work_end - work_bgn' = first
    BY <1>1, <1>6, <1>7
  <2> QED
    BY <2>1 DEF first
<1>9. BeginError' \in Int /\ BeginRight'
  BY <1>2, <1>6, <1>7 DEF BeginRight, Slack
<1> QED
  BY <1>1, <1>3, <1>8, <1>9, StepForward

\* Step 3a.
LEMMA StepBegin ==
  ASSUME Jitter <= 37, GateInv, GateTypes', FindBegin
  PROVE  GateInv'
<1>1. /\ search = "begin" /\ window' = window /\ search' # "push"
  BY DEF FindBegin, BeginPassing, BeginFailing, BeginIsPhase, GoForward
<1>2. Wide => OnTheWay'
  BY StepBeginPassing, StepBeginFailing, StepBeginIsPhase DEF FindBegin
<1> QED
  BY <1>1, <1>2, Carried

\* The begin is found, and stays.
LEMMA BeginStays ==
  ASSUME GateTypes, window' = window, work_bgn' = work_bgn
  PROVE  /\ BeginError \in Nat /\ BeginError' = BeginError
         /\ BegunInWindow' = BegunInWindow /\ FromPhase1' = FromPhase1
         /\ BeginRight' = BeginRight
<1>1. work_bgn - window.from \in Int
  BY PlaceIs DEF GateTypes, GateTypeOK
<1> QED
  BY <1>1, InCycle DEF BeginError, BegunInWindow, FromPhase1, BeginRight

\* Step 4a, a phase that passes.
LEMMA StepEndPassing ==
  ASSUME Jitter <= 37, GateInv, GateTypes', Wide, EndPassing
  PROVE  OnTheWay'
<1>1. /\ GateTypes /\ Narrow /\ search = "end" /\ search' \in {"end", "failed"}
      /\ window' = window /\ dtap' = 0 /\ dtap = 0 /\ v \in Nat /\ p \in Nat /\ p >= 1
      /\ work_bgn' = work_bgn /\ work_bgn \in Nat /\ work_end \in Nat
      /\ \/ p < 7 /\ p' = p + 1 /\ v' = v /\ work_end' = work_end + Ptap
         \/ p = 7 /\ p' = 1 /\ v' = v + 1 /\ work_end' = work_end + TwoPtaps
  BY DEF GateInv, EndPassing, PhaseOn, GateTypes, GateTypeOK
<1>2. /\ Jitter \in Nat /\ Jitter <= 37 /\ window.width \in Nat
      /\ window.width >= 699 /\ Place \in Nat /\ Place < Ring
      /\ window.width <= Ring - Cycle + 2 * Jitter
  BY <1>1, Sizes, PlaceIs DEF Narrow
<1>3. Place < window.width
  BY Outcomes DEF EndPassing
<1> SUFFICES ASSUME ~BegunInWindow' PROVE BeginRight' /\ AtEnd'
  BY <1>1 DEF OnTheWay, RangeSteps
<1>4. /\ BeginRight' /\ AtEnd
      /\ BeginError \in Nat /\ BeginError' = BeginError /\ FromPhase1' = FromPhase1
  BY <1>1, BeginStays DEF GateInv, OnTheWay, RangeSteps
<1>5. PICK behind \in {0, Ptap} : InStep(behind)
  BY <1>4 DEF AtEnd
<1>6. ASSUME NEW c \in {Ptap, TwoPtaps}, work_end' = work_end + c, c = Back',
             Delay(v', p', dtap') = Delay(v, p, dtap) + c
      PROVE  AtEnd'
  <2>1. Place' = IF Place + c >= Ring THEN Place + c - Ring
                 ELSE IF Place + c < 0 THEN Place + c + Ring ELSE Place + c
    BY <1>1, <1>6, Moved
  <2>2. Place' = Place + c
    BY <1>2, <1>3, <2>1
  <2>3. EndPlace' = EndPlace + c /\ EndPlace \in Int
    BY <1>1, <1>4, <1>6 DEF EndPlace
  <2>4. InStep(behind)'
    BY <1>2, <1>4, <1>5, <2>2, <2>3 DEF InStep
  <2>5. Place' - Back' >= 0 /\ Place' - Back' < window'.width
    <3>1. Back' = c /\ window'.width = window.width /\ c \in Int
      BY <1>1, <1>6
    <3> QED
      BY <1>2, <1>3, <2>2, <3>1
  <2> QED
    BY <2>4, <2>5 DEF AtEnd
<1>7. CASE p < 7 /\ p' = p + 1 /\ v' = v /\ work_end' = work_end + Ptap
  <2>1. Delay(v', p', dtap') = Delay(v, p, dtap) + Ptap
    BY <1>1, <1>7 DEF Delay
  <2>2. Back' = Ptap
    BY <1>1, <1>7 DEF Back
  <2> QED
    BY <1>4, <1>6, <1>7, <2>1, <2>2
<1>8. CASE p = 7 /\ p' = 1 /\ v' = v + 1 /\ work_end' = work_end + TwoPtaps
  <2>1. Delay(v', p', dtap') = Delay(v, p, dtap) + TwoPtaps
    BY <1>1, <1>8 DEF Delay
  <2> QED
    BY <1>1, <1>4, <1>6, <1>8, <2>1 DEF Back
<1> QED
  BY <1>1, <1>4, <1>7, <1>8

\* Step 5a, the phase that failed, and back to the last that passed.
LEMMA StepEndFailing ==
  ASSUME Jitter <= 37, GateInv, GateTypes', Wide, EndFailing
  PROVE  OnTheWay'
<1>1. /\ GateTypes /\ Narrow /\ search = "end" /\ search' = "last"
      /\ window' = window /\ dtap' = 0 /\ dtap = 0 /\ v \in Nat /\ p \in Nat /\ p >= 1
      /\ work_bgn' = work_bgn /\ work_bgn \in Nat /\ work_end \in Nat
      /\ \/ p > 1 /\ p' = p - 1 /\ v' = v /\ work_end' = work_end - Ptap
         \/ p = 1 /\ p' = 7 /\ v' = v + 15 /\ work_end' = work_end - TwoPtaps
  BY DEF GateInv, EndFailing, Decremented, GateTypes, GateTypeOK
<1>2. /\ Jitter \in Nat /\ Jitter <= 37 /\ window.width \in Nat
      /\ window.width >= 699 /\ Place \in Nat /\ Place < Ring
      /\ window.width <= Ring - Cycle + 2 * Jitter
  BY <1>1, Sizes, PlaceIs DEF Narrow
<1>3. Place < Jitter \/ Place >= window.width - Jitter
  BY Outcomes DEF EndFailing, MayFail
<1> SUFFICES ASSUME ~BegunInWindow' PROVE BeginRight' /\ AtLast'
  BY <1>1 DEF OnTheWay, RangeSteps
<1>4. /\ BeginRight' /\ AtEnd
      /\ BeginError \in Nat /\ BeginError' = BeginError /\ FromPhase1' = FromPhase1
  BY <1>1, BeginStays DEF GateInv, OnTheWay, RangeSteps
<1>5. PICK behind \in {0, Ptap} :
        /\ InStep(behind)
        /\ \/ Place - Back >= 0 /\ Place - Back < window.width
           \/ /\ behind = Ptap /\ p = 3
              /\ Place - TwoPtaps >= 0 /\ Place - TwoPtaps < window.width
  BY <1>4 DEF AtEnd
<1>6. Back \in {Ptap, TwoPtaps} /\ Place - Back >= 0 /\ Place >= window.width - Jitter
  BY <1>2, <1>3, <1>5 DEF Back
<1>7. Place' = Place - Back /\ work_end' = work_end - Back
  <2>1. CASE p > 1 /\ p' = p - 1 /\ v' = v /\ work_end' = work_end - Ptap
    <3>1. Delay(v', p', dtap') = Delay(v, p, dtap) + (-Ptap)
      BY <1>1, <2>1 DEF Delay
    <3>2. Place' = IF Place + (-Ptap) >= Ring THEN Place + (-Ptap) - Ring
                   ELSE IF Place + (-Ptap) < 0 THEN Place + (-Ptap) + Ring
                   ELSE Place + (-Ptap)
      BY <1>1, <3>1, Moved
    <3>3. Back = Ptap
      BY <2>1 DEF Back
    <3> QED
      BY <1>2, <1>6, <2>1, <3>2, <3>3
  <2>2. CASE p = 1 /\ p' = 7 /\ v' = v + 15 /\ work_end' = work_end - TwoPtaps
    <3>1. Delay(v', p', dtap') = Delay(v, p, dtap) + (Ring - TwoPtaps)
      BY <1>1, <2>2 DEF Delay
    <3>2. Place' = IF Place + (Ring - TwoPtaps) >= Ring
                   THEN Place + (Ring - TwoPtaps) - Ring
                   ELSE IF Place + (Ring - TwoPtaps) < 0
                   THEN Place + (Ring - TwoPtaps) + Ring
                   ELSE Place + (Ring - TwoPtaps)
      BY <1>1, <3>1, Moved
    <3>3. Back = TwoPtaps
      BY <2>2 DEF Back
    <3> QED
      BY <1>2, <1>6, <2>2, <3>2, <3>3
  <2> QED
    BY <1>1, <2>1, <2>2
<1>8. InStep(behind)'
  <2>1. EndPlace' = EndPlace - Back /\ EndPlace \in Int
    BY <1>1, <1>4, <1>6, <1>7 DEF EndPlace
  <2> QED
    BY <1>2, <1>4, <1>5, <1>6, <1>7, <2>1 DEF InStep
<1>9. AtLast'
  <2>1. Place' - behind < window.width
    BY <1>2, <1>5, <1>6, <1>7 DEF Back
  <2>2. /\ Place' - dtap' * Dtap >= 0
        /\ Place' - dtap' * Dtap + TwoPtaps >= window'.width - Jitter
        /\ dtap' > 0 => Place' - Dtap < window'.width
        /\ dtap' = 0 => Place' - behind < window'.width
    BY <1>1, <1>2, <1>6, <1>7, <2>1
  <2> QED
    BY <1>8, <2>2 DEF AtLast
<1> QED
  BY <1>4, <1>9

\* The phase before, over phase 0.
LEMMA BackedUp ==
  ASSUME GateTypes, GateTypes', window' = window, dtap' = dtap, BackUpPhase, Place >= Back
  PROVE  Place' = Place - Back
<1>1. /\ v \in Nat /\ p \in Nat /\ p >= 1 /\ dtap \in Nat
      /\ Place \in Nat /\ Place < Ring
  BY PlaceIs DEF GateTypes, GateTypeOK
<1>2. CASE p > 1 /\ p' = p - 1 /\ v' = v
  <2>1. Delay(v', p', dtap') = Delay(v, p, dtap) + (-Ptap)
    BY <1>1, <1>2 DEF Delay
  <2>2. Place' = IF Place + (-Ptap) >= Ring THEN Place + (-Ptap) - Ring
                 ELSE IF Place + (-Ptap) < 0 THEN Place + (-Ptap) + Ring
                 ELSE Place + (-Ptap)
    BY <2>1, Moved
  <2>3. Back = Ptap
    BY <1>2 DEF Back
  <2> QED
    BY <1>1, <2>2, <2>3
<1>3. CASE p = 1 /\ p' = 7 /\ v' = v + 15
  <2>1. Delay(v', p', dtap') = Delay(v, p, dtap) + (Ring - TwoPtaps)
    BY <1>1, <1>3 DEF Delay
  <2>2. Place' = IF Place + (Ring - TwoPtaps) >= Ring
                 THEN Place + (Ring - TwoPtaps) - Ring
                 ELSE IF Place + (Ring - TwoPtaps) < 0
                 THEN Place + (Ring - TwoPtaps) + Ring
                 ELSE Place + (Ring - TwoPtaps)
    BY <2>1, Moved
  <2>3. Back = TwoPtaps
    BY <1>3 DEF Back
  <2> QED
    BY <1>1, <2>2, <2>3
<1> QED
  BY <1>1, <1>2, <1>3 DEF BackUpPhase, Decremented

\* A tap on, in the window.
LEMMA TapMoves ==
  ASSUME GateTypes, GateTypes', window' = window, v' = v, p' = p, dtap' = dtap + 1,
         Place < Ring - Dtap
  PROVE  Place' = Place + Dtap
<1>1. v \in Nat /\ p \in Nat /\ dtap \in Nat /\ Place \in Nat
  BY PlaceIs DEF GateTypes, GateTypeOK
<1>2. Delay(v', p', dtap') = Delay(v, p, dtap) + Dtap
  BY <1>1 DEF Delay
<1>3. Place' = IF Place + Dtap >= Ring THEN Place + Dtap - Ring
               ELSE IF Place + Dtap < 0 THEN Place + Dtap + Ring ELSE Place + Dtap
  BY <1>2, Moved
<1> QED
  BY <1>1, <1>3

\* A delay tap that passes: the taps do not run out.
LEMMA StepLastPassing ==
  ASSUME Jitter <= 37, GateInv, GateTypes', Wide, LastPassing
  PROVE  OnTheWay'
<1>1. /\ GateTypes /\ Narrow /\ search = "last" /\ search' \in {"last", "measured"}
      /\ window' = window /\ dtap \in Nat /\ dtap <= 31
      /\ work_bgn' = work_bgn /\ work_bgn \in Nat /\ work_end \in Nat
      /\ dtap < 31 => /\ search' = "last" /\ v' = v /\ p' = p /\ dtap' = dtap + 1
                     /\ work_end' = work_end + Dtap
  BY DEF GateInv, LastPassing, GateTypes, GateTypeOK
<1>2. /\ Jitter \in Nat /\ Jitter <= 37 /\ window.width \in Nat
      /\ window.width >= 699 /\ Place \in Nat /\ Place < Ring
      /\ window.width <= Ring - Cycle + 2 * Jitter
  BY <1>1, Sizes, PlaceIs DEF Narrow
<1>3. Place < window.width
  BY Outcomes DEF LastPassing
<1> SUFFICES ASSUME ~BegunInWindow' PROVE search' = "last" /\ BeginRight' /\ AtLast'
  BY <1>1 DEF OnTheWay, RangeSteps
<1>4. /\ BeginRight' /\ AtLast
      /\ BeginError \in Nat /\ BeginError' = BeginError /\ FromPhase1' = FromPhase1
  BY <1>1, BeginStays DEF GateInv, OnTheWay, RangeSteps
<1>5. PICK behind \in {0, Ptap} :
        /\ InStep(behind)
        /\ Place - dtap * Dtap >= 0
        /\ Place - dtap * Dtap + TwoPtaps >= window.width - Jitter
  BY <1>4 DEF AtLast
<1>6. dtap < 31
  <2>1. dtap # 31
    BY <1>2, <1>3, <1>5
  <2> QED
    BY <1>1, <2>1
<1>7. Place' = Place + Dtap
  BY <1>1, <1>2, <1>3, <1>6, TapMoves
<1>8. InStep(behind)'
  <2>1. EndPlace' = EndPlace + Dtap /\ EndPlace \in Int
    BY <1>1, <1>4, <1>6 DEF EndPlace
  <2> QED
    BY <1>2, <1>4, <1>5, <1>7, <2>1 DEF InStep
<1>9. /\ Place' - dtap' * Dtap >= 0
      /\ Place' - dtap' * Dtap + TwoPtaps >= window'.width - Jitter
      /\ dtap' > 0 => Place' - Dtap < window'.width
      /\ ~ (dtap' = 0)
  <2>1. Place' - dtap' * Dtap = Place - dtap * Dtap
    BY <1>1, <1>2, <1>6, <1>7
  <2> QED
    BY <1>1, <1>2, <1>3, <1>5, <1>6, <1>7, <2>1
<1> QED
  BY <1>1, <1>4, <1>6, <1>8, <1>9 DEF AtLast

\* The delay tap that fails: the end, and a phase back to measure from.
LEMMA StepLastFailing ==
  ASSUME Jitter <= 37, GateInv, GateTypes', Wide, LastFailing
  PROVE  OnTheWay'
<1>1. /\ GateTypes /\ Narrow /\ search = "last" /\ search' = "track_pass"
      /\ window' = window /\ dtap \in Nat /\ dtap' = dtap /\ BackUpPhase
      /\ work_bgn' = work_bgn /\ work_bgn \in Nat /\ work_end \in Nat
      /\ initial_failing_dtap' = dtap /\ work_end' \in Nat
      /\ work_bgn' <= work_end'
      /\ p \in Nat /\ p >= 1
  BY DEF GateInv, LastFailing, GateTypes, GateTypeOK
<1>2. /\ Jitter \in Nat /\ Jitter <= 37 /\ window.width \in Nat
      /\ window.width >= 699 /\ Place \in Nat /\ Place < Ring
      /\ window.width <= Ring - Cycle + 2 * Jitter
  BY <1>1, Sizes, PlaceIs DEF Narrow
<1>3. Place < Jitter \/ Place >= window.width - Jitter
  BY Outcomes DEF LastFailing, MayFail
<1> SUFFICES ASSUME ~BegunInWindow'
             PROVE  BeginRight' /\ EndRight' /\ (Measured' => AtTrackPass')
  BY <1>1 DEF OnTheWay, RangeSteps
<1>4. /\ BeginRight' /\ AtLast
      /\ BeginError \in Nat /\ BeginError' = BeginError /\ FromPhase1' = FromPhase1
  BY <1>1, BeginStays DEF GateInv, OnTheWay, RangeSteps
<1>5. PICK behind \in {0, Ptap} :
        /\ InStep(behind)
        /\ Place - dtap * Dtap >= 0
        /\ Place - dtap * Dtap + TwoPtaps >= window.width - Jitter
        /\ dtap > 0 => Place - Dtap < window.width
        /\ dtap = 0 => Place - behind < window.width
  BY <1>4 DEF AtLast
<1>6. Place >= window.width - Jitter
  BY <1>1, <1>2, <1>3, <1>5
<1>7. EndPlace \in Int /\ EndPlace = Place - behind
  BY <1>1, <1>2, <1>4, <1>5 DEF EndPlace, InStep
<1>8. EndRight'
  <2>1. CASE dtap = 0
    <3>1. EndPlace' = EndPlace
      BY <1>1, <1>4, <2>1 DEF EndPlace, LastFailing
    <3> QED
      BY <1>1, <1>2, <1>4, <1>5, <1>6, <1>7, <2>1, <3>1 DEF EndRight, InStep, Slack
  <2>2. CASE dtap > 0
    <3>1. EndPlace' = EndPlace - Dtap
      BY <1>1, <1>4, <2>2 DEF EndPlace, LastFailing
    <3> QED
      BY <1>1, <1>2, <1>4, <1>5, <1>6, <1>7, <2>2, <3>1 DEF EndRight, InStep, Slack
  <2> QED
    BY <1>1, <2>1, <2>2
<1>9. ASSUME Measured' PROVE AtTrackPass'
  <2>1. behind = 0 /\ Back = Ptap
    BY <1>1, <1>4, <1>5, <1>9 DEF Measured, InStep, BackUpPhase, Back
  <2>2. Place' = Place - Ptap
    BY <1>1, <1>2, <1>6, <2>1, BackedUp
  <2>3. Place < window.width + Dtap
    BY <1>1, <1>2, <1>5, <2>1
  <2>4. Place' + Ptap = Place
    BY <1>2, <2>2
  <2> QED
    BY <1>1, <1>2, <1>6, <2>3, <2>4 DEF AtTrackPass, OnEnd
<1> QED
  BY <1>4, <1>8, <1>9

\* Steps 4a and 5a, and the end by delay taps.
LEMMA StepEnd ==
  ASSUME Jitter <= 37, GateInv, GateTypes', FindEnd
  PROVE  GateInv'
<1>1. /\ search \in {"end", "last"} /\ window' = window /\ search' # "push"
  BY DEF FindEnd, EndPassing, EndFailing, LastPassing, LastFailing, NilRange
<1>2. NilRange => OnTheWay'
  BY DEF NilRange, OnTheWay, RangeSteps
<1>3. Wide => OnTheWay'
  BY <1>2, StepEndPassing, StepEndFailing, StepLastPassing, StepLastFailing DEF FindEnd
<1> QED
  BY <1>1, <1>3, Carried

\* The range is found, and stays.
LEMMA RangeStays ==
  ASSUME GateTypes, window' = window, range' = range
  PROVE  /\ BegunInWindow' = BegunInWindow /\ FromPhase1' = FromPhase1
         /\ BeginRight' = BeginRight /\ EndRight' = EndRight
<1>1. work_bgn' = work_bgn /\ work_end' = work_end
  BY DEF range
<1> QED
  BY <1>1, BeginStays DEF EndRight, EndPlace

\* The taps of a phase, measured.
LEMMA StepTrack ==
  ASSUME Jitter <= 37, GateInv, GateTypes', Track
  PROVE  GateInv'
<1>1. /\ GateTypes /\ search \in {"track_pass", "track_fail"}
      /\ search' \in {"track_pass", "track_fail", "measured"}
      /\ window' = window /\ range' = range /\ v' = v /\ p' = p
      /\ dtap \in Nat /\ initial_failing_dtap \in Nat /\ initial_failing_dtap <= dtap
      /\ dtaps_per_ptap = 12 /\ initial_failing_dtap' = initial_failing_dtap
  BY TwelveTaps DEF GateInv, GateTypes, GateTypeOK, Track, TrackFailing, TrackPassing,
     TrackStillPassing, TrackEnd, TapOn, tracked
<1>2. /\ Jitter \in Nat /\ Jitter <= 37 /\ window.width \in Nat
      /\ Wide => window.width >= 699
      /\ Place \in Nat /\ Place < Ring
      /\ window.width <= Ring - Cycle + 2 * Jitter
  BY <1>1, Sizes, PlaceIs DEF GateInv, Narrow
<1>3. ASSUME Wide, ~BegunInWindow'
      PROVE  /\ ~BegunInWindow /\ BeginRight' /\ EndRight'
             /\ Measured' => Measured
  BY <1>1, <1>3, RangeStays DEF GateInv, OnTheWay, RangeSteps, Measured
<1>4. 12 \in TapsOfAPhase
  BY TwelveTaps DEF TapsOfAPhase
<1>5. ASSUME Wide, ~BegunInWindow', Measured'
      PROVE  /\ search' = "track_pass" => AtTrackPass'
             /\ search' = "track_fail" => AtTrackFail'
             /\ search' = "measured" => dtaps_per_ptap' \in TapsOfAPhase
  <2>1. CASE TrackFailing
    <3>1. AtTrackPass /\ MayFail(Place)
      BY <1>3, <1>5, <2>1, Outcomes DEF TrackFailing, GateInv, OnTheWay
    <3> QED
      BY <1>2, <1>5, <3>1 DEF AtTrackPass, OnEnd, MayFail
  <2>2. CASE TrackPassing
    <3>1. AtTrackPass /\ Place < window.width
      BY <1>3, <1>5, <2>2, Outcomes DEF TrackPassing, GateInv, OnTheWay
    <3>2. CASE dtap < 31
      <4>1. search' = "track_fail" /\ dtap' = dtap + 1
        BY <2>2, <3>2 DEF TrackPassing, TapOn
      <4>2. Place' = Place + Dtap
        BY <1>1, <1>2, <3>1, <4>1, TapMoves
      <4>3. Place' + Ptap - (dtap' - initial_failing_dtap') * Dtap = Place + Ptap
        BY <1>1, <1>2, <3>1, <4>1, <4>2 DEF AtTrackPass
      <4>4. AtTrackFail'
        BY <1>1, <1>2, <3>1, <4>2, <4>3 DEF AtTrackPass, AtTrackFail, OnEnd
      <4> QED
        BY <4>1, <4>4
    <3>3. CASE ~ (dtap < 31)
      BY <1>1, <1>4, <2>2, <3>3 DEF TrackPassing, TapOn, tracked
    <3> QED
      BY <3>2, <3>3
  <2>3. CASE TrackStillPassing
    <3>1. AtTrackFail /\ Place < window.width
      BY <1>3, <1>5, <2>3, Outcomes DEF TrackStillPassing, GateInv, OnTheWay
    <3>2. CASE dtap < 31
      <4>1. search' = "track_fail" /\ dtap' = dtap + 1
        BY <2>3, <3>2 DEF TrackStillPassing, TapOn
      <4>2. Place' = Place + Dtap
        BY <1>1, <1>2, <3>1, <4>1, TapMoves
      <4>3. Place' + Ptap - (dtap' - initial_failing_dtap') * Dtap
              = Place + Ptap - (dtap - initial_failing_dtap) * Dtap
        BY <1>1, <1>2, <4>1, <4>2
      <4>4. AtTrackFail'
        BY <1>1, <1>2, <3>1, <4>2, <4>3 DEF AtTrackFail, OnEnd
      <4> QED
        BY <4>1, <4>4
    <3>3. CASE ~ (dtap < 31)
      BY <1>1, <1>4, <2>3, <3>3 DEF TrackStillPassing, TapOn, tracked
    <3> QED
      BY <3>2, <3>3
  <2>4. CASE TrackEnd
    <3>1. AtTrackFail /\ (Place < Jitter \/ Place >= window.width - Jitter)
      BY <1>3, <1>5, <2>4, Outcomes DEF TrackEnd, GateInv, OnTheWay, MayFail
    <3> DEFINE taps == dtap - initial_failing_dtap
    <3>2. taps \in Nat /\ taps \in Int /\ dtaps_per_ptap' = taps /\ search' = "measured"
      BY <1>1, <2>4 DEF TrackEnd
    <3>3. /\ Place + Ptap - taps * Dtap >= window.width - Jitter
          /\ Place + Ptap - taps * Dtap < window.width + Dtap
          /\ Place - Dtap < window.width
      BY <3>1 DEF AtTrackFail, OnEnd
    <3> HIDE DEF taps
    <3>4. 11 <= taps /\ taps <= 14
      BY <1>2, <1>5, <3>1, <3>2, <3>3
    <3>5. taps \in TapsOfAPhase
      BY <3>2, <3>4, TwelveTaps DEF TapsOfAPhase
    <3> QED
      BY <3>2, <3>5
  <2> QED
    BY <2>1, <2>2, <2>3, <2>4 DEF Track
<1>6. Wide => OnTheWay'
  BY <1>1, <1>3, <1>5 DEF OnTheWay, RangeSteps
<1> QED
  BY <1>1, <1>6, Carried

\* Step 6 leaves the range alone.
LEMMA StepCentre ==
  ASSUME GateInv, GateTypes', FindCentre
  PROVE  GateInv'
<1>1. /\ GateTypes /\ search \in {"measured", "centre"}
      /\ search' \in {"centre", "found", "failed"}
      /\ window' = window /\ range' = range
  BY DEF GateInv, FindCentre, SetCentre, CentreFailing, CentrePassing
<1>2. Wide => OnTheWay'
  BY <1>1, RangeStays DEF GateInv, OnTheWay, RangeSteps
<1> QED
  BY <1>1, <1>2, Carried

\* Every step of the search keeps the invariant.
LEMMA StepGate ==
  ASSUME Jitter <= 37, GateInv, [GateNext]_gateVars
  PROVE  GateInv'
<1>1. CASE GateNext
  <2>1. GateTypes'
    BY <1>1, StepGateTypes DEF GateInv
  <2> QED
    BY <1>1, <2>1, StepPush, StepFirst, StepBegin, StepEnd, StepTrack, StepCentre
    DEF GateNext
<1>2. CASE UNCHANGED gateVars
  BY <1>2 DEF GateInv, GateTypes, GateTypeOK, HasFailed, MayFail, Narrow, OnTheWay, Scanning,
     Back, AtBegin, AtEnd, AtLast, InStep, BeginRight, EndRight, EndPlace, BeginError, Slack,
     BegunInWindow, FromPhase1, AtTrackPass, AtTrackFail, OnEnd, Measured, Place, Into,
     Wide, gateVars, range, tracked
<1> QED
  BY <1>1, <1>2

\* The invariant, under the jitter it needs.
LEMMA GateInvHolds == ASSUME Jitter <= 37 PROVE GateSpec => []GateInv
<1>1. GateInit => GateInv
  <2> SUFFICES ASSUME GateInit PROVE GateInv
    OBVIOUS
  <2>1. GateTypes
    BY InitGateTypes
  <2>2. search = "push" /\ fail_cnt = 0
    BY DEF GateInit
  <2> QED
    BY <2>1, <2>2 DEF GateInv, HasFailed, OnTheWay, RangeSteps
<1>2. GateInv /\ [GateNext]_gateVars => GateInv'
  BY StepGate
<1> QED
  BY <1>1, <1>2, PTL DEF GateSpec

\* The types are inductive.
LEMMA TypesStay == GateTypes /\ [GateNext]_gateVars => GateTypes'
<1> SUFFICES ASSUME GateTypes, [GateNext]_gateVars PROVE GateTypes'
  OBVIOUS
<1>1. CASE UNCHANGED gateVars
  BY <1>1 DEF GateTypes, GateTypeOK, gateVars, range, tracked
<1> QED
  BY <1>1, StepGateTypes

(***************************************************************************)
(* Only settings the hardware has are written, phase 0 never, and no       *)
(* unsigned delay falls below zero, for every window and every jitter      *)
(* (sequencer.c:4050-4590).                                                *)
(***************************************************************************)
THEOREM GateTypeCorrect == GateSpec => []GateTypeOK
<1>1. GateTypes => GateTypeOK
  BY DEF GateTypes
<1> QED
  BY <1>1, TypesStay, InitGateTypes, PTL DEF GateSpec

(***************************************************************************)
(* The search is bounded: the steps it has left, at most, get fewer.       *)
(***************************************************************************)
\* What the steps after this one may take, together.
StepsAfter ==
  CASE search = "push" -> 1702
    [] search = "first" -> 246
    [] search = "begin" -> 233
    [] search = "end" -> 114
    [] search = "last" -> 82
    [] search = "track_pass" -> 50
    [] search = "track_fail" -> 18
    [] search = "measured" -> 17
    [] search = "centre" -> 1
    [] OTHER -> 0

\* What this one may still take.
StepsOfThis ==
  CASE search = "push" -> VFIFO_SIZE - v
    [] search = "first" ->
         ((StaticTaps - dtap) * VFIFO_SIZE + VFIFO_SIZE - 1 - i)
           * IO_DQS_EN_PHASE_MAX + IO_DQS_EN_PHASE_MAX - p
    [] search = "begin" -> StaticTaps - dtap
    [] search = "end" ->
         (VFIFO_SIZE - i) * IO_DQS_EN_PHASE_MAX + IO_DQS_EN_PHASE_MAX - p
    [] search \in {"last", "track_pass", "track_fail"} ->
         IO_DQS_EN_DELAY_MAX - dtap
    [] search = "centre" -> VFIFO_SIZE - 1 - i
    [] OTHER -> 0

StepsLeft == StepsAfter + StepsOfThis

\* There are never more than a push and a scan can take.
LEMMA StepsBounded == GateTypes => StepsLeft \in 0 .. 1718
<1> SUFFICES ASSUME GateTypes PROVE StepsLeft \in 0 .. 1718
  OBVIOUS
<1>1. /\ v \in Nat /\ p \in 1 .. 7 /\ dtap \in 0 .. 31 /\ i \in 0 .. 17
      /\ StaticTaps = 12 /\ search \in SearchSteps
      /\ search = "push" => v < 16
      /\ search \in {"first", "begin", "centre"} => i < 16
      /\ search \in {"first", "begin"} => dtap <= 12
      /\ search = "end" => i < 17
  BY TwelveTaps DEF GateTypes, GateTypeOK
<1>2. CASE search = "push"
  <2>1. StepsAfter = 1702
    BY <1>2 DEF StepsAfter
  <2>2. StepsOfThis = 16 - v
    BY <1>1, <1>2 DEF StepsOfThis
  <2> QED
    BY <1>1, <1>2, <2>1, <2>2 DEF StepsLeft
<1>3. CASE search = "first"
  <2>1. StepsAfter = 246
    BY <1>3 DEF StepsAfter
  <2>2. StepsOfThis = ((12 - dtap) * 16 + 16 - 1 - i) * 7 + 7 - p
    BY <1>1, <1>3 DEF StepsOfThis
  <2> QED
    BY <1>1, <1>3, <2>1, <2>2 DEF StepsLeft
<1>4. CASE search = "begin"
  <2>1. StepsAfter = 233
    BY <1>4 DEF StepsAfter
  <2>2. StepsOfThis = 12 - dtap
    BY <1>1, <1>4 DEF StepsOfThis
  <2> QED
    BY <1>1, <1>4, <2>1, <2>2 DEF StepsLeft
<1>5. CASE search = "end"
  <2>1. StepsAfter = 114
    BY <1>5 DEF StepsAfter
  <2>2. StepsOfThis = (16 - i) * 7 + 7 - p
    BY <1>1, <1>5 DEF StepsOfThis
  <2> QED
    BY <1>1, <1>5, <2>1, <2>2 DEF StepsLeft
<1>6. CASE search = "last"
  <2>1. StepsAfter = 82
    BY <1>6 DEF StepsAfter
  <2>2. StepsOfThis = 31 - dtap
    BY <1>1, <1>6 DEF StepsOfThis
  <2> QED
    BY <1>1, <1>6, <2>1, <2>2 DEF StepsLeft
<1>7. CASE search = "track_pass"
  <2>1. StepsAfter = 50
    BY <1>7 DEF StepsAfter
  <2>2. StepsOfThis = 31 - dtap
    BY <1>1, <1>7 DEF StepsOfThis
  <2> QED
    BY <1>1, <1>7, <2>1, <2>2 DEF StepsLeft
<1>8. CASE search = "track_fail"
  <2>1. StepsAfter = 18
    BY <1>8 DEF StepsAfter
  <2>2. StepsOfThis = 31 - dtap
    BY <1>1, <1>8 DEF StepsOfThis
  <2> QED
    BY <1>1, <1>8, <2>1, <2>2 DEF StepsLeft
<1>9. CASE search = "measured"
  <2>1. StepsAfter = 17
    BY <1>9 DEF StepsAfter
  <2>2. StepsOfThis = 0
    BY <1>1, <1>9 DEF StepsOfThis
  <2> QED
    BY <1>1, <1>9, <2>1, <2>2 DEF StepsLeft
<1>10. CASE search = "centre"
  <2>1. StepsAfter = 1
    BY <1>10 DEF StepsAfter
  <2>2. StepsOfThis = 16 - 1 - i
    BY <1>1, <1>10 DEF StepsOfThis
  <2> QED
    BY <1>1, <1>10, <2>1, <2>2 DEF StepsLeft
<1>11. CASE search = "found"
  <2>1. StepsAfter = 0
    BY <1>11 DEF StepsAfter
  <2>2. StepsOfThis = 0
    BY <1>1, <1>11 DEF StepsOfThis
  <2> QED
    BY <1>1, <1>11, <2>1, <2>2 DEF StepsLeft
<1>12. CASE search = "failed"
  <2>1. StepsAfter = 0
    BY <1>12 DEF StepsAfter
  <2>2. StepsOfThis = 0
    BY <1>1, <1>12 DEF StepsOfThis
  <2> QED
    BY <1>1, <1>12, <2>1, <2>2 DEF StepsLeft
<1> QED
  BY <1>1, <1>2, <1>3, <1>4, <1>5, <1>6, <1>7, <1>8, <1>9, <1>10, <1>11, <1>12
  DEF SearchSteps

\* Every step of the search is one less.
LEMMA StepShortens ==
  ASSUME GateTypes, GateTypes', GateNext
  PROVE  StepsLeft' < StepsLeft
<1>0. /\ v \in Nat /\ p \in 1 .. 7 /\ dtap \in 0 .. 31 /\ i \in 0 .. 17
      /\ v' \in Nat /\ p' \in 1 .. 7 /\ dtap' \in 0 .. 31 /\ i' \in 0 .. 17
      /\ StaticTaps = 12
      /\ search = "push" => v < 16
      /\ search \in {"first", "begin", "centre"} => i < 16
      /\ search \in {"first", "begin"} => dtap <= 12
      /\ search = "end" => i < 17
  BY TwelveTaps DEF GateTypes, GateTypeOK
<1> USE DEF StepsLeft, StepsAfter, StepsOfThis, SearchFails, tracked, range
<1>1. CASE PushPassing
  BY <1>0, <1>1 DEF PushPassing, Push
<1>2. CASE PushFirstFailing
  BY <1>0, <1>2 DEF PushFirstFailing, Push
<1>3. CASE PushSecondFailing
  BY <1>0, <1>3 DEF PushSecondFailing
<1>4. CASE FirstFailing
  BY <1>0, <1>4 DEF FirstFailing
<1>5. CASE FirstPassingPhase
  BY <1>0, <1>5 DEF FirstPassingPhase
<1>6. CASE FirstPassingPhase1
  BY <1>0, <1>6 DEF FirstPassingPhase1, GoForward, PhaseOn
<1>7. CASE FirstPassingDelay
  BY <1>0, <1>7 DEF FirstPassingDelay
<1>8. CASE BeginPassing
  BY <1>0, <1>8 DEF BeginPassing, GoForward, PhaseOn
<1>9. CASE BeginFailing
  BY <1>0, <1>9 DEF BeginFailing
<1>10. CASE BeginIsPhase
  BY <1>0, <1>10 DEF BeginIsPhase, GoForward, PhaseOn
<1>11. CASE EndPassing
  BY <1>0, <1>11 DEF EndPassing, PhaseOn
<1>12. CASE EndFailing
  BY <1>0, <1>12 DEF EndFailing
<1>13. CASE LastPassing
  BY <1>0, <1>13 DEF LastPassing
<1>14. CASE LastFailing
  BY <1>0, <1>14 DEF LastFailing
<1>15. CASE NilRange
  BY <1>0, <1>15 DEF NilRange
<1>16. CASE TrackFailing
  BY <1>0, <1>16 DEF TrackFailing, TapOn
<1>17. CASE TrackPassing
  BY <1>0, <1>17 DEF TrackPassing, TapOn
<1>18. CASE TrackStillPassing
  BY <1>0, <1>18 DEF TrackStillPassing, TapOn
<1>19. CASE TrackEnd
  BY <1>0, <1>19 DEF TrackEnd
<1>20. CASE SetCentre
  BY <1>0, <1>20 DEF SetCentre
<1>21. CASE CentreFailing
  BY <1>0, <1>21 DEF CentreFailing
<1>22. CASE CentrePassing
  BY <1>0, <1>22 DEF CentrePassing
<1> QED
  BY <1>1, <1>2, <1>3, <1>4, <1>5, <1>6, <1>7, <1>8, <1>9,
     <1>10, <1>11, <1>12, <1>13, <1>14, <1>15, <1>16, <1>17, <1>18,
     <1>19, <1>20, <1>21, <1>22
  DEF GateNext, PushVfifo, FindFirst, FindBegin, FindEnd, Track, FindCentre

(***************************************************************************)
(* The search is over after at most 1718 steps, whatever the window and    *)
(* however its edges jitter: none of its loops repeats a setting it has    *)
(* tried (sequencer.c:4050-4590).                                          *)
(***************************************************************************)
THEOREM SearchIsBounded ==
  GateSpec => [](StepsLeft \in 0 .. 1718) /\ [][StepsLeft' < StepsLeft]_gateVars
<1>1. GateTypes /\ GateTypes' /\ [GateNext]_gateVars => [StepsLeft' < StepsLeft]_gateVars
  BY StepShortens
<1> QED
  BY <1>1, TypesStay, StepsBounded, InitGateTypes, PTL DEF GateSpec

\* Where the end found is, in the terms of the property.
LEMMA EndErrorIs ==
  ASSUME GateTypes, NEW e \in Nat, window.width - EndPlace = e, e < Cycle
  PROVE  EndError = e
<1> DEFINE x == work_bgn - window.from
<1>1. /\ x \in Int /\ window.from \in Int /\ window.width \in Int
      /\ work_bgn \in Int /\ work_end \in Int
      /\ BeginError = x % Cycle /\ BeginError \in Nat
  <2>1. x \in Int /\ window.from \in Int /\ window.width \in Int
      /\ work_bgn \in Int /\ work_end \in Int
    BY PlaceIs DEF GateTypes, GateTypeOK
  <2> QED
    BY <2>1, InCycle DEF BeginError
<1>2. window.from + window.width - work_end = (x % Cycle) - x + e
  BY <1>1 DEF EndPlace
<1> HIDE DEF x
<1>3. PICK k \in Int : x % Cycle = x + k * Cycle
  BY <1>1, CyclesOff
<1>4. window.from + window.width - work_end = e + k * Cycle
  BY <1>1, <1>2, <1>3
<1>5. (e + k * Cycle) % Cycle = e % Cycle /\ e % Cycle = e
  BY InCycle
<1> QED
  BY <1>4, <1>5 DEF EndError

(***************************************************************************)
(* Wherever a wide window begins, and however wide it is, the range found  *)
(* is the window to a delay tap and the jitter, both ends inside it        *)
(* (sequencer.c:4129-4445); if the first phase that passed was 1, its begin*)
(* is that phase and its end may be a phase tap low.                       *)
(***************************************************************************)
THEOREM RangeIsWindow ==
  ASSUME SteadyEdges
  PROVE  GateSpec => []RangeFound
<1>0. Jitter <= 37
  BY WindowAssumption DEF SteadyEdges
<1> USE <1>0
<1>1. GateInv => RangeFound
  <2> SUFFICES ASSUME GateInv, search = "measured", Wide, ~BegunInWindow
               PROVE  /\ FromPhase1 \/ BeginError < Slack
                      /\ EndError <= Slack + IF FromPhase1 THEN Ptap ELSE 0
    BY DEF RangeFound
  <2>1. GateTypes /\ BeginRight /\ EndRight
    BY DEF GateInv, OnTheWay, RangeSteps
  <2>2. Jitter \in Nat /\ window.width \in Nat /\ EndPlace \in Int
    <3>1. BeginError \in Int
      BY <2>1, PlaceIs, InCycle DEF BeginError, GateTypes, GateTypeOK
    <3> QED
      BY <2>1, <3>1, Sizes DEF EndPlace, GateTypes, GateTypeOK
  <2> DEFINE e == window.width - EndPlace
             most == Slack + IF FromPhase1 THEN Ptap ELSE 0
  <2>3. e \in Nat /\ e <= most /\ most < Cycle /\ most \in Nat
    BY <2>1, <2>2 DEF EndRight, Slack
  <2> HIDE DEF most
  <2>4. EndError = e
    BY <2>1, <2>3, EndErrorIs
  <2>5. FromPhase1 \/ BeginError < Slack
    BY <2>1 DEF BeginRight
  <2> QED
    BY <2>3, <2>4, <2>5 DEF most
<1> QED
  BY <1>1, GateInvHolds, PTL

(***************************************************************************)
(* The delay taps of a phase are measured right in every wide window,      *)
(* unless phase 0 is in the way (sequencer.c:4449-4515).                   *)
(***************************************************************************)
THEOREM TapsMeasured ==
  ASSUME SteadyEdges
  PROVE  GateSpec => []TapsTracked
<1>0. Jitter <= 37
  BY WindowAssumption DEF SteadyEdges
<1> USE <1>0
<1>1. GateInv => TapsTracked
  <2> SUFFICES ASSUME GateInv, search = "measured", Wide, Measured
               PROVE  dtaps_per_ptap \in TapsOfAPhase
    BY DEF TapsTracked, Measured
  <2>1. ~BegunInWindow
    <3>1. Delay(0, 1, 0) % Cycle = Ptap
      BY DEF Delay
    <3> QED
      BY <3>1 DEF BegunInWindow, Measured, FromPhase1
  <2> QED
    BY <2>1 DEF GateInv, OnTheWay
<1> QED
  BY <1>1, GateInvHolds, PTL

\* How far a setting is from the middle that is rounded up by so much from the
\* middle of a range with errors at both ends.
LEMMA OffMiddle ==
  ASSUME NEW j \in Nat, j <= 37, NEW w \in Nat, w >= 699, w <= Cycle,
         NEW early \in Nat, NEW length \in Nat, NEW late \in Nat,
         early + length + late = w, NEW up \in Nat
  PROVE  LET place == early + (length \div 2) + up
             off == place - (w \div 2)
         IN  /\ early < Dtap + j /\ late <= Dtap + j /\ up < Dtap =>
                  /\ place < Cycle
                  /\ -2 * (Dtap + j) <= off /\ off <= 2 * (Dtap + j)
             /\ early < Dtap + j /\ late <= Dtap + j /\ up < Ptap =>
                  /\ place < Cycle
                  /\ -(Ptap + Dtap + j) <= off /\ off <= Ptap + Dtap + j
             /\ early < TwoPtaps + j /\ late <= Ptap + Dtap + j /\ up < Dtap =>
                  /\ place < Cycle
                  /\ -(Ptap + Dtap + j) <= off /\ off <= Ptap + Dtap + j
<1>1. PICK half \in Nat : half = length \div 2 /\ 2 * half <= length /\ length <= 2 * half + 1
  OBVIOUS
<1>2. PICK mid \in Nat : mid = w \div 2 /\ 2 * mid <= w /\ w <= 2 * mid + 1
  OBVIOUS
<1> QED
  BY <1>1, <1>2

\* Step 6: the setting is that of the middle, but for phase 0.
LEMMA SetsCentre ==
  ASSUME Jitter <= 37, GateTypes, GateTypes', BeginRight, EndRight, Wide,
         window.width <= Cycle, SetCentre
  PROVE  Centred'
<1> DEFINE x == work_bgn - window.from
           length == work_end - work_bgn
           half == length \div 2
           mid == (work_bgn + work_end) \div 2
           up == p' * Ptap + dtap' * Dtap - WorkMid
           late == window.width - EndPlace
           place == BeginError + half + up
<1>1. /\ Jitter \in Nat /\ Jitter <= 37 /\ window.width \in Nat /\ window.from \in Int
      /\ window.width >= 699 /\ window.width <= Cycle
      /\ work_bgn \in Nat /\ work_end \in Nat /\ BeginError \in Nat /\ v \in Nat
      /\ window' = window /\ v' = v /\ work_bgn' = work_bgn /\ work_end' = work_end
      /\ x \in Int /\ BeginError = x % Cycle
  <2>1. /\ window.from \in Int /\ work_bgn \in Nat /\ work_end \in Nat /\ v \in Nat
    BY PlaceIs DEF GateTypes, GateTypeOK
  <2>2. x \in Int
    BY <2>1
  <2>3. window' = window /\ v' = v /\ work_bgn' = work_bgn /\ work_end' = work_end
    BY DEF SetCentre, range
  <2> HIDE DEF x
  <2>4. BeginError = x % Cycle /\ BeginError \in Nat
    BY <2>2, InCycle DEF BeginError, x
  <2> QED
    BY <2>1, <2>2, <2>3, <2>4, Sizes
<1>2. /\ length \in Nat /\ late \in Nat /\ late >= 1
      /\ BeginError + length + late = window.width
      /\ late <= Slack + IF FromPhase1 THEN Ptap ELSE 0
  BY <1>1 DEF EndRight, EndPlace, Slack
<1>3. half \in Nat /\ half < Cycle - Ptap /\ mid = work_bgn + half /\ mid \in Nat
  BY <1>1, <1>2
<1>4. /\ WorkMid \in Nat /\ 1 <= WorkMid /\ WorkMid <= Cycle /\ MidPhase \in Nat
      /\ MidPhase = 0 => WorkMid <= Ptap /\ up = Ptap - WorkMid
      /\ MidPhase > 0 => up \in Nat /\ up < Dtap
  <2>1. /\ WorkMid \in 1 .. Cycle /\ MidPhase \in 0 .. 7
        /\ WorkMid - MidPhase * Ptap \in 1 .. Ptap
        /\ LET rest == WorkMid - MidPhase * Ptap
               taps == RoundedUp(rest, Dtap)
           IN  taps \in 1 .. StaticTaps + 1 /\ rest <= taps * Dtap /\ taps * Dtap < rest + Dtap
    BY MidSetting DEF GateTypes
  <2>2. CASE MidPhase = 0
    BY <2>1, <2>2 DEF SetCentre
  <2>3. CASE MidPhase > 0
    <3> DEFINE taps == RoundedUp(WorkMid - MidPhase * Ptap, Dtap)
    <3>1. p' = MidPhase /\ dtap' = taps
      BY <2>3 DEF SetCentre
    <3>2. taps \in Nat /\ WorkMid - MidPhase * Ptap <= taps * Dtap
          /\ taps * Dtap < WorkMid - MidPhase * Ptap + Dtap
      BY <2>1, TwelveTaps
    <3> HIDE DEF taps
    <3> QED
      BY <2>1, <2>3, <3>1, <3>2
  <2> QED
    BY <2>1, <2>2, <2>3
<1>5. PICK k \in Int : WorkMid = mid + k * Cycle
  <2>1. mid - 1 \in Int
    BY <1>3
  <2>2. PICK k \in Int : (mid - 1) % Cycle = mid - 1 + k * Cycle
    BY <2>1, CyclesOff
  <2>3. WorkMid = ((mid - 1) % Cycle) + 1
    BY DEF WorkMid
  <2> QED
    BY <1>3, <2>2, <2>3
<1>6. PICK m \in Int : BeginError = x + m * Cycle
  BY <1>1, CyclesOff
<1> HIDE DEF length, half, mid, late
<1>7. up \in Int /\ Delay(v', p', dtap') - window'.from = place + (v - m + k) * Cycle
  <2>1. p' \in Nat /\ dtap' \in Nat
    BY DEF GateTypes, GateTypeOK
  <2>2. Delay(v', p', dtap') = v * Cycle + WorkMid + up
    BY <1>1, <1>4, <2>1 DEF Delay
  <2> QED
    BY <1>1, <1>3, <1>4, <1>5, <1>6, <2>1, <2>2
<1>8. /\ up \in Nat /\ place < Cycle
      /\ LET off == place - (window.width \div 2)
         IN  IF FromPhase1 \/ MidPhase = 0
             THEN -(Ptap + Slack) <= off /\ off <= Ptap + Slack
             ELSE -2 * Slack <= off /\ off <= 2 * Slack
  <2> HIDE DEF up
  <2>1. BeginError < (IF FromPhase1 THEN TwoPtaps ELSE Dtap) + Jitter
    BY <1>1 DEF BeginRight, Slack
  <2>2. CASE MidPhase > 0 /\ ~FromPhase1
    BY <1>1, <1>2, <1>4, <2>1, <2>2, OffMiddle DEF half, Slack
  <2>3. CASE MidPhase > 0 /\ FromPhase1
    BY <1>1, <1>2, <1>4, <2>1, <2>3, OffMiddle DEF half, Slack
  <2>4. CASE MidPhase = 0 /\ ~FromPhase1
    <3>1. up \in Nat /\ up < Ptap
      BY <1>4, <2>4
    <3> QED
      BY <1>1, <1>2, <2>1, <2>4, <3>1, OffMiddle DEF half, Slack
  <2>5. CASE MidPhase = 0 /\ FromPhase1
    <3>1. PICK n \in Int : Ptap = work_bgn + n * Cycle
      BY <1>1, <2>5, CyclesOff DEF FromPhase1
    <3>2. WorkMid = Ptap + half + (k - n) * Cycle
      BY <1>1, <1>3, <1>5, <3>1
    <3>3. k - n \in Int /\ WorkMid <= Ptap /\ 1 <= WorkMid
      BY <1>4, <2>5
    <3>4. k - n = 0
      BY <1>3, <1>4, <3>2, <3>3
    <3>5. half = 0 /\ up = 0
      BY <1>3, <1>4, <2>5, <3>2, <3>3, <3>4
    <3>6. up < Dtap
      BY <3>5
    <3> QED
      BY <1>1, <1>2, <2>1, <2>5, <3>5, <3>6, OffMiddle DEF half, Slack
  <2> QED
    BY <1>4, <2>2, <2>3, <2>4, <2>5
<1>9. Place' % Cycle = place
  <2> HIDE DEF up, x
  <2> DEFINE y == Delay(v', p', dtap') - window'.from
             n == v - m + k
  <2>1. n \in Int /\ place \in Nat /\ y = place + n * Cycle
    <3>1. n \in Int
      BY <1>1
    <3>2. place \in Nat
      BY <1>1, <1>3, <1>8
    <3>3. y = place + n * Cycle
      BY <1>7, Zenon
    <3> QED
      BY <3>1, <3>2, <3>3, Zenon
  <2>2. Place' = y % Ring
    BY DEF Place, Into
  <2> HIDE DEF y, n, place
  <2>3. y \in Int
    <3>1. place + n * Cycle \in Int
      BY <2>1, CyclesOn
    <3> QED
      BY <2>1, <3>1, Zenon
  <2>4. (y % Ring) % Cycle = y % Cycle
    BY <2>3, RingIsCycles
  <2>5. (place + n * Cycle) % Cycle = place % Cycle
    BY <2>1, InCycle
  <2>6. place % Cycle = place
    BY <1>8, <2>1, InCycle DEF place
  <2> QED
    BY <2>1, <2>2, <2>4, <2>5, <2>6 DEF place
<1>10. FromPhase1' = FromPhase1 /\ MidPhase' = MidPhase
  BY <1>1 DEF FromPhase1, MidPhase, WorkMid
<1> DEFINE off == place - (window.width \div 2)
<1>11. off \in Int
  BY <1>1, <1>3, <1>8
<1>12. (Place' % Cycle) - (window'.width \div 2) = off
  BY <1>1, <1>9
<1> HIDE DEF off, place
<1>13. Slack' = Slack /\ Slack \in Nat
  BY <1>1 DEF Slack
<1>14. IF FromPhase1 \/ MidPhase = 0
       THEN off \in -(Ptap + Slack) .. Ptap + Slack
       ELSE off \in -2 * Slack .. 2 * Slack
  BY <1>8, <1>11, <1>13 DEF off
<1> QED
  BY <1>10, <1>12, <1>14 DEF Centred, Slack

\* Nothing is set in the beginning.
LEMMA InitCentre == GateInit => CentreInv
BY DEF GateInit, CentreInv

\* Pushing the VFIFO keeps what is set, but for whole cycles.
LEMMA StepCentreInv ==
  ASSUME Jitter <= 37, \A w \in Widths : w <= Cycle,
         GateInv, CentreInv, [GateNext]_gateVars, GateInv'
  PROVE  CentreInv'
<1>1. GateTypes /\ GateTypes' /\ window.width \in Widths
  BY DEF GateInv, GateTypes, GateTypeOK
<1>2. CASE SetCentre
  <2>1. search' = "centre" /\ window' = window /\ range' = range /\ search = "measured"
    BY <1>2 DEF SetCentre
  <2>2. Wide' /\ ~BegunInWindow' => BeginRight /\ EndRight /\ Wide
    BY <1>1, <2>1, RangeStays DEF GateInv, OnTheWay, RangeSteps, Wide
  <2>3. Wide' /\ ~BegunInWindow' => Centred'
    BY <1>1, <1>2, <2>2, SetsCentre
  <2> QED
    BY <2>1, <2>3 DEF CentreInv
<1>3. CASE CentreFailing
  <2>1. /\ search' \in {"centre", "failed"} /\ search = "centre"
        /\ window' = window /\ range' = range /\ v' = v + 1 /\ p' = p /\ dtap' = dtap
    BY <1>3 DEF CentreFailing
  <2>2. Place' % Cycle = Place % Cycle
    <3> DEFINE x == Delay(v, p, dtap) - window.from
    <3>1. x \in Int /\ Place = x % Ring
      BY <1>1, PlaceIs
    <3>2. Place' = (x + 1 * Cycle) % Ring /\ x + 1 * Cycle \in Int
      <4>1. Delay(v', p', dtap') - window'.from = x + 1 * Cycle
        <5>1. v \in Nat /\ p \in Nat /\ dtap \in Nat /\ window.from \in Int
          BY <1>1, PlaceIs DEF GateTypes, GateTypeOK
        <5> QED
          BY <2>1, <5>1 DEF Delay
      <4> QED
        BY <3>1, <4>1 DEF Place, Into
    <3> HIDE DEF x
    <3>3. ((x + 1 * Cycle) % Ring) % Cycle = (x + 1 * Cycle) % Cycle
      BY <3>2, InCycle
    <3>4. (x + 1 * Cycle) % Cycle = x % Cycle /\ (x % Ring) % Cycle = x % Cycle
      BY <3>1, InCycle
    <3> QED
      BY <3>1, <3>2, <3>3, <3>4
  <2>3. Centred' = Centred /\ BegunInWindow' = BegunInWindow /\ Wide' = Wide
    <3>1. MidPhase' = MidPhase /\ FromPhase1' = FromPhase1
      BY <2>1 DEF MidPhase, WorkMid, FromPhase1, range
    <3> QED
      BY <2>1, <2>2, <3>1 DEF Centred, BegunInWindow, Wide, range
  <2> QED
    BY <2>1, <2>3 DEF CentreInv
<1>4. CASE CentrePassing
  <2>1. /\ search = "centre" /\ UNCHANGED <<window, v, p, dtap, range>>
    BY <1>4 DEF CentrePassing
  <2>2. Place' = Place /\ Place < window.width
    BY <1>4, <2>1, Outcomes DEF CentrePassing, Place, Into
  <2>3. Centred' = Centred /\ BegunInWindow' = BegunInWindow /\ Wide' = Wide
    <3>1. MidPhase' = MidPhase /\ FromPhase1' = FromPhase1
      BY <2>1 DEF MidPhase, WorkMid, FromPhase1, range
    <3> QED
      BY <2>1, <2>2, <3>1 DEF Centred, BegunInWindow, Wide, range
  <2> QED
    BY <2>1, <2>2, <2>3 DEF CentreInv
<1>5. CASE UNCHANGED gateVars
  BY <1>5 DEF CentreInv, Centred, Place, Into, BegunInWindow, Wide, MidPhase, WorkMid,
     FromPhase1, gateVars, range
<1>6. CASE PushVfifo \/ FindFirst \/ FindBegin \/ FindEnd \/ Track
  <2>1. search' \notin {"centre", "found"}
    BY <1>6 DEF PushVfifo, PushPassing, PushFirstFailing, PushSecondFailing, Push,
       FindFirst, FirstFailing, SearchFails, FirstPassingPhase, FirstPassingPhase1,
       FirstPassingDelay, GoForward, FindBegin, BeginPassing, BeginFailing, BeginIsPhase,
       FindEnd, EndPassing, EndFailing, LastPassing, LastFailing, NilRange,
       Track, TrackFailing, TrackPassing, TrackStillPassing, TrackEnd, TapOn
  <2> QED
    BY <2>1 DEF CentreInv
<1> QED
  BY <1>2, <1>3, <1>4, <1>5, <1>6 DEF GateNext, FindCentre

(***************************************************************************)
(* If no window is wider than a cycle, the setting found is the middle of  *)
(* the window, to two delay taps and the jitter, or to a phase tap where   *)
(* phase 0 is in the way (sequencer.c:4526-4581).  In a window of more     *)
(* cycles reads pass at settings that are cycles from the middle.          *)
(***************************************************************************)
THEOREM MiddleIsSet ==
  ASSUME SteadyEdges, \A w \in Widths : w <= Cycle
  PROVE  GateSpec => []NearMiddle
<1>0. Jitter <= 37
  BY WindowAssumption DEF SteadyEdges
<1> USE <1>0
<1>1. GateInv /\ CentreInv => NearMiddle
  <2> SUFFICES ASSUME GateInv, CentreInv, search = "found", Wide, ~BegunInWindow
               PROVE  LET off == Place - (window.width \div 2)
                      IN  IF FromPhase1 \/ MidPhase = 0
                          THEN off \in -(Ptap + Slack) .. Ptap + Slack
                          ELSE off \in -2 * Slack .. 2 * Slack
    BY DEF NearMiddle, Place
  <2>1. Centred /\ Place < window.width
    BY DEF CentreInv
  <2>2. Place \in Nat /\ window.width \in Nat /\ window.width <= Cycle
    BY PlaceIs DEF GateInv, GateTypes, GateTypeOK
  <2>3. Place % Cycle = Place
    BY <2>1, <2>2, InCycle
  <2> QED
    BY <2>1, <2>3 DEF Centred
<1>2. GateInv /\ CentreInv /\ [GateNext]_gateVars /\ GateInv' => CentreInv'
  BY StepCentreInv
<1> QED
  BY <1>1, <1>2, InitCentre, GateInvHolds, PTL DEF GateSpec
=============================================================================
