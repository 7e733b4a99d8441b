---------------------------- MODULE LineBuffer -----------------------------
(***************************************************************************)
(* What camera_data.c promises of the one line buffer it shares with the   *)
(* DMA engine: a hand-off.  The buffer belongs to the engine from the      *)
(* moment a transfer is started until it is answered, to the program while *)
(* it takes the answer and copies, and the program gets exactly what the   *)
(* engine left in it.                                                      *)
(***************************************************************************)
CONSTANTS
  Lines,    \* the contents a transfer can leave in the buffer
  NoLine    \* what is none of them

VARIABLES
  owner,    \* whose buffer it is
  content,  \* what the last transfer left, from its answer to its return
  taken     \* the line the program returns

Init ==
  /\ owner = "nobody"
  /\ content = NoLine
  /\ taken = NoLine

\* The program starts a transfer: the first, or the one that replaces the
\* line it returns.
Grant ==
  /\ owner = "nobody" \/ (owner = "program" /\ taken # NoLine)
  /\ owner' = "engine"
  /\ content' = NoLine
  /\ taken' = NoLine

Answer ==
  /\ owner = "engine"
  /\ owner' = "answered"
  /\ content' \in Lines
  /\ UNCHANGED taken

Accept ==
  /\ owner = "answered"
  /\ owner' = "program"
  /\ UNCHANGED <<content, taken>>

Take ==
  /\ owner = "program"
  /\ taken = NoLine
  /\ taken' = content
  /\ UNCHANGED <<owner, content>>

Next == Grant \/ Answer \/ Accept \/ Take

Spec == Init /\ [][Next]_<<owner, content, taken>>
=============================================================================
