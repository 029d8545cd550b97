------------------------------- MODULE Timeline -------------------------------
(***************************************************************************)
(* What undo and redo promise: the states of a drawing in the order in     *)
(* which they were made, and the place in it where the user stands.        *)
(***************************************************************************)
EXTENDS Naturals, Sequences

CONSTANTS Graph, MaxHistory

VARIABLES steps, here

timeline == <<steps, here>>

TimelineInit == here = 1 /\ \E g \in Graph : steps = <<g>>

\* A change forgets what was undone, and the oldest state when there are
\* too many.
Change ==
  \E g \in Graph :
    LET from == IF here > MaxHistory THEN here - MaxHistory + 1 ELSE 1
    IN  /\ steps' = Append(SubSeq(steps, from, here), g)
        /\ here' = Len(steps')

\* Changes that are no step of their own.
Retouch == /\ \E g \in Graph : steps' = [steps EXCEPT ![here] = g]
           /\ UNCHANGED here

Move == /\ here' \in {here - 1, here + 1} \cap DOMAIN steps
        /\ UNCHANGED steps

TimelineSpec == TimelineInit /\ [][Change \/ Retouch \/ Move]_timeline
=============================================================================
