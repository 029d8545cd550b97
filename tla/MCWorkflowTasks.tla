--------------------------- MODULE MCWorkflowTasks ---------------------------
(***************************************************************************)
(* Instances of WorkflowTasks: two workflows with discoveries of two       *)
(* chunks in them, on as many processes, so that both may wait with no     *)
(* process left.                                                           *)
(***************************************************************************)
EXTENDS WorkflowTasks

CONSTANTS w1, w2, s1, s2

TwoWorkflows == {w1, w2}
TwoSlots     == {s1, s2}
InTwo        == {2}
=============================================================================
