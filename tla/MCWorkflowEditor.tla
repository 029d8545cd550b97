--------------------------- MODULE MCWorkflowEditor ---------------------------
(***************************************************************************)
(* An instance of WorkflowEditor: graphs are told apart by their nodes.    *)
(***************************************************************************)
EXTENDS WorkflowEditor, TLC

CONSTANTS n1, n2, l1, m1, m2, s1, s2

TwoNodes == {n1, n2}
OneLook  == {l1}
TwoNames == {m1, m2}
TwoSaves == {s1, s2}

\* A graph with two nodes is flawed: both are triggers.
TwoTriggers == {g \in Graph : g.nodes = TwoNodes}

\* Bound: while a save is under way, at most one other state is in the history.
ShortHistory == UnderWay => Len(past) + Len(future) <= 1

Symmetric == Permutations(TwoNodes) \cup Permutations(TwoSaves)
               \cup Permutations(TwoNames)
=============================================================================
