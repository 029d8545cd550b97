----------------------------- MODULE WorkflowRun -----------------------------
(***************************************************************************)
(* What a workflow execution promises, whatever the traversal order: a     *)
(* node runs at most once and only when it is a start node or an executed  *)
(* predecessor selected an edge to it; the run completes only when no such *)
(* node is left, and reports failure exactly when some node failed.  An    *)
(* execution cut short (its soft time limit) reports failure.              *)
(***************************************************************************)
EXTENDS WorkflowGraph

VARIABLES
  wf,       \* the workflow being executed
  results,  \* NodeResult of each executed node
  verdict   \* "pending", then "success" or "failure"

runVars == <<wf, results, verdict>>

Ready(n) ==
  /\ n \in NodeSet(wf)
  /\ results[n] = NoResult
  /\ \/ IsStart(wf, n)
     \/ \E i \in DOMAIN wf.edges : /\ Follows(wf, results, i)
                                   /\ wf.edges[i].target = n

RunInit ==
  /\ wf \in Workflows
  /\ results = NoResults
  /\ verdict = "pending"

RunNode ==
  /\ verdict = "pending"
  /\ \E n \in NodeIds, r \in Outcome :
       /\ Ready(n)
       /\ results' = [results EXCEPT ![n] = r]
  /\ UNCHANGED <<wf, verdict>>

RunCompletes ==
  /\ verdict = "pending"
  /\ HasStart(wf)
  /\ \A n \in NodeIds : ~ Ready(n)
  /\ verdict' = IF FailedIn(results) = {} THEN "success" ELSE "failure"
  /\ UNCHANGED <<wf, results>>

\* No start node, or an exception that left the traversal.
RunFails ==
  /\ verdict = "pending"
  /\ verdict' = "failure"
  /\ UNCHANGED <<wf, results>>

RunNext == RunNode \/ RunCompletes \/ RunFails

RunSpec == RunInit /\ [][RunNext]_runVars
=============================================================================
