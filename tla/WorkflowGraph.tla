---------------------------- MODULE WorkflowGraph ----------------------------
(***************************************************************************)
(* The static part of the workflow engine: a workflow definition as        *)
(* WorkflowEngine.execute receives it, the start nodes it computes, and    *)
(* the outputs a node's result selects.  Everything here is a pure         *)
(* operator; WorkflowRun (abstract) and WorkflowEngine (detailed) share    *)
(* it.                                                                     *)
(***************************************************************************)
EXTENDS Integers, Sequences, FiniteSets

CONSTANTS
  NodeIds,    \* ids a definition may use for nodes and for edge endpoints
  Labels,     \* node labels: names of progress steps, not necessarily unique
  Workflows   \* the definitions that execute() may be called with

\* Handles of one group select the same way: "success" stands for the six
\* handles a successful node follows, "each" for each/iteration, "complete"
\* for complete/done.
Handles == {"success", "failure", "true", "false", "case", "default",
            "each", "complete"}

\* "pass": triggers and unimplemented types, which always succeed; switch and
\* loop are registered as unimplemented too, so their outputs carry no key;
\* "action": network, SNMP, SSH, database, delay, notification, debug nodes;
\* "discovery": the executors that may dispatch a Celery chord;
\* the if-nodes by condition_type; "if_data" covers has_results and
\* expression, whose value depends on data the model leaves out.
IfTypes   == {"if_data", "if_all_success", "if_any_failure"}
NodeTypes == {"pass", "action", "discovery", "switch", "loop", "merge"}
               \cup IfTypes

Edge == [source : NodeIds, target : NodeIds, handle : Handles]

WorkflowType == [nodes : Seq(NodeIds), edges : Seq(Edge),
                 type : [NodeIds -> NodeTypes], label : [NodeIds -> Labels]]

\* The definition's nodes become a dict keyed by id, so an id occurs once.
ASSUME WorkflowAssumption ==
  /\ IsFiniteSet(NodeIds)
  /\ Workflows \subseteq WorkflowType
  /\ \A w \in Workflows : \A i, j \in DOMAIN w.nodes :
       w.nodes[i] = w.nodes[j] => i = j

NodeSet(w) == {w.nodes[i] : i \in DOMAIN w.nodes}

\* execute() keeps an edge only when both of its endpoints are nodes.
Linked(w, i) == /\ i \in DOMAIN w.edges
                /\ w.edges[i].source \in NodeSet(w)
                /\ w.edges[i].target \in NodeSet(w)

IsStart(w, n) == ~ \E i \in DOMAIN w.edges :
                     Linked(w, i) /\ w.edges[i].target = n

HasStart(w) == \E i \in DOMAIN w.nodes : IsStart(w, w.nodes[i])
-----------------------------------------------------------------------------
\* A NodeResult: its status and, for an if-node, condition_result (FALSE when
\* the output does not carry the key, as after an exception).
Outcome   == [status : {"success", "failure"}, condition : BOOLEAN]
NoResult  == [status |-> "none", condition |-> FALSE]
Succeeded == [status |-> "success", condition |-> FALSE]
Failed    == [status |-> "failure", condition |-> FALSE]

ResultMap == [NodeIds -> Outcome \cup {NoResult}]
NoResults == [n \in NodeIds |-> NoResult]

Executed(results)  == {n \in NodeIds : results[n] # NoResult}
FailedIn(results)  == {n \in NodeIds : results[n].status = "failure"}

OutputsToFollow(type, r) ==
  IF type \in IfTypes        THEN IF r.condition THEN {"true"} ELSE {"false"}
  ELSE IF type = "switch"    THEN {"default"}
  ELSE IF type = "loop"      THEN {"each"}
  ELSE IF r.status = "success" THEN {"success"}
  ELSE {"failure"}

\* Edge i leads somewhere under the results so far: its source has run and
\* its handle is among the outputs the source's result selects.
Follows(w, results, i) ==
  /\ Linked(w, i)
  /\ results[w.edges[i].source] # NoResult
  /\ w.edges[i].handle \in OutputsToFollow(w.type[w.edges[i].source],
                                           results[w.edges[i].source])
=============================================================================
