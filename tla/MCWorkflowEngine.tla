-------------------------- MODULE MCWorkflowEngine --------------------------
(***************************************************************************)
(* Instances of WorkflowEngine: every small graph of action nodes, and a   *)
(* few hand-made workflows with the control nodes and the chord.           *)
(***************************************************************************)
EXTENDS WorkflowEngine, TLC

CONSTANTS a, b, c, d, e

NodeIds3 == {a, b, c}
NodeIds5 == {a, b, c, d, e}
Labels5  == {"L1", "L2", "L3", "L4", "L5"}

E(s, t, h) == [source |-> s, target |-> t, handle |-> h]

\* Every graph over two nodes, a third id dangling or a node, with at most
\* k edges in every order.
SmallEdges(k) == UNION {[1 .. m -> {E(s, t, h) : s \in NodeIds3,
                           t \in NodeIds3, h \in {"success", "failure"}}]
                        : m \in 0 .. k}

Labelling == (a :> "L1") @@ (b :> "L2") @@ (c :> "L2") @@ (d :> "L1")
               @@ (e :> "L1")

SmallGraphs ==
  {[nodes |-> <<a, b, c>>, edges |-> es,
    type |-> [n \in NodeIds |-> "action"], label |-> Labelling]
     : es \in SmallEdges(2)}
  \cup
  {[nodes |-> <<a, b>>, edges |-> es,
    type |-> [n \in NodeIds |-> "action"], label |-> Labelling]
     : es \in SmallEdges(2)}
  \cup
  {[nodes |-> <<a, b, c>>, edges |-> es,
    type |-> [n \in NodeIds |-> "action"], label |-> Labelling]
     : es \in {f \in SmallEdges(3) : Len(f) = 3 /\ f[1].source = a
                   /\ f[1].target # a /\ f[2].source # c}}

Types(ta, tb, tc, td, te) ==
  (a :> ta) @@ (b :> tb) @@ (c :> tc) @@ (d :> td) @@ (e :> te)

Flow(nodes, types, edges, labels) ==
  [nodes |-> nodes, edges |-> edges, type |-> types, label |-> labels]

OwnLabel == (a :> "L1") @@ (b :> "L2") @@ (c :> "L3") @@ (d :> "L4")
              @@ (e :> "L5")

\* Two branches, joined by a merge node.
Diamond ==
  Flow(<<a, b, c, d, e>>,
       Types("pass", "action", "action", "merge", "action"),
       <<E(a, b, "success"), E(a, c, "success"), E(b, d, "success"),
         E(c, d, "success"), E(d, e, "success"), E(b, e, "failure")>>,
       OwnLabel)

\* Errors collected by an if-node behind two branches, one of them a
\* discovery that may dispatch a chord.
ErrorHandling ==
  Flow(<<a, b, c, d, e>>,
       Types("pass", "discovery", "if_any_failure", "action", "action"),
       <<E(a, b, "success"), E(b, c, "success"), E(b, c, "failure"),
         E(c, d, "true"), E(c, e, "false"), E(d, e, "success")>>, OwnLabel)

\* Nested conditions; every second branch leads back up.
Conditions ==
  Flow(<<a, b, c, d, e>>,
       Types("action", "if_data", "if_all_success", "action", "action"),
       <<E(a, b, "success"), E(a, c, "failure"), E(b, c, "true"),
         E(b, d, "false"), E(c, d, "true"), E(c, e, "false"),
         E(d, b, "failure"), E(e, c, "success")>>, OwnLabel)

\* A loop whose body returns to it, a switch, two triggers.
Loops ==
  Flow(<<a, b, c, d, e>>,
       Types("pass", "loop", "action", "switch", "pass"),
       <<E(a, b, "success"), E(b, c, "each"), E(c, b, "success"),
         E(b, d, "complete"), E(e, d, "success"), E(d, c, "case"),
         E(d, b, "default")>>, OwnLabel)

\* Only a cycle: no start node.
Cycle ==
  Flow(<<a, b>>, Types("action", "action", "pass", "pass", "pass"),
       <<E(a, b, "success"), E(b, a, "success")>>, OwnLabel)

\* A cycle beside a trigger, an edge from a deleted node, a shared label.
Island ==
  Flow(<<a, b, c, d>>, Types("action", "action", "action", "discovery", "pass"),
       <<E(a, d, "success"), E(b, c, "success"), E(c, b, "success"),
         E(e, d, "success"), E(a, d, "failure")>>,
       [OwnLabel EXCEPT ![d] = "L1"])

ControlFlows == {Diamond, ErrorHandling, Conditions, Loops, Cycle, Island}

AllFlows == SmallGraphs \cup ControlFlows
=============================================================================
