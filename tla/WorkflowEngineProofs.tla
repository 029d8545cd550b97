------------------------ MODULE WorkflowEngineProofs ------------------------
(***************************************************************************)
(* Proofs about WorkflowEngine for every set of workflows: types, the      *)
(* inductive invariant of the traversal and what follows from it, and what *)
(* the engine writes down while it runs: the order of its results, the     *)
(* audit trail and the progress.                                           *)
(***************************************************************************)
EXTENDS WorkflowEngine, FiniteSetTheorems, TLAPS

\* The fields of a workflow definition.
LEMMA WorkflowFields ==
  ASSUME NEW w \in WorkflowType
  PROVE  /\ w.nodes \in Seq(NodeIds)
         /\ w.edges \in Seq(Edge)
         /\ w.type \in [NodeIds -> NodeTypes]
         /\ w.label \in [NodeIds -> Labels]
<1> DEFINE N == Seq(NodeIds)
           S == Seq(Edge)
           T == [NodeIds -> NodeTypes]
           L == [NodeIds -> Labels]
<1>1. w \in [nodes : N, edges : S, type : T, label : L]
  BY DEF WorkflowType
<1> HIDE DEF N, S, T, L
<1>2. w.nodes \in N /\ w.edges \in S /\ w.type \in T /\ w.label \in L
  BY <1>1
<1> QED BY <1>2 DEF N, S, T, L

\* The percentage is a percentage: update_progress clamps it, and the counts
\* it is computed from are numbers.
LEMMA PercentType == TypeOK => Percent \in 0 .. 100
<1> SUFFICES ASSUME TypeOK PROVE Percent \in 0 .. 100
  OBVIOUS
<1> DEFINE completed == {n \in Executed(node_results) :
                            node_results[n].status = "success"}
<1>1. Cardinality(completed) \in Nat
  <2>1. completed \in SUBSET NodeIds
    BY DEF Executed
  <2>2. IsFiniteSet(completed)
    BY <2>1, FS_Subset, WorkflowAssumption
  <2> QED BY <2>2, FS_CardinalityType
<1>2. Len(wf.nodes) \in Nat
  <2>1. wf.nodes \in Seq(NodeIds)
    BY WorkflowFields DEF TypeOK
  <2> QED BY <2>1
<1> DEFINE p == IF Len(wf.nodes) = 0 THEN 0
                ELSE (100 * Cardinality(completed)) \div Len(wf.nodes)
<1>3. p \in Int
  <2> HIDE DEF completed
  <2>1. CASE Len(wf.nodes) = 0
    BY <2>1
  <2>2. CASE Len(wf.nodes) # 0
    BY <2>2, <1>1, <1>2
  <2> QED BY <2>1, <2>2
<1>4. Percent = IF p > 100 THEN 100 ELSE IF p < 0 THEN 0 ELSE p
  BY DEF Percent
<1> HIDE DEF p
<1> QED BY <1>3, <1>4
-----------------------------------------------------------------------------
\* The ends of a linked edge, and what it takes to follow it, are node ids.
LEMMA EdgeEnds ==
  ASSUME NEW w \in WorkflowType, NEW i \in DOMAIN w.edges
  PROVE  w.edges[i].source \in NodeIds /\ w.edges[i].target \in NodeIds
<1>1. w.edges[i] \in Edge
  BY WorkflowFields
<1> QED BY <1>1 DEF Edge

LEMMA NodeSetType ==
  ASSUME NEW w \in WorkflowType
  PROVE  /\ NodeSet(w) \subseteq NodeIds
         /\ \A i \in DOMAIN w.nodes : w.nodes[i] \in NodeSet(w)
BY WorkflowFields DEF NodeSet

\* Executors return, or raise, one of the two outcomes.
LEMMA OutcomesType ==
  ASSUME NEW t \in NodeTypes
  PROVE  Outcomes(t) \subseteq Outcome
<1>1. Succeeded \in Outcome /\ Failed \in Outcome
  BY DEF Succeeded, Failed, Outcome
<1>2. ASSUME NEW v \in BOOLEAN
      PROVE  [status |-> "success", condition |-> v] \in Outcome
  BY DEF Outcome
<1>3. [status : {"success"}, condition : BOOLEAN] \subseteq Outcome
  BY DEF Outcome
<1>4. CASE t \in {"pass", "switch", "loop", "merge"}
  BY <1>1, <1>4 DEF Outcomes
<1>5. CASE t \in {"action", "discovery"}
  BY <1>1, <1>5 DEF Outcomes
<1>6. CASE t = "if_data"
  BY <1>1, <1>3, <1>6 DEF Outcomes
<1>7. CASE t = "if_all_success"
  BY <1>2, <1>7 DEF Outcomes
<1>8. CASE t = "if_any_failure"
  BY <1>2, <1>8 DEF Outcomes
<1> QED BY <1>4, <1>5, <1>6, <1>7, <1>8 DEF NodeTypes, IfTypes

\* The audit events the engine writes are rows of the table.
LEMMA AuditEventType ==
  ASSUME NEW ok \in BOOLEAN, NEW k \in Int, NEW n \in NodeIds
  PROVE  /\ JobEvent("job_started", ok) \in AuditEvent
         /\ JobEvent("job_completed", ok) \in AuditEvent
         /\ ActionEvent("action_started", n, k, ok) \in AuditEvent
         /\ ActionEvent("action_completed", n, k, ok) \in AuditEvent
BY DEF JobEvent, ActionEvent, AuditEvent

LEMMA AnswersType ==
  ASSUME TypeOK, InNode
  PROVE  Answers \subseteq Outcome
<1>1. wf.type \in [NodeIds -> NodeTypes] /\ busy \in NodeIds
  BY WorkflowFields DEF InNode, TypeOK
<1>2. Outcomes(wf.type[busy]) \subseteq Outcome
  BY <1>1, OutcomesType
<1>3. {Failed} \subseteq Outcome /\ {Succeeded, Failed} \subseteq Outcome
  BY DEF Failed, Succeeded, Outcome
<1> QED BY <1>2, <1>3 DEF Answers

LEMMA CompletedType ==
  ASSUME TypeOK, busy # None, NEW r \in Outcome
  PROVE  Completed(r) \in AuditEvent
<1>1. busy \in NodeIds /\ recorded \in Seq(NodeIds)
  BY DEF TypeOK
<1>2. Len(recorded) \in Int /\ (r.status = "success") \in BOOLEAN
  BY <1>1
<1> QED BY <1>1, <1>2, AuditEventType DEF Completed

\* The rows that a step may add keep the table a table.
LEMMA AuditType ==
  ASSUME TypeOK, NEW e \in AuditEvent, NEW f \in AuditEvent,
         audit' \in {audit, Append(audit, e), audit \o <<e, f>>, <<>>, <<e>>}
  PROVE  audit' \in Seq(AuditEvent)
<1>1. audit \in Seq(AuditEvent) /\ <<e, f>> \in Seq(AuditEvent)
  BY DEF TypeOK
<1>2. Append(audit, e) \in Seq(AuditEvent)
  BY <1>1
<1>3. audit \o <<e, f>> \in Seq(AuditEvent)
  BY <1>1
<1>4. <<>> \in Seq(AuditEvent) /\ <<e>> \in Seq(AuditEvent)
  OBVIOUS
<1> QED BY <1>1, <1>2, <1>3, <1>4

LEMMA StepType ==
  ASSUME TypeOK, NEW n \in NodeIds, NEW r \in Outcome,
         StepStarted(n) \/ StepEnded(n, r) \/ progress' = progress
  PROVE  progress' \in Progress
<1>1. wf.label \in [NodeIds -> Labels] /\ progress \in Progress
  BY WorkflowFields DEF TypeOK
<1>2. wf.label[n] \in Labels
  BY <1>1
<1>3. ASSUME StepStarted(n) PROVE progress' \in Progress
  BY <1>1, <1>2, <1>3, PercentType DEF StepStarted, Progress, StepStates
<1>4. ASSUME StepEnded(n, r) PROVE progress' \in Progress
  <2> DEFINE l == wf.label[n]
             S == [Labels -> StepStates]
             m == CASE progress.steps[l] = "absent" -> progress.steps[l]
                    [] r.status = "success" -> "completed"
                    [] OTHER -> "failed"
  <2>1. progress.steps \in S /\ l \in Labels
    BY <1>1, <1>2 DEF Progress
  <2>2. m \in StepStates
    BY <2>1 DEF StepStates
  <2>3. [progress.steps EXCEPT ![l] = m] \in S
    BY <2>1, <2>2
  <2>4. progress' = [percent |-> Percent, current_step |-> "",
                     steps |-> [progress.steps EXCEPT ![l] = m]]
    BY <1>4 DEF StepEnded
  <2>5. Percent \in 0 .. 100
    BY PercentType
  <2>6. Progress = [percent : 0 .. 100, current_step : Labels \cup {""}, steps : S]
    BY DEF Progress
  <2> HIDE DEF m, S, l
  <2> QED BY <2>3, <2>4, <2>5, <2>6
<1> QED BY <1>1, <1>3, <1>4

LEMMA EnterNodeType ==
  ASSUME TypeOK, NEW n \in NodeIds, EnterNode(n),
         nextStart' \in Nat, cursor' \in [NodeIds -> Nat]
  PROVE  TypeOK'
<1>0. calls \in Seq(NodeIds) /\ recorded \in Seq(NodeIds)
      /\ softLimit \in BOOLEAN /\ struck \in NodeIds \cup {None}
  BY DEF TypeOK
<1>1. /\ calls' \in Seq(NodeIds) /\ busy' \in NodeIds \cup {None}
      /\ softLimit' \in BOOLEAN /\ struck' \in NodeIds \cup {None}
  <2>1. calls' = Append(calls, n) /\ busy' = n
    BY DEF EnterNode
  <2>2. Unraised \/ Raised(n)
    BY DEF EnterNode, Strikes
  <2>3. softLimit' \in BOOLEAN /\ struck' \in NodeIds \cup {None}
    BY <1>0, <2>2 DEF Raised, Unraised
  <2> QED BY <1>0, <2>1, <2>3
<1>2. audit' \in Seq(AuditEvent)
  <2>1. Len(recorded) \in Int
    BY <1>0
  <2>2. ActionEvent("action_started", n, Len(recorded), TRUE) \in AuditEvent
    BY <2>1, AuditEventType
  <2> QED BY <2>2, AuditType DEF EnterNode
<1>3. progress' \in Progress
  <2>1. Failed \in Outcome
    BY DEF Failed, Outcome
  <2> QED BY <2>1, StepType DEF EnterNode
<1> QED BY <1>1, <1>2, <1>3 DEF EnterNode, TypeOK

\* What recording a result leaves of the types, apart from the writes.
LEMMA RecordType ==
  ASSUME TypeOK, InNode, NEW r \in Outcome, Record(r),
         audit' \in Seq(AuditEvent), progress' \in Progress,
         Unraised \/ \E n \in NodeIds \cup {None} : Raised(n)
  PROVE  TypeOK'
<1>0. busy \in NodeIds /\ softLimit \in BOOLEAN
      /\ struck \in NodeIds \cup {None}
  BY DEF InNode, TypeOK
<1>1. /\ busy' \in NodeIds \cup {None} /\ polls' \in -1 .. MaxPolls
      /\ softLimit' \in BOOLEAN /\ struck' \in NodeIds \cup {None}
  <2>1. softLimit' \in BOOLEAN /\ struck' \in NodeIds \cup {None}
    BY <1>0 DEF Raised, Unraised
  <2> QED BY <2>1, EngineAssumption DEF Record
<1>2. node_results' \in ResultMap /\ recorded' \in Seq(NodeIds)
  <2>1. node_results \in ResultMap /\ recorded \in Seq(NodeIds)
    BY DEF TypeOK
  <2> QED BY <1>0, <2>1 DEF Record, ResultMap
<1> QED BY <1>1, <1>2 DEF Record, TypeOK

LEMMA LeaveNodeType ==
  ASSUME TypeOK, InNode, NEW r \in Outcome, LeaveNode(r)
  PROVE  TypeOK'
<1>1. busy \in NodeIds /\ busy # None
  BY DEF InNode, TypeOK
<1>2. audit' \in Seq(AuditEvent)
  BY <1>1, CompletedType, AuditType DEF LeaveNode
<1>3. progress' \in Progress
  BY <1>1, StepType DEF LeaveNode
<1>4. Unraised \/ \E n \in NodeIds \cup {None} : Raised(n)
  BY <1>1 DEF LeaveNode, Strikes
<1> QED BY <1>2, <1>3, <1>4, RecordType DEF LeaveNode

LEMMA WaitStepType ==
  ASSUME TypeOK, NEW p \in -1 .. MaxPolls, WaitStep(p)
  PROVE  TypeOK'
<1>1. progress' \in Progress
  BY PercentType DEF WaitStep, TypeOK, Progress
<1>2. softLimit' \in BOOLEAN /\ struck' \in NodeIds \cup {None}
  BY DEF WaitStep, Strikes, Raised, Unraised, TypeOK
<1> QED BY <1>1, <1>2 DEF WaitStep, TypeOK

\* What an abort leaves of them.
LEMMA AbortType ==
  ASSUME TypeOK, Abort, NEW n \in NodeIds \cup {None}, Raised(n),
         audit' \in Seq(AuditEvent), progress' \in Progress
  PROVE  TypeOK'
<1>1. polls' \in -1 .. MaxPolls /\ calls' \in Seq(NodeIds)
  BY EngineAssumption DEF Abort
<1> QED BY <1>1 DEF Abort, Raised, TypeOK

LEMMA EscapeType ==
  ASSUME TypeOK, SoftLimitEscapes
  PROVE  TypeOK'
<1> DEFINE job == JobEvent("job_completed", FALSE)
<1>1. job \in AuditEvent /\ Failed \in Outcome
  BY DEF JobEvent, AuditEvent, Failed, Outcome
<1>2. Abort /\ phase = "running" /\ busy \in NodeIds \cup {None}
      /\ progress \in Progress
  BY DEF SoftLimitEscapes, TypeOK
<1>3. CASE Raised(busy) /\ progress' = progress /\ audit' = Append(audit, job)
  BY <1>1, <1>2, <1>3, AuditType, AbortType
<1>4. CASE /\ \E n \in NodeIds : Raised(n) /\ StepStarted(n)
           /\ audit' = Append(audit, job)
  BY <1>1, <1>2, <1>4, AuditType, StepType, AbortType
<1>5. CASE /\ busy # None /\ Raised(busy) /\ StepEnded(busy, Failed)
           /\ audit' = Append(audit, job)
  BY <1>1, <1>2, <1>5, AuditType, StepType, AbortType
<1>6. CASE /\ busy # None /\ Raised(busy)
           /\ \E r \in Answers : /\ StepEnded(busy, r)
                                 /\ audit' = audit \o <<Completed(r), job>>
  <2>1. Answers \subseteq Outcome
    BY <1>2, <1>6, AnswersType DEF InNode
  <2>2. PICK r \in Outcome : /\ StepEnded(busy, r)
                             /\ audit' = audit \o <<Completed(r), job>>
    BY <1>6, <2>1
  <2>3. Completed(r) \in AuditEvent
    BY <1>6, CompletedType
  <2> QED BY <1>1, <1>2, <1>6, <2>2, <2>3, AuditType, StepType, AbortType
<1> QED BY <1>3, <1>4, <1>5, <1>6 DEF SoftLimitEscapes

LEMMA InitType == EngineInit => TypeOK
<1> SUFFICES ASSUME EngineInit PROVE TypeOK
  OBVIOUS
<1>1. wf \in WorkflowType
  BY WorkflowAssumption DEF EngineInit
<1>2. node_results \in ResultMap
  BY DEF EngineInit, NoResults, ResultMap
<1>3. progress \in Progress
  <2>1. progress = [percent |-> 0, current_step |-> "",
                    steps |-> [l \in Labels |-> "absent"]]
    BY DEF EngineInit
  <2> DEFINE S == [Labels -> StepStates]
  <2>2. [l \in Labels |-> "absent"] \in S
    BY DEF StepStates
  <2>3. 0 \in 0 .. 100 /\ "" \in Labels \cup {""}
    OBVIOUS
  <2>4. Progress = [percent : 0 .. 100, current_step : Labels \cup {""}, steps : S]
    BY DEF Progress
  <2> HIDE DEF S
  <2> QED BY <2>1, <2>2, <2>3, <2>4
<1>4. audit \in Seq(AuditEvent) /\ calls \in Seq(NodeIds)
        /\ recorded \in Seq(NodeIds)
  <2>1. audit = <<>> /\ calls = <<>> /\ recorded = <<>>
    BY DEF EngineInit
  <2> QED BY <2>1
<1>5. polls \in -1 .. MaxPolls
  <2>1. polls = -1
    BY DEF EngineInit
  <2> QED BY <2>1, EngineAssumption
<1> QED BY <1>1, <1>2, <1>3, <1>4, <1>5 DEF EngineInit, TypeOK

\* A node the traversal enters is one of the workflow's, and has no result.
LEMMA StartEntry ==
  ASSUME TypeOK, NEW i \in DOMAIN wf.nodes, AtStart(i)
  PROVE  /\ i \in Nat /\ wf.nodes[i] \in NodeIds
         /\ wf.nodes[i] \in NodeSet(wf) /\ IsStart(wf, wf.nodes[i])
         /\ node_results[wf.nodes[i]] = NoResult
<1>1. wf \in WorkflowType
  BY DEF TypeOK
<1>2. wf.nodes \in Seq(NodeIds)
  BY <1>1, WorkflowFields
<1>3. wf.nodes[i] \in NodeSet(wf) /\ NodeSet(wf) \subseteq NodeIds
  BY <1>1, NodeSetType
<1> QED BY <1>2, <1>3 DEF AtStart

LEMMA SuccessorEntry ==
  ASSUME TypeOK, calls # <<>>, NEW i \in DOMAIN wf.edges, Calls(i)
  PROVE  /\ i \in Nat /\ wf.edges[i].target \in NodeIds
         /\ wf.edges[i].target \in NodeSet(wf)
         /\ Top \in NodeIds
<1>1. wf \in WorkflowType /\ calls \in Seq(NodeIds)
  BY DEF TypeOK
<1>2. wf.edges \in Seq(Edge)
  BY <1>1, WorkflowFields
<1>3. i \in Nat
  BY <1>2
<1>4. wf.edges[i].target \in NodeIds
  BY <1>1, EdgeEnds
<1>5. Top \in NodeIds
  BY <1>1 DEF Top
<1>6. wf.edges[i].target \in NodeSet(wf)
  BY DEF Calls, Follows, Linked
<1> QED BY <1>3, <1>4, <1>5, <1>6

LEMMA NextType == TypeOK /\ [EngineNext]_engineVars => TypeOK'
<1> SUFFICES ASSUME TypeOK, [EngineNext]_engineVars PROVE TypeOK'
  OBVIOUS
<1>0. /\ nextStart \in Nat /\ cursor \in [NodeIds -> Nat]
      /\ calls \in Seq(NodeIds) /\ audit \in Seq(AuditEvent)
      /\ polls \in -1 .. MaxPolls /\ softLimit \in BOOLEAN
      /\ struck \in NodeIds \cup {None}
  BY DEF TypeOK
<1>1. CASE StartExecution
  <2>1. JobEvent("job_started", TRUE) \in AuditEvent
    BY DEF JobEvent, AuditEvent
  <2>2. audit' \in Seq(AuditEvent)
    BY <1>1, <2>1, AuditType DEF StartExecution
  <2>3. softLimit' \in BOOLEAN /\ struck' \in NodeIds \cup {None}
    BY <1>0, <1>1 DEF StartExecution, Strikes, Raised, Unraised
  <2> QED BY <1>1, <2>2, <2>3 DEF StartExecution, TypeOK
<1>2. CASE CallStart
  <2>1. PICK i \in DOMAIN wf.nodes :
          AtStart(i) /\ nextStart' = i + 1 /\ EnterNode(wf.nodes[i])
    BY <1>2 DEF CallStart, NextStart
  <2>2. i \in Nat /\ wf.nodes[i] \in NodeIds
    BY <2>1, StartEntry
  <2>3. nextStart' \in Nat /\ cursor' \in [NodeIds -> Nat]
    BY <1>0, <1>2, <2>1, <2>2 DEF CallStart
  <2> QED BY <2>1, <2>2, <2>3, EnterNodeType
<1>3. CASE CallSuccessor
  <2>1. PICK i \in DOMAIN wf.edges :
          /\ Calls(i) /\ EnterNode(wf.edges[i].target)
          /\ cursor' = [cursor EXCEPT ![Top] = i + 1]
    BY <1>3 DEF CallSuccessor, NextEdge
  <2>2. calls # <<>>
    BY <1>3 DEF CallSuccessor, NextEdge, InLoop
  <2>3. i \in Nat /\ wf.edges[i].target \in NodeIds
    BY <2>1, <2>2, SuccessorEntry
  <2>4. nextStart' \in Nat /\ cursor' \in [NodeIds -> Nat]
    <3>1. nextStart' = nextStart
      BY <1>3 DEF CallSuccessor
    <3>2. i + 1 \in Nat
      BY <2>3
    <3> QED BY <1>0, <2>1, <3>1, <3>2
  <2> QED BY <2>1, <2>3, <2>4, EnterNodeType
<1>4. CASE ReturnFromChain
  <2>1. calls # <<>> /\ calls' = SubSeq(calls, 1, Len(calls) - 1)
    BY <1>4 DEF ReturnFromChain, InLoop
  <2>2. calls' \in Seq(NodeIds)
    BY <1>0, <2>1
  <2> QED BY <1>4, <2>2 DEF ReturnFromChain, TypeOK
<1>5. CASE ExecutorReturns
  BY <1>5, AnswersType, LeaveNodeType DEF ExecutorReturns
<1>6. CASE DispatchChord
  <2>1. 0 \in -1 .. MaxPolls
    BY EngineAssumption
  <2> QED BY <1>6, <2>1, WaitStepType DEF DispatchChord
<1>7. CASE PollChord
  <2>1. polls + 1 \in -1 .. MaxPolls
    BY <1>0, <1>7, EngineAssumption DEF PollChord
  <2> QED BY <1>7, <2>1, WaitStepType DEF PollChord
<1>8. CASE Complete
  <2>1. JobEvent("job_completed", Verdict = "success") \in AuditEvent
    BY DEF JobEvent, AuditEvent
  <2>2. audit' \in Seq(AuditEvent)
    BY <1>8, <2>1, AuditType DEF Complete
  <2>3. softLimit' \in BOOLEAN /\ struck' \in NodeIds \cup {None}
    BY <1>0, <1>8 DEF Complete, Strikes, Raised, Unraised
  <2> QED BY <1>8, <2>2, <2>3 DEF Complete, Verdict, TypeOK
<1>9. CASE SoftLimitInNode \/ SoftLimitAfterEvent
  <2>1. /\ InNode /\ Record(Failed) /\ StepEnded(busy, Failed)
        /\ \E n \in NodeIds \cup {None} : Raised(n)
    BY <1>9 DEF SoftLimitInNode, SoftLimitAfterEvent, InNode, TypeOK
  <2>2. Failed \in Outcome /\ busy \in NodeIds /\ busy # None
    BY <2>1 DEF Failed, Outcome, InNode, TypeOK
  <2>3. progress' \in Progress
    BY <2>1, <2>2, StepType
  <2>4. Completed(Failed) \in AuditEvent
    BY <2>2, CompletedType
  <2>5. audit' \in Seq(AuditEvent)
    <3>1. CASE SoftLimitInNode
      BY <2>4, <3>1, AuditType DEF SoftLimitInNode
    <3>2. CASE SoftLimitAfterEvent
      <4>1. PICK r \in Outcome :
              audit' = audit \o <<Completed(r), Completed(Failed)>>
        BY <3>2, AnswersType DEF SoftLimitAfterEvent
      <4>2. Completed(r) \in AuditEvent
        BY <2>2, CompletedType
      <4> QED BY <2>4, <4>1, <4>2, AuditType
    <3> QED BY <1>9, <3>1, <3>2
  <2> QED BY <2>1, <2>2, <2>3, <2>5, RecordType
<1>10. CASE SoftLimitSwallowed
  BY <1>10 DEF SoftLimitSwallowed, Raised, TypeOK
<1>11. CASE SoftLimitUncaught
  <2>1. /\ JobEvent("job_started", TRUE) \in AuditEvent
        /\ JobEvent("job_completed", Verdict = "success") \in AuditEvent
    BY DEF JobEvent, AuditEvent
  <2>2. audit' \in Seq(AuditEvent)
    BY <1>11, <2>1, AuditType DEF SoftLimitUncaught
  <2>3. progress' \in Progress
    BY <1>11 DEF SoftLimitUncaught, TypeOK
  <2> QED BY <1>11, <2>2, <2>3, AbortType DEF SoftLimitUncaught
<1>12. CASE UNCHANGED engineVars
  BY <1>12 DEF engineVars, TypeOK
<1> QED
  BY <1>1, <1>2, <1>3, <1>4, <1>5, <1>6, <1>7, <1>8, <1>9, <1>10, <1>11,
     <1>12, EscapeType DEF EngineNext, EngineStep, SoftLimit

\* Every reachable state of the engine is well typed, for every set of
\* workflows.
THEOREM TypeCorrect == EngineSpec => []TypeOK
BY InitType, NextType, PTL DEF EngineSpec
-----------------------------------------------------------------------------
LEMMA StartsInNodeIds ==
  ASSUME TypeOK, NEW i \in DOMAIN wf.nodes
  PROVE  wf.nodes[i] \in NodeIds
BY WorkflowFields DEF TypeOK

\* Entering a node disturbs the stack, the cursors and busy; the results, and
\* with them the edges that are followed, stay.
LEMMA EnterNodeInv ==
  ASSUME TypeOK, TraversalInv, NEW n \in NodeIds, EnterNode(n),
         phase = "running", busy = None, node_results[n] = NoResult,
         n \in NodeSet(wf),
         \/ IsStart(wf, n)
         \/ \E i \in DOMAIN wf.edges : /\ Follows(wf, node_results, i)
                                       /\ wf.edges[i].target = n,
         \A m \in NodeIds : node_results[m] = NoResult =>
            cursor'[m] = cursor[m]
  PROVE  StackInv' /\ Justified' /\ VerdictInv' /\ ClosedWhenDone'
<1>1. /\ calls \in Seq(NodeIds) /\ n # None
  BY EngineAssumption DEF TypeOK
<1>2. /\ calls' = Append(calls, n) /\ busy' = n /\ phase' = phase
      /\ node_results' = node_results /\ wf' = wf /\ status' = status
  BY DEF EnterNode
<1>3. StackInv'
  <2>1. /\ Len(calls') = Len(calls) + 1 /\ calls'[Len(calls')] = n
        /\ DOMAIN calls' = 1 .. Len(calls) + 1
        /\ \A k \in DOMAIN calls : calls'[k] = calls[k] /\ k \in 1 .. Len(calls)
        /\ calls' # <<>>
        /\ \A k \in DOMAIN calls' : k \in DOMAIN calls \/ k = Len(calls')
    BY <1>1, <1>2
  <2>2. \A k \in DOMAIN calls : node_results[calls[k]] # NoResult
    <3>1. \A k \in DOMAIN calls : calls[k] \in NodeIds
      BY <1>1
    <3> QED BY <3>1, EngineAssumption DEF TraversalInv, StackInv
  <2>3. \A k \in DOMAIN calls' :
           calls'[k] # busy' => node_results'[calls'[k]] # NoResult
    BY <1>2, <2>1, <2>2
  <2>4. \A j, k \in DOMAIN calls' : calls'[j] = calls'[k] => j = k
    <3> SUFFICES ASSUME NEW j \in DOMAIN calls', NEW k \in DOMAIN calls',
                        calls'[j] = calls'[k]
                 PROVE  j = k
      OBVIOUS
    <3>1. CASE j \in DOMAIN calls /\ k \in DOMAIN calls
      BY <2>1, <3>1 DEF TraversalInv, StackInv
    <3>2. CASE j = Len(calls') /\ k \in DOMAIN calls
      BY <2>1, <2>2, <3>2
    <3>3. CASE k = Len(calls') /\ j \in DOMAIN calls
      BY <2>1, <2>2, <3>3
    <3>4. CASE k = Len(calls') /\ j = Len(calls')
      BY <3>4
    <3> QED BY <2>1, <3>1, <3>2, <3>3, <3>4
  <2>5. busy' = Top'
    BY <1>2, <2>1 DEF Top
  <2>6. \A m \in NodeIds : node_results'[m] = NoResult => cursor'[m] = 1
    BY <1>2 DEF TraversalInv, StackInv
  <2> QED BY <1>2, <2>1, <2>3, <2>4, <2>5, <2>6 DEF StackInv
<1>4. Justified'
  BY <1>1, <1>2 DEF TraversalInv, Justified
<1>5. VerdictInv' /\ ClosedWhenDone'
  BY <1>2 DEF TraversalInv, VerdictInv, ClosedWhenDone
<1> QED BY <1>3, <1>4, <1>5

LEMMA CallStartInv ==
  ASSUME TypeOK, TraversalInv, CallStart
  PROVE  TraversalInv'
<1>1. PICK i \in DOMAIN wf.nodes :
        /\ i >= nextStart /\ AtStart(i) /\ nextStart' = i + 1
        /\ \A j \in nextStart .. (i - 1) : ~ AtStart(j)
        /\ EnterNode(wf.nodes[i])
  BY DEF CallStart, NextStart
<1> DEFINE n == wf.nodes[i]
<1>2. /\ i \in Nat /\ n \in NodeIds /\ n \in NodeSet(wf)
      /\ IsStart(wf, n) /\ node_results[n] = NoResult
  BY <1>1, StartEntry
<1>3. /\ phase = "running" /\ calls = <<>> /\ busy = None
      /\ cursor' = cursor /\ nextStart \in Nat
  BY DEF CallStart, NextStart, TraversalInv, StackInv, TypeOK
<1>4. /\ calls' = Append(calls, n) /\ busy' = n /\ phase' = phase
      /\ node_results' = node_results /\ wf' = wf
  BY <1>1 DEF EnterNode
<1>5. StackInv' /\ Justified' /\ VerdictInv' /\ ClosedWhenDone'
  <2> HIDE DEF n
  <2>1. EnterNode(n)
    BY <1>1 DEF n
  <2> QED BY <1>2, <1>3, <2>1, EnterNodeInv
<1>6. LoopsInv'
  <2>1. ASSUME NEW j \in DOMAIN wf.nodes, j < i + 1, IsStart(wf, wf.nodes[j])
        PROVE  node_results[wf.nodes[j]] # NoResult \/ wf.nodes[j] = n
    <3>1. j \in Nat
      BY WorkflowFields DEF TypeOK
    <3>2. CASE j < nextStart
      BY <1>3, <2>1, <3>2, EngineAssumption, StartsInNodeIds
         DEF TraversalInv, LoopsInv, Reached
    <3>3. CASE j \in nextStart .. (i - 1)
      BY <1>1, <2>1, <3>3 DEF AtStart
    <3>4. CASE j = i
      BY <3>4
    <3> QED BY <1>2, <1>3, <2>1, <3>1, <3>2, <3>3, <3>4
  <2>2. ASSUME NEW j \in DOMAIN wf.edges, Follows(wf, node_results, j)
        PROVE  node_results[wf.edges[j].target] # NoResult
    <3>1. wf.edges[j].target \in NodeIds
      BY EdgeEnds DEF TypeOK
    <3>2. ~ OnStack(wf.edges[j].source)
      BY <1>3 DEF OnStack
    <3> QED BY <1>3, <2>2, <3>1, <3>2, EngineAssumption
            DEF TraversalInv, LoopsInv, Reached
  <2> QED BY <1>1, <1>4, <2>1, <2>2 DEF LoopsInv, Reached
<1> QED BY <1>5, <1>6 DEF TraversalInv

LEMMA CallSuccessorInv ==
  ASSUME TypeOK, TraversalInv, CallSuccessor
  PROVE  TraversalInv'
<1>1. PICK i \in DOMAIN wf.edges :
        /\ i >= cursor[Top] /\ Calls(i)
        /\ \A j \in cursor[Top] .. (i - 1) : ~ Calls(j)
        /\ cursor' = [cursor EXCEPT ![Top] = i + 1]
        /\ EnterNode(wf.edges[i].target)
  BY DEF CallSuccessor, NextEdge
<1> DEFINE n == wf.edges[i].target
<1>2. /\ phase = "running" /\ calls # <<>> /\ busy = None
      /\ nextStart' = nextStart /\ cursor \in [NodeIds -> Nat]
      /\ calls \in Seq(NodeIds)
  BY DEF CallSuccessor, NextEdge, InLoop, TypeOK
<1>3. /\ i \in Nat /\ n \in NodeIds /\ n \in NodeSet(wf) /\ Top \in NodeIds
      /\ node_results[n] = NoResult /\ Follows(wf, node_results, i)
      /\ wf.edges[i].source = Top
  BY <1>1, <1>2, SuccessorEntry DEF Calls
<1>4. /\ calls' = Append(calls, n) /\ busy' = n /\ phase' = phase
      /\ node_results' = node_results /\ wf' = wf
  BY <1>1 DEF EnterNode
<1>5. Len(calls) \in DOMAIN calls /\ node_results[Top] # NoResult
  <2>1. Len(calls) \in DOMAIN calls
    BY <1>2
  <2> QED BY <1>2, <1>3, <2>1, EngineAssumption
          DEF TraversalInv, StackInv, Top
<1>6. StackInv' /\ Justified' /\ VerdictInv' /\ ClosedWhenDone'
  <2>1. \A m \in NodeIds : node_results[m] = NoResult =>
           cursor'[m] = cursor[m]
    BY <1>1, <1>2, <1>3, <1>5
  <2>2. \E k \in DOMAIN wf.edges : /\ Follows(wf, node_results, k)
                                  /\ wf.edges[k].target = n
    BY <1>3
  <2> HIDE DEF n
  <2>3. EnterNode(n)
    BY <1>1 DEF n
  <2> QED BY <1>2, <1>3, <2>1, <2>2, <2>3, EnterNodeInv
<1>7. LoopsInv'
  <2>1. ASSUME NEW j \in DOMAIN wf.nodes, j < nextStart,
               IsStart(wf, wf.nodes[j])
        PROVE  node_results[wf.nodes[j]] # NoResult
    BY <1>2, <2>1, EngineAssumption, StartsInNodeIds
       DEF TraversalInv, LoopsInv, Reached
  <2>2. ASSUME NEW j \in DOMAIN wf.edges, Follows(wf, node_results, j),
               OnStack(wf.edges[j].source)' => j < cursor'[wf.edges[j].source]
        PROVE  node_results[wf.edges[j].target] # NoResult
                 \/ wf.edges[j].target = n
    <3> DEFINE src == wf.edges[j].source
    <3>1. /\ src \in NodeIds /\ wf.edges[j].target \in NodeIds /\ j \in Nat
      BY EdgeEnds, WorkflowFields DEF TypeOK
    <3>2. OnStack(src) => OnStack(src)'
      BY <1>2, <1>4 DEF OnStack
    <3>3. CASE src # Top
      <4>1. cursor'[src] = cursor[src]
        BY <1>1, <1>2, <3>1, <3>3
      <4>2. OnStack(src) => j < cursor[src]
        BY <2>2, <3>2, <4>1
      <4> QED BY <1>2, <2>2, <3>1, <4>2, EngineAssumption
              DEF TraversalInv, LoopsInv, Reached
    <3>4. CASE src = Top
      <4>1. OnStack(Top)
        BY <1>5 DEF OnStack, Top
      <4>2. j < i + 1
        BY <1>1, <1>2, <1>3, <2>2, <3>2, <3>4, <4>1
      <4>3. CASE j < cursor[Top]
        BY <1>2, <2>2, <3>1, <3>4, <4>3, EngineAssumption
           DEF TraversalInv, LoopsInv, Reached
      <4>4. CASE j \in cursor[Top] .. (i - 1)
        BY <1>1, <2>2, <3>4, <4>4 DEF Calls
      <4>5. CASE j = i
        BY <4>5
      <4>6. cursor[Top] \in Nat
        BY <1>2, <1>3
      <4> QED BY <1>3, <3>1, <4>2, <4>3, <4>4, <4>5, <4>6
    <3> QED BY <3>3, <3>4
  <2> QED BY <1>2, <1>4, <2>1, <2>2 DEF LoopsInv, Reached
<1> QED BY <1>6, <1>7 DEF TraversalInv

\* Returning leaves the frame only when its loop has nothing left to call.
LEMMA ReturnInv ==
  ASSUME TypeOK, TraversalInv, ReturnFromChain
  PROVE  TraversalInv'
<1>1. /\ phase = "running" /\ calls # <<>> /\ busy = None
      /\ calls \in Seq(NodeIds) /\ cursor \in [NodeIds -> Nat]
      /\ \A i \in DOMAIN wf.edges : i >= cursor[Top] => ~ Calls(i)
      /\ calls' = SubSeq(calls, 1, Len(calls) - 1)
      /\ phase' = phase /\ nextStart' = nextStart /\ cursor' = cursor
      /\ busy' = busy /\ node_results' = node_results /\ wf' = wf
      /\ status' = status
  BY DEF ReturnFromChain, InLoop, TypeOK
<1>2. /\ Len(calls) \in Nat \ {0} /\ DOMAIN calls = 1 .. Len(calls)
      /\ DOMAIN calls' = 1 .. (Len(calls) - 1)
      /\ \A k \in DOMAIN calls' : k \in DOMAIN calls /\ calls'[k] = calls[k]
      /\ Top \in NodeIds
  BY <1>1 DEF Top
<1>3. StackInv'
  BY <1>1, <1>2 DEF TraversalInv, StackInv
<1>4. Justified' /\ VerdictInv' /\ ClosedWhenDone'
  BY <1>1 DEF TraversalInv, Justified, VerdictInv, ClosedWhenDone
<1>5. LoopsInv'
  <2>1. ASSUME NEW j \in DOMAIN wf.edges, Follows(wf, node_results, j),
               OnStack(wf.edges[j].source)' => j < cursor[wf.edges[j].source]
        PROVE  Reached(wf.edges[j].target)
    <3> DEFINE src == wf.edges[j].source
    <3>1. src \in NodeIds /\ wf.edges[j].target \in NodeIds /\ j \in Nat
      BY EdgeEnds, WorkflowFields DEF TypeOK
    <3>2. CASE src = Top /\ j >= cursor[Top]
      BY <1>1, <2>1, <3>2 DEF Calls, Reached
    <3>3. CASE src = Top /\ j < cursor[Top]
      BY <1>1, <2>1, <3>3 DEF TraversalInv, LoopsInv
    <3>4. CASE src # Top
      <4>1. ASSUME NEW k \in DOMAIN calls, calls[k] = src
            PROVE  k \in DOMAIN calls'
        BY <1>2, <3>4, <4>1 DEF Top
      <4>2. OnStack(src) => OnStack(src)'
        BY <1>1, <1>2, <4>1 DEF OnStack
      <4> QED BY <1>1, <2>1, <4>2 DEF TraversalInv, LoopsInv
    <3>5. cursor[Top] \in Nat
      BY <1>1, <1>2
    <3> QED BY <3>1, <3>2, <3>3, <3>4, <3>5
  <2> QED BY <1>1, <2>1 DEF TraversalInv, LoopsInv, Reached
<1> QED BY <1>3, <1>4, <1>5 DEF TraversalInv

\* Recording a result turns the busy node into an executed one; the edges it
\* selects are those of a frame whose loop is at its first edge.
LEMMA RecordInvariant ==
  ASSUME TypeOK, TraversalInv, InNode, NEW r \in Outcome, Record(r)
  PROVE  TraversalInv'
<1>1. /\ phase = "running" /\ busy # None /\ busy \in NodeIds
      /\ calls # <<>> /\ calls \in Seq(NodeIds) /\ busy = Top
      /\ node_results[busy] = NoResult /\ cursor[busy] = 1
  BY DEF InNode, TypeOK, TraversalInv, StackInv
<1>2. /\ phase' = phase /\ calls' = calls /\ busy' = None /\ wf' = wf
      /\ cursor' = cursor /\ nextStart' = nextStart /\ status' = status
      /\ node_results' = [node_results EXCEPT ![busy] = r]
  BY DEF Record
<1>3. /\ r # NoResult
      /\ node_results'[busy] = r
      /\ \A n \in NodeIds : n # busy => node_results'[n] = node_results[n]
      /\ \A n \in NodeIds : (node_results'[n] # NoResult) <=> Reached(n)
  <2>1. r # NoResult
    BY DEF Outcome, NoResult
  <2>2. node_results \in ResultMap
    BY DEF TypeOK
  <2>3. node_results'[busy] = r
    BY <1>1, <1>2, <2>2 DEF ResultMap
  <2>4. \A n \in NodeIds : n # busy => node_results'[n] = node_results[n]
    BY <1>2, <2>2 DEF ResultMap
  <2> QED BY <1>1, <2>1, <2>3, <2>4 DEF Reached
<1>4. Top \in NodeIds /\ OnStack(busy)
  <2>1. Len(calls) \in DOMAIN calls
    BY <1>1
  <2> QED BY <1>1, <2>1 DEF OnStack, Top
<1>5. \A k \in DOMAIN calls : calls[k] \in NodeIds
  BY <1>1
<1>6. StackInv'
  <2>1. ASSUME NEW k \in DOMAIN calls
        PROVE  node_results'[calls[k]] # NoResult
    BY <1>3, <1>5 DEF TraversalInv, StackInv, Reached
  <2>2. \A n \in NodeIds : node_results'[n] = NoResult => cursor[n] = 1
    BY <1>1, <1>3 DEF TraversalInv, StackInv, Reached
  <2> QED BY <1>1, <1>2, <2>1, <2>2 DEF TraversalInv, StackInv
<1>7. ASSUME NEW i \in DOMAIN wf.edges
      PROVE  /\ Follows(wf, node_results, i) => Follows(wf, node_results', i)
             /\ Follows(wf, node_results', i) =>
                  Follows(wf, node_results, i) \/ wf.edges[i].source = busy
  <2>1. wf.edges[i].source \in NodeIds
    BY EdgeEnds DEF TypeOK
  <2>2. CASE wf.edges[i].source = busy
    BY <1>1, <2>2 DEF Follows
  <2>3. CASE wf.edges[i].source # busy
    <3>1. node_results'[wf.edges[i].source] = node_results[wf.edges[i].source]
      BY <1>3, <2>1, <2>3
    <3> QED BY <3>1 DEF Follows
  <2> QED BY <2>2, <2>3
<1>8. Justified'
  <2> SUFFICES ASSUME NEW n \in NodeIds, node_results'[n] # NoResult
               PROVE  /\ n \in NodeSet(wf)
                      /\ \/ IsStart(wf, n)
                         \/ \E i \in DOMAIN wf.edges :
                              /\ Follows(wf, node_results', i)
                              /\ wf.edges[i].target = n
    BY <1>2, EngineAssumption DEF Justified
  <2>1. node_results[n] # NoResult \/ n = busy
    BY <1>3 DEF Reached
  <2>2. /\ n \in NodeSet(wf)
        /\ \/ IsStart(wf, n)
           \/ \E i \in DOMAIN wf.edges : /\ Follows(wf, node_results, i)
                                         /\ wf.edges[i].target = n
    BY <2>1 DEF TraversalInv, Justified
  <2> QED BY <1>7, <2>2
<1>9. LoopsInv'
  <2>1. ASSUME NEW j \in DOMAIN wf.nodes, j < nextStart,
               IsStart(wf, wf.nodes[j])
        PROVE  node_results'[wf.nodes[j]] # NoResult
    <3>1. Reached(wf.nodes[j])
      BY <1>1, <2>1 DEF TraversalInv, LoopsInv
    <3> QED BY <1>3, <3>1, StartsInNodeIds
  <2>2. ASSUME NEW j \in DOMAIN wf.edges, Follows(wf, node_results', j),
               OnStack(wf.edges[j].source) => j < cursor[wf.edges[j].source]
        PROVE  node_results'[wf.edges[j].target] # NoResult
    <3>1. wf.edges[j].target \in NodeIds /\ j \in Nat /\ j >= 1
      BY EdgeEnds, WorkflowFields DEF TypeOK
    <3>2. wf.edges[j].source # busy
      BY <1>1, <1>4, <2>2, <3>1
    <3>3. Follows(wf, node_results, j)
      BY <1>7, <2>2, <3>2
    <3>4. Reached(wf.edges[j].target)
      BY <1>1, <2>2, <3>3 DEF TraversalInv, LoopsInv
    <3> QED BY <1>3, <3>1, <3>4
  <2>3. \A n : OnStack(n)' <=> OnStack(n)
    BY <1>2 DEF OnStack
  <2> QED BY <1>2, <2>1, <2>2, <2>3 DEF LoopsInv, Reached, OnStack
<1>10. VerdictInv' /\ ClosedWhenDone'
  BY <1>1, <1>2 DEF TraversalInv, VerdictInv, ClosedWhenDone
<1> QED BY <1>6, <1>8, <1>9, <1>10 DEF TraversalInv

\* The normal end: with no call left, nothing that was due is undone.
LEMMA CompleteInv ==
  ASSUME TypeOK, TraversalInv, Complete
  PROVE  TraversalInv'
<1>1. /\ phase = "running" /\ calls = <<>> /\ busy = None
      /\ \A i \in DOMAIN wf.nodes : i >= nextStart => ~ AtStart(i)
      /\ phase' = "done" /\ status' \in {"success", "failure"}
      /\ nextStart' = nextStart /\ calls' = calls /\ cursor' = cursor
      /\ busy' = busy /\ node_results' = node_results /\ wf' = wf
  BY DEF Complete, AllStarted, Verdict, TraversalInv, StackInv
<1>2. StackInv' /\ Justified' /\ LoopsInv' /\ VerdictInv'
  BY <1>1 DEF TraversalInv, StackInv, Justified, LoopsInv, VerdictInv
<1>3. ClosedWhenDone'
  <2>1. ASSUME NEW n \in NodeSet(wf), IsStart(wf, n)
        PROVE  node_results[n] # NoResult
    <3>1. PICK i \in DOMAIN wf.nodes : wf.nodes[i] = n
      BY DEF NodeSet
    <3>2. n \in NodeIds /\ i \in Nat /\ nextStart \in Nat
      BY <3>1, StartsInNodeIds, WorkflowFields DEF TypeOK
    <3>3. CASE i < nextStart
      BY <1>1, <2>1, <3>1, <3>2, <3>3, EngineAssumption
         DEF TraversalInv, LoopsInv, Reached
    <3>4. CASE i >= nextStart
      BY <1>1, <2>1, <3>1, <3>4 DEF AtStart
    <3> QED BY <3>2, <3>3, <3>4
  <2>2. ASSUME NEW i \in DOMAIN wf.edges, Follows(wf, node_results, i)
        PROVE  node_results[wf.edges[i].target] # NoResult
    <3>1. wf.edges[i].target \in NodeIds
      BY EdgeEnds DEF TypeOK
    <3>2. ~ OnStack(wf.edges[i].source)
      BY <1>1 DEF OnStack
    <3> QED BY <1>1, <2>2, <3>1, <3>2, EngineAssumption
            DEF TraversalInv, LoopsInv, Reached
  <2> QED BY <1>1, <2>1, <2>2 DEF ClosedWhenDone
<1> QED BY <1>2, <1>3 DEF TraversalInv

LEMMA InitInv == EngineInit => TraversalInv
<1> SUFFICES ASSUME EngineInit PROVE TraversalInv
  OBVIOUS
<1>1. /\ phase = "called" /\ calls = <<>> /\ busy = None /\ nextStart = 1
      /\ cursor = [n \in NodeIds |-> 1] /\ status = "pending"
      /\ wf \in WorkflowType
      /\ \A n \in NodeIds : node_results[n] = NoResult
  BY WorkflowAssumption DEF EngineInit, NoResults
<1>2. StackInv /\ Justified /\ VerdictInv /\ ClosedWhenDone
  BY <1>1, EngineAssumption
     DEF StackInv, Justified, VerdictInv, ClosedWhenDone
<1>3. LoopsInv
  <2>1. \A i \in DOMAIN wf.nodes : ~ i < nextStart
    BY <1>1, WorkflowFields
  <2>2. \A i \in DOMAIN wf.edges : ~ Follows(wf, node_results, i)
    BY <1>1, EdgeEnds DEF Follows
  <2> QED BY <2>1, <2>2 DEF LoopsInv
<1> QED BY <1>2, <1>3 DEF TraversalInv

LEMMA NextInv ==
  TypeOK /\ TraversalInv /\ [EngineNext]_engineVars => TraversalInv'
<1> SUFFICES ASSUME TypeOK, TraversalInv, [EngineNext]_engineVars
             PROVE  TraversalInv'
  OBVIOUS
<1> DEFINE Same == /\ calls' = calls /\ busy' = busy /\ cursor' = cursor
                   /\ nextStart' = nextStart /\ wf' = wf
                   /\ node_results' = node_results
<1>0. ASSUME Same, phase' = phase, status' = status
      PROVE  TraversalInv'
  BY <1>0 DEF TraversalInv, StackInv, Justified, LoopsInv, VerdictInv,
              ClosedWhenDone, Reached, OnStack, Top
<1>1. CASE StartExecution
  <2>1. /\ Same /\ phase = "called"
        /\ \/ HasStart(wf) /\ phase' = "running" /\ status' = status
           \/ ~ HasStart(wf) /\ phase' = "done" /\ status' = "failure"
    BY <1>1 DEF StartExecution
  <2>2. StackInv' /\ Justified'
    BY <2>1 DEF TraversalInv, StackInv, Justified
  <2>3. LoopsInv'
    BY <2>1 DEF TraversalInv, LoopsInv, Reached, OnStack
  <2>4. VerdictInv' /\ ClosedWhenDone'
    BY <2>1 DEF TraversalInv, VerdictInv, ClosedWhenDone
  <2> QED BY <2>2, <2>3, <2>4 DEF TraversalInv
<1>2. CASE ExecutorReturns
  BY <1>2, AnswersType, RecordInvariant DEF ExecutorReturns, LeaveNode
<1>3. CASE SoftLimitInNode \/ SoftLimitAfterEvent
  <2>1. Failed \in Outcome
    BY DEF Failed, Outcome
  <2> QED BY <1>3, <2>1, RecordInvariant
          DEF SoftLimitInNode, SoftLimitAfterEvent
<1>4. CASE DispatchChord \/ PollChord
  <2>1. Same /\ phase' = phase /\ status' = status
    BY <1>4 DEF DispatchChord, PollChord, WaitStep
  <2> QED BY <1>0, <2>1
<1>5. CASE SoftLimitSwallowed
  <2>1. Same /\ phase' = phase /\ status' = status
    BY <1>5 DEF SoftLimitSwallowed
  <2> QED BY <1>0, <2>1
<1>6. CASE UNCHANGED engineVars
  <2>1. Same /\ phase' = phase /\ status' = status
    BY <1>6 DEF engineVars
  <2> QED BY <1>0, <2>1
<1>7. CASE SoftLimitEscapes \/ SoftLimitUncaught
  <2>1. /\ phase' = "aborted" /\ status' = "failure" /\ calls' = <<>>
        /\ busy' = None /\ wf' = wf /\ cursor' = cursor
        /\ node_results' = node_results
    BY <1>7 DEF SoftLimitEscapes, SoftLimitUncaught, Abort
  <2>2. StackInv' /\ VerdictInv' /\ ClosedWhenDone' /\ LoopsInv'
    BY <2>1 DEF TraversalInv, StackInv, VerdictInv, ClosedWhenDone, LoopsInv
  <2>3. Justified'
    BY <2>1, EngineAssumption DEF TraversalInv, Justified
  <2> QED BY <2>2, <2>3 DEF TraversalInv
<1> QED
  BY <1>1, <1>2, <1>3, <1>4, <1>5, <1>6, <1>7, CallStartInv,
     CallSuccessorInv, ReturnInv, CompleteInv
     DEF EngineNext, EngineStep, SoftLimit

\* The invariant of the traversal holds in every reachable state.
THEOREM TraversalCorrect == EngineSpec => []TraversalInv
<1>1. EngineInit => TypeOK /\ TraversalInv
  BY InitType, InitInv
<1>2. TypeOK /\ TraversalInv /\ [EngineNext]_engineVars
        => (TypeOK /\ TraversalInv)'
  BY NextType, NextInv
<1> QED BY <1>1, <1>2, PTL DEF EngineSpec

\* Whatever the workflow, a traversal that returns normally has executed
\* every start node and the target of every edge its results selected.
THEOREM NothingLeftUndone == EngineSpec => []ClosedWhenDone
<1>1. TraversalInv => ClosedWhenDone
  BY DEF TraversalInv
<1> QED BY <1>1, TraversalCorrect, PTL
-----------------------------------------------------------------------------
\* The instance Run has its own copy of the graph's operators; they agree.
LEMMA RunGraph ==
  /\ \A w : Run!NodeSet(w) = NodeSet(w) /\ (Run!HasStart(w) <=> HasStart(w))
  /\ \A w, n : Run!IsStart(w, n) <=> IsStart(w, n)
  /\ \A w, res, i : Run!Follows(w, res, i) <=> Follows(w, res, i)
<1>1. \A w : Run!NodeSet(w) = NodeSet(w)
  BY DEF Run!NodeSet, NodeSet
<1>2. \A w, i : Run!Linked(w, i) <=> Linked(w, i)
  BY <1>1 DEF Run!Linked, Linked
<1>3. \A w, n : Run!IsStart(w, n) <=> IsStart(w, n)
  BY <1>2 DEF Run!IsStart, IsStart
<1>4. \A w : Run!HasStart(w) <=> HasStart(w)
  BY <1>3 DEF Run!HasStart, HasStart
<1>5. \A t, r : Run!OutputsToFollow(t, r) = OutputsToFollow(t, r)
  BY DEF Run!OutputsToFollow, OutputsToFollow, Run!IfTypes, IfTypes
<1>6. Run!NoResult = NoResult
  BY DEF Run!NoResult, NoResult
<1>7. \A w, res, i : Run!Follows(w, res, i) <=> Follows(w, res, i)
  BY <1>2, <1>5, <1>6 DEF Run!Follows, Follows
<1> QED BY <1>1, <1>3, <1>4, <1>7

LEMMA RunResults ==
  /\ Run!NoResult = NoResult /\ Run!NoResults = NoResults
  /\ Run!Outcome = Outcome
  /\ \A res : Run!FailedIn(res) = FailedIn(res)
BY DEF Run!NoResult, NoResult, Run!NoResults, NoResults, Run!Outcome, Outcome,
       Run!FailedIn, FailedIn

\* A recorded result is a step of WorkflowRun: the node was ready.
LEMMA RecordRuns ==
  ASSUME TypeOK, TraversalInv, InNode, NEW r \in Outcome, Record(r)
  PROVE  Run!RunNode
<1>1. /\ busy \in NodeIds /\ node_results[busy] = NoResult
      /\ status = "pending"
  BY DEF InNode, TypeOK, TraversalInv, StackInv, VerdictInv
<1>2. Run!Ready(busy)
  BY <1>1, RunGraph, RunResults DEF TraversalInv, Justified, Run!Ready
<1>3. /\ node_results' = [node_results EXCEPT ![busy] = r]
      /\ wf' = wf /\ status' = status
  BY DEF Record
<1> QED BY <1>1, <1>2, <1>3, RunResults DEF Run!RunNode

LEMMA StepRefines ==
  TypeOK /\ TraversalInv /\ [EngineNext]_engineVars
    => [Run!RunNext]_(Run!runVars)
<1> SUFFICES ASSUME TypeOK, TraversalInv, [EngineNext]_engineVars
             PROVE  Run!RunNext \/ UNCHANGED Run!runVars
  BY DEF Run!runVars
<1>1. CASE StartExecution
  BY <1>1 DEF StartExecution, TraversalInv, VerdictInv, Run!RunNext,
              Run!RunFails, Run!runVars
<1>2. CASE CallStart \/ CallSuccessor
  BY <1>2 DEF CallStart, CallSuccessor, EnterNode, Run!runVars
<1>3. CASE ReturnFromChain \/ DispatchChord \/ PollChord \/ SoftLimitSwallowed
             \/ UNCHANGED engineVars
  BY <1>3 DEF ReturnFromChain, DispatchChord, PollChord, WaitStep,
              SoftLimitSwallowed, engineVars, Run!runVars
<1>4. CASE ExecutorReturns
  BY <1>4, AnswersType, RecordRuns
     DEF ExecutorReturns, LeaveNode, Run!RunNext
<1>5. CASE SoftLimitInNode \/ SoftLimitAfterEvent
  <2>1. Failed \in Outcome
    BY DEF Failed, Outcome
  <2> QED BY <1>5, <2>1, RecordRuns
          DEF SoftLimitInNode, SoftLimitAfterEvent, Run!RunNext
<1>6. CASE SoftLimitEscapes \/ SoftLimitUncaught
  BY <1>6 DEF SoftLimitEscapes, SoftLimitUncaught, AllStarted, Abort,
              TraversalInv, VerdictInv, Run!RunNext, Run!RunFails
<1>7. CASE Complete
  <2>1. /\ status = "pending" /\ HasStart(wf) /\ node_results' = node_results
        /\ wf' = wf
        /\ status' = IF FailedIn(node_results) = {} THEN "success"
                                                    ELSE "failure"
        /\ busy = None
    BY <1>7 DEF Complete, AllStarted, Verdict, TraversalInv, VerdictInv, StackInv
  <2>2. TraversalInv' /\ phase' = "done"
    BY <1>7, CompleteInv DEF Complete
  <2>3. /\ \A n \in NodeSet(wf) : IsStart(wf, n) => node_results[n] # NoResult
        /\ \A i \in DOMAIN wf.edges : Follows(wf, node_results, i) =>
              node_results[wf.edges[i].target] # NoResult
    BY <2>1, <2>2 DEF TraversalInv, ClosedWhenDone
  <2>4. \A n \in NodeIds : ~ Run!Ready(n)
    BY <2>3, RunGraph, RunResults DEF Run!Ready
  <2> QED BY <2>1, <2>4, RunGraph, RunResults DEF Run!RunNext, Run!RunCompletes
<1> QED
  BY <1>1, <1>2, <1>3, <1>4, <1>5, <1>6, <1>7
     DEF EngineNext, EngineStep, SoftLimit

\* The recursive traversal implements the order-free promise.
THEOREM EngineImplementsRun == EngineSpec => ImplementsRun
<1>1. EngineInit => Run!RunInit
  BY RunResults DEF EngineInit, Run!RunInit
<1> QED BY <1>1, TypeCorrect, TraversalCorrect, StepRefines, PTL
        DEF EngineSpec, ImplementsRun, Run!RunSpec
-----------------------------------------------------------------------------
\* The soft time limit is raised once: until then no node has been struck.
Unstruck == /\ softLimit \/ struck = None
            /\ phase = "called" => audit = <<>>

LEMMA NextUnstruck ==
  ASSUME TypeOK, Unstruck, [EngineNext]_engineVars
  PROVE  Unstruck' /\ (struck' = struck \/ struck = None)
<1>1. CASE UNCHANGED engineVars
  BY <1>1 DEF Unstruck, engineVars
<1>2. CASE StartExecution \/ Complete
  BY <1>2 DEF StartExecution, Complete, Strikes, Raised, Unraised, Unstruck
<1>3. CASE CallStart \/ CallSuccessor
  <2>1. /\ phase = "running" /\ phase' = phase
        /\ Unraised \/ \E n \in NodeIds : Raised(n)
    <3>1. \E n : EnterNode(n) /\ phase = "running"
      BY <1>3 DEF CallStart, CallSuccessor, NextStart, NextEdge, InLoop
    <3>2. PICK n : EnterNode(n)
      BY <3>1
    <3>3. Unraised \/ Raised(n)
      BY <3>2 DEF EnterNode, Strikes
    <3>4. n \in NodeIds
      <4>1. calls' \in Seq(NodeIds)
        BY NextType DEF TypeOK
      <4>2. calls' = Append(calls, n) /\ calls \in Seq(NodeIds)
        BY <3>2 DEF EnterNode, TypeOK
      <4>3. Len(calls') \in DOMAIN calls' /\ calls'[Len(calls')] = n
        BY <4>2
      <4> QED BY <4>1, <4>3
    <3> QED BY <3>1, <3>2, <3>3, <3>4 DEF EnterNode
  <2> QED BY <2>1 DEF Raised, Unraised, Unstruck
<1>4. CASE ReturnFromChain
  BY <1>4 DEF ReturnFromChain, InLoop, Unstruck
<1>5. CASE ExecutorReturns
  BY <1>5 DEF ExecutorReturns, InNode, LeaveNode, Record, Strikes, Raised,
              Unraised, Unstruck
<1>6. CASE DispatchChord \/ PollChord
  BY <1>6 DEF DispatchChord, PollChord, InNode, WaitStep, Strikes, Raised,
              Unraised, Unstruck
<1>7. CASE SoftLimitInNode \/ SoftLimitAfterEvent \/ SoftLimitSwallowed
  BY <1>7 DEF SoftLimitInNode, SoftLimitAfterEvent, SoftLimitSwallowed,
              InNode, Record, Raised, Unstruck
<1>8. CASE SoftLimitEscapes \/ SoftLimitUncaught
  BY <1>8 DEF SoftLimitEscapes, SoftLimitUncaught, Abort, Raised, Unstruck
<1> QED BY <1>1, <1>2, <1>3, <1>4, <1>5, <1>6, <1>7, <1>8
        DEF EngineNext, EngineStep, SoftLimit

LEMMA AlwaysUnstruck == EngineSpec => []Unstruck
<1>1. EngineInit => Unstruck
  BY DEF EngineInit, Unstruck
<1> QED BY <1>1, TypeCorrect, NextUnstruck, PTL DEF EngineSpec
-----------------------------------------------------------------------------
Reason(n) == \/ IsStart(wf, n)
             \/ \E i \in DOMAIN wf.edges : /\ Follows(wf, node_results, i)
                                           /\ wf.edges[i].target = n

Enters(n) == /\ EnterNode(n) /\ phase = "running" /\ busy = None
             /\ node_results[n] = NoResult /\ n \in NodeSet(wf) /\ Reason(n)

\* The second event of a node: written, lost, or written twice.
Closes(r) ==
  \/ audit' = Append(audit, Completed(r))
  \/ audit' = audit /\ struck' = busy
  \/ /\ struck' = busy /\ r = Failed
     /\ \E q \in Outcome : audit' = audit \o <<Completed(q), Completed(r)>>

Leaves(r) ==
  /\ InNode /\ Record(r) /\ Closes(r)
  /\ StepEnded(busy, r) \/ (UNCHANGED progress /\ struck' = busy)

Kept == UNCHANGED <<wf, busy, node_results, recorded, struck>>

Waits == /\ progress' = [progress EXCEPT !.percent = Percent]
         /\ Kept /\ UNCHANGED <<phase, audit>>

Rests == Kept /\ UNCHANGED <<phase, audit, progress>>

\* A step between the nodes of the whole execution.
Turns ==
  /\ Kept /\ UNCHANGED progress /\ busy = None
  /\ phase \in {"called", "running"} /\ phase' # phase
  /\ phase' \in {"running", "done", "aborted"}
  /\ \/ audit' = audit
     \/ \E t \in {"job_started", "job_completed"}, ok \in BOOLEAN :
          audit' = Append(audit, JobEvent(t, ok))

\* An abort, with what it leaves of the node it has struck.
Aborts ==
  /\ phase = "running" /\ phase' = "aborted" /\ busy' = None
  /\ struck = None /\ busy \in {None, struck'}
  /\ UNCHANGED <<wf, node_results, recorded>>
  /\ \/ UNCHANGED progress /\ struck' = busy
     \/ struck' \in NodeSet(wf) /\ StepStarted(struck')
     \/ busy # None /\ \E r \in Outcome : StepEnded(busy, r)
  /\ \E ok \in BOOLEAN : LET job == JobEvent("job_completed", ok) IN
       \/ audit' = Append(audit, job)
       \/ /\ busy # None
          /\ \E r \in Outcome : audit' = audit \o <<Completed(r), job>>

\* The steps, as far as what is written down is concerned.
LEMMA Steps ==
  ASSUME TypeOK, TraversalInv, Unstruck, [EngineNext]_engineVars
  PROVE  \/ Waits \/ Rests \/ Turns \/ Aborts
         \/ \E n \in NodeIds : Enters(n)
         \/ \E r \in Outcome : Leaves(r)
<1>1. /\ wf \in WorkflowType /\ calls \in Seq(NodeIds)
      /\ wf.type \in [NodeIds -> NodeTypes] /\ busy \in NodeIds \cup {None}
      /\ Failed \in Outcome
  BY WorkflowFields DEF TypeOK, Failed, Outcome
<1>2. CASE CallStart
  <2>1. PICK i \in DOMAIN wf.nodes : NextStart(i) /\ EnterNode(wf.nodes[i])
    BY <1>2 DEF CallStart
  <2>2. wf.nodes[i] \in NodeIds /\ wf.nodes[i] \in NodeSet(wf)
    BY <1>1, WorkflowFields, NodeSetType
  <2>3. phase = "running" /\ busy = None
    BY <2>1 DEF NextStart, TraversalInv, StackInv
  <2> QED BY <2>1, <2>2, <2>3 DEF NextStart, AtStart, Enters, Reason
<1>3. CASE CallSuccessor
  <2>1. PICK i \in DOMAIN wf.edges :
          NextEdge(i) /\ EnterNode(wf.edges[i].target)
    BY <1>3 DEF CallSuccessor
  <2>2. wf.edges[i].target \in NodeIds
    BY <1>1, EdgeEnds
  <2>3. phase = "running" /\ busy = None /\ Calls(i)
    BY <2>1 DEF NextEdge, InLoop
  <2>4. Enters(wf.edges[i].target)
    BY <2>1, <2>3 DEF Calls, Enters, Reason, Follows, Linked
  <2> QED BY <2>2, <2>4
<1>4. CASE ExecutorReturns
  <2>1. PICK r \in Outcome : InNode /\ LeaveNode(r)
    BY <1>4, AnswersType DEF ExecutorReturns
  <2>2. Leaves(r)
    BY <2>1 DEF LeaveNode, Losses, Strikes, Raised, Leaves, Closes
  <2> QED BY <2>2
<1>5. CASE SoftLimitInNode
  <2>1. Leaves(Failed)
    BY <1>5 DEF SoftLimitInNode, Leaves, Closes
  <2> QED BY <1>1, <2>1
<1>6. CASE SoftLimitAfterEvent
  <2>1. Answers \subseteq Outcome
    BY <1>6, AnswersType DEF SoftLimitAfterEvent
  <2>2. Leaves(Failed)
    BY <1>6, <2>1 DEF SoftLimitAfterEvent, Raised, Leaves, Closes
  <2> QED BY <1>1, <2>2
<1>7. CASE DispatchChord \/ PollChord
  <2>1. PICK p : WaitStep(p)
    BY <1>7 DEF DispatchChord, PollChord
  <2> QED BY <2>1 DEF WaitStep, Strikes, Raised, Unraised, Unstruck, Waits,
                      Rests, Kept
<1>8. CASE ReturnFromChain \/ SoftLimitSwallowed \/ UNCHANGED engineVars
  BY <1>8 DEF ReturnFromChain, SoftLimitSwallowed, Raised, Unstruck,
              engineVars, Rests, Kept
<1>9. CASE StartExecution
  <2>1. phase = "called" /\ phase' \in {"running", "done"} /\ busy = None
    BY <1>9 DEF StartExecution, TraversalInv, StackInv
  <2>2. Kept /\ UNCHANGED progress
    BY <1>9 DEF StartExecution, Strikes, Raised, Unraised, Unstruck, Kept
  <2>3. audit = <<>> /\ audit' \in {audit, <<JobEvent("job_started", TRUE)>>}
    BY <1>9 DEF StartExecution, Unstruck
  <2>4. <<JobEvent("job_started", TRUE)>>
          = Append(audit, JobEvent("job_started", TRUE))
    BY <2>3
  <2> QED BY <2>1, <2>2, <2>3, <2>4 DEF Turns
<1>10. CASE Complete
  <2>1. phase = "running" /\ phase' = "done" /\ busy = None
    BY <1>10 DEF Complete, AllStarted, TraversalInv, StackInv
  <2>2. Kept /\ UNCHANGED progress
    BY <1>10 DEF Complete, Strikes, Raised, Unraised, Unstruck, Kept
  <2>3. \/ audit' = audit
        \/ audit' = Append(audit, JobEvent("job_completed",
                                           Verdict = "success"))
    BY <1>10 DEF Complete
  <2> QED BY <2>1, <2>2, <2>3 DEF Turns
<1>11. CASE SoftLimitUncaught
  <2>1. /\ phase \in {"called", "running"} /\ phase' = "aborted"
        /\ busy = None /\ busy' = None
    BY <1>11 DEF SoftLimitUncaught, AllStarted, Abort, TraversalInv, StackInv
  <2>2. Kept /\ UNCHANGED progress
    BY <1>11, <2>1 DEF SoftLimitUncaught, Abort, Raised, Unstruck, Kept
  <2>3. \/ phase = "called" /\ audit = <<>>
             /\ audit' \in {<<>>, <<JobEvent("job_started", TRUE)>>}
        \/ audit' = audit
        \/ audit' = Append(audit, JobEvent("job_completed",
                                           Verdict = "success"))
    BY <1>11 DEF SoftLimitUncaught, Unstruck
  <2>4. audit = <<>> => <<JobEvent("job_started", TRUE)>>
          = Append(audit, JobEvent("job_started", TRUE))
    OBVIOUS
  <2> QED BY <2>1, <2>2, <2>3, <2>4 DEF Turns
<1>12. CASE SoftLimitEscapes
  <2>1. /\ phase = "running" /\ phase' = "aborted" /\ busy' = None
        /\ UNCHANGED <<wf, node_results, recorded>>
    BY <1>12 DEF SoftLimitEscapes, Abort
  <2>2. struck = None
    BY <1>12 DEF SoftLimitEscapes, Raised, Unstruck
  <2>3. ASSUME NEW n \in NodeIds, Raised(n), StepStarted(n),
               \/ \E i \in DOMAIN wf.nodes : NextStart(i) /\ wf.nodes[i] = n
               \/ \E i \in DOMAIN wf.edges :
                    NextEdge(i) /\ wf.edges[i].target = n
        PROVE  busy = None /\ struck' = n /\ n \in NodeSet(wf)
    <3>1. CASE \E i \in DOMAIN wf.nodes : NextStart(i) /\ wf.nodes[i] = n
      BY <1>1, <2>3, <3>1, NodeSetType
         DEF NextStart, TraversalInv, StackInv, Raised
    <3>2. CASE \E i \in DOMAIN wf.edges :
                 NextEdge(i) /\ wf.edges[i].target = n
      BY <2>3, <3>2 DEF NextEdge, InLoop, Calls, Follows, Linked, Raised
    <3> QED BY <2>3, <3>1, <3>2
  <2>4. busy # None => Answers \subseteq Outcome
    BY <2>1, AnswersType DEF InNode
  <2>5. CASE /\ Raised(busy) /\ UNCHANGED progress
             /\ audit' = Append(audit, JobEvent("job_completed", FALSE))
    BY <2>1, <2>2, <2>5 DEF Raised, Aborts
  <2>6. CASE /\ \E n \in NodeIds :
                  /\ \/ \E i \in DOMAIN wf.nodes :
                          NextStart(i) /\ wf.nodes[i] = n
                     \/ \E i \in DOMAIN wf.edges :
                          NextEdge(i) /\ wf.edges[i].target = n
                  /\ Raised(n) /\ StepStarted(n)
             /\ audit' = Append(audit, JobEvent("job_completed", FALSE))
    <3>1. PICK n \in NodeSet(wf) : busy = None /\ struck' = n /\ StepStarted(n)
      BY <2>3, <2>6
    <3>2. struck' \in NodeSet(wf) /\ StepStarted(struck')
      BY <3>1
    <3> QED BY <2>1, <2>2, <2>6, <3>1, <3>2 DEF Aborts
  <2>7. CASE /\ busy # None /\ Raised(busy) /\ StepEnded(busy, Failed)
             /\ audit' = Append(audit, JobEvent("job_completed", FALSE))
    BY <1>1, <2>1, <2>2, <2>7 DEF Raised, Aborts
  <2>8. CASE /\ busy # None /\ Raised(busy)
             /\ \E r \in Answers :
                  /\ StepEnded(busy, r)
                  /\ audit' = audit \o <<Completed(r),
                                         JobEvent("job_completed", FALSE)>>
    BY <2>1, <2>2, <2>4, <2>8 DEF Raised, Aborts
  <2> QED BY <1>12, <2>5, <2>6, <2>7, <2>8 DEF SoftLimitEscapes
<1> QED BY <1>2, <1>3, <1>4, <1>5, <1>6, <1>7, <1>8, <1>9, <1>10, <1>11, <1>12
        DEF EngineNext, EngineStep, SoftLimit
-----------------------------------------------------------------------------
\* The rows that a step writes.
Writes(tail) ==
  /\ tail \in Seq(AuditEvent)
  /\ audit' = audit \o tail
  /\ Len(audit) \in Nat /\ Len(tail) \in Nat
  /\ DOMAIN audit = 1 .. Len(audit) /\ Len(audit') = Len(audit) + Len(tail)
  /\ DOMAIN audit' = 1 .. Len(audit) + Len(tail)
  /\ \A i \in DOMAIN audit : audit'[i] = audit[i]
  /\ \A i \in DOMAIN audit' : i \notin DOMAIN audit =>
       i - Len(audit) \in DOMAIN tail /\ audit'[i] = tail[i - Len(audit)]

LEMMA Written ==
  ASSUME TypeOK, NEW tail \in Seq(AuditEvent), audit' = audit \o tail
  PROVE  Writes(tail)
<1>1. audit \in Seq(AuditEvent)
  BY DEF TypeOK
<1> QED BY <1>1 DEF Writes

LEMMA OneWritten ==
  ASSUME TypeOK, NEW e \in AuditEvent, audit' = Append(audit, e)
  PROVE  Writes(<<e>>)
<1>1. audit \in Seq(AuditEvent) /\ <<e>> \in Seq(AuditEvent)
  BY DEF TypeOK
<1>2. Append(audit, e) = audit \o <<e>>
  BY <1>1
<1> QED BY <1>1, <1>2, Written

LEMMA NoneWritten ==
  ASSUME TypeOK, audit' = audit
  PROVE  Writes(<<>>)
<1>1. audit \in Seq(AuditEvent) /\ <<>> \in Seq(AuditEvent)
  BY DEF TypeOK
<1>2. audit = audit \o <<>>
  BY <1>1
<1> QED BY <1>1, <1>2, Written
-----------------------------------------------------------------------------
\* The results after a node is left.
LEMMA LeaveResults ==
  ASSUME TypeOK, TraversalInv, NEW r \in Outcome, Leaves(r)
  PROVE  /\ phase = "running" /\ busy \in NodeIds /\ busy # None
         /\ node_results[busy] = NoResult /\ node_results'[busy] = r
         /\ r # NoResult /\ r.status \in {"success", "failure"}
         /\ \A n \in NodeIds : n # busy => node_results'[n] = node_results[n]
         /\ phase' = "running" /\ busy' = None /\ wf' = wf
         /\ recorded' = Append(recorded, busy)
<1>1. /\ phase = "running" /\ busy # None /\ busy \in NodeIds
      /\ node_results[busy] = NoResult
  BY DEF Leaves, InNode, TypeOK, TraversalInv, StackInv
<1>2. /\ node_results' = [node_results EXCEPT ![busy] = r]
      /\ phase' = phase /\ busy' = None /\ wf' = wf
      /\ recorded' = Append(recorded, busy)
  BY DEF Leaves, Record
<1>3. node_results \in ResultMap
  BY DEF TypeOK
<1>4. /\ node_results'[busy] = r
      /\ \A n \in NodeIds : n # busy => node_results'[n] = node_results[n]
  BY <1>1, <1>2, <1>3 DEF ResultMap
<1>5. r # NoResult /\ r.status \in {"success", "failure"}
  BY DEF Outcome, NoResult
<1> QED BY <1>1, <1>2, <1>4, <1>5

LEMMA JobEventType ==
  ASSUME NEW t \in {"job_started", "job_completed"}, NEW ok \in BOOLEAN
  PROVE  JobEvent(t, ok) \in AuditEvent
<1>1. -1 \in Int
  OBVIOUS
<1> QED BY <1>1 DEF JobEvent, AuditEvent

\* A row that ends the node being executed or the execution.
Closing(e) ==
  \/ e.event \in {"job_started", "job_completed"}
  \/ /\ e.event = "action_completed" /\ e.node = busy /\ busy # None
     /\ e.index = Len(recorded)

LEMMA ClosingRows ==
  /\ busy # None => \A r \in Outcome : Closing(Completed(r))
  /\ \A ok \in BOOLEAN : /\ Closing(JobEvent("job_started", ok))
                         /\ Closing(JobEvent("job_completed", ok))
BY DEF Closing, Completed, ActionEvent, JobEvent

LEMMA LeaveWrites ==
  ASSUME TypeOK, NEW r \in Outcome, Leaves(r)
  PROVE  \E tail : /\ Writes(tail)
                   /\ \/ tail = <<>> /\ struck' = busy
                      \/ tail = <<Completed(r)>>
                      \/ /\ struck' = busy
                         /\ \E q \in Outcome :
                              tail = <<Completed(q), Completed(r)>>
<1>1. busy # None
  BY DEF Leaves, InNode
<1>2. \A q \in Outcome : Completed(q) \in AuditEvent
  BY <1>1, CompletedType
<1>3. CASE audit' = Append(audit, Completed(r))
  BY <1>2, <1>3, OneWritten
<1>4. CASE audit' = audit /\ struck' = busy
  BY <1>4, NoneWritten
<1>5. CASE /\ struck' = busy
           /\ \E q \in Outcome : audit' = audit \o <<Completed(q), Completed(r)>>
  <2>1. PICK q \in Outcome : audit' = audit \o <<Completed(q), Completed(r)>>
    BY <1>5
  <2>2. PICK e \in AuditEvent, f \in AuditEvent :
          e = Completed(q) /\ f = Completed(r)
    BY <1>2
  <2>3. <<e, f>> \in Seq(AuditEvent)
    OBVIOUS
  <2>4. Writes(<<e, f>>)
    BY <2>1, <2>2, <2>3, Written
  <2> QED BY <1>5, <2>2, <2>4
<1> QED BY <1>3, <1>4, <1>5 DEF Leaves, Closes

LEMMA AbortWrites ==
  ASSUME TypeOK, Aborts
  PROVE  \E tail : Writes(tail) /\ \A k \in DOMAIN tail : Closing(tail[k])
<1>1. PICK ok \in BOOLEAN :
        \/ audit' = Append(audit, JobEvent("job_completed", ok))
        \/ /\ busy # None
           /\ \E r \in Outcome :
                audit' = audit \o <<Completed(r), JobEvent("job_completed", ok)>>
  BY DEF Aborts
<1>2. PICK f \in AuditEvent : f = JobEvent("job_completed", ok)
  BY JobEventType
<1>3. Closing(f)
  BY <1>2, ClosingRows
<1>4. CASE audit' = Append(audit, f)
  <2>1. Writes(<<f>>)
    BY <1>4, OneWritten
  <2> QED BY <1>3, <2>1
<1>5. CASE /\ busy # None
           /\ \E r \in Outcome : audit' = audit \o <<Completed(r), f>>
  <2>1. PICK r \in Outcome : audit' = audit \o <<Completed(r), f>>
    BY <1>5
  <2>2. PICK e \in AuditEvent : e = Completed(r)
    BY <1>5, CompletedType
  <2>3. <<e, f>> \in Seq(AuditEvent)
    OBVIOUS
  <2>4. Writes(<<e, f>>)
    BY <2>1, <2>2, <2>3, Written
  <2>5. Closing(e)
    BY <1>5, <2>2, ClosingRows
  <2>6. \A k \in DOMAIN <<e, f>> : Closing(<<e, f>>[k])
    BY <1>3, <2>5
  <2> QED BY <2>4, <2>6
<1> QED BY <1>1, <1>2, <1>4, <1>5

LEMMA TurnWrites ==
  ASSUME TypeOK, Turns
  PROVE  \E tail : Writes(tail) /\ \A k \in DOMAIN tail : Closing(tail[k])
<1>1. CASE audit' = audit
  BY <1>1, NoneWritten
<1>2. CASE audit' # audit
  <2>1. PICK t \in {"job_started", "job_completed"}, ok \in BOOLEAN :
          audit' = Append(audit, JobEvent(t, ok))
    BY <1>2 DEF Turns
  <2>2. PICK e \in AuditEvent : e = JobEvent(t, ok) /\ Closing(e)
    BY ClosingRows, JobEventType
  <2>3. Writes(<<e>>)
    BY <2>1, <2>2, OneWritten
  <2> QED BY <2>2, <2>3
<1> QED BY <1>1, <1>2

StartRow(n) == ActionEvent("action_started", n, Len(recorded), TRUE)

LEMMA EnterWrites ==
  ASSUME TypeOK, NEW n \in NodeIds, Enters(n)
  PROVE  /\ struck' \in {struck, n}
         /\ \E tail : /\ Writes(tail)
                      /\ \/ tail = <<>> /\ struck' = n
                         \/ tail = <<StartRow(n)>>
<1>1. /\ struck' \in {struck, n}
      /\ \/ audit' = audit /\ struck' = n
         \/ audit' = Append(audit, StartRow(n))
  BY DEF Enters, EnterNode, Losses, Strikes, Raised, Unraised, StartRow
<1>2. StartRow(n) \in AuditEvent
  <2>1. recorded \in Seq(NodeIds)
    BY DEF TypeOK
  <2>2. Len(recorded) \in Int /\ TRUE \in BOOLEAN
    BY <2>1
  <2> QED BY <2>2, AuditEventType DEF StartRow
<1>3. CASE audit' = audit /\ struck' = n
  BY <1>1, <1>3, NoneWritten
<1>4. CASE audit' = Append(audit, StartRow(n))
  BY <1>1, <1>2, <1>4, OneWritten
<1> QED BY <1>1, <1>3, <1>4
-----------------------------------------------------------------------------
\* A started node is executed or being executed.
StartedReached ==
  phase \in {"called", "running"} =>
    \A i \in DOMAIN audit : Started(i) =>
      audit[i].node \in NodeIds /\ Reached(audit[i].node)

Once == AtMostOnce /\ StartedReached

\* A step that starts no node keeps the started nodes as they were.
LEMMA OtherOnce ==
  ASSUME Once, NEW tail, Writes(tail),
         \A k \in DOMAIN tail : tail[k].event # "action_started",
         phase' \in {"called", "running"} =>
           /\ phase \in {"called", "running"}
           /\ \A n \in NodeIds : Reached(n) => Reached(n)'
  PROVE  Once'
<1>1. \A i \in DOMAIN audit' : Started(i)' =>
        i \in DOMAIN audit /\ Started(i) /\ audit'[i] = audit[i]
  BY DEF Started, Writes
<1>2. AtMostOnce'
  BY <1>1 DEF Once, AtMostOnce
<1>3. StartedReached'
  BY <1>1 DEF Once, StartedReached
<1> QED BY <1>2, <1>3 DEF Once

\* A node that has not been reached is started for the first time.
LEMMA EnterOnce ==
  ASSUME TypeOK, Once, NEW n \in NodeIds, Enters(n)
  PROVE  Once'
<1>1. /\ phase = "running" /\ phase' = phase /\ busy = None /\ busy' = n
      /\ node_results' = node_results /\ node_results[n] = NoResult
  BY DEF Enters, EnterNode
<1>2. ~ Reached(n) /\ Reached(n)' /\ \A m \in NodeIds : Reached(m) => Reached(m)'
  BY <1>1, EngineAssumption DEF Reached
<1>3. PICK tail : Writes(tail) /\ tail \in {<<>>, <<StartRow(n)>>}
  BY EnterWrites
<1>4. CASE tail = <<>>
  <2>1. \A k \in DOMAIN tail : FALSE
    BY <1>4
  <2> QED BY <1>1, <1>2, <1>3, <2>1, OtherOnce
<1>5. CASE tail = <<StartRow(n)>>
  <2>1. \A i \in DOMAIN audit : Started(i) =>
          audit[i].node \in NodeIds /\ Reached(audit[i].node)
    BY <1>1 DEF Once, StartedReached
  <2>2. StartRow(n).node = n
    BY DEF StartRow, ActionEvent
  <2>3. \A i \in DOMAIN audit' :
          \/ i \in DOMAIN audit /\ audit'[i] = audit[i]
          \/ i = Len(audit) + 1 /\ i \notin DOMAIN audit /\ audit'[i].node = n
    <3>1. \A k \in DOMAIN tail : k = 1 /\ tail[k].node = n
      BY <1>5, <2>2
    <3> HIDE <1>5
    <3>2. Len(audit) \in Nat /\ DOMAIN audit' \subseteq Int
      BY <1>3 DEF Writes
    <3> QED BY <1>3, <3>1, <3>2 DEF Writes
  <2>4. \A i \in DOMAIN audit : Started(i)' <=> Started(i)
    BY <1>3 DEF Writes, Started
  <2>5. AtMostOnce'
    BY <1>2, <2>1, <2>3, <2>4 DEF Once, AtMostOnce
  <2>6. StartedReached'
    BY <1>2, <2>1, <2>3, <2>4 DEF StartedReached
  <2> QED BY <2>5, <2>6 DEF Once
<1> QED BY <1>3, <1>4, <1>5

LEMMA NextOnce ==
  ASSUME TypeOK, TraversalInv, Unstruck, Once, [EngineNext]_engineVars
  PROVE  Once'
<1>1. CASE Waits \/ Rests
  <2>1. UNCHANGED <<phase, audit, busy, node_results>>
    BY <1>1 DEF Waits, Rests, Kept
  <2> QED BY <2>1 DEF Once, AtMostOnce, StartedReached, Started, Reached
<1>2. CASE Turns
  <2>1. phase' \in {"called", "running"} =>
          /\ phase \in {"called", "running"}
          /\ \A n \in NodeIds : Reached(n) => Reached(n)'
    <3>1. phase' # "called" /\ (phase' = "running" => phase = "called")
      BY <1>2 DEF Turns
    <3>2. UNCHANGED <<busy, node_results>>
      BY <1>2 DEF Turns, Kept
    <3> QED BY <3>1, <3>2 DEF Reached
  <2>2. PICK tail : Writes(tail) /\ \A k \in DOMAIN tail : Closing(tail[k])
    BY <1>2, TurnWrites
  <2> QED BY <2>1, <2>2, OtherOnce DEF Closing
<1>3. CASE Aborts
  <2>1. PICK tail : Writes(tail) /\ \A k \in DOMAIN tail : Closing(tail[k])
    BY <1>3, AbortWrites
  <2> QED BY <1>3, <2>1, OtherOnce DEF Closing, Aborts
<1>4. ASSUME NEW r \in Outcome, Leaves(r) PROVE Once'
  <2>1. PICK tail : /\ Writes(tail)
                    /\ \/ tail = <<>>
                       \/ tail = <<Completed(r)>>
                       \/ \E q \in Outcome :
                            tail = <<Completed(q), Completed(r)>>
    BY <1>4, LeaveWrites
  <2>2. \A q \in Outcome : Completed(q).event # "action_started"
    BY DEF Completed, ActionEvent
  <2>3. \A k \in DOMAIN tail : tail[k].event # "action_started"
    BY <2>1, <2>2
  <2>4. \A n \in NodeIds : Reached(n) => Reached(n)'
    BY <1>4, LeaveResults DEF Reached
  <2> QED BY <1>4, <2>1, <2>3, <2>4, LeaveResults, OtherOnce
<1> QED BY <1>1, <1>2, <1>3, <1>4, Steps, EnterOnce

\* No node is executed twice in one execution, for every graph: cycles,
\* self-loops and joins included.
THEOREM NodesRunAtMostOnce == EngineSpec => []AtMostOnce
<1>1. EngineInit => Once
  <2> SUFFICES ASSUME EngineInit PROVE Once
    OBVIOUS
  <2>1. audit = <<>> /\ phase = "called"
    BY DEF EngineInit
  <2>2. DOMAIN audit = {}
    BY <2>1
  <2> QED BY <2>1, <2>2 DEF Once, AtMostOnce, StartedReached
<1>2. Once => AtMostOnce
  BY DEF Once
<1> QED BY <1>1, <1>2, TypeCorrect, TraversalCorrect, AlwaysUnstruck,
           NextOnce, PTL DEF EngineSpec
-----------------------------------------------------------------------------
\* A followed edge stays followed, as the result of its source stays.
LEMMA StillFollows ==
  ASSUME TypeOK, TraversalInv, NEW r \in Outcome, Leaves(r),
         NEW i \in DOMAIN wf.edges, Follows(wf, node_results, i)
  PROVE  Follows(wf', node_results', i) /\ wf.edges[i].source # busy
<1>1. wf.edges[i].source \in NodeIds
  BY EdgeEnds DEF TypeOK
<1>2. wf.edges[i].source # busy
  BY LeaveResults DEF Follows
<1>3. node_results'[wf.edges[i].source] = node_results[wf.edges[i].source]
  BY <1>1, <1>2, LeaveResults
<1> QED BY <1>2, <1>3, LeaveResults DEF Follows
-----------------------------------------------------------------------------
\* The order of the results.
Listed ==
  /\ \A k \in DOMAIN recorded : node_results[recorded[k]] # NoResult
  /\ \A j, k \in DOMAIN recorded : recorded[j] = recorded[k] => j = k
  /\ \A n \in NodeIds : node_results[n] # NoResult =>
       \E k \in DOMAIN recorded : recorded[k] = n

\* The reason of a node stands before it in the record; the reason of the
\* node being executed stands in it.
Caused ==
  /\ busy # None => Reason(busy)
  /\ \A k \in DOMAIN recorded :
       \/ IsStart(wf, recorded[k])
       \/ \E j \in DOMAIN recorded, i \in DOMAIN wf.edges :
            /\ j < k /\ recorded[j] = wf.edges[i].source
            /\ Follows(wf, node_results, i)
            /\ wf.edges[i].target = recorded[k]

RecordInv == Listed /\ Caused

LEMMA EnterRecord ==
  ASSUME TypeOK, RecordInv, NEW n \in NodeIds, Enters(n)
  PROVE  RecordInv'
<1>1. /\ busy' = n /\ UNCHANGED <<wf, node_results, recorded>>
  BY DEF Enters, EnterNode
<1>2. Reason(n)
  BY DEF Enters
<1> QED BY <1>1, <1>2 DEF RecordInv, Listed, Caused, Reason

LEMMA LeaveRecord ==
  ASSUME TypeOK, TraversalInv, RecordInv, NEW r \in Outcome, Leaves(r)
  PROVE  RecordInv'
<1>1. recorded \in Seq(NodeIds)
  BY DEF TypeOK
<1>2. /\ recorded' = Append(recorded, busy) /\ busy' = None /\ wf' = wf
      /\ busy \in NodeIds /\ node_results[busy] = NoResult
      /\ node_results'[busy] # NoResult
      /\ \A n \in NodeIds : n # busy => node_results'[n] = node_results[n]
  BY LeaveResults
<1>3. /\ Len(recorded) \in Nat /\ DOMAIN recorded = 1 .. Len(recorded)
      /\ DOMAIN recorded' = 1 .. Len(recorded) + 1
      /\ recorded'[Len(recorded) + 1] = busy
      /\ \A k \in DOMAIN recorded : recorded'[k] = recorded[k]
      /\ \A k \in DOMAIN recorded : recorded[k] \in NodeIds
  BY <1>1, <1>2
<1>4. \A k \in DOMAIN recorded' : k \in DOMAIN recorded \/ k = Len(recorded) + 1
  BY <1>3
<1>5. /\ \A k \in DOMAIN recorded : node_results[recorded[k]] # NoResult
      /\ \A j, k \in DOMAIN recorded : recorded[j] = recorded[k] => j = k
      /\ \A n \in NodeIds : node_results[n] # NoResult =>
           \E k \in DOMAIN recorded : recorded[k] = n
  BY DEF RecordInv, Listed
<1>6. \A k \in DOMAIN recorded : recorded[k] # busy
  BY <1>2, <1>5
<1>7. /\ \A k \in DOMAIN recorded' : node_results'[recorded'[k]] # NoResult
      /\ \A j, k \in DOMAIN recorded' : recorded'[j] = recorded'[k] => j = k
      /\ \A n \in NodeIds : node_results'[n] # NoResult =>
           \E k \in DOMAIN recorded' : recorded'[k] = n
  <2>1. \A k \in DOMAIN recorded' : node_results'[recorded'[k]] # NoResult
    BY <1>2, <1>3, <1>4, <1>5, <1>6
  <2>2. \A j, k \in DOMAIN recorded' : recorded'[j] = recorded'[k] => j = k
    BY <1>3, <1>4, <1>5, <1>6
  <2>3. ASSUME NEW n \in NodeIds, node_results'[n] # NoResult
        PROVE  \E k \in DOMAIN recorded' : recorded'[k] = n
    <3>1. CASE n = busy
      BY <1>3, <3>1
    <3>2. CASE n # busy
      <4>1. PICK k \in DOMAIN recorded : recorded[k] = n
        BY <1>2, <1>5, <2>3, <3>2
      <4> QED BY <1>3, <4>1
    <3> QED BY <3>1, <3>2
  <2> QED BY <2>1, <2>2, <2>3
<1>8. Listed'
  BY <1>7 DEF Listed
<1>9. ASSUME NEW i \in DOMAIN wf.edges, Follows(wf, node_results, i)
      PROVE  /\ Follows(wf', node_results', i)
             /\ \E j \in DOMAIN recorded : recorded[j] = wf.edges[i].source
  <2>1. Follows(wf', node_results', i)
    BY <1>9, StillFollows
  <2>2. wf.edges[i].source \in NodeIds
    BY EdgeEnds DEF TypeOK
  <2>3. node_results[wf.edges[i].source] # NoResult
    BY <1>9 DEF Follows
  <2> QED BY <1>5, <2>1, <2>2, <2>3
<1>10. ASSUME NEW k \in DOMAIN recorded', ~ IsStart(wf, recorded'[k])
       PROVE  \E j \in DOMAIN recorded', i \in DOMAIN wf'.edges :
                /\ j < k /\ recorded'[j] = wf'.edges[i].source
                /\ Follows(wf', node_results', i)
                /\ wf'.edges[i].target = recorded'[k]
  <2>1. CASE k \in DOMAIN recorded
    <3>1. PICK j \in DOMAIN recorded, i \in DOMAIN wf.edges :
            /\ j < k /\ recorded[j] = wf.edges[i].source
            /\ Follows(wf, node_results, i)
            /\ wf.edges[i].target = recorded[k]
      BY <1>3, <1>10, <2>1 DEF RecordInv, Caused
    <3> QED BY <1>2, <1>3, <1>9, <2>1, <3>1
  <2>2. CASE k = Len(recorded) + 1
    <3>1. busy # None
      BY LeaveResults
    <3>2. PICK i \in DOMAIN wf.edges : /\ Follows(wf, node_results, i)
                                       /\ wf.edges[i].target = busy
      BY <1>3, <1>10, <2>2, <3>1 DEF RecordInv, Caused, Reason
    <3>3. PICK j \in DOMAIN recorded : recorded[j] = wf.edges[i].source
      BY <1>9, <3>2
    <3>4. j < k /\ j \in DOMAIN recorded'
      BY <1>3, <2>2
    <3> QED BY <1>2, <1>3, <1>9, <2>2, <3>2, <3>3, <3>4
  <2> QED BY <1>4, <2>1, <2>2
<1>11. Caused'
  BY <1>2, <1>10 DEF Caused
<1> QED BY <1>8, <1>11 DEF RecordInv

LEMMA NextRecord ==
  ASSUME TypeOK, TraversalInv, Unstruck, RecordInv, [EngineNext]_engineVars
  PROVE  RecordInv'
<1>1. CASE Waits \/ Rests \/ Turns
  <2>1. UNCHANGED <<wf, busy, node_results, recorded>>
    BY <1>1 DEF Waits, Rests, Turns, Kept
  <2> QED BY <2>1 DEF RecordInv, Listed, Caused, Reason
<1>2. CASE Aborts
  BY <1>2 DEF Aborts, RecordInv, Listed, Caused
<1> QED BY <1>1, <1>2, Steps, EnterRecord, LeaveRecord

\* Where a node of the record stands.
LEMMA PositionOf ==
  ASSUME NEW k \in DOMAIN recorded,
         \A j, i \in DOMAIN recorded : recorded[j] = recorded[i] => j = i
  PROVE  Position(recorded[k]) = k
BY DEF Position

\* Who stands before its effect in the record has the smaller position.
LEMMA RecordCauses ==
  ASSUME TypeOK, TraversalInv, RecordInv PROVE Causal
<1>1. /\ \A j, i \in DOMAIN recorded : recorded[j] = recorded[i] => j = i
      /\ \A n \in NodeIds : node_results[n] # NoResult =>
           \E k \in DOMAIN recorded : recorded[k] = n
  BY DEF RecordInv, Listed
<1>2. ASSUME NEW n \in Executed(node_results), ~ IsStart(wf, n)
      PROVE  \E i \in DOMAIN wf.edges :
               /\ Follows(wf, node_results, i)
               /\ wf.edges[i].target = n
               /\ Position(wf.edges[i].source) < Position(n)
  <2>1. PICK k \in DOMAIN recorded : recorded[k] = n
    BY <1>1 DEF Executed
  <2>2. PICK j \in DOMAIN recorded, i \in DOMAIN wf.edges :
          /\ j < k /\ recorded[j] = wf.edges[i].source
          /\ Follows(wf, node_results, i)
          /\ wf.edges[i].target = n
    BY <1>2, <2>1 DEF RecordInv, Caused
  <2>3. Position(recorded[k]) = k /\ Position(recorded[j]) = j
    BY <1>1, PositionOf
  <2> QED BY <2>1, <2>2, <2>3
<1>3. busy # None => Reason(busy)
  BY DEF RecordInv, Caused
<1> QED BY <1>2, <1>3 DEF Causal, Reason

LEMMA AlwaysRecorded == EngineSpec => []RecordInv
<1>1. EngineInit => RecordInv
  <2> SUFFICES ASSUME EngineInit PROVE RecordInv
    OBVIOUS
  <2>1. /\ recorded = <<>> /\ busy = None
        /\ \A n \in NodeIds : node_results[n] = NoResult
    BY DEF EngineInit, NoResults
  <2> QED BY <2>1 DEF RecordInv, Listed, Caused
<1> QED BY <1>1, TypeCorrect, TraversalCorrect, AlwaysUnstruck, NextRecord,
           PTL DEF EngineSpec

\* A node runs only as a start node or because a node recorded before it has
\* selected an edge to it, in every graph (_execute_node_chain).
THEOREM EveryNodeCaused == EngineSpec => []Causal
<1>1. TypeOK /\ TraversalInv /\ RecordInv => Causal
  BY RecordCauses
<1> QED BY <1>1, TypeCorrect, TraversalCorrect, AlwaysRecorded, PTL
-----------------------------------------------------------------------------
\* Event i is as it should be, and where it was written is in order.
Well(i) ==
  NodeEvent(i) => /\ audit[i].node \in NodeIds
                  /\ Numbered(i) /\ Ordered(i) /\ Truthful(i)
                  /\ audit[i].node # struck => Paired(i)

\* While a node is being executed its start is the last row, unless the soft
\* time limit has struck it; every completion belongs to a recorded node.
OpenRow ==
  phase = "running" =>
    /\ busy # None /\ busy # struck =>
         /\ audit # <<>> /\ Started(Len(audit))
         /\ audit[Len(audit)].node = busy
         /\ audit[Len(audit)].index = Len(recorded)
    /\ \A i \in DOMAIN audit : Ended(i) => audit[i].index < Len(recorded)

TrailInv == OpenRow /\ \A i \in DOMAIN audit : Well(i)

\* Rows about nodes number what is written next.
Numbers(tail) ==
  \A k \in DOMAIN tail :
    tail[k].event \in {"action_started", "action_completed"} =>
      tail[k].index = Len(recorded)

LEMMA OldRow ==
  ASSUME NEW tail, Writes(tail), NEW i \in DOMAIN audit
  PROVE  /\ i \in DOMAIN audit' /\ audit'[i] = audit[i]
         /\ Started(i)' <=> Started(i)
         /\ Ended(i)' <=> Ended(i)
         /\ NodeEvent(i)' <=> NodeEvent(i)
BY DEF Writes, Started, Ended, NodeEvent

\* The number of an old event is not above that of the next.
LEMMA OldNumber ==
  ASSUME TypeOK, NEW i \in DOMAIN audit, Numbered(i)
  PROVE  audit[i].index \in Int /\ audit[i].index <= Len(recorded)
<1>1. recorded \in Seq(NodeIds) /\ audit[i] \in AuditEvent
  BY DEF TypeOK
<1>2. Len(recorded) \in Nat /\ audit[i].index \in Int
  BY <1>1 DEF AuditEvent
<1> QED BY <1>2 DEF Numbered

LEMMA StillOrdered ==
  ASSUME TypeOK, NEW tail, Writes(tail), Numbers(tail),
         NEW i \in DOMAIN audit, Numbered(i), Ordered(i)
  PROVE  Ordered(i)'
<1> SUFFICES ASSUME NEW j \in DOMAIN audit', j > i, NodeEvent(j)'
             PROVE  audit'[i].index <= audit'[j].index
  BY DEF Ordered
<1>1. audit'[i] = audit[i]
  BY OldRow
<1>2. CASE j \in DOMAIN audit
  <2>1. audit'[j] = audit[j] /\ NodeEvent(j)
    BY <1>2, OldRow
  <2> QED BY <1>1, <1>2, <2>1 DEF Ordered
<1>3. CASE j \notin DOMAIN audit
  <2>1. audit'[j].index = Len(recorded)
    BY <1>3 DEF Writes, Numbers, NodeEvent, Started, Ended
  <2> QED BY <1>1, <2>1, OldNumber
<1> QED BY <1>2, <1>3

\* What has been paired stays so.
LEMMA StillPaired ==
  ASSUME NEW tail, Writes(tail), NEW i \in DOMAIN audit, Paired(i),
         ~ (Started(i) /\ i = Len(audit) /\ busy = audit[i].node)
  PROVE  Paired(i)'
<1>1. Started(i) => i < Len(audit) /\ Ended(i + 1) /\ SameNode(i, i + 1)
  BY DEF Paired
<1>2. Ended(i) => i > 1 /\ Started(i - 1) /\ SameNode(i - 1, i)
  BY DEF Paired
<1>3. /\ Len(audit) \in Nat /\ Len(audit') >= Len(audit)
      /\ DOMAIN audit = 1 .. Len(audit)
  BY DEF Writes
<1>4. Started(i) => i < Len(audit') /\ Ended(i + 1)' /\ SameNode(i, i + 1)'
  <2>1. Started(i) => i + 1 \in DOMAIN audit
    BY <1>1, <1>3
  <2> QED BY <1>1, <1>3, <2>1, OldRow DEF SameNode
<1>5. Ended(i) => i > 1 /\ Started(i - 1)' /\ SameNode(i - 1, i)'
  <2>1. Ended(i) => i - 1 \in DOMAIN audit
    BY <1>2, <1>3
  <2> QED BY <1>2, <1>3, <2>1, OldRow DEF SameNode
<1> QED BY <1>4, <1>5, OldRow DEF Paired

LEMMA StillTruthful ==
  ASSUME NEW tail, Writes(tail), NEW i \in DOMAIN audit, Truthful(i),
         Ended(i) => node_results'[audit[i].node] = node_results[audit[i].node]
  PROVE  Truthful(i)'
<1> SUFFICES ASSUME Ended(i), node_results'[audit[i].node] # NoResult,
                    \A j \in DOMAIN audit' : j > i /\ Ended(j)' => ~ SameNode(i, j)'
             PROVE  audit[i].success
                      = (node_results'[audit[i].node].status = "success")
  BY OldRow DEF Truthful
<1>1. \A j \in DOMAIN audit : j > i /\ Ended(j) => ~ SameNode(i, j)
  BY OldRow DEF SameNode
<1> QED BY <1>1 DEF Truthful

\* A completion that has been written before belongs to another node than
\* the one being executed.
LEMMA EndedBefore ==
  ASSUME TypeOK, TraversalInv, RecordInv, TrailInv, phase = "running",
         NEW i \in DOMAIN audit, Ended(i)
  PROVE  audit[i].node # busy
<1>1. Well(i) /\ audit[i].index < Len(recorded)
  BY DEF TrailInv, OpenRow
<1>2. audit[i].node \in NodeIds /\ Numbered(i)
  BY <1>1 DEF Well, NodeEvent
<1>3. Len(recorded) \in Nat
  BY DEF TypeOK
<1>4. /\ audit[i].index \in 0 .. (Len(recorded) - 1)
      /\ recorded[audit[i].index + 1] = audit[i].node
  BY <1>1, <1>2, <1>3 DEF Numbered
<1>5. audit[i].index + 1 \in DOMAIN recorded
  BY <1>4 DEF TypeOK
<1>6. node_results[audit[i].node] # NoResult
  BY <1>4, <1>5 DEF RecordInv, Listed
<1> QED BY <1>2, <1>6, EngineAssumption DEF TraversalInv, StackInv

LEMMA EnterTrail ==
  ASSUME TypeOK, TypeOK', TraversalInv, Unstruck', TrailInv,
         struck' = struck \/ struck = None, NEW n \in NodeIds, Enters(n)
  PROVE  TrailInv'
<1>1. /\ phase = "running" /\ phase' = phase /\ busy = None /\ busy' = n
      /\ UNCHANGED <<node_results, recorded>> /\ Len(recorded) \in Nat
  BY DEF Enters, EnterNode, TypeOK
<1>2. PICK tail : /\ Writes(tail)
                  /\ \/ tail = <<>> /\ struck' = n
                     \/ tail = <<StartRow(n)>>
  BY EnterWrites
<1>3. PICK e : e = StartRow(n)
  OBVIOUS
<1>4. /\ e.event = "action_started" /\ e.node = n /\ e.index = Len(recorded)
  BY <1>3 DEF StartRow, ActionEvent
<1>5. tail \in {<<>>, <<e>>} /\ Numbers(tail)
  BY <1>2, <1>3, <1>4 DEF Numbers
<1>6. ASSUME NEW i \in DOMAIN audit PROVE Well(i)'
  <2> SUFFICES ASSUME NodeEvent(i)
               PROVE  /\ audit[i].node \in NodeIds
                      /\ Numbered(i)' /\ Ordered(i)' /\ Truthful(i)'
                      /\ audit[i].node # struck' => Paired(i)'
    BY <1>2, OldRow DEF Well
  <2>1. /\ audit[i].node \in NodeIds
        /\ Numbered(i) /\ Ordered(i) /\ Truthful(i)
        /\ audit[i].node # struck => Paired(i)
    BY DEF TrailInv, Well
  <2>2. audit[i].node # None
    BY <2>1, EngineAssumption
  <2>3. Numbered(i)'
    BY <1>1, <1>2, <2>1, <2>2, OldRow DEF Numbered
  <2>4. Ordered(i)'
    BY <1>2, <1>5, <2>1, StillOrdered
  <2>5. Truthful(i)'
    BY <1>1, <1>2, <2>1, StillTruthful
  <2>6. audit[i].node # struck' => Paired(i)'
    BY <1>1, <1>2, <2>1, <2>2, StillPaired
  <2> QED BY <2>1, <2>3, <2>4, <2>5, <2>6
<1>7. \A i \in DOMAIN audit' : i \notin DOMAIN audit =>
        /\ i = Len(audit) + 1 /\ i = Len(audit') /\ audit'[i] = e
        /\ tail = <<e>>
  <2>1. \A k \in DOMAIN tail : k = 1 /\ tail[k] = e /\ tail = <<e>> /\ Len(tail) = 1
    BY <1>5
  <2> QED BY <1>2, <2>1 DEF Writes
<1>8. ASSUME NEW i \in DOMAIN audit', i \notin DOMAIN audit PROVE Well(i)'
  <2>1. i = Len(audit') /\ audit'[i] = e /\ DOMAIN audit' = 1 .. Len(audit')
    BY <1>2, <1>7, <1>8 DEF Writes
  <2>2. Started(i)' /\ ~ Ended(i)'
    BY <1>4, <2>1 DEF Started, Ended
  <2>3. Numbered(i)' /\ Ordered(i)' /\ Truthful(i)' /\ Paired(i)'
    <3>1. Numbered(i)'
      BY <1>1, <1>4, <2>1 DEF Numbered
    <3>2. Ordered(i)'
      BY <2>1 DEF Ordered
    <3>3. Truthful(i)'
      BY <2>2 DEF Truthful
    <3>4. Paired(i)'
      BY <1>1, <1>4, <2>1, <2>2 DEF Paired
    <3> QED BY <3>1, <3>2, <3>3, <3>4
  <2> QED BY <1>4, <2>1, <2>3 DEF Well
<1>9. OpenRow'
  <2>1. \A i \in DOMAIN audit' : Ended(i)' => audit'[i].index < Len(recorded')
    <3> SUFFICES ASSUME NEW i \in DOMAIN audit', Ended(i)'
                 PROVE  audit'[i].index < Len(recorded)
      BY <1>1
    <3>1. i \in DOMAIN audit
      BY <1>4, <1>7 DEF Ended
    <3> QED BY <1>1, <1>2, <3>1, OldRow DEF TrailInv, OpenRow
  <2>2. ASSUME n # struck'
        PROVE  /\ audit' # <<>> /\ Started(Len(audit))'
               /\ audit'[Len(audit')].node = n
               /\ audit'[Len(audit')].index = Len(recorded)
    <3>1. tail = <<e>> /\ Len(tail) = 1
      BY <1>2, <1>3, <2>2
    <3>2. /\ Len(audit') = Len(audit) + 1 /\ Len(audit') \in DOMAIN audit'
          /\ Len(audit') \notin DOMAIN audit
      BY <1>2, <3>1 DEF Writes
    <3>3. audit'[Len(audit')] = e
      BY <1>7, <3>2
    <3>4. audit' # <<>>
      BY <3>2
    <3> QED BY <1>4, <3>3, <3>4 DEF Started
  <2> QED BY <1>1, <2>1, <2>2 DEF OpenRow
<1> QED BY <1>6, <1>8, <1>9 DEF TrailInv

LEMMA LeaveTrail ==
  ASSUME TypeOK, TraversalInv, RecordInv, Unstruck, TrailInv,
         struck' = struck \/ struck = None, NEW r \in Outcome, Leaves(r)
  PROVE  TrailInv'
<1>1. /\ phase = "running" /\ phase' = "running" /\ busy # None
      /\ busy' = None /\ busy \in NodeIds
      /\ node_results[busy] = NoResult /\ node_results'[busy] = r
      /\ \A m \in NodeIds : m # busy => node_results'[m] = node_results[m]
      /\ recorded' = Append(recorded, busy) /\ recorded \in Seq(NodeIds)
  BY LeaveResults DEF TypeOK
<1>2. /\ Len(recorded) \in Nat /\ Len(recorded') = Len(recorded) + 1
      /\ recorded'[Len(recorded) + 1] = busy
      /\ \A k \in 1 .. Len(recorded) : recorded'[k] = recorded[k]
  BY <1>1
<1>3. PICK tail : /\ Writes(tail)
                  /\ \/ tail = <<>> /\ struck' = busy
                     \/ tail = <<Completed(r)>>
                     \/ /\ struck' = busy
                        /\ \E q \in Outcome :
                             tail = <<Completed(q), Completed(r)>>
  BY LeaveWrites
<1>4. \A q \in Outcome :
        /\ Completed(q).event = "action_completed" /\ Completed(q).node = busy
        /\ Completed(q).index = Len(recorded)
        /\ Completed(q).success = (q.status = "success")
  BY DEF Completed, ActionEvent
<1>5. \A k \in DOMAIN tail :
        /\ tail[k].event = "action_completed" /\ tail[k].node = busy
        /\ tail[k].index = Len(recorded)
        /\ k = Len(tail) => tail[k].success = (r.status = "success")
        /\ k = Len(tail) \/ (struck' = busy /\ k + 1 = Len(tail))
        /\ k = 1 \/ struck' = busy
  <2>1. CASE tail = <<>>
    BY <2>1
  <2>2. CASE tail = <<Completed(r)>>
    BY <1>4, <2>2
  <2>3. CASE /\ struck' = busy
             /\ \E q \in Outcome : tail = <<Completed(q), Completed(r)>>
    <3>1. PICK q \in Outcome : tail = <<Completed(q), Completed(r)>>
      BY <2>3
    <3>2. PICK e, f : e = Completed(q) /\ f = Completed(r)
      OBVIOUS
    <3>3. Len(tail) = 2 /\ tail[1] = e /\ tail[2] = f /\ DOMAIN tail = 1 .. 2
      BY <3>1, <3>2
    <3>4. /\ e.event = "action_completed" /\ e.node = busy
          /\ e.index = Len(recorded)
          /\ f.event = "action_completed" /\ f.node = busy
          /\ f.index = Len(recorded) /\ f.success = (r.status = "success")
      BY <1>4, <3>2
    <3> HIDE DEF Completed
    <3> QED BY <2>3, <3>3, <3>4
  <2> QED BY <1>3, <2>1, <2>2, <2>3
<1>6. Numbers(tail)
  BY <1>5 DEF Numbers
<1>7. ASSUME NEW i \in DOMAIN audit PROVE Well(i)'
  <2> SUFFICES ASSUME NodeEvent(i)
               PROVE  /\ audit[i].node \in NodeIds
                      /\ Numbered(i)' /\ Ordered(i)' /\ Truthful(i)'
                      /\ audit[i].node # struck' => Paired(i)'
    BY <1>3, OldRow DEF Well
  <2>1. /\ audit[i].node \in NodeIds
        /\ Numbered(i) /\ Ordered(i) /\ Truthful(i)
        /\ audit[i].node # struck => Paired(i)
    BY DEF TrailInv, Well
  <2>2. audit[i].node # None
    BY <2>1, EngineAssumption
  <2>3. Numbered(i)'
    <3>1. audit[i].index \in Int
      BY <2>1, OldNumber
    <3>2. \/ /\ audit[i].index \in 0 .. (Len(recorded) - 1)
             /\ recorded[audit[i].index + 1] = audit[i].node
          \/ audit[i].index = Len(recorded) /\ audit[i].node = busy
      BY <1>1, <2>1 DEF Numbered
    <3>3. /\ audit[i].index \in 0 .. (Len(recorded') - 1)
          /\ recorded'[audit[i].index + 1] = audit[i].node
      BY <1>2, <3>1, <3>2
    <3> QED BY <1>3, <3>3, OldRow DEF Numbered
  <2>4. Ordered(i)'
    BY <1>3, <1>6, <2>1, StillOrdered
  <2>5. Truthful(i)'
    <3>1. Ended(i) => audit[i].node # busy
      BY <1>1, EndedBefore
    <3> QED BY <1>1, <1>3, <2>1, <3>1, StillTruthful
  <2>6. ASSUME audit[i].node # struck' PROVE Paired(i)'
    <3>1. Paired(i)
      BY <2>1, <2>2, <2>6
    <3>2. CASE Started(i) /\ i = Len(audit) /\ busy = audit[i].node
      <4>1. tail = <<Completed(r)>>
        BY <1>3, <2>6, <3>2
      <4>2. audit[i].index = Len(recorded)
        BY <1>1, <2>6, <3>2 DEF TrailInv, OpenRow, Unstruck
      <4>3. Len(tail) = 1 /\ tail[1] = Completed(r)
        BY <4>1
      <4>4. /\ Len(audit) \in Nat /\ Len(audit') = Len(audit) + 1
            /\ i + 1 \in DOMAIN audit' /\ i + 1 \notin DOMAIN audit
        BY <1>3, <3>2, <4>3 DEF Writes
      <4>5. audit'[i + 1] = Completed(r)
        <5>1. audit'[i + 1] = tail[(i + 1) - Len(audit)]
          BY <1>3, <4>4 DEF Writes
        <5>2. (i + 1) - Len(audit) = 1
          BY <3>2, <4>4
        <5> QED BY <4>3, <5>1, <5>2
      <4>6. Started(i)' /\ ~ Ended(i)' /\ Ended(i + 1)' /\ SameNode(i, i + 1)'
        <5>1. audit'[i] = audit[i]
          BY <1>3, OldRow
        <5> QED BY <1>4, <3>2, <4>2, <4>5, <5>1 DEF Started, Ended, SameNode
      <4> QED BY <3>2, <4>4, <4>6 DEF Paired
    <3>3. CASE ~ (Started(i) /\ i = Len(audit) /\ busy = audit[i].node)
      BY <1>3, <3>1, <3>3, StillPaired
    <3> QED BY <3>2, <3>3
  <2> QED BY <2>1, <2>3, <2>4, <2>5, <2>6
<1>8. ASSUME NEW i \in DOMAIN audit', i \notin DOMAIN audit PROVE Well(i)'
  <2> DEFINE k == i - Len(audit)
  <2>1. /\ Len(audit) \in Nat /\ Len(tail) \in Nat
        /\ DOMAIN audit' = 1 .. Len(audit) + Len(tail)
        /\ DOMAIN audit = 1 .. Len(audit) /\ DOMAIN tail = 1 .. Len(tail)
    BY <1>3 DEF Writes
  <2>2. /\ k \in DOMAIN tail /\ audit'[i] = tail[k] /\ i = Len(audit) + k
        /\ i > Len(audit)
    BY <1>3, <1>8, <2>1 DEF Writes
  <2>3. \A j \in DOMAIN audit' : j > i =>
          /\ audit'[j].event = "action_completed"
          /\ audit'[j].index = Len(recorded)
    <3> SUFFICES ASSUME NEW j \in DOMAIN audit', j > i
                 PROVE  /\ audit'[j].event = "action_completed"
                        /\ audit'[j].index = Len(recorded)
      OBVIOUS
    <3>1. j \notin DOMAIN audit
      BY <2>1, <2>2
    <3>2. j - Len(audit) \in DOMAIN tail /\ audit'[j] = tail[j - Len(audit)]
      BY <1>3, <3>1 DEF Writes
    <3> QED BY <1>5, <3>2
  <2>4. /\ audit'[i].event = "action_completed" /\ audit'[i].node = busy
        /\ audit'[i].index = Len(recorded)
        /\ k = Len(tail) => audit'[i].success = (r.status = "success")
        /\ k = Len(tail) \/ k + 1 = Len(tail)
        /\ k = 1 \/ struck' = busy
    BY <1>5, <2>2
  <2>5. Numbered(i)'
    <3>1. /\ audit'[i].index \in 0 .. (Len(recorded') - 1)
          /\ recorded'[audit'[i].index + 1] = audit'[i].node
      BY <1>2, <2>4
    <3> QED BY <3>1 DEF Numbered
  <2>6. Ordered(i)'
    BY <1>2, <2>3, <2>4 DEF Ordered
  <2>7. Truthful(i)'
    <3>1. CASE k = Len(tail)
      BY <1>1, <2>4, <3>1 DEF Truthful
    <3>2. CASE k + 1 = Len(tail)
      <4>1. i + 1 \in DOMAIN audit' /\ i + 1 > i
        BY <2>1, <2>2, <3>2
      <4>2. Ended(i + 1)' /\ SameNode(i, i + 1)'
        BY <2>3, <2>4, <4>1 DEF Ended, SameNode
      <4> QED BY <4>1, <4>2 DEF Truthful
    <3> QED BY <2>4, <3>1, <3>2
  <2>8. ASSUME busy # struck' PROVE Paired(i)'
    <3>1. k = 1 /\ ~ Started(i)' /\ i - 1 = Len(audit)
      BY <2>1, <2>2, <2>4, <2>8 DEF Started
    <3>2. /\ audit # <<>> /\ Started(Len(audit))
          /\ audit[Len(audit)].index = Len(recorded)
      BY <1>1, <2>8 DEF TrailInv, OpenRow, Unstruck
    <3>3. i - 1 \in DOMAIN audit /\ i > 1
      <4>1. audit \in Seq(AuditEvent)
        BY DEF TypeOK
      <4>2. Len(audit) # 0
        BY <3>2, <4>1
      <4> QED BY <2>1, <3>1, <4>2
    <3>4. audit'[i - 1] = audit[i - 1] /\ Started(i - 1)'
      BY <1>3, <3>1, <3>2, <3>3, OldRow
    <3>5. SameNode(i - 1, i)'
      BY <2>4, <3>1, <3>2, <3>4 DEF SameNode
    <3> QED BY <3>1, <3>3, <3>4, <3>5 DEF Paired
  <2> QED BY <1>1, <2>4, <2>5, <2>6, <2>7, <2>8 DEF Well
<1>9. OpenRow'
  <2> SUFFICES ASSUME NEW i \in DOMAIN audit', Ended(i)'
               PROVE  audit'[i].index < Len(recorded')
    BY <1>1 DEF OpenRow
  <2>1. CASE i \in DOMAIN audit
    <3>1. audit[i].index < Len(recorded) /\ audit'[i] = audit[i] /\ Well(i)
          /\ Ended(i)
      BY <1>1, <1>3, <2>1, OldRow DEF TrailInv, OpenRow
    <3>2. audit[i].index \in Int
      BY <2>1, <3>1, OldNumber DEF Well, NodeEvent
    <3> QED BY <1>2, <3>1, <3>2
  <2>2. CASE i \notin DOMAIN audit
    <3>1. audit'[i].index = Len(recorded)
      BY <1>3, <1>5, <2>2 DEF Writes
    <3> QED BY <1>2, <3>1
  <2> QED BY <2>1, <2>2
<1> QED BY <1>7, <1>8, <1>9 DEF TrailInv

\* What ends the execution, or comes between its nodes, adds rows that close
\* what is open.
LEMMA CloseTrail ==
  ASSUME TypeOK, TraversalInv, Unstruck, TrailInv,
         struck' = struck \/ struck = None,
         UNCHANGED <<node_results, recorded>>, busy' = None,
         phase' = "aborted" \/ busy = None, phase # "aborted",
         busy \in {None, struck'},
         NEW tail, Writes(tail), \A k \in DOMAIN tail : Closing(tail[k]),
         phase' = "running" => phase = "called"
  PROVE  TrailInv'
<1>1. Numbers(tail) /\ Len(recorded) \in Nat
  BY DEF Numbers, Closing, TypeOK
<1>2. ASSUME NEW i \in DOMAIN audit PROVE Well(i)'
  <2> SUFFICES ASSUME NodeEvent(i)
               PROVE  /\ audit[i].node \in NodeIds
                      /\ Numbered(i)' /\ Ordered(i)' /\ Truthful(i)'
                      /\ audit[i].node # struck' => Paired(i)'
    BY OldRow DEF Well
  <2>1. /\ audit[i].node \in NodeIds
        /\ Numbered(i) /\ Ordered(i) /\ Truthful(i)
        /\ audit[i].node # struck => Paired(i)
    BY DEF TrailInv, Well
  <2>2. audit[i].node # None
    BY <2>1, EngineAssumption
  <2>3. Numbered(i)'
    BY <2>1, <2>2, OldRow DEF Numbered
  <2>4. Ordered(i)'
    BY <1>1, <2>1, StillOrdered
  <2>5. Truthful(i)'
    BY <2>1, StillTruthful
  <2>6. ASSUME audit[i].node # struck' PROVE Paired(i)'
    <3>1. Paired(i) /\ busy # audit[i].node
      BY <2>1, <2>2, <2>6
    <3> QED BY <3>1, StillPaired
  <2> QED BY <2>1, <2>3, <2>4, <2>5, <2>6
<1>3. ASSUME NEW i \in DOMAIN audit', i \notin DOMAIN audit
      PROVE  NodeEvent(i)' => /\ Ended(i)' /\ ~ Started(i)'
                              /\ audit'[i].node = busy /\ busy # None
                              /\ audit'[i].index = Len(recorded)
  <2>1. \E k \in DOMAIN tail : audit'[i] = tail[k]
    BY <1>3 DEF Writes
  <2>2. Closing(audit'[i])
    BY <2>1
  <2> QED BY <2>2 DEF Closing, NodeEvent, Ended, Started
<1>4. ASSUME NEW i \in DOMAIN audit', i \notin DOMAIN audit PROVE Well(i)'
  <2> SUFFICES ASSUME NodeEvent(i)'
               PROVE  /\ audit'[i].node \in NodeIds
                      /\ Numbered(i)' /\ Ordered(i)' /\ Truthful(i)'
                      /\ audit'[i].node = struck'
    BY DEF Well
  <2>1. /\ audit'[i].node = busy /\ busy # None /\ busy \in NodeIds
        /\ audit'[i].index = Len(recorded) /\ phase' = "aborted"
    BY <1>3, <1>4 DEF TypeOK
  <2>2. Numbered(i)'
    BY <2>1 DEF Numbered
  <2>3. Ordered(i)'
    <3> SUFFICES ASSUME NEW j \in DOMAIN audit', j > i, NodeEvent(j)'
                 PROVE  audit'[i].index <= audit'[j].index
      BY DEF Ordered
    <3>1. j \notin DOMAIN audit
      BY <1>4 DEF Writes
    <3> QED BY <1>1, <1>3, <2>1, <3>1
  <2>4. node_results'[audit'[i].node] = NoResult
    BY <2>1 DEF TraversalInv, StackInv
  <2> QED BY <2>1, <2>2, <2>3, <2>4 DEF Truthful
<1>5. OpenRow'
  <2> SUFFICES ASSUME phase' = "running", NEW i \in DOMAIN audit', Ended(i)'
               PROVE  FALSE
    BY DEF OpenRow
  <2>1. i \in DOMAIN audit
    BY <1>3 DEF NodeEvent
  <2>2. phase = "called" /\ audit = <<>>
    BY DEF Unstruck
  <2> QED BY <2>1, <2>2
<1> QED BY <1>2, <1>4, <1>5 DEF TrailInv

LEMMA NextTrail ==
  ASSUME TypeOK, TypeOK', TraversalInv, RecordInv, Unstruck, Unstruck',
         TrailInv, [EngineNext]_engineVars
  PROVE  TrailInv'
<1>1. CASE Waits \/ Rests
  <2>1. UNCHANGED <<phase, busy, recorded, audit, node_results, struck>>
    BY <1>1 DEF Waits, Rests, Kept
  <2> QED BY <2>1 DEF TrailInv, OpenRow, Well, Numbered, Ordered, Truthful,
                      Paired, NodeEvent, SameNode, Started, Ended
<1>2. struck' = struck \/ struck = None
  BY NextUnstruck
<1>3. CASE Turns
  <2>1. PICK tail : Writes(tail) /\ \A k \in DOMAIN tail : Closing(tail[k])
    BY <1>3, TurnWrites
  <2>2. /\ UNCHANGED <<node_results, recorded>> /\ busy' = None /\ busy = None
        /\ phase # "aborted" /\ (phase' = "running" => phase = "called")
    BY <1>3 DEF Turns, Kept
  <2> QED BY <1>2, <2>1, <2>2, CloseTrail
<1>4. CASE Aborts
  <2>1. PICK tail : Writes(tail) /\ \A k \in DOMAIN tail : Closing(tail[k])
    BY <1>4, AbortWrites
  <2>2. /\ UNCHANGED <<node_results, recorded>> /\ busy' = None
        /\ busy \in {None, struck'}
        /\ phase # "aborted" /\ phase' = "aborted"
    BY <1>4 DEF Aborts
  <2> QED BY <1>2, <2>1, <2>2, CloseTrail
<1> QED BY <1>1, <1>2, <1>3, <1>4, Steps, EnterTrail, LeaveTrail

\* The audit trail is numbered, ordered and true, and well nested but for the
\* node that the soft time limit has struck, for every graph and wherever the
\* limit strikes (_log_audit_event in _execute_single_node).
THEOREM TrailBracketed == EngineSpec => []AuditBracketed
<1>1. EngineInit => TrailInv
  <2> SUFFICES ASSUME EngineInit PROVE TrailInv
    OBVIOUS
  <2>1. audit = <<>> /\ phase = "called"
    BY DEF EngineInit
  <2>2. DOMAIN audit = {}
    BY <2>1
  <2> QED BY <2>1, <2>2 DEF TrailInv, OpenRow
<1>2. TrailInv => AuditBracketed
  BY DEF TrailInv, Well, AuditBracketed
<1> QED BY <1>1, <1>2, TypeCorrect, TraversalCorrect, AlwaysRecorded,
           AlwaysUnstruck, NextTrail, PTL DEF EngineSpec
-----------------------------------------------------------------------------
\* What the progress column shows of a node whose label is its own.
Step(n) == progress.steps[wf.label[n]]

Shown(n) ==
  /\ busy = n => Step(n) = "running"
  /\ node_results[n].status = "success" => Step(n) = "completed"
  /\ node_results[n].status = "failure" => Step(n) = "failed"
  /\ busy # n /\ node_results[n] = NoResult => Step(n) = "absent"

CurrentShown ==
  \/ progress.current_step = IF busy = None THEN "" ELSE wf.label[busy]
  \/ /\ struck # None /\ busy \in {None, struck}
     /\ progress.current_step \in {"", wf.label[struck]}

ShownInv ==
  CurrentShown /\ \A n \in NodeSet(wf) \ {struck} : UniqueLabel(n) => Shown(n)

LEMMA ProgressFields ==
  ASSUME TypeOK
  PROVE  /\ progress.steps \in [Labels -> StepStates]
         /\ \A n \in NodeSet(wf) :
              n \in NodeIds /\ n # None /\ wf.label[n] \in Labels
         /\ progress = [percent |-> progress.percent,
                        current_step |-> progress.current_step,
                        steps |-> progress.steps]
<1>1. wf \in WorkflowType /\ progress \in Progress
  BY DEF TypeOK
<1>2. wf.label \in [NodeIds -> Labels] /\ NodeSet(wf) \subseteq NodeIds
  BY <1>1, WorkflowFields, NodeSetType
<1> DEFINE S == [Labels -> StepStates]
<1>3. progress \in [percent : 0 .. 100, current_step : Labels \cup {""},
                    steps : S]
  BY <1>1 DEF Progress
<1> HIDE DEF S
<1>4. /\ progress.steps \in S
      /\ progress = [percent |-> progress.percent,
                     current_step |-> progress.current_step,
                     steps |-> progress.steps]
  BY <1>3
<1> QED BY <1>2, <1>4, EngineAssumption DEF S

\* An update concerns the step of one node.
Updates(n, state, current) ==
  /\ progress'.current_step = current
  /\ progress'.steps = [progress.steps EXCEPT ![wf.label[n]] = state]

LEMMA StartedUpdates ==
  ASSUME NEW n, StepStarted(n)
  PROVE  Updates(n, "running", wf.label[n])
BY DEF StepStarted, Updates

LEMMA EndedUpdates ==
  ASSUME NEW n, NEW r, StepEnded(n, r)
  PROVE  Updates(n, CASE Step(n) = "absent" -> "absent"
                      [] r.status = "success" -> "completed"
                      [] OTHER -> "failed", "")
<1> DEFINE state == CASE Step(n) = "absent" -> "absent"
                      [] r.status = "success" -> "completed"
                      [] OTHER -> "failed"
<1>1. progress' = [percent |-> Percent, current_step |-> "",
        steps |-> [progress.steps EXCEPT ![wf.label[n]] = state]]
  BY DEF StepEnded, Step
<1> HIDE DEF state
<1>2. Updates(n, state, "")
  BY <1>1 DEF Updates
<1> QED BY <1>2 DEF state

\* It leaves the steps of other labels as they are.
LEMMA OtherStep ==
  ASSUME TypeOK, wf' = wf, NEW n \in NodeSet(wf), NEW m \in NodeSet(wf),
         m # n, UniqueLabel(m), NEW state, NEW current,
         Updates(n, state, current)
  PROVE  Step(m)' = Step(m)
<1>1. wf.label[m] # wf.label[n]
  BY DEF UniqueLabel
<1>2. /\ wf.label[m] \in Labels
      /\ progress.steps \in [Labels -> StepStates]
  BY ProgressFields
<1>3. progress'.steps[wf.label[m]] = progress.steps[wf.label[m]]
  BY <1>1, <1>2 DEF Updates
<1> QED BY <1>3 DEF Step

LEMMA OwnStep ==
  ASSUME TypeOK, wf' = wf, NEW n \in NodeSet(wf), NEW state, NEW current,
         Updates(n, state, current)
  PROVE  Step(n)' = state
<1>1. /\ wf.label[n] \in Labels
      /\ progress.steps \in [Labels -> StepStates]
  BY ProgressFields
<1>2. progress'.steps[wf.label[n]] = state
  BY <1>1 DEF Updates
<1> QED BY <1>2 DEF Step

LEMMA EnterShown ==
  ASSUME TypeOK, Unstruck, ShownInv, NEW n \in NodeIds, Enters(n)
  PROVE  ShownInv'
<1>1. /\ busy' = n /\ busy = None /\ n # None /\ wf' = wf
      /\ node_results' = node_results /\ n \in NodeSet(wf)
      /\ node_results[n] = NoResult
  BY EngineAssumption DEF Enters, EnterNode
<1>2. \/ Updates(n, "running", wf.label[n]) /\ struck' \in {struck, n}
      \/ UNCHANGED progress /\ struck' = n /\ struck = None
  BY StartedUpdates DEF Enters, EnterNode, Losses, Strikes, Raised, Unraised,
                        Unstruck
<1>4. CurrentShown'
  <2>1. CASE Updates(n, "running", wf.label[n])
    BY <1>1, <2>1 DEF Updates, CurrentShown
  <2>2. CASE UNCHANGED progress /\ struck' = n /\ struck = None
    BY <1>1, <2>2 DEF ShownInv, CurrentShown
  <2> QED BY <1>2, <2>1, <2>2
<1>5. \A m \in NodeSet(wf) : UniqueLabel(m)' <=> UniqueLabel(m)
  BY <1>1 DEF UniqueLabel
<1>6. struck # None => struck' = struck
  BY DEF Enters, EnterNode, Strikes, Raised, Unraised, Unstruck
<1>7. ASSUME NEW m \in NodeSet(wf) \ {struck'}, UniqueLabel(m) PROVE Shown(m)'
  <2>1. CASE m = n
    <3>1. Step(m)' = "running"
      BY <1>1, <1>2, <1>7, <2>1, OwnStep
    <3> QED BY <1>1, <2>1, <3>1 DEF Shown, NoResult
  <2>2. CASE m # n
    <3>1. m # struck /\ m # None
      BY <1>6, <1>7, ProgressFields
    <3>2. Shown(m)
      BY <1>7, <3>1 DEF ShownInv
    <3>3. Step(m)' = Step(m)
      BY <1>1, <1>2, <1>7, <2>2, OtherStep DEF Step
    <3> QED BY <1>1, <2>2, <3>1, <3>2, <3>3 DEF Shown
  <2> QED BY <2>1, <2>2
<1> QED BY <1>1, <1>4, <1>5, <1>7 DEF ShownInv

LEMMA LeaveShown ==
  ASSUME TypeOK, TraversalInv, ShownInv, struck' = struck \/ struck = None,
         NEW r \in Outcome, Leaves(r)
  PROVE  ShownInv'
<1>1. PICK n \in NodeIds : n = busy
  BY LeaveResults
<1>2. /\ busy' = None /\ wf' = wf /\ n # None
      /\ node_results'[n] = r /\ r # NoResult
      /\ r.status \in {"success", "failure"}
      /\ \A m \in NodeIds : m # n => node_results'[m] = node_results[m]
  BY <1>1, LeaveResults
<1>3. n \in NodeSet(wf)
  BY <1>1 DEF TraversalInv, Justified
<1> DEFINE state == CASE Step(n) = "absent" -> "absent"
                      [] r.status = "success" -> "completed"
                      [] OTHER -> "failed"
<1>4. Updates(n, state, "") \/ (UNCHANGED progress /\ struck' = n)
  BY <1>1, EndedUpdates DEF Leaves
<1>5. CurrentShown'
  <2>1. CASE Updates(n, state, "")
    BY <1>2, <2>1 DEF Updates, CurrentShown
  <2>2. CASE UNCHANGED progress /\ struck' = n
    BY <1>1, <1>2, <2>2 DEF ShownInv, CurrentShown
  <2> QED BY <1>4, <2>1, <2>2
<1>6. \A m \in NodeSet(wf) : UniqueLabel(m)' <=> UniqueLabel(m)
  BY <1>2 DEF UniqueLabel
<1>7. ASSUME NEW m \in NodeSet(wf) \ {struck'}, UniqueLabel(m) PROVE Shown(m)'
  <2>1. m # struck /\ m # None /\ m \in NodeIds
    BY <1>7, ProgressFields
  <2>2. Shown(m)
    BY <1>7, <2>1 DEF ShownInv
  <2>3. CASE m = n
    <3>1. Step(n) = "running" /\ Updates(n, state, "")
      BY <1>1, <1>4, <1>7, <2>2, <2>3 DEF Shown
    <3>2. Step(n)' = state
      BY <1>2, <1>3, <3>1, OwnStep
    <3>3. state = IF r.status = "success" THEN "completed" ELSE "failed"
      BY <3>1
    <3> QED BY <1>2, <2>3, <3>2, <3>3 DEF Shown
  <2>4. CASE m # n
    <3>1. Step(m)' = Step(m)
      <4>1. CASE Updates(n, state, "")
        BY <1>2, <1>3, <1>7, <2>4, <4>1, OtherStep
      <4>2. CASE UNCHANGED progress
        BY <1>2, <4>2 DEF Step
      <4> QED BY <1>4, <4>1, <4>2
    <3> QED BY <1>1, <1>2, <2>1, <2>2, <2>4, <3>1 DEF Shown
  <2> QED BY <2>3, <2>4
<1> QED BY <1>2, <1>5, <1>6, <1>7 DEF ShownInv

\* An abort may cut off or spoil the step of the node that it has struck.
LEMMA AbortShown ==
  ASSUME TypeOK, TraversalInv, ShownInv, Aborts
  PROVE  ShownInv'
<1>1. /\ UNCHANGED <<wf, node_results>> /\ busy' = None /\ struck = None
      /\ busy \in {None, struck'}
  BY DEF Aborts
<1>2. busy # None => busy \in NodeSet(wf)
  BY DEF TraversalInv, Justified, TypeOK
<1>3. \/ UNCHANGED progress /\ struck' = busy
      \/ /\ struck' \in NodeSet(wf)
         /\ Updates(struck', "running", wf.label[struck'])
      \/ /\ struck' \in NodeSet(wf)
         /\ \E state : Updates(struck', state, "")
  <2>1. CASE UNCHANGED progress /\ struck' = busy
    BY <2>1
  <2>2. CASE struck' \in NodeSet(wf) /\ StepStarted(struck')
    BY <2>2 DEF StepStarted, Updates
  <2>3. CASE busy # None /\ \E r \in Outcome : StepEnded(busy, r)
    <3>1. \E state : Updates(busy, state, "")
      BY <2>3, EndedUpdates
    <3> QED BY <1>1, <1>2, <2>3, <3>1
  <2> QED BY <2>1, <2>2, <2>3 DEF Aborts
<1>4. CurrentShown'
  <2>1. progress.current_step = IF busy = None THEN "" ELSE wf.label[busy]
    BY <1>1 DEF ShownInv, CurrentShown
  <2>2. struck' \in NodeSet(wf) => struck' # None
    BY ProgressFields
  <2> QED BY <1>1, <1>3, <2>1, <2>2 DEF CurrentShown, Updates
<1>5. \A m \in NodeSet(wf) : UniqueLabel(m)' <=> UniqueLabel(m)
  BY <1>1 DEF UniqueLabel
<1>6. ASSUME NEW m \in NodeSet(wf) \ {struck'}, UniqueLabel(m) PROVE Shown(m)'
  <2>1. m # None /\ m # busy
    BY <1>1, <1>6, ProgressFields
  <2>2. Shown(m)
    BY <1>1, <1>6, <2>1 DEF ShownInv
  <2>3. Step(m)' = Step(m)
    <3>1. CASE UNCHANGED progress
      BY <1>1, <3>1 DEF Step
    <3>2. CASE /\ struck' \in NodeSet(wf)
               /\ \E state, current : Updates(struck', state, current)
      <4>1. PICK n \in NodeSet(wf) : n = struck'
        BY <3>2
      <4>2. PICK state, current : Updates(n, state, current)
        BY <3>2, <4>1
      <4> QED BY <1>1, <1>6, <4>1, <4>2, OtherStep
    <3> QED BY <1>3, <3>1, <3>2
  <2> QED BY <1>1, <2>1, <2>2, <2>3 DEF Shown
<1> QED BY <1>1, <1>4, <1>5, <1>6 DEF ShownInv

LEMMA NextShown ==
  ASSUME TypeOK, TraversalInv, Unstruck, ShownInv, [EngineNext]_engineVars
  PROVE  ShownInv'
<1>1. CASE Rests \/ Turns
  <2>1. UNCHANGED <<wf, busy, node_results, struck, progress>>
    BY <1>1 DEF Rests, Turns, Kept
  <2> QED BY <2>1 DEF ShownInv, CurrentShown, Shown, Step, UniqueLabel
<1>2. CASE Waits
  <2>1. UNCHANGED <<wf, busy, node_results, struck>>
    BY <1>2 DEF Waits, Kept
  <2>2. progress' = [progress EXCEPT !.percent = Percent]
    BY <1>2 DEF Waits
  <2>3. /\ progress'.steps = progress.steps
        /\ progress'.current_step = progress.current_step
    BY <2>2, ProgressFields
  <2> QED BY <2>1, <2>3 DEF ShownInv, CurrentShown, Shown, Step, UniqueLabel
<1>3. struck' = struck \/ struck = None
  BY NextUnstruck
<1> QED BY <1>1, <1>2, <1>3, Steps, EnterShown, LeaveShown, AbortShown

\* What a user sees of the run agrees with the engine at every step, but for
\* the node that the soft time limit has struck, for every graph
\* (update_progress as _execute_single_node calls it).
THEOREM ProgressShown == EngineSpec => []ProgressAgrees
<1>1. ASSUME EngineInit PROVE ShownInv
  <2>1. TypeOK
    BY <1>1, InitType
  <2>2. /\ progress.current_step = "" /\ busy = None
        /\ \A n \in NodeIds : node_results[n] = NoResult
        /\ \A l \in Labels : progress.steps[l] = "absent"
    BY <1>1 DEF EngineInit, NoResults
  <2>3. NodeSet(wf) \subseteq NodeIds
    BY <2>1, ProgressFields
  <2>4. NoResult.status # "success" /\ NoResult.status # "failure"
    BY DEF NoResult
  <2>5. ASSUME NEW n \in NodeSet(wf) PROVE Shown(n)
    <3>1. /\ n # None /\ node_results[n] = NoResult
          /\ Step(n) = "absent"
      BY <2>1, <2>2, <2>3, ProgressFields DEF Step
    <3> QED BY <2>2, <2>4, <3>1 DEF Shown
  <2> QED BY <2>2, <2>5 DEF ShownInv, CurrentShown
<1>2. ASSUME TypeOK, TraversalInv, ShownInv PROVE ProgressAgrees
  <2>1. ASSUME NEW n \in NodeSet(wf) \ {struck}, UniqueLabel(n)
        PROVE  Step(n) = CASE busy = n -> "running"
                  [] node_results[n].status = "success" -> "completed"
                  [] node_results[n].status = "failure" -> "failed"
                  [] OTHER -> "absent"
    <3>1. Shown(n)
      BY <1>2, <2>1 DEF ShownInv
    <3>2. n \in NodeIds /\ n # None
      BY <1>2, ProgressFields
    <3>3. busy = n => node_results[n] = NoResult
      BY <1>2, <3>2 DEF TraversalInv, StackInv
    <3>4. node_results[n] \in Outcome \cup {NoResult}
      BY <1>2, <3>2 DEF TypeOK, ResultMap
    <3>5. \/ node_results[n].status \in {"success", "failure"}
          \/ node_results[n] = NoResult
      BY <3>4 DEF Outcome
    <3> QED BY <3>1, <3>3, <3>5 DEF Shown, NoResult
  <2> QED BY <1>2, <2>1 DEF ProgressAgrees, ShownInv, CurrentShown, Step
<1> QED BY <1>1, <1>2, TypeCorrect, TraversalCorrect, AlwaysUnstruck,
           NextShown, PTL DEF EngineSpec
-----------------------------------------------------------------------------
\* The percentage stored is that of an earlier moment, so of fewer nodes.
Succeeding == {n \in Executed(node_results) :
                 node_results[n].status = "success"}

Behind == progress.percent <= Percent

LEMMA Portion ==
  ASSUME NEW a \in Nat, NEW b \in Nat, a <= b, NEW n \in Nat, n > 0
  PROVE  (100 * a) \div n <= (100 * b) \div n
<1>1. 100 * a \in Nat /\ 100 * b \in Nat /\ 100 * a <= 100 * b
  OBVIOUS
<1>2. ASSUME NEW c \in Nat, NEW d \in Nat, c <= d PROVE c \div n <= d \div n
  BY <1>2, SMTT(20)
<1> QED BY <1>1, <1>2

LEMMA SucceedingFinite ==
  ASSUME TypeOK
  PROVE  IsFiniteSet(Succeeding) /\ Cardinality(Succeeding) \in Nat
<1>1. Succeeding \subseteq NodeIds
  BY DEF Succeeding, Executed
<1>2. IsFiniteSet(Succeeding)
  BY <1>1, FS_Subset, WorkflowAssumption
<1> QED BY <1>2, FS_CardinalityType

LEMMA PercentGrows ==
  ASSUME TypeOK, TypeOK', TraversalInv, NEW r \in Outcome, Leaves(r)
  PROVE  Percent <= Percent'
<1>1. /\ wf' = wf /\ node_results[busy] = NoResult
      /\ \A n \in NodeIds : n # busy => node_results'[n] = node_results[n]
  BY LeaveResults
<1>2. Succeeding \subseteq Succeeding'
  BY <1>1 DEF Succeeding, Executed
<1>3. IsFiniteSet(Succeeding') /\ Cardinality(Succeeding') \in Nat
  <2>1. Succeeding' \subseteq NodeIds
    BY DEF Succeeding, Executed
  <2>2. IsFiniteSet(Succeeding')
    BY <2>1, FS_Subset, WorkflowAssumption
  <2> QED BY <2>2, FS_CardinalityType
<1>4. PICK a \in Nat, b \in Nat :
        a = Cardinality(Succeeding) /\ b = Cardinality(Succeeding')
  BY <1>3, SucceedingFinite
<1>5. a <= b
  BY <1>2, <1>3, <1>4, FS_Subset
<1>6. PICK n \in Nat : n = Len(wf.nodes)
  <2>1. wf.nodes \in Seq(NodeIds)
    BY WorkflowFields DEF TypeOK
  <2> QED BY <2>1
<1> DEFINE p == IF n = 0 THEN 0 ELSE (100 * a) \div n
           q == IF n = 0 THEN 0 ELSE (100 * b) \div n
<1>7. p \in Int /\ q \in Int /\ p <= q
  <2>1. CASE n = 0
    BY <2>1
  <2>2. CASE n # 0
    <3>1. n > 0
      BY <2>2
    <3>2. (100 * a) \div n \in Int /\ (100 * b) \div n \in Int
      BY <3>1
    <3>3. (100 * a) \div n <= (100 * b) \div n
      BY <1>5, <3>1, Portion
    <3> QED BY <2>2, <3>2, <3>3
  <2> QED BY <2>1, <2>2
<1>8. Percent = IF p > 100 THEN 100 ELSE IF p < 0 THEN 0 ELSE p
  BY <1>4, <1>6 DEF Percent, Succeeding
<1>9. Percent' = IF q > 100 THEN 100 ELSE IF q < 0 THEN 0 ELSE q
  BY <1>1, <1>4, <1>6 DEF Percent, Succeeding
<1> HIDE DEF p, q
<1> QED BY <1>7, <1>8, <1>9

\* An update shows the percentage of its moment.
LEMMA UpdatePercent ==
  ASSUME TypeOK, NEW n,
         StepStarted(n) \/ \E r : StepEnded(n, r)
  PROVE  progress'.percent = Percent
<1>1. CASE StepStarted(n)
  BY <1>1 DEF StepStarted
<1>2. CASE \E r : StepEnded(n, r)
  <2>1. PICK r : StepEnded(n, r)
    BY <1>2
  <2> QED BY <2>1 DEF StepEnded
<1> QED BY <1>1, <1>2

LEMMA PercentLater ==
  ASSUME TypeOK'
  PROVE  Percent' \in Int
<1> DEFINE completed == {n \in Executed(node_results') :
                            node_results'[n].status = "success"}
<1>1. completed \subseteq NodeIds
  BY DEF Executed
<1>2. IsFiniteSet(completed)
  BY <1>1, FS_Subset, WorkflowAssumption
<1>3. Cardinality(completed) \in Nat
  BY <1>2, FS_CardinalityType
<1>4. wf'.nodes \in Seq(NodeIds)
  BY WorkflowFields DEF TypeOK
<1>5. Len(wf'.nodes) \in Nat
  BY <1>4
<1>6. PICK a \in Nat, n \in Nat : a = Cardinality(completed) /\ n = Len(wf'.nodes)
  BY <1>3, <1>5
<1>7. n # 0 => (100 * a) \div n \in Int
  OBVIOUS
<1> QED BY <1>6, <1>7 DEF Percent

LEMMA NextPercent ==
  ASSUME TypeOK, TypeOK', TraversalInv, Unstruck, Behind,
         [EngineNext]_engineVars
  PROVE  Behind' /\ progress'.percent >= progress.percent
<1>1. /\ Percent \in Int /\ progress.percent \in Int
      /\ progress.percent <= Percent
  <2>1. progress.percent \in 0 .. 100
    BY DEF TypeOK, Progress
  <2> QED BY <2>1, PercentType DEF Behind
<1>2. progress' = progress \/ progress'.percent = Percent
  <2>1. CASE Waits
    BY <2>1, ProgressFields DEF Waits
  <2>2. CASE Rests \/ Turns
    BY <2>2 DEF Rests, Turns
  <2>3. CASE Aborts
    BY <2>3, UpdatePercent DEF Aborts
  <2>4. ASSUME NEW n \in NodeIds, Enters(n)
        PROVE  progress' = progress \/ progress'.percent = Percent
    BY <2>4, UpdatePercent DEF Enters, EnterNode
  <2>5. ASSUME NEW r \in Outcome, Leaves(r)
        PROVE  progress' = progress \/ progress'.percent = Percent
    BY <2>5, UpdatePercent DEF Leaves
  <2> QED BY <2>1, <2>2, <2>3, <2>4, <2>5, Steps
<1>3. Percent' \in Int /\ Percent <= Percent'
  <2>2. ASSUME NEW r \in Outcome, Leaves(r) PROVE Percent <= Percent'
    BY <2>2, PercentGrows
  <2>3. Percent' \in Int
    BY PercentLater
  <2>4. (\E n \in NodeIds : Enters(n)) => UNCHANGED <<wf, node_results>>
    BY DEF Enters, EnterNode
  <2>5. Waits \/ Rests \/ Turns \/ Aborts => UNCHANGED <<wf, node_results>>
    BY DEF Waits, Rests, Turns, Aborts, Kept
  <2>6. UNCHANGED <<wf, node_results>> \/ \E r \in Outcome : Leaves(r)
    BY <2>4, <2>5, Steps
  <2>7. UNCHANGED <<wf, node_results>> => Percent <= Percent'
    BY <1>1 DEF Percent
  <2> QED BY <2>2, <2>3, <2>6, <2>7
<1> QED BY <1>1, <1>2, <1>3 DEF Behind

\* The percentage shown never goes back, for every workflow
\* (_update_execution_progress computes it anew before each update).
THEOREM PercentNeverBack == EngineSpec => PercentMonotone
<1>1. ASSUME EngineInit PROVE Behind
  <2>1. Percent \in 0 .. 100 /\ progress.percent = 0
    BY <1>1, InitType, PercentType DEF EngineInit
  <2> QED BY <2>1 DEF Behind
<1>2. TypeOK /\ TypeOK' /\ TraversalInv /\ Unstruck /\ Behind
       /\ [EngineNext]_engineVars
        => Behind'
  BY NextPercent
<1>3. TypeOK /\ TypeOK' /\ TraversalInv /\ Unstruck /\ Behind
       /\ [EngineNext]_engineVars
        => [progress'.percent >= progress.percent]_engineVars
  BY NextPercent
<1> QED BY <1>1, <1>2, <1>3, TypeCorrect, TraversalCorrect, AlwaysUnstruck, PTL
        DEF EngineSpec, PercentMonotone
=============================================================================
