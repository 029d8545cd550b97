--------------------------- MODULE WorkflowEngine ---------------------------
(***************************************************************************)
(* WorkflowEngine.execute and the methods it calls: the depth-first        *)
(* traversal of a workflow, run by one Celery task.  The recursion of      *)
(* _execute_node_chain is the stack `calls`; a frame's loop variable is    *)
(* cursor[n].  Two tables are written on the way: the execution row's      *)
(* progress and job_audit_events.  Celery's soft time limit raises an      *)
(* exception once, at whatever point the task has reached: where it is     *)
(* raised decides what is left of the node, its result and its two writes. *)
(***************************************************************************)
EXTENDS WorkflowGraph

CONSTANTS
  None,      \* no node
  MaxPolls   \* polls of a chord before its timeout (timeout / poll_interval)

ASSUME EngineAssumption == None \notin NodeIds /\ MaxPolls \in Nat

VARIABLES
  wf,            \* the workflow, parsed
  phase,         \* "called", "running", "done" (execute returned), "aborted"
  nextStart,     \* position in nodes of the loop over start_nodes
  calls,         \* stack of active _execute_node_chain calls
  cursor,        \* cursor[n]: next edge that n's loop over outgoing[n] looks at
  busy,          \* the node inside _execute_single_node, or None
  polls,         \* -1, or the polls done by _wait_for_chord_completion
  node_results,  \* context.node_results
  recorded,      \* its keys in insertion order
  status,        \* status of the returned result, "pending" before
  softLimit,     \* SoftTimeLimitExceeded has been raised
  struck,        \* history: the node of which it has cost, doubled or cut
                 \* off something that is written down, or None
  audit,         \* job_audit_events rows of this task
  progress       \* progress column of the execution row

engineVars == <<wf, phase, nextStart, calls, cursor, busy, polls,
                node_results, recorded, status, softLimit, struck, audit,
                progress>>
-----------------------------------------------------------------------------
AuditEvent == [event : {"job_started", "job_completed", "action_started",
                        "action_completed"},
               node : NodeIds \cup {None}, index : Int, success : BOOLEAN]

StepStates == {"absent", "running", "completed", "failed"}
Progress   == [percent : 0 .. 100, current_step : Labels \cup {""},
               steps : [Labels -> StepStates]]

JobEvent(type, ok)          == [event |-> type, node |-> None,
                                index |-> -1, success |-> ok]
ActionEvent(type, n, i, ok) == [event |-> type, node |-> n,
                                index |-> i, success |-> ok]

\* Mutant: percentage of the nodes run so far.
PercentOfExecuted ==
  LET done == Executed(node_results)
      ok   == {n \in done : node_results[n].status = "success"}
  IN  IF done = {} THEN 0 ELSE (100 * Cardinality(ok)) \div Cardinality(done)

\* Percent of the nodes already recorded as successful; update_progress
\* clamps what it is given.
Percent ==
  LET completed == {n \in Executed(node_results) :
                      node_results[n].status = "success"}
      p == IF Len(wf.nodes) = 0 THEN 0
           ELSE (100 * Cardinality(completed)) \div Len(wf.nodes)
  IN  IF p > 100 THEN 100 ELSE IF p < 0 THEN 0 ELSE p

\* update_progress finds the step by its name, the node's label; it creates
\* it on 'started' only, and 'running' touches no step.
StepStarted(n) ==
  progress' = [percent |-> Percent, current_step |-> wf.label[n],
               steps |-> [progress.steps EXCEPT ![wf.label[n]] = "running"]]

\* Mutant: the step keeps being the current one.
StepEndedKeepsCurrent(n, r) ==
  progress' = [progress EXCEPT !.percent = Percent,
                 !.steps[wf.label[n]] = IF r.status = "success"
                                        THEN "completed" ELSE "failed"]

StepEnded(n, r) ==
  progress' = [percent |-> Percent, current_step |-> "",
               steps |-> [progress.steps EXCEPT ![wf.label[n]] =
                            CASE @ = "absent" -> @
                              [] r.status = "success" -> "completed"
                              [] OTHER -> "failed"]]

\* What an executor of a node of this type may return, or raise.
Outcomes(type) ==
  CASE type \in {"pass", "switch", "loop", "merge"} -> {Succeeded}
    [] type \in {"action", "discovery"} -> {Succeeded, Failed}
    [] type = "if_data" ->
         {Failed} \cup [status : {"success"}, condition : BOOLEAN]
    [] type = "if_all_success" ->
         {[status |-> "success", condition |-> FailedIn(node_results) = {}]}
    [] type = "if_any_failure" ->
         {[status |-> "success", condition |-> FailedIn(node_results) # {}]}

EngineInit ==
  /\ wf \in Workflows
  /\ nextStart = 1
  /\ calls = <<>>
  /\ cursor = [n \in NodeIds |-> 1]
  /\ busy = None
  /\ polls = -1
  /\ node_results = NoResults
  /\ recorded = <<>>
  /\ phase = "called"
  /\ status = "pending"
  /\ softLimit = FALSE
  /\ struck = None
  /\ audit = <<>>
  /\ progress = [percent |-> 0, current_step |-> "",
                 steps |-> [l \in Labels |-> "absent"]]

Unraised == UNCHANGED <<softLimit, struck>>

\* The soft time limit is raised, to the cost of node n if that is not None.
Raised(n) == ~ softLimit /\ softLimit' = TRUE /\ struck' = n

\* A progress or audit write catches whatever is raised in it: a soft time
\* limit that strikes there before the commit loses that write and no more.
Losses == {"nothing", "progress", "audit"}

Strikes(lost, n) == IF lost = "nothing" THEN Unraised ELSE Raised(n)

\* execute() up to its loop: the audit event, the adjacency lists and the
\* start nodes; without a start node it returns at once.
StartExecution ==
  /\ phase = "called"
  /\ \E lost \in {"nothing", "audit"} :
       /\ Strikes(lost, None)
       /\ audit' = IF lost = "audit" THEN <<>>
                   ELSE <<JobEvent("job_started", TRUE)>>
  /\ IF HasStart(wf) THEN phase' = "running" /\ status' = status
                     ELSE phase' = "done" /\ status' = "failure"
  /\ UNCHANGED <<wf, nextStart, calls, cursor, busy, polls, node_results,
                 recorded, progress>>

\* _execute_node_chain(n) down to the call of the executor: the frame is
\* pushed, progress and audit say "started" with index len(node_results).
EnterNode(n) ==
  /\ calls' = Append(calls, n)
  /\ busy' = n
  /\ \E lost \in Losses :
       /\ Strikes(lost, n)
       /\ IF lost = "progress" THEN UNCHANGED progress ELSE StepStarted(n)
       /\ IF lost = "audit" THEN UNCHANGED audit
          ELSE audit' = Append(audit, ActionEvent("action_started", n,
                                                  Len(recorded), TRUE))
  /\ UNCHANGED <<wf, phase, polls, node_results, recorded, status>>

AtStart(i) == /\ i \in DOMAIN wf.nodes
              /\ IsStart(wf, wf.nodes[i])
              /\ node_results[wf.nodes[i]] = NoResult

\* The next start node that has not run yet is nodes[i].
NextStart(i) == /\ phase = "running" /\ calls = <<>>
                /\ i >= nextStart /\ AtStart(i)
                /\ \A j \in nextStart .. (i - 1) : ~ AtStart(j)

CallStart ==
  /\ \E i \in DOMAIN wf.nodes : /\ NextStart(i)
                                /\ nextStart' = i + 1
                                /\ EnterNode(wf.nodes[i])
  /\ UNCHANGED cursor

Top == calls[Len(calls)]

\* Mutants: without the test of node_results; without the test of the handle.
CallsAgain(i) == Follows(wf, node_results, i) /\ wf.edges[i].source = Top

CallsAnyHandle(i) == /\ Linked(wf, i)
                     /\ wf.edges[i].source = Top
                     /\ node_results[wf.edges[i].target] = NoResult

\* Edge i of the frame on top is followed and its target has not run yet.
Calls(i) == /\ Follows(wf, node_results, i)
            /\ wf.edges[i].source = Top
            /\ node_results[wf.edges[i].target] = NoResult

InLoop == phase = "running" /\ calls # <<>> /\ busy = None

NextEdge(i) == /\ InLoop
               /\ i >= cursor[Top] /\ Calls(i)
               /\ \A j \in cursor[Top] .. (i - 1) : ~ Calls(j)

CallSuccessor ==
  /\ \E i \in DOMAIN wf.edges : /\ NextEdge(i)
                                /\ cursor' = [cursor EXCEPT ![Top] = i + 1]
                                /\ EnterNode(wf.edges[i].target)
  /\ UNCHANGED nextStart

\* Mutant: the loop stops at the first edge it does not follow.
ReturnAtFirstSkip ==
  /\ InLoop
  /\ cursor[Top] \in DOMAIN wf.edges => ~ Calls(cursor[Top])
  /\ calls' = SubSeq(calls, 1, Len(calls) - 1)
  /\ UNCHANGED <<wf, phase, nextStart, cursor, busy, polls, node_results,
                 recorded, status, softLimit, struck, audit, progress>>

ReturnFromChain ==
  /\ InLoop
  /\ \A i \in DOMAIN wf.edges : i >= cursor[Top] => ~ Calls(i)
  /\ calls' = SubSeq(calls, 1, Len(calls) - 1)
  /\ UNCHANGED <<wf, phase, nextStart, cursor, busy, polls, node_results,
                 recorded, status, softLimit, struck, audit, progress>>
-----------------------------------------------------------------------------
Completed(r) == ActionEvent("action_completed", busy, Len(recorded),
                            r.status = "success")

\* _execute_node_chain records the result of the node.
Record(r) ==
  /\ busy' = None
  /\ polls' = -1
  /\ node_results' = [node_results EXCEPT ![busy] = r]
  /\ recorded' = Append(recorded, busy)
  /\ UNCHANGED <<wf, phase, nextStart, calls, cursor, status>>

\* Mutant: the index of the second event is read after the result is recorded.
LeaveNodeThenCount(r) ==
  /\ StepEnded(busy, r)
  /\ audit' = Append(audit, [Completed(r) EXCEPT !.index = @ + 1])
  /\ Unraised
  /\ Record(r)

\* _execute_single_node ends with the step's progress and the second audit
\* event.
LeaveNode(r) ==
  /\ \E lost \in Losses :
       /\ Strikes(lost, busy)
       /\ IF lost = "progress" THEN UNCHANGED progress
                               ELSE StepEnded(busy, r)
       /\ IF lost = "audit" THEN UNCHANGED audit
                            ELSE audit' = Append(audit, Completed(r))
  /\ Record(r)

InNode == phase = "running" /\ busy # None

\* What the executor may return at this moment: a chord's answer can come
\* until the timeout, which is a failure.
Answers == CASE polls = -1       -> Outcomes(wf.type[busy])
             [] polls = MaxPolls -> {Failed}
             [] OTHER            -> {Succeeded, Failed}

ExecutorReturns == InNode /\ \E r \in Answers : LeaveNode(r)

\* _wait_for_chord_completion: the first progress update, then a poll every
\* two seconds until the callback task is ready or MaxPolls polls are done.
WaitStep(p) ==
  /\ polls' = p
  /\ \E lost \in {"nothing", "progress"} :
       /\ Strikes(lost, None)
       /\ progress' = IF lost = "progress" THEN progress
                      ELSE [progress EXCEPT !.percent = Percent]
  /\ UNCHANGED <<wf, phase, nextStart, calls, cursor, busy, node_results,
                 recorded, status, audit>>

DispatchChord == /\ InNode /\ polls = -1 /\ wf.type[busy] = "discovery"
                 /\ WaitStep(0)

\* Mutants: no timeout; every progress update restarts it.
PollForever == InNode /\ polls >= 0 /\ WaitStep(polls + 1)

PollRestarts == /\ InNode /\ polls >= 0
                /\ WaitStep((polls + 1) % MaxPolls)

PollChord == /\ InNode /\ polls >= 0 /\ polls < MaxPolls
             /\ WaitStep(polls + 1)
-----------------------------------------------------------------------------
\* The exception is caught by _execute_single_node: the node failed, the
\* workflow goes on.
SoftLimitInNode ==
  /\ InNode
  /\ Raised(None)
  /\ StepEnded(busy, Failed)
  /\ audit' = Append(audit, Completed(Failed))
  /\ Record(Failed)

\* So it is when the node is done and both writes are made, as long as the
\* return has not been reached: the node fails after all, and says so again.
SoftLimitAfterEvent ==
  /\ InNode
  /\ Raised(busy)
  /\ StepEnded(busy, Failed)
  /\ \E r \in Answers : audit' = audit \o <<Completed(r), Completed(Failed)>>
  /\ Record(Failed)

\* It is raised in a progress or audit write that has been committed.
SoftLimitSwallowed ==
  /\ phase \in {"called", "running"}
  /\ Raised(None)
  /\ UNCHANGED <<wf, phase, nextStart, calls, cursor, busy, polls,
                 node_results, recorded, status, audit, progress>>

Abort == /\ phase' = "aborted"
         /\ status' = "failure"
         /\ calls' = <<>>
         /\ busy' = None
         /\ polls' = -1
         /\ UNCHANGED <<wf, nextStart, cursor, node_results, recorded>>

\* It is raised outside the try of _execute_single_node and unwinds to
\* execute(), which reports failure: in the loops or before the try, between
\* the two writes at the start of a node or the two of its except clause, or
\* after the return, when the result has not been recorded.
SoftLimitEscapes ==
  /\ phase = "running"
  /\ \/ /\ Raised(busy)
        /\ UNCHANGED progress
        /\ audit' = Append(audit, JobEvent("job_completed", FALSE))
     \/ /\ \E n \in NodeIds :
             /\ \/ \E i \in DOMAIN wf.nodes : NextStart(i) /\ wf.nodes[i] = n
                \/ \E i \in DOMAIN wf.edges :
                     NextEdge(i) /\ wf.edges[i].target = n
             /\ Raised(n)
             /\ StepStarted(n)
        /\ audit' = Append(audit, JobEvent("job_completed", FALSE))
     \/ /\ busy # None /\ Failed \in Answers
        /\ Raised(busy)
        /\ StepEnded(busy, Failed)
        /\ audit' = Append(audit, JobEvent("job_completed", FALSE))
     \/ /\ busy # None
        /\ Raised(busy)
        /\ \E r \in Answers :
             /\ StepEnded(busy, r)
             /\ audit' = audit \o <<Completed(r),
                                    JobEvent("job_completed", FALSE)>>
  /\ Abort

AllStarted == /\ phase = "running" /\ calls = <<>>
              /\ \A i \in DOMAIN wf.nodes : i >= nextStart => ~ AtStart(i)

Verdict == IF FailedIn(node_results) = {} THEN "success" ELSE "failure"

\* Mutants: the last result decides; only the first start node is tried.
CompleteByLast ==
  /\ AllStarted
  /\ phase' = "done"
  /\ status' = node_results[recorded[Len(recorded)]].status
  /\ audit' = Append(audit, JobEvent("job_completed", status' = "success"))
  /\ Unraised
  /\ UNCHANGED <<wf, nextStart, calls, cursor, busy, polls, node_results,
                 recorded, progress>>

CompleteAfterFirst ==
  /\ phase = "running" /\ calls = <<>> /\ recorded # <<>>
  /\ phase' = "done"
  /\ status' = Verdict
  /\ audit' = Append(audit, JobEvent("job_completed", Verdict = "success"))
  /\ Unraised
  /\ UNCHANGED <<wf, nextStart, calls, cursor, busy, polls, node_results,
                 recorded, progress>>

\* Every start node has been tried: the overall status and its audit event.
Complete ==
  /\ AllStarted
  /\ phase' = "done"
  /\ status' = Verdict
  /\ \E lost \in {"nothing", "audit"} :
       /\ Strikes(lost, None)
       /\ audit' = IF lost = "audit" THEN audit
                   ELSE Append(audit, JobEvent("job_completed",
                                               Verdict = "success"))
  /\ UNCHANGED <<wf, nextStart, calls, cursor, busy, polls, node_results,
                 recorded, progress>>

\* It is raised before the try of execute() or behind it, and leaves
\* execute(): run_workflow records the failure.
SoftLimitUncaught ==
  /\ \/ /\ phase = "called"
        /\ audit' \in {<<>>, <<JobEvent("job_started", TRUE)>>}
     \/ /\ AllStarted
        /\ audit' \in {audit, Append(audit, JobEvent("job_completed",
                                                    Verdict = "success"))}
  /\ Raised(None)
  /\ UNCHANGED progress
  /\ Abort

SoftLimit == \/ SoftLimitInNode \/ SoftLimitAfterEvent \/ SoftLimitSwallowed
             \/ SoftLimitEscapes \/ SoftLimitUncaught

EngineStep == \/ StartExecution \/ CallStart \/ CallSuccessor \/ ReturnFromChain
              \/ ExecutorReturns \/ DispatchChord \/ PollChord \/ Complete

EngineNext == EngineStep \/ SoftLimit

EngineSpec == EngineInit /\ [][EngineNext]_engineVars

\* The traversal is straight-line code in one thread and every executor has
\* its own timeout: as long as the worker lives, its next step is taken.
FairEngineSpec == EngineSpec /\ WF_engineVars(EngineStep)
-----------------------------------------------------------------------------
\* The variables keep their types.
TypeOK ==
  /\ wf \in WorkflowType
  /\ phase \in {"called", "running", "done", "aborted"}
  /\ nextStart \in Nat
  /\ calls \in Seq(NodeIds)
  /\ cursor \in [NodeIds -> Nat]
  /\ busy \in NodeIds \cup {None}
  /\ polls \in -1 .. MaxPolls
  /\ node_results \in ResultMap
  /\ recorded \in Seq(NodeIds)
  /\ status \in {"pending", "success", "failure"}
  /\ softLimit \in BOOLEAN
  /\ struck \in NodeIds \cup {None}
  /\ audit \in Seq(AuditEvent)
  /\ progress \in Progress

Started(i) == audit[i].event = "action_started"
Ended(i)   == audit[i].event = "action_completed"

\* No node is executed twice in one execution, whatever cycles and joins the
\* graph has: its executor's side effects (devices created, notifications
\* sent) happen once.
AtMostOnce ==
  \A i, j \in DOMAIN audit :
    Started(i) /\ Started(j) /\ audit[i].node = audit[j].node => i = j

NodeEvent(i)   == Started(i) \/ Ended(i)
SameNode(i, j) == audit[i].index = audit[j].index

\* Event i belongs to the node with its index in the results.
Numbered(i) ==
  LET k == audit[i].index
  IN  \/ k \in 0 .. (Len(recorded) - 1) /\ recorded[k + 1] = audit[i].node
      \/ k = Len(recorded) /\ (busy = audit[i].node \/ phase = "aborted")

Ordered(i) == \A j \in DOMAIN audit :
                j > i /\ NodeEvent(j) => audit[i].index <= audit[j].index

\* Event i is one of a start and the completion that follows at once, or the
\* start of the node that is being executed.
Paired(i) ==
  /\ Started(i) => \/ i < Len(audit) /\ Ended(i + 1) /\ SameNode(i, i + 1)
                   \/ i = Len(audit) /\ busy = audit[i].node
  /\ Ended(i) => i > 1 /\ Started(i - 1) /\ SameNode(i - 1, i)

\* The last completion of a node says what was recorded of it.
Truthful(i) ==
  LET result == node_results[audit[i].node]
  IN  /\ Ended(i) /\ result # NoResult
      /\ \A j \in DOMAIN audit : j > i /\ Ended(j) => ~ SameNode(i, j)
      => audit[i].success = (result.status = "success")

\* The audit trail of the traversal is well nested and numbered, although the
\* index is computed before the executor runs and the result is recorded
\* after the second event: an event's index is its node's place in the
\* results, the indices never go back, and a start is followed by its
\* completion.  Only the node that the soft time limit has struck can lack an
\* event, or have a second completion; but what the last completion of a
\* node says, of that one too, is the result that was recorded.
AuditBracketed ==
  \A i \in DOMAIN audit : NodeEvent(i) =>
    /\ Numbered(i) /\ Ordered(i) /\ Truthful(i)
    /\ audit[i].node # struck => Paired(i)

Position(n) == CHOOSE k \in DOMAIN recorded : recorded[k] = n

\* A node runs only because it is a start node or because a node recorded
\* before it selected, by its own result, an edge to it.
Causal ==
  \A n \in Executed(node_results) \cup ({busy} \ {None}) :
    \/ IsStart(wf, n)
    \/ \E i \in DOMAIN wf.edges :
         /\ Follows(wf, node_results, i)
         /\ wf.edges[i].target = n
         /\ n = busy \/ Position(wf.edges[i].source) < Position(n)

\* When execute() returns normally nothing that was due is left undone: every
\* start node has run, and so has the target of every selected edge, also
\* when the target was being skipped or executed deeper in the recursion.
ClosedWhenDone ==
  phase = "done" /\ HasStart(wf) =>
    /\ \A n \in NodeSet(wf) : IsStart(wf, n) => node_results[n] # NoResult
    /\ \A i \in DOMAIN wf.edges :
         Follows(wf, node_results, i) =>
           node_results[wf.edges[i].target] # NoResult

\* What a user sees while polling progress agrees with the engine: the
\* current step is the node being executed, and a step whose label is unique
\* shows its node's state.  The one node that the soft time limit has struck,
\* in an update or when it cut the run short, can be shown wrong, for good.
UniqueLabel(n) == \A m \in NodeSet(wf) : wf.label[m] = wf.label[n] => m = n

ProgressAgrees ==
  /\ \/ progress.current_step = IF busy = None THEN "" ELSE wf.label[busy]
     \/ /\ struck # None /\ busy \in {None, struck}
        /\ progress.current_step \in {"", wf.label[struck]}
  /\ \A n \in NodeSet(wf) \ {struck} : UniqueLabel(n) =>
       progress.steps[wf.label[n]] =
         CASE busy = n -> "running"
           [] node_results[n].status = "success" -> "completed"
           [] node_results[n].status = "failure" -> "failed"
           [] OTHER -> "absent"

\* The percentage shown never goes back.
PercentMonotone == [][progress'.percent >= progress.percent]_engineVars

\* The state of the recursion: the node being executed is the innermost
\* call and has no result yet, the callers below it have, and no call of a
\* node is nested in another call of it.
StackInv ==
  /\ phase # "running" => calls = <<>> /\ busy = None
  /\ busy # None =>
       calls # <<>> /\ busy = Top /\ node_results[busy] = NoResult
  /\ \A k \in DOMAIN calls :
       calls[k] # busy => node_results[calls[k]] # NoResult
  /\ \A j, k \in DOMAIN calls : calls[j] = calls[k] => j = k
  /\ \A n \in NodeIds : node_results[n] = NoResult => cursor[n] = 1

\* Only nodes of the workflow run, each with a reason.
Justified ==
  \A n \in NodeIds : node_results[n] # NoResult \/ n = busy =>
    /\ n \in NodeSet(wf)
    /\ \/ IsStart(wf, n)
       \/ \E i \in DOMAIN wf.edges : /\ Follows(wf, node_results, i)
                                     /\ wf.edges[i].target = n

\* What the loops have passed is done or being done: a selected edge of a
\* node whose call has returned, or before the cursor of an active call.
OnStack(n) == \E k \in DOMAIN calls : calls[k] = n

Reached(n) == node_results[n] # NoResult \/ n = busy

LoopsInv ==
  phase \in {"called", "running"} =>
    /\ \A i \in DOMAIN wf.nodes :
         i < nextStart /\ IsStart(wf, wf.nodes[i]) => Reached(wf.nodes[i])
    /\ \A i \in DOMAIN wf.edges :
         /\ Follows(wf, node_results, i)
         /\ OnStack(wf.edges[i].source) => i < cursor[wf.edges[i].source]
         => Reached(wf.edges[i].target)

VerdictInv == /\ phase \in {"called", "running"} <=> status = "pending"
              /\ phase = "running" => HasStart(wf)

\* The inductive invariant behind Causal, ClosedWhenDone and ImplementsRun.
TraversalInv ==
  StackInv /\ Justified /\ LoopsInv /\ VerdictInv /\ ClosedWhenDone

\* Whatever the graph (cycles, joins, self-loops) and whatever the executors
\* answer, execute() returns.
Terminates == <>(phase \in {"done", "aborted"})

\* The traversal implements the order-free promise of WorkflowRun.
Run == INSTANCE WorkflowRun WITH results <- node_results, verdict <- status
ImplementsRun == Run!RunSpec

\* job_audit_events is there to "track every event in job execution": a
\* finished execution has a job_completed event.
EveryRunAudited ==
  phase \in {"done", "aborted"} => audit[Len(audit)].event = "job_completed"

\* percent is "calculated on completed nodes": when every node of the
\* workflow has completed successfully it says so.
PercentReachesFull ==
  phase = "done" /\ FailedIn(node_results) = {}
    /\ Executed(node_results) = NodeSet(wf) /\ NodeSet(wf) # {}
      => progress.percent = 100

\* A merge node runs after all the incoming nodes whose outputs it is to
\* "collect": each that selects an edge to it in this run precedes it.
MergeSeesAllInputs ==
  phase = "done" =>
    \A i \in DOMAIN wf.edges :
      Follows(wf, node_results, i) /\ wf.type[wf.edges[i].target] = "merge"
        => Position(wf.edges[i].source) <= Position(wf.edges[i].target)
=============================================================================
