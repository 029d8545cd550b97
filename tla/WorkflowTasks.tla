---------------------------- MODULE WorkflowTasks ----------------------------
(***************************************************************************)
(* The Celery tasks of workflows: opsconductor.workflow.run executes a     *)
(* workflow; a discovery node in it splits its hosts into chunks, sends    *)
(* one scan_chunk task for each and waits for aggregate_and_sync, which    *)
(* Celery sends when all of them are done.  All these tasks share a queue  *)
(* and its few worker processes, the waiting one among them.  Messages are *)
(* acknowledged at the end (task_acks_late), so that the task of a lost    *)
(* process runs again: also the one whose result is stored already, and    *)
(* that a chord has counted.  The rows of scheduler_job_executions are     *)
(* found by the task id, of which a redelivered task inserts a second row. *)
(***************************************************************************)
EXTENDS Naturals, SequencesExt

CONSTANTS
  Workflows,  \* the messages workflow.run, by their task id
  Slots,      \* the processes of the worker
  Chunks,     \* how many chunks a discovery may be split into
  MaxChords,  \* bound: discoveries that are dispatched
  MaxFaults   \* bound: lost processes, time limits, failing statements

VARIABLES
  queue,   \* messages that no process has taken
  slot,    \* what each process executes
  rows,    \* by task id, the rows of scheduler_job_executions
  chords,  \* the discoveries that were dispatched, in their order
  lost,    \* history: tasks that ended without the final update of their rows
  faults

tasksVars == <<queue, slot, rows, chords, lost, faults>>

ASSUME TasksAssumption ==
  /\ IsFiniteSet(Workflows) /\ Chunks \subseteq Nat \ {0}
  /\ MaxChords \in Nat /\ MaxFaults \in Nat

\* A message names its workflow; those of a chord also the chord.
Run(w)     == [task |-> "run", id |-> w, chord |-> 0]
Scan(w, c) == [task |-> "scan", id |-> w, chord |-> c]
Sync(w, c) == [task |-> "sync", id |-> w, chord |-> c]

None == "none"
Idle == [at |-> "idle", msg |-> None, chord |-> 0]
Row(status, result) == [status |-> status, result |-> result]

TasksInit ==
  /\ queue = SetToSeq({Run(w) : w \in Workflows})
  /\ slot = [s \in Slots |-> Idle]
  /\ rows = [w \in Workflows |-> <<>>]
  /\ chords = <<>> /\ lost = {} /\ faults = 0

At(s, at)       == slot[s].at = at
Goes(s, at)     == slot' = [slot EXCEPT ![s].at = at]
Acknowledges(s) == slot' = [slot EXCEPT ![s] = Idle]
Id(s)           == slot[s].msg.id
IsRun(s)        == slot[s].at # "idle" /\ slot[s].msg.task = "run"

\* update_execution: every row of the task id; no result leaves what is there.
UpdateExecution(w, status, result) ==
  rows' = [rows EXCEPT ![w] = [i \in DOMAIN @ |->
             Row(status, IF result = None THEN @[i].result ELSE result)]]
-----------------------------------------------------------------------------
\* A process takes the oldest message.
Take(s) ==
  /\ At(s, "idle") /\ queue # <<>>
  /\ queue' = Tail(queue)
  /\ slot' = [slot EXCEPT ![s] =
       [at |-> CASE Head(queue).task = "run" -> "create"
                 [] OTHER -> Head(queue).task,
        msg |-> Head(queue), chord |-> 0]]
  /\ UNCHANGED <<rows, chords, lost, faults>>

\* run_workflow: a new row, then the update to running.
CreateExecution(s) ==
  /\ At(s, "create")
  /\ rows' = [rows EXCEPT ![Id(s)] = Append(@, Row("running", None))]
  /\ Goes(s, "start")
  /\ UNCHANGED <<queue, chords, lost, faults>>

StartExecution(s) ==
  /\ At(s, "start")
  /\ UpdateExecution(Id(s), "running", None)
  /\ Goes(s, "nodes")
  /\ UNCHANGED <<queue, chords, lost, faults>>

\* A discovery node with many hosts: _execute_with_chord.
Dispatch(s) ==
  /\ At(s, "nodes") /\ Len(chords) < MaxChords
  /\ LET c == Len(chords) + 1
     IN /\ \E n \in Chunks :
             /\ chords' = Append(chords,
                  [by |-> Id(s), size |-> n, left |-> n, answer |-> None,
                   taken |-> FALSE, again |-> FALSE])
             /\ queue' = queue \o [i \in 1 .. n |-> Scan(Id(s), c)]
        /\ slot' = [slot EXCEPT ![s].at = "wait", ![s].chord = c]
  /\ UNCHANGED <<rows, lost, faults>>

\* The other nodes are done.
EndNodes(s) ==
  /\ At(s, "nodes")
  /\ Goes(s, "finish")
  /\ UNCHANGED <<queue, rows, chords, lost, faults>>

\* _wait_for_chord_completion: result.ready().
ChordReady(s) ==
  /\ At(s, "wait") /\ chords[slot[s].chord].answer # None
  /\ chords' = [chords EXCEPT ![slot[s].chord].taken = TRUE]
  /\ Goes(s, "nodes")
  /\ UNCHANGED <<queue, rows, lost, faults>>

\* Mutant: no limit of the time to wait.
WaitOn(s) ==
  /\ At(s, "wait") /\ chords[slot[s].chord].answer # None
  /\ Goes(s, "nodes")
  /\ UNCHANGED <<queue, rows, chords, lost, faults>>

\* The ten minutes have passed, or the soft time limit is raised in the sleep
\* and caught like any exception: the node has failed, the workflow goes on.
GiveUp(s) ==
  /\ At(s, "wait")
  /\ Goes(s, "nodes")
  /\ UNCHANGED <<queue, rows, chords, lost, faults>>

\* The engine returns, whatever the nodes' outcomes.
FinishExecution(s) ==
  /\ At(s, "finish")
  /\ UpdateExecution(Id(s), "success", "workflow")
  /\ Goes(s, "return")
  /\ UNCHANGED <<queue, chords, lost, faults>>

\* The except clause: the result of the row stays.
FailExecution(s) ==
  /\ At(s, "except")
  /\ UpdateExecution(Id(s), "failed", None)
  /\ Goes(s, "return")
  /\ UNCHANGED <<queue, chords, lost, faults>>

\* The result of the task is stored, and its message is acknowledged.
Return(s) ==
  /\ At(s, "return")
  /\ Acknowledges(s)
  /\ UNCHANGED <<queue, rows, chords, lost, faults>>
-----------------------------------------------------------------------------
\* celery_scan_chunk; Celery stores its result and sends the callback after
\* the last chunk, unless one has failed, and then forgets what it has counted.
\* The result of a chunk that is delivered again is counted again, unless the
\* very same is there.
ScanChunk(s) ==
  /\ At(s, "scan")
  /\ LET c    == slot[s].msg.chord
         left == IF chords[c].left = 0
                 THEN chords[c].size - 1 ELSE chords[c].left - 1
     IN \/ /\ chords' = [chords EXCEPT ![c].left = left]
           /\ queue' = IF left = 0 THEN Append(queue, Sync(Id(s), c)) ELSE queue
        \/ chords[c].again /\ UNCHANGED <<queue, chords>>
  /\ Goes(s, "return")
  /\ UNCHANGED <<rows, lost, faults>>

\* Mutant: the answer is there before the row is written.
AnswerThenUpdate(s) ==
  \/ /\ At(s, "sync")
     /\ chords' = [chords EXCEPT ![slot[s].msg.chord].answer = "ok"]
     /\ Goes(s, "synced")
     /\ UNCHANGED <<queue, rows, lost, faults>>
  \/ /\ At(s, "synced")
     /\ UpdateExecution(Id(s), "success", "discovery")
     /\ Goes(s, "return")
     /\ UNCHANGED <<queue, chords, lost, faults>>

\* celery_aggregate_and_sync writes the rows of the workflow that has sent
\* it, or fails to, and then returns: only then its answer is there.
AggregateAndSync(s) ==
  \/ /\ At(s, "sync")
     /\ UpdateExecution(Id(s), "success", "discovery")
     /\ Goes(s, "synced")
     /\ UNCHANGED <<queue, chords, lost, faults>>
  \/ /\ At(s, "synced")
     /\ chords' = [chords EXCEPT ![slot[s].msg.chord].answer = "ok"]
     /\ Goes(s, "return")
     /\ UNCHANGED <<queue, rows, lost, faults>>
-----------------------------------------------------------------------------
Fault == faults < MaxFaults /\ faults' = faults + 1

\* A statement fails or the soft time limit is raised: before the try and in
\* the except clause it ends the task, which is acknowledged all the same.
\* Within the engine it is caught there.
Raise(s) ==
  /\ Fault
  /\ \/ At(s, "finish") /\ Goes(s, "except") /\ UNCHANGED <<queue, chords, lost>>
     \/ /\ slot[s].at \in {"create", "start", "except"}
        /\ Acknowledges(s)
        /\ lost' = lost \cup {Id(s)}
        /\ UNCHANGED <<queue, chords>>
     \/ /\ At(s, "sync") /\ Goes(s, "synced")
        /\ UNCHANGED <<queue, chords, lost>>
  /\ UNCHANGED rows

\* A chunk or the synchronisation fails or runs into its time limit: Celery
\* stores the error as the callback's answer.
ChordFails(s) ==
  /\ Fault
  /\ slot[s].at \in {"scan", "sync"}
  /\ chords' = [chords EXCEPT ![slot[s].msg.chord].answer = "error"]
  /\ Goes(s, "return")
  /\ UNCHANGED <<queue, rows, lost>>

\* The hard time limit kills the process, and the task is acknowledged.
Kill(s) ==
  /\ Fault
  /\ IsRun(s)
  /\ Acknowledges(s)
  /\ lost' = IF At(s, "return") THEN lost ELSE lost \cup {Id(s)}
  /\ UNCHANGED <<queue, rows, chords>>

\* The process is lost, and its task is delivered again, whatever it has done.
Crash(s) ==
  /\ Fault
  /\ ~At(s, "idle")
  /\ queue' = Append(queue, slot[s].msg)
  /\ chords' = IF At(s, "return") /\ ~IsRun(s)
               THEN [chords EXCEPT ![slot[s].msg.chord].again = TRUE]
               ELSE chords
  /\ Acknowledges(s)
  /\ UNCHANGED <<rows, lost>>

Work(s) ==
  \/ Take(s) \/ CreateExecution(s) \/ StartExecution(s)
  \/ Dispatch(s) \/ EndNodes(s) \/ ChordReady(s) \/ GiveUp(s)
  \/ FinishExecution(s) \/ FailExecution(s) \/ Return(s)
  \/ ScanChunk(s) \/ AggregateAndSync(s)

TasksNext ==
  \E s \in Slots : Work(s) \/ Raise(s) \/ ChordFails(s) \/ Kill(s) \/ Crash(s)

\* A process that has a task goes on with it, or takes the next one.
TasksSpec ==
  /\ TasksInit /\ [][TasksNext]_tasksVars
  /\ \A s \in Slots : WF_tasksVars(Work(s))
-----------------------------------------------------------------------------
AtRest == queue = <<>> /\ \A s \in Slots : At(s, "idle")

\* Tasks that wait for others do not shut the pool that is to run these: when
\* every process waits, the waiting ends, everything that was sent is done,
\* and no row of a task stays running, nor one that a lost process has left.
Settles ==
  <>[](/\ AtRest
       /\ \A w \in Workflows \ lost : \A i \in DOMAIN rows[w] :
            rows[w][i].status \in {"success", "failed"})

\* The callback finishes the rows while the workflow that has sent it goes on.
\* What stays is the workflow's result, unless the workflow has stopped
\* waiting for one of its discoveries, or was cut off by an error, or a process
\* was lost after a chunk was counted or the callback had answered and before
\* the message was acknowledged: the callback then runs once more.
WorkflowsResultStays ==
  AtRest => \A w \in Workflows \ lost : \A i \in DOMAIN rows[w] :
    rows[w][i] = Row("success", "discovery") =>
      \E c \in DOMAIN chords :
        chords[c].by = w /\ (chords[c].again \/ ~chords[c].taken)
=============================================================================
