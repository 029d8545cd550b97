# Verification of OpsConductor Monitor

TLA+ models of the parts of OpsConductor Monitor in which order, concurrency and
failure decide whether the program is right, the TLC runs that check them on
small instances, and TLAPS proofs of what matters most for every instance.
Every definition is translated from the code; `PROJECT.json` maps each to its
lines.

Contents: [the system](#the-system) · [modules](#modules) · [runs](#runs) ·
[fairness](#fairness) · [proofs](#proofs) · [disagreements](#where-code-and-documentation-disagree) ·
[observations](#observations-without-a-run) · [limits](#what-is-left-out) · [plan](#plan)

## The system

A Python backend (a FastAPI server, Celery workers with Redis as broker, one
PostgreSQL database, one process that receives SNMP traps) and a React frontend.
Celery beat queues the periodic work. Three worker services run: the default
queue with 4 processes, `polling,workflows,analysis,notifications` with 32,
`polling` with 16. The database connection is in autocommit mode: **each
statement is a transaction of its own**, so whatever a service reads may have
changed by its next statement. The models of the backend rest on that. In the
browser the unit is what an async function does between two awaits.

| component | state | operations | talks to | hard behaviour | what makes it correct |
|---|---|---|---|---|---|
| workflow engine (`workflow_engine.py`) | results of the nodes, recursion, rows of `job_audit_events`, `progress` of the execution row | `execute`, a node at a time, wait for a chord | node executors, Celery results | cyclic and joining graphs, a result read later than the test that used it, soft time limit at any point | a node runs once and for a reason; nothing selected is left out; verdict, audit and progress agree |
| task layer (`job_tasks.py`, `celery_app.py`, discovery chord) | queue, worker processes, execution rows | run, scan a chunk, aggregate, finish, deliver again | engine, job executor | redelivery, a task that waits for other tasks of its pool, two writers of one row | waiting does not shut the pool; a row ends with the right status and result |
| system alerts (`alert_service.py`) | `system_alerts`, `alert_history`, `alert_rules` | evaluate, create, acknowledge, resolve, expire | the logs, jobs and workers it watches | overlapping evaluations, copy then delete, check then insert, crashes | no alert is lost, doubled or revived; one that has cleared is resolved |
| trap receiver (`snmp_trap_receiver.py`) | loop callbacks, a bounded queue, workers, `trap_log`, `trap_events`, the status row | receive, store, correlate | devices | callbacks between test and use, full queue, swallowed failures, restarts | traps are stored once, in order; raise and clear find each other |
| poll scheduler (`polling_tasks.py`, `generic_polling_task.py`) | `polling_configs`, queue, `interface_metrics` | tick, dispatch, poll, store, record | SNMP poller | overlapping ticks and polls, wrapped counters, lost tasks | a config is polled once per interval, and always again; the traffic stored is true |
| workflow editor (`useWorkflow.js`, `WorkflowBuilder.jsx`) | graph, selection, undo history, saves under way | edit, undo, redo, save, delete | HTTP API | closures of older renders, awaits, timers | undo and redo lose nothing; what looks saved is saved |
| node dialog (`useNodeEditor.js`, `NodeEditor.jsx`, `workflowValidator.js`) | the form, its errors, the node's data | open, edit, save, close, reload | editor, node packages | defaults, saved values and own keys merged into one object; hidden fields validated | what the dialog accepts the validator accepts; a saved value is shown again |
| node packages (`workflow-builder/packages`) | none: 188 definitions of node types | | node dialog, engine | required fields without an input, conditions that are never met | each type can be filled in |
| pages and hooks (`frontend/src/pages`, `hooks`) | what is shown, flags, requests under way, forms | click, tick, select, submit, load again | HTTP API | answers in any order, time-outs that hide a success, flags shared by handlers, errors returned as data | no control locks for good; a form is applied once; the page shows what the server has |
| job scheduler (`scheduler_repo.py`, `celery_tasks.py`) | `scheduler_jobs` | tick, due jobs, mark | task layer | mark after send, `max_runs`, start and end times | a job runs when due, and not more often |
| job executor (`job_executor.py`) | results of a run | actions over targets in a thread pool | executors | partial failure | each target has one result |
| authentication (`auth_service.py`) | users, sessions, history of passwords | login, refresh, revoke | HTTP API | concurrent refreshes, counters | a revoked session stays revoked |
| settings cache (`utils/db.py`) | one dictionary per process | get, set, clear | everything | a reader between two steps of a writer, other processes | a reader does not keep an old value for ever |
| database log handler (`logging_service.py`) | queue, thread | emit, flush, close | database | failing batch, shutdown with a long queue | what is logged is stored |
| SNMP poller, Ciena clients, NetBox and PRTG integration, metrics, credentials, CRUD repositories, HTTP API, migrations | little or none beyond a request | | | | |

`PROJECT.json` lists every component with its status and, under `hazards`, each
place where the code can go wrong in a way a test would hardly reach.

Interactions that the models cut: the engine takes a node executor's outcome as
given (any outcome its type can have); the task layer takes the engine as a
step that may dispatch discoveries; polls take a walk as one reading; the
trap receiver takes decoded traps; editor and pages talk to a server that
answers, refuses, or is not heard.

## Modules

| module | models | state and actions |
|---|---|---|
| `WorkflowGraph` | a workflow definition, start nodes, the outputs a result selects | operators only |
| `WorkflowRun` | the promise of an execution, whatever the order | `RunNode`, `RunCompletes`, `RunFails` |
| `WorkflowEngine` | `WorkflowEngine.execute` and what it calls | the recursion of `_execute_node_chain` is the stack `calls` with a loop position `cursor[n]` per frame; `EnterNode`/`LeaveNode` are the halves of a call around its executor. The five `SoftLimit…` actions are where Celery's exception may surface: in the `try` of `_execute_single_node` (`InNode`), in the same `try` after the closing event has been written and before the return, so that a second one follows (`AfterEvent`), in a progress or audit write that is committed (`Swallowed`), outside of both (`Escapes`), and outside `execute` or its `try` (`Uncaught`). One that strikes in a write before its commit loses the write: every action that writes has that outcome too (`Strikes`). `struck` remembers the node that the exception has cost something |
| `WorkflowTasks` | `workflow.run`, `scan_chunk`, `aggregate_and_sync`, their queue, the worker's processes, the rows of `scheduler_job_executions` | `slot[s].at` is where a process is in its task; the engine's run between its first and last row is `nodes`, from which `Dispatch` sends a chord and `wait` is `_wait_for_chord_completion`; a task stores its result first and is acknowledged later (`Return`): in between it is at `return`, and if the process is lost there the message comes again although the chunk is counted or the callback has answered (`again`); `Raise`, `ChordFails`, `Kill` and `Crash` are a failing statement or soft limit, a failing chunk, the hard limit and a lost process whose message comes again |
| `AlertLifecycle` | the evaluation task and `AlertService` | one action per statement; `task[p]` holds the local variables of a process between statements |
| `TrapHandlers` | routing and alarm ids | operators; an alarm id is the sequence of the parts it is formatted from, `hash()` depends on the process |
| `TrapReceiver` | loop, queue, workers, tables, status row | `Iterate` is one iteration of asyncio; `Read`, `Callback`, `Put` are the three callbacks of a datagram; a worker that has taken a trap holds the loop, as the database driver is synchronous |
| `PollScheduler` | ticks, queue, polls | `Dispatch` and `Mark` are the two halves of the loop of a tick; `Walk`, `Compare`, `Store`, `Record` are a poll; `Pass` is time and traffic |
| `Timeline` | the promise of undo and redo | `Change`, `Retouch`, `Move` |
| `WorkflowEditor` | the builder in the browser | an event handler is one action; what outlives it is explicit: `captured` (the workflow that the keyboard listener sees, whose `handleSave` is that of the render in which the listener was set; the toolbar has that of the last render), `timer` (a closure set on a timer), `save` (requests awaited; one that is refused with 401 or 403 returns like any other, `Refuse`). `missed` remembers that a save does not have what is on the canvas |
| `NodeFields`, `VendorPackages`, `NodePackages` | the node types | a type is its fields: required, advanced, class of the default, classes its input can take, bounds, condition. `NodeFields` has the inputs of `renderField`, the other two the packages |
| `NodeForm` | the dialog of one node | `openEditor`, `updateField`, `handleEditorSave`, `closeEditor`, `reloadWorkflow`; `kept` remembers the form at the last accepted save |
| `PageParts` | the vocabulary of pages | a page maps its handlers to steps (one per await: a load, loads that fail one by one, a write) and to what starts them, the flag they set, what disables them, what they load again; `CopyOf` is the copy that a detail or an edit form takes of the item it is opened for |
| `ConsolePages`, `SystemPages`, `DevicePages` | 73 pages, panels and data hooks | definitions in that vocabulary, one per component that awaits requests |
| `Console` | an open page, its requests, the server | `Serve…`, `Refuse`, `Lose` are what may become of a request; `Continue`, `Finish`, `Fail` are what the handler does after its await; `shown[r]` says whether the page has of `r` what the server has; a copy is taken as the list shows the item and no load of the list refreshes it; `forgotten` remembers what the page has changed on the server and not loaded again |
| `MC…` | instances for TLC | |
| `…Proofs` | theorems about the module of that name | |

Refinements: `WorkflowEngine` implements `WorkflowRun` with `results <-
node_results, verdict <- status` (`ImplementsRun`); `WorkflowEditor` implements
`Timeline` with `steps <- past \o <<graph>> \o future` and `here <- Len(past) + 1`
(`ImplementsTimeline`).

Of a page's data only this is kept: whether what is shown, or what an answer
brings, is what the server has now. That is enough for the questions asked of
pages, and it makes one machine of all of them: a page differs from another in
which handlers it has and not in how a handler behaves. A handler whose steps
cannot be said in the vocabulary (a download, a timer that fires once)
is left out; see the [limits](#what-is-left-out).

## Runs

Those that pass:

| run | shows | bounds, and why they suffice |
|---|---|---|
| `engine` | a node runs at most once, and for a reason; `execute` returns, leaves nothing undone and implements `WorkflowRun`; the audit trail is well nested and progress agrees with the results, but for the one node that the soft limit has struck, and the percentage never goes back; the invariant of the recursion holds | every graph of two or three action nodes with up to two edges, in every order, and those with three edges whose first leaves the first node for another, among them cycles, diamonds, self loops and dangling edges; six workflows of up to five nodes with each kind of control node, nested conditions, a loop back, a shared label, no start node; 2 polls of a chord; the soft limit anywhere. A double run needs two ways to one node, which three edges give |
| `tasks` | tasks that wait for others of their pool do not shut it: everything sent is done in the end, and every row is closed that the code closes at all; what stays in a row is the workflow's own result, unless it has stopped waiting for a discovery or a message of one was delivered again after it had done its work | two workflows on two processes, so that all processes can be waiting; chords of two chunks, two discoveries in all, two faults: a redelivered run with a discovery of its own beside the chord of the run before, or a callback that is lost after its answer and answers again after the workflow has returned. A chord of one chunk has fewer orders; the theorems cover any size |
| `alerts` | one open alert per rule, the cooldown kept while alerts move between tables, no alert lost, each follows its life cycle, a cleared alert resolved in the end, in spite of a crash or a failing statement | one evaluation, another caller of `resolve_alert` or `acknowledge_alert`, one fault, two alerts, three minutes, a cooldown of one. Overlapping evaluations break the first promise (`alerts_duplicate`); that they keep `NothingLost`, `AlertInv` and `FollowsLifecycle` is proved |
| `traps` | no trap is lost between test and filling of the queue, storing keeps the order of receipt, queued traps get stored; one row per alarm until it is cleared, references between rows are right, the status row is a snapshot | three traps that raise or clear an alarm, a queue of two, two workers, one fault, two processes: the queue fills and overflows, the process ends between any two statements |
| `polls_prompt` | polls of a config are more than an interval apart, although each end of a poll writes its own time over the mark of the tick | one tick at a time, nothing fails, polls end within the interval; six units of time for an interval of two. The code guarantees none of the three: what happens without the first is [below](#where-code-and-documentation-disagree), a fault between sending and marking or a poll that ends late also brings the next one early |
| `polls_faults` | a config that is due is polled, wherever a tick or poll fails; the traffic stored with a reading is the traffic since the row before, if that was stored before the reading was taken and the counter wrapped once at most | two polls at the same time, which end after the interval, one fault in a tick or poll, a counter that wraps at two and may wrap again between two readings, two units of time |
| `editor` | undo and redo walk along one timeline; the history stays bounded; a workflow shown as saved is saved, unless a save has missed a change or was refused | `MAX_HISTORY` 2, which is reached and passed; two nodes, of which both together are a flawed workflow, two names; two saves that overlap, fail, are refused or are stored in any order, with edits, renames and undos in between. While a save is under way the history holds at most one other state (`CONSTRAINT ShortHistory`), since saves and history do not touch each other |
| `form` | what the dialog accepts the validator accepts; a saved node shows its values again, also after a reload; no save is refused for a required field that a condition hides | every one of the 188 node types, two changes of fields: one that decides a condition and one of the field behind it |
| `console` | a user who waits for each answer sees what the server has, in lists, details and the copies that details and edit forms show, but for what the page changes and does not load again (`forgotten`); a form that is open is applied once, and once more per error shown | every page, two items of each list, two clicks, one lost, refused or failed request, a click or timer while one handler is under way, and more behind it: a form that is sent, closed, opened and sent again |
| `console_polls` | no flag stays set for good; a page that polls shows what the server has once faults and changes have ended, also after a late answer | the pages that poll and, of the others, one of each way to set and clear flags; two faults, one change by somebody else, one item |

Deadlock is not checked where the model may stop because a bound is reached
(time, traps, alerts, clicks) or the modelled task ends. `form` checks it.

In `console` the page of a device is taken in two parts that share only its
first load, as their handlers share no other flag or resource. `useScanProgress`
gives up after three errors in a row, more than `MaxFaults` allows. The names
with an underscore in `MCConsole` make TLC evaluate a page once.

Those in which TLC finds a disagreement named [below](#where-code-and-documentation-disagree):
`alerts_duplicate` and `traps_reraise`.

Each property of a passing run has a mutant in `PROJECT.json`: a plausible
mistake in the code, written as an operator marked "Mutant", under which TLC
finds the property violated. No specification uses these operators.

Bounds of the models are the constants whose names begin with `Max`
(`MaxHistory` apart, which is the program's own); they appear in guards only,
but for `MaxOverlap`, which bounds how many handlers are under way when another
starts, and `ShortHistory`, the constraint of `editor`. Symmetry is used in `editor` and `polls_prompt`, which check no
liveness and no constant of which tells the members apart.

## Fairness

- `FairEngineSpec`: the next step of the engine is taken. It is straight-line
  code in one process and its executors have time-outs of their own. The soft
  limit has no fairness.
- `TasksSpec`: each process of the worker that has a task goes on with it, or
  takes the next one. Time is abstracted, so `GiveUp`, the end of the wait, may
  come at any moment of it; that it comes at all when no answer does is the
  loop's limit of ten minutes. Faults have no fairness.
- `FairAlertSpec`: evaluations go on being started, by beat, and a started one
  is carried on. Users, conditions and faults have no fairness.
- `FairTrapSpec`: the loop runs what it has scheduled, and some worker takes
  what is queued, as each waits in `wait_for` with a timeout. Nothing for traps,
  starts and ends.
- `FairPollSpec`: ticks are started and carried on and workers take what is
  queued. Time has no fairness, so that `DueIsPolled` cannot be met by waiting
  for the next interval.
- `ConsoleSpec`: the oldest request is answered and its handler goes on; the
  timer of an open page goes off again and again. `fetchApi` aborts a request
  after 8 seconds, but clears that timer before it reads the body: of a body
  that never ends nothing here speaks. Clicks, faults and changes have no
  fairness.

## Proofs

TLAPS proves these for every value of the constants under the named assumptions
(`WorkflowAssumption`, `EngineAssumption`, `AlertAssumption`, `TrapAssumption`,
`PollAssumption`, `EditorAssumption`, `DefinitionsAssumption`, `TasksAssumption`,
`PagesAssumption`, `ReadBackAssumption`, `CopiesAssumption`, `BoundsAssumption`),
all of which TLC evaluates on the instances. A theorem that needs more of the
constants says so in its own hypotheses. Every invariant and action property of a
passing run is proved but for `Spaced`, which needs more of the system than
the code guarantees (one tick at a time, no faults, short polls).

**`WorkflowEngineProofs`** (`NodeIds` finite, ids of a definition distinct).
Every safety property of the engine.
`TypeCorrect`. `TraversalCorrect`: `TraversalInv` is inductive given the types.
Its parts: the frames on the stack are distinct nodes that have a result, but for
the busy one on top, and a node without a result has its loop at the first edge (`StackInv`); a
node that has run is a start node or the target of a selected edge (`Justified`);
the target of a selected edge has been reached if the source is off the
stack or its loop is past that edge (`LoopsInv`); status and phase agree
(`VerdictInv`). `ClosedWhenDone` alone is not inductive: that nothing is left when
the stack is empty depends on what each frame has already looked at.
`NothingLeftUndone` and `EngineImplementsRun` follow; the latter maps
what records a result (`Record`) to `RunNode`, `Complete` to `RunCompletes`, the rest to
stutters or `RunFails`. `NodesRunAtMostOnce` adds that a node with an
`action_started` row has a result or is busy. `EveryNodeCaused` needs
`RecordInv`: the record lists each result once, and whatever made a node run
stands before it. `TrailBracketed` needs `TrailInv`: the `action_started` row of the
busy node is the last row, and completions belong to nodes that are recorded.
`ProgressShown` needs `ShownInv`, what the progress column says of each label while a
node is between its two updates. Both leave out `struck`, the one node to which the
soft limit has cost a write or a second completion, and rest on `Unstruck`:
the limit is raised once, so there is no other. What both say of that node too is
that its rows are numbered and in order and that its last completion is what
was recorded. `PercentNeverBack` needs `Behind`: the percentage
stored is at most the one that would be computed now, and dividing is monotone.

**`AlertLifecycleProofs`** (`TaskLimit <= Expiry`: no task outlives an alert).
`AlertTypeCorrect`. `AlertsConsistent`: `AlertInv`, which says that ids are used
once, that a task deletes only what it or another has archived, and that what
the second statement of the cleanup deletes its first one has copied. The
assumption is what makes that last part hold: otherwise an alert could be inserted already
expired, between the two statements. `NoAlertLost` and `AlertsFollowLifecycle` follow.
`OneAlertOpen` and `AlertsSpaced` are for one evaluator, since two break both
promises (`alerts_duplicate`), and for any other callers, faults and rules. `RuleInv`
says what an evaluation has found out by each of its statements and what still
holds when it inserts (`Vetted`): nobody else inserts, and the cooldown is read
from two tables one after the other, between which an alert may move. It moves from
the table read first to the other and never back, so that one of the reads finds it.

**`TrapReceiverProofs`** (`TrapAssumption`: sizes and bounds are numbers).
`TrapTypeCorrect`, strengthened by the types of the event rows and by `up =>
starts > 0`. `OneRowPerAlarm`, by `AlarmInv`: at most one worker is inside a
trap, none while the process is down, and a raise about to be inserted has no
earlier raise. The property alone is not inductive: the check and the insert
are two statements, and only the held loop keeps other workers out in between.
`ReferencesKept`: what a worker remembers between two
statements is in the tables (`RefInv`). `StoredInOrder`: the log, the trap
that is out of the queue and not stored yet, the queue, the callbacks that will
fill it and the ones that have not run are one ascending line (`Line`); that they
are rests on how an iteration of the loop orders its handles, since put, callback and
read of a datagram are a handle each and the socket is read once per iteration
(`Stages`). `StatusIsSnapshot`: no counter of the row, nor an alarm row's moment, is
ahead of the process (`EventInv`). `NoneUncounted`: what was received is
processed, failed, queued, with a worker, or in a callback that has found
room and will still find it (`AccountInv`): one put at most is on its way, and one
worker at most is busy.

**`PollSchedulerProofs`**. `PollTypeCorrect` for any ticks and faults.
`TrafficTrue`: `DeltaTrue` with any number of configs, ticks and polls, overlapping or
not, and any faults and redeliveries. What it leaves out it says of the
two rows: the reading was taken before the row above it was stored, or the counter
wrapped more than once in between; only the device knows of the second. `DeltaInv`
adds that a poll has read no less than is in the rows it found, and that, as long
as no other row has come, its traffic is that since the last of them (`ReadNow`); the
difference with one wrap added is then the difference of the true counters
(`Unwrapped`).

**`WorkflowEditorProofs`**. `EditorTypeCorrect`, with the bound on the history:
`redo` adds to `past` without a slice, so the bound holds for `past` and `future`
together, and `LastOfType` states what `slice(-MAX_HISTORY + 1)` leaves.
`EditorInv` adds that a deletion on a timer has seen the current graph, since a
0 ms timer runs before the next event of the user.
`EditorImplementsTimeline` follows from it: `Undo` and `Redo` are `Move`
(`UndoSplice`, `RedoSplice`: taking a state off one list and putting it on the
other leaves the whole), what saves the history is `Change` (`SaveSplice`: the
slice drops the oldest states of the whole), `AutoLayout` is `Retouch`, and the
rest stutters. A put-off deletion is a `Change` only because of
`TimerSeesGraph`: it saves the graph of an older render.
`CleanStored` is `CleanIsSaved` without assumptions about the user or the server, as
`missed` says when the code does not keep it: after a change while a save was under
way, after a save that was refused with 401 or 403, and after one by the keyboard right
after a rename (see [below](#observations-without-a-run)). The next change, or a save
of unsaved changes with no other under way, clears it. `SaveInv`: unless one was
missed, each save under way carries what is on the canvas and has stored it once it is
answered (`BodiesAreNow`).

**`WorkflowTasksProofs`** (`TasksAssumption`: finitely many workflows, chords of at
least one chunk). `TasksTypes`. `ChordsCounted`: `ChordInv` counts the messages of a
chord, in the queue and in the processes: there are no more than chunks left, an
error taking the place of one, and one callback at most when no chunk is left, which
has not answered. A process that has stored its result and not been acknowledged
(`return`) counts no more: if it is lost there, its message comes again and the count
is over. The chord is then marked `again`, and `ChordInv` speaks of the others.
`ResultStays` follows with `ResultInv`: a workflow that has taken the answers of all its
discoveries, none of which is `again`, has its own result in its rows or is
still to put it there. Without the count a late callback could write after the
workflow, as it does when it is delivered again. `RowsAreClosed` is what `Settles` says apart from fairness: when
nothing is queued and all processes are idle, every workflow that no limit has killed and no
error cut off has a row, and none of its rows is `running` (`RowsInv`: as long as one is,
a run that will close it is queued or in a process, before its return).

**`NodeFormProofs`** (`DefinitionsAssumption`: no input gives a value back its
`undefined`, and no field is called `_inputMappings`). For every set of
definitions, `AcceptedForGood` and `ReopenedAsSaved`, from
`FormConsistent`: what was kept at the last accepted save is what the node's
parameters hold, save for fields that are called `label` or `description`.
`RefusalIsShown`: no save is refused for a field that is not shown, for every set of
definitions in which a required field with a condition has a default that fills it
and an input that cannot empty it (`Filled`; the 188 definitions are so). Without
that a hidden field may be missing, as the mutant of `RequiredIsShown` shows. `FilledInv`:
such a field has a value in every form that is open and in what was saved.

**`ConsoleProofs`** (`PagesAssumption`: what every page has, `HasGuardedForms`
above all: a form is submitted by its own control only, which its own flag
disables). `FormsAppliedOnce`: `SubmittedOnce` for every page that meets the
assumption. A run of the form that is open is the only one, since
its flag is set and disables the control; as long as it has not been heard, the
form has been applied at most as often as an error was shown, and once more
after; runs of a form that was closed are `old` and count for no form opened
later. The type invariant is proved along (`TypeCorrect`), with the steps of a
run in range.
`SequenceShown` needs `ReadBackAssumption`: after a write a handler loads what it has
changed, changes its own copy, calls a handler that loads it or closes the item, or the page
declares that it forgets it; and `CopiesAssumption`: a copy is taken from a list
that is kept. What the page has forgotten is exempt until it is loaded again, a copy
until another item is selected. As long as the
user has waited (`calm`), `CalmInv` says that what the page must show is shown or
coming: a run in flight is still to load it, holds an answer with it, or
calls the handler that will (`Coming`), and that no answer under way is older
than a write (`Sound`). What the handlers started together at the opening do
to each other is the hard part: they end in any order.
`FlagsReleased` is what `Unlocked` says apart from fairness: with nothing in flight
no flag is left `TRUE` but those in `Leaking`. `FlagsHeld`: each flag that is
`TRUE` is the own flag of a run or owed by one that was called from its handler
(`Claims`). A modal that is closed drops its flag while its run goes on, which is why
a modal must be a form's and a handler that waits must call another (`IsPage`).

Only model-checked: the liveness properties (`Terminates`, `Settles`,
`ClearedIsResolved`, `Drained`, `DueIsPolled`, `Unlocked`, `EventuallyFresh`).
They rest on fairness, whose use needs `ENABLED` of the steps named, which
the prover cannot reason about.

## Where code and documentation disagree

Each property is in its module and says what a doc, a comment or a test says of
the code. TLC finds it violated as the last column tells: with the configuration
given, the property in place of the ones it lists, and the changes named.

| property | what happens | how to see it |
|---|---|---|
| `OneOpenPerRule` | two overlapping evaluations create a second open alert when the first has been acknowledged in between: `UNIQUE (alert_key, status)` allows it (`alert_service.py:173`) | run `alerts_duplicate` |
| `RaisedAgainIsActive` | an alarm raised again after its clear is taken for a duplicate of the raise before: it never becomes active again (`snmp_trap_receiver.py:592`) | run `traps_reraise` |
| `EveryRunAudited` | an execution without a start node returns after `job_started` and never writes `job_completed` (`workflow_engine.py:248`) | `engine` |
| `PercentReachesFull` | the percentage is computed before the result of the completed node is recorded: a full success ends below 100 (`workflow_engine.py:720`) | `engine` |
| `MergeSeesAllInputs` | depth first, a merge node runs when its first branch reaches it, without the outputs of the others (`workflow_engine.py:1147`) | `engine` |
| `ArchivedOnce` | two evaluations both copy an alert before either deletes it: two history rows (`alert_service.py:138`) | `alerts_duplicate` |
| `OwnDevice` | a device's own alarm id is not qualified by the device: two devices share an event (`snmp_trap_receiver.py:202`) | `traps_reraise`, `Traps <- Numbered` |
| `LinkUpClears` | the generic handler gives `linkUp` and `linkDown` different alarm ids (`snmp_trap_receiver.py:375`) | `traps_reraise`, `Traps <- Links` |
| `CfmCleared` | `hash()` of a string is salted per process: after a restart a CFM clear finds nothing (`snmp_trap_receiver.py:325`) | `traps_reraise`, `Traps <- Cfm`, `MaxStarts = 2` |
| `OldestDropped` | with a full queue the newest trap is dropped, not the oldest (`snmp_trap_receiver.py:513`) | `traps_reraise`, `Traps <- ColdStart`, as a PROPERTY |
| `Spaced` | two ticks at the same time both dispatch a config before either marks it (`polling_tasks.py:88`) | `polls_prompt`, `Tickers <- TwoTickers`, no SYMMETRY |

| `Fillable` | `renderField` has no input for fields of type `string`, `boolean` and `multiselect`: a node that requires one can never be saved (`NodeEditor.jsx:142`, `WORKFLOW_BUILDER.md:690`) | `form` |
| `DroppedHasDefaults` | `addNode` puts the defaults beside `parameters`: the validator reports them missing, and the engine does not get them, until the dialog is saved (`useWorkflow.js:239`) | `form` |

## Observations without a run

Backend:

- `create_alert` returns an id and the caller treats it as a dict
  (`alert_service.py:449-455`): the exception is swallowed and no notification
  is ever sent. No route calls `AlertService.acknowledge_alert` or `resolve_alert`.
- `run_scheduled_job` never sets `started_at`, so the rule on failed jobs
  (`alert_service.py:528`) does not see these runs.
- A settings entry is dropped from the cache before the row is written
  (`utils/db.py:190`): a reader in between caches the old value for good.
- Reboots, 64-bit counters and gaps with more than 2^32 bytes are all taken for
  one wrap of a 32-bit counter (`generic_polling_task.py:443`). Overlapping polls of a
  device may store the older reading last, which counts as a wrap too and
  stores almost 2^32 bytes of traffic (`:442`). A poll that ends late writes an older
  `completed_at` over a newer `last_run_at` (`:551`), and the config is polled again
  within its interval.
- The soft limit may strike in an audit or progress write before its commit: the
  exception is swallowed with the write (`workflow_engine.py:736`, `:789`), and a row
  of the trail or a step of the progress is missing for good. It may strike after a
  node's closing event and before its return: the `try` of `_execute_single_node`
  (`:404-546`) then writes a second `action_completed`, of a failure, and the node
  counts as failed.
- With `acks_late` and `reject_on_worker_lost` (`celery_app.py:43`) a process lost
  between storing a task's result and the acknowledgement has the task delivered
  again. A chord's callback then writes its result over the workflow's own
  (`job_tasks.py:421`), and a chunk that is counted twice may send the callback
  before the other chunks are done.
- Rows of `scheduler_job_executions` that stay `running` for good: of a task that
  the hard limit kills, which is acknowledged all the same; of one where a
  statement fails before the `try` or in the `except` clause
  (`job_tasks.py:267`). `mark_stale_executions` (`execution_repo.py:412`), which
  would close them, is called by nothing.
- The soft limit of a workflow (300 s) is shorter than the wait for its chord (600 s)
  and is caught there (`workflow_engine.py:651`): the workflow goes on with a
  failed node. Its row says `success` whatever the engine's verdict
  (`job_tasks.py:257`). A redelivered task inserts a second row of its
  `task_id`, and every update reaches both. The callback of a chord writes
  `success` (`job_tasks.py:421`) while the workflow is still running: if that is killed
  afterwards the row shows a success.
- `POST /workflows/{id}/execute` (`openapi/automation_impl.py:152`) inserts a row
  `running` that nothing executes; nothing in the repository sends
  `opsconductor.workflow.run`. `polling.scheduler_tick_v2` is scheduled by nothing.
- The tick of `celery_tasks.py` ignores `max_runs`, `start_at` and `end_at`, and the
  module is not among those the worker loads.
- A batch of log records that fails to insert is lost (`logging_service.py:112`).

Builder:

- Fields called `label` or `description` (`data:debug`, `ciena:port-set-description`,
  `flow:noop`, the `netbox:*-create` types) share their key with the node's own
  and are stripped by `getSaveData` (`useNodeEditor.js:114`).
- A condition whose value is a list is never met; a number out of its bounds
  that a condition hides blocks the save (`useNodeEditor.js:101`).
- 155 of the 188 node types have no executor in the engine, whose placeholder
  reports success; handles such as `pass`, `fail` and `output` are never followed.
- The keyboard listener is set anew with the canvas and not with `handleSave`
  (`WorkflowBuilder.jsx:131`): Ctrl+S right after a rename saves the old name and marks
  the workflow clean. So does an edit made while a save is awaited (`:150`), and a save
  refused with 401 or 403, which returns like one that is stored (`lib/utils.js:214`).
- What a drag saves for undo is the graph after it (`useWorkflow.js:128`). The delete
  button of the node editor deletes, on its timer, the selection of the render before
  and not the node (`WorkflowBuilder.jsx:234`).
- A layout is not kept in the undo history. The frontend's `PUT /workflows/:id`
  has no route in the backend. Saving a new workflow twice creates two.

Pages:

- `fetchApi` returns the body of a 401 or 403 as data (`lib/utils.js:214`): a
  refused write counts as done, a refused load as an empty list.
- `pollAllDevices` has no `finally` (`SNMPAlarmsPage.jsx:92`): an answer without
  alarms leaves `loading` set. `Unlocked` leaves this flag out (`Leaking`).
- `GroupsPage` sends `group_name`, `useGroups` sends `groupData.name`
  (`useDevices.js:78`).
- A server is created as a credential and a configuration
  (`EnterpriseAuthConfigsList.jsx:147`): when the second request fails the
  first is not undone. Editing one without a new secret saves nothing and closes.
- The timer after a run-once compares with the `selectedJob` of its render
  (`Scheduler.jsx:295`).
- Roles and status of a user are two writes (`UsersPage.jsx:523`), and the list is
  loaded again after both only.
- Details and edit forms that show a copy of the selected item keep its old state when
  a write has changed the item: the job in its modal after it is toggled or run
  (`Scheduler.jsx:210`, `:267-290`, `:562-655`), the name and description of a group that
  was saved (`GroupsPage.jsx:82-116`, `:222`), a polling configuration after it is
  toggled or run (`PollingPage.jsx:107-128`, `:348-428`), the permissions of a role
  (`RolesPage.jsx:227`, `:364-370`). An edit form opened from there starts from it. The
  status shown by `PRTGSettings` after a save is the one of before, too. The pages
  declare all this with `Forgets`.
- `ActiveJobs` polls every 5 s with a timeout of 8 s, so that requests overlap.

## What is left out

- Engine: the data that flows between nodes (an outcome is success or failure
  and a condition), the rounding of the percentage, failures of the audit and
  progress writes other than by the soft limit (the code swallows them, and what is
  written is lost), Python's recursion limit on chains of about a thousand nodes. Node ids of a definition are taken to be distinct.
- Task layer: what a discovery finds, `run_job` and `run_scheduled_job`, which only
  wrap the job executor, other tasks of the same queue. One queue and one worker
  service; the visibility timeout of Redis is one of the reasons for `Crash`.
- Alerts: notifications, which never run, and the content of alerts. `Limit` stands
  for the 100 alerts that one pass of auto-resolution reads.
- Traps: decoding; datagrams that the kernel drops while the loop is held; the
  columns that no alarm id depends on.
- Polls: OID groups, value parsing and the tables other than
  `interface_metrics`; all configs poll one device and table, and the device does not
  restart. Both runs have one config, `polls_faults` one tick at a time.
- Editor: what an edit draws (a look is anything else about a graph), selected
  edges, loading another workflow, test runs, React Flow's own key handling, and creating a
  workflow by the first save. Dialog: texts, tabs, the variables offered to a field.
- Pages: data, layout, filters applied in the browser, timers other than polls,
  downloads, navigation between pages. What a page shows of a resource
  is current or not; of which page of a list, and sorted how, is not modelled.
  Closing and selecting the same item again takes a new copy, which the model counts as
  another selection; a form that is closed while its request is on its way and opened
  again is another form, so `SubmittedOnce` does not speak of the second submission.

### Not modelled

Job scheduler, job executor, sessions, settings cache, log handler, MCP client and
SNMP poller are small state machines and are planned. The rest has nothing to check: collectors,
node executors and action executors turn one answer into one result and keep nothing;
NetBox and PRTG keep their state elsewhere; repositories and the API's handlers are
one statement per operation; migrations are run by hand. Their hazards are
those of the components that call them, which are modelled.

## Plan

Next, each against the promise named:

1. `SettingsCache`: cache and table over several processes and threads; a reader
   does not keep an old value for ever (`utils/db.py:190`).
2. `LogQueue`: queue, batches, shutdown; what was emitted is stored
   (`logging_service.py:112`).
3. `JobTicks`: `scheduler_jobs`, due jobs, `max_runs`, start and end times; a job
   runs once per due time.
4. `Sessions`: refresh and revocation, the counter of failed logins.
5. `McpToken`: the cached token and its renewal. The job executor with its thread
   pool. Retries of the SNMP poller.
6. Proofs: the trap receiver as a line that drops, stores or loses what was
   received (an abstract specification, implemented by `TrapReceiver`); what of `ClearedIsResolved` and `DueIsPolled`
   does not need fairness.
