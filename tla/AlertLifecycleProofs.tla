-------------------------- MODULE AlertLifecycleProofs -------------------------
(***************************************************************************)
(* No alert is lost and every alert goes through the same life cycle, for  *)
(* any number of overlapping evaluations, callers, rules and faults.  With *)
(* one evaluator at a time a rule has one open alert and keeps its         *)
(* cooldown: what the evaluation has found out still holds when it inserts.*)
(***************************************************************************)
EXTENDS AlertLifecycle, TLAPS

\* Every step gives each task a value of its type.
LEMMA BecomeType ==
  ASSUME task \in [Procs -> Task], NEW p \in Procs, NEW t \in Task, Become(p, t)
  PROVE  task' \in [Procs -> Task]
BY DEF Become

LEMMA TaskFields ==
  ASSUME NEW t \in Task
  PROVE  /\ t.at \in Stages /\ t.since \in Nat /\ t.rules \subseteq Rules
         /\ t.todo \subseteq Rules /\ t.rule \in Rules \cup {NoRule}
         /\ t.now \in Nat /\ t.listed \subseteq Ids /\ t.alert \in Ids
BY DEF Task

LEMMA IdleType == Idle \in Task
BY AlertAssumption DEF Idle, Task, Stages, Ids

\* The updates that the actions make of a task keep its type.
LEMMA SetAt == \A t \in Task : \A s \in Stages : [t EXCEPT !.at = s] \in Task
BY DEF Task

LEMMA SetRule ==
  \A t \in Task : \A s \in Stages, r \in Rules \cup {NoRule}, n \in Nat :
    [t EXCEPT !.at = s, !.rule = r, !.now = n] \in Task
BY DEF Task

LEMMA SetNow ==
  \A t \in Task : \A s \in Stages, n \in Nat :
    [t EXCEPT !.at = s, !.now = n] \in Task
BY DEF Task

LEMMA SetAlert ==
  \A t \in Task : \A s \in Stages, i \in Ids :
    [t EXCEPT !.at = s, !.alert = i] \in Task
BY DEF Task

LEMMA SetListed ==
  \A t \in Task : \A s \in Stages, S \in SUBSET Ids, i \in Ids :
    /\ [t EXCEPT !.listed = S] \in Task
    /\ [t EXCEPT !.at = s, !.listed = S] \in Task
    /\ [t EXCEPT !.listed = S, !.at = s, !.alert = i] \in Task
BY DEF Task

LEMMA SetTodo ==
  \A t \in Task :
    \A R \in SUBSET Rules, s \in Stages, r \in Rules, n \in Nat :
    /\ [t EXCEPT !.todo = R] \in Task
    /\ [t EXCEPT !.todo = R, !.at = s, !.rule = r, !.now = n] \in Task
BY DEF Task

\* The parts of TypeOK, so that a step can name those it needs.
Shared == /\ clock \in Nat /\ nextId \in 1 .. MaxAlerts + 1
          /\ faults \in 0 .. MaxFaults
          /\ firing \in [Rules -> BOOLEAN] /\ enabled \subseteq Rules

Rows == /\ status \in [Ids -> {"absent", "active", "acknowledged"}]
        /\ columns \in [Ids -> Columns]
        /\ history \in [Ids -> Seq({"resolved", "expired"})]

Tasks == task \in [Procs -> Task]

LEMMA TypeParts == TypeOK <=> Shared /\ Rows /\ Tasks
BY DEF TypeOK, Shared, Rows, Tasks

\* NextRule, NextAlert and Proceed make a task of a task.
LEMMA MoveType ==
  ASSUME Tasks, NEW p \in Procs, NEW s \in Stages,
         NextRule(p) \/ NextAlert(p) \/ Proceed(p, s)
  PROVE  Tasks'
<1>1. task[p] \in Task
  BY DEF Tasks
<1>2. 1 \in Ids /\ 0 \in Nat /\ "rules" \in Stages /\ "sweep" \in Stages
  BY AlertAssumption DEF Ids, Stages
<1>3. CASE NextRule(p)
  BY <1>1, <1>2, <1>3, SetRule, BecomeType DEF NextRule, Tasks
<1>4. CASE NextAlert(p)
  BY <1>1, <1>2, <1>4, SetAlert, IdleType, BecomeType DEF NextAlert, Tasks
<1>5. CASE Proceed(p, s)
  BY <1>1, <1>5, SetAt, BecomeType DEF Proceed, Tasks
<1> QED BY <1>3, <1>4, <1>5

LEMMA EvaluatorTasks ==
  ASSUME Shared, Rows, Tasks, NEW e \in Evaluators, EvaluatorStep(e)
  PROVE  Tasks'
<1>1. /\ e \in Procs /\ task[e] \in Task /\ clock \in Nat
      /\ enabled \in SUBSET Rules
  BY DEF Procs, Tasks, Shared
<1>2. /\ task[e].todo \in SUBSET Rules /\ task[e].listed \in SUBSET Ids
  BY <1>1, TaskFields
<1>3. CASE StartEvaluation(e)
  <2>1. [Idle EXCEPT !.at = "rules", !.since = clock, !.rules = enabled,
                     !.todo = enabled] \in Task
    BY <1>1, IdleType DEF Task, Stages
  <2> QED BY <1>1, <1>3, <2>1, BecomeType DEF StartEvaluation, Tasks
<1>4. ASSUME NEW r \in Rules, CheckCooldown(e, r) PROVE Tasks'
  <2>1. task[e].todo \ {r} \in SUBSET Rules /\ "history" \in Stages
    BY <1>2 DEF Stages
  <2>2. /\ [task[e] EXCEPT !.todo = task[e].todo \ {r}] \in Task
        /\ [task[e] EXCEPT !.todo = task[e].todo \ {r}, !.at = "history",
                           !.rule = r, !.now = clock] \in Task
    BY <1>1, <2>1, SetTodo
  <2>3. \/ Become(e, [task[e] EXCEPT !.todo = task[e].todo \ {r}])
        \/ Become(e, [task[e] EXCEPT !.todo = task[e].todo \ {r},
                        !.at = "history", !.rule = r, !.now = clock])
    BY <1>4 DEF CheckCooldown
  <2> QED BY <1>1, <2>2, <2>3, BecomeType DEF Tasks
<1>5. CASE CheckHistory(e) \/ EvaluateCondition(e) \/ InsertAlert(e)
  <2>1. "condition" \in Stages /\ "duplicate" \in Stages
    BY DEF Stages
  <2> QED BY <1>1, <1>5, <2>1, MoveType
          DEF CheckHistory, EvaluateCondition, InsertAlert
<1>6. CASE CheckDuplicate(e)
  <2>1. \/ NextRule(e)
        \/ Become(e, [task[e] EXCEPT !.at = "insert", !.now = clock])
    BY <1>6 DEF CheckDuplicate
  <2>2. "insert" \in Stages /\ "rules" \in Stages
    BY DEF Stages
  <2>3. [task[e] EXCEPT !.at = "insert", !.now = clock] \in Task
    BY <1>1, <2>2, SetNow
  <2> QED BY <1>1, <2>1, <2>2, <2>3, MoveType, BecomeType DEF Tasks
<1>7. CASE ListAlerts(e)
  <2>1. PICK S \in SUBSET Ids :
          Become(e, [task[e] EXCEPT !.at = "sweep", !.listed = S])
    BY <1>7 DEF ListAlerts
  <2>2. "sweep" \in Stages /\ 1 \in Ids
    BY AlertAssumption DEF Stages, Ids
  <2>3. [task[e] EXCEPT !.at = "sweep", !.listed = S] \in Task
    BY <1>1, <2>2, SetListed
  <2> QED BY <1>1, <2>1, <2>3, BecomeType DEF Tasks
<1>8. ASSUME NEW i \in Ids, RecheckAlert(e, i) PROVE Tasks'
  <2>1. task[e].listed \ {i} \in SUBSET Ids /\ "read" \in Stages
    BY <1>2 DEF Stages
  <2>2. \/ Become(e, [task[e] EXCEPT !.listed = task[e].listed \ {i},
                                     !.at = "read", !.alert = i])
        \/ Become(e, [task[e] EXCEPT !.listed = task[e].listed \ {i}])
    BY <1>8 DEF RecheckAlert
  <2>3. /\ [task[e] EXCEPT !.listed = task[e].listed \ {i}, !.at = "read",
                           !.alert = i] \in Task
        /\ [task[e] EXCEPT !.listed = task[e].listed \ {i}] \in Task
    BY <1>1, <2>1, SetListed
  <2> QED BY <1>1, <2>2, <2>3, BecomeType DEF Tasks
<1>9. CASE ArchiveExpired(e) \/ DeleteExpired(e)
  <2>1. \/ Become(e, [task[e] EXCEPT !.at = "expire", !.now = clock])
        \/ Become(e, Idle)
    BY <1>9 DEF ArchiveExpired, DeleteExpired
  <2>2. [task[e] EXCEPT !.at = "expire", !.now = clock] \in Task
    BY <1>1, SetNow DEF Stages
  <2> QED BY <1>1, <2>1, <2>2, IdleType, BecomeType DEF Tasks
<1> QED BY <1>3, <1>4, <1>5, <1>6, <1>7, <1>8, <1>9 DEF EvaluatorStep

LEMMA OtherTasks ==
  ASSUME Shared, Rows, Tasks,
         (\E p \in Procs : ResolveStep(p)) \/ Environment
  PROVE  Tasks'
<1>0. {"archive", "delete", "rules", "sweep", "read"} \subseteq Stages
  BY DEF Stages
<1>1. ASSUME NEW p \in Procs, ResolveStep(p) PROVE Tasks'
  BY <1>0, <1>1, MoveType DEF ResolveStep, ReadAlert, ArchiveAlert, DeleteAlert
<1>2. ASSUME NEW c \in Callers, NEW i \in Ids, StartResolve(c, i) PROVE Tasks'
  <2>1. [Idle EXCEPT !.at = "read", !.alert = i] \in Task
    BY <1>0, SetAlert, IdleType
  <2> QED BY <1>2, <2>1, BecomeType DEF StartResolve, Tasks, Procs
<1>3. ASSUME NEW i \in Ids, Acknowledge(i) PROVE Tasks'
  BY <1>3 DEF Acknowledge, Tasks
<1>4. ASSUME NEW r \in Rules, SetEnabled(r) \/ Flip(r) PROVE Tasks'
  BY <1>4 DEF SetEnabled, Flip, Tasks
<1>5. ASSUME NEW e \in Evaluators, StatementFails(e) PROVE Tasks'
  BY <1>0, <1>5, MoveType, IdleType, BecomeType
     DEF StatementFails, Tasks, Procs
<1>6. ASSUME NEW p \in Procs, Crash(p) PROVE Tasks'
  BY <1>6, IdleType, BecomeType DEF Crash, Tasks
<1>7. CASE Tick
  BY <1>7 DEF Tick, Tasks
<1> QED BY <1>1, <1>2, <1>3, <1>4, <1>5, <1>6, <1>7 DEF Environment

\* The two tables keep their types.
LEMMA NextRows ==
  ASSUME Shared, Rows, Tasks, [AlertNext]_alertVars
  PROVE  Rows'
<1> DEFINE Values == {"absent", "active", "acknowledged"}
<1>1. CASE UNCHANGED tables
  BY <1>1 DEF tables, Rows
<1>2. ASSUME NEW e \in Evaluators, InsertAlert(e) PROVE Rows'
  <2>1. task[e] \in Task /\ clock \in Nat /\ e \in Procs
    BY DEF Tasks, Shared, Procs
  <2>2. task[e].rule \in Rules \cup {NoRule} /\ task[e].now + Expiry \in Nat
    BY <2>1, TaskFields, AlertAssumption
  <2>3. [rule |-> task[e].rule, triggered |-> clock,
         expires |-> task[e].now + Expiry] \in Columns
    BY <2>1, <2>2 DEF Columns
  <2> QED BY <1>1, <1>2, <2>3 DEF InsertAlert, Rows
<1>3. ASSUME NEW p \in Procs, ArchiveAlert(p) PROVE Rows'
  <2>1. task[p].alert \in Ids
    BY TaskFields DEF Tasks
  <2> QED BY <1>3, <2>1 DEF ArchiveAlert, Rows
<1>4. ASSUME NEW e \in Evaluators, ArchiveExpired(e) PROVE Rows'
  BY <1>4 DEF ArchiveExpired, Rows
<1>5. ASSUME NEW p \in Procs, DeleteAlert(p) PROVE Rows'
  BY <1>5 DEF DeleteAlert, Rows
<1>6. ASSUME NEW e \in Evaluators, DeleteExpired(e) PROVE Rows'
  BY <1>6 DEF DeleteExpired, Rows
<1>7. ASSUME NEW i \in Ids, Acknowledge(i) PROVE Rows'
  BY <1>7 DEF Acknowledge, Rows
<1>8. ASSUME NEW e \in Evaluators, EvaluatorStep(e) PROVE Rows'
  BY <1>1, <1>2, <1>4, <1>6, <1>8
     DEF EvaluatorStep, StartEvaluation, CheckCooldown, CheckHistory,
         EvaluateCondition, CheckDuplicate, ListAlerts, RecheckAlert
<1>9. ASSUME NEW p \in Procs, ResolveStep(p) PROVE Rows'
  BY <1>1, <1>3, <1>5, <1>9 DEF ResolveStep, ReadAlert
<1>10. CASE Environment
  BY <1>1, <1>7, <1>10
     DEF Environment, StartResolve, SetEnabled, Flip, StatementFails, Crash, Tick
<1>11. CASE UNCHANGED alertVars
  BY <1>1, <1>11 DEF alertVars
<1> QED BY <1>8, <1>9, <1>10, <1>11 DEF AlertNext

LEMMA NextShared ==
  ASSUME Shared, Rows, Tasks, [AlertNext]_alertVars
  PROVE  Shared'
<1>1. CASE UNCHANGED <<clock, world, tables, faults>>
  BY <1>1 DEF Shared, world, tables
<1>2. ASSUME NEW e \in Evaluators, EvaluatorStep(e) PROVE Shared'
  <2>1. UNCHANGED <<clock, world, faults>>
    BY <1>2 DEF EvaluatorStep, StartEvaluation, CheckCooldown, CheckHistory,
                EvaluateCondition, CheckDuplicate, InsertAlert, ListAlerts,
                RecheckAlert, ArchiveExpired, DeleteExpired
  <2>2. \/ nextId' = nextId
        \/ nextId <= MaxAlerts /\ nextId' = nextId + 1
    BY <1>2 DEF EvaluatorStep, StartEvaluation, CheckCooldown, CheckHistory,
                EvaluateCondition, CheckDuplicate, InsertAlert, ListAlerts,
                RecheckAlert, ArchiveExpired, DeleteExpired, tables
  <2> QED BY <2>1, <2>2, AlertAssumption DEF Shared, world
<1>3. ASSUME NEW p \in Procs, ResolveStep(p) PROVE Shared'
  BY <1>3 DEF ResolveStep, ReadAlert, ArchiveAlert, DeleteAlert, Shared, world,
              tables
<1>4. ASSUME NEW e \in Evaluators, StatementFails(e) PROVE Shared'
  BY <1>4, AlertAssumption DEF StatementFails, Shared, world, tables
<1>5. ASSUME NEW p \in Procs, Crash(p) PROVE Shared'
  BY <1>5, AlertAssumption DEF Crash, Shared, world, tables
<1>6. ASSUME NEW r \in Rules, SetEnabled(r) \/ Flip(r) PROVE Shared'
  BY <1>6 DEF SetEnabled, Flip, Shared, tables
<1>7. CASE Tick
  BY <1>7 DEF Tick, Shared, world, tables
<1>8. ASSUME NEW i \in Ids, Acknowledge(i) PROVE Shared'
  BY <1>8 DEF Acknowledge, Shared, world
<1>9. ASSUME NEW c \in Callers, NEW i \in Ids, StartResolve(c, i)
      PROVE  Shared'
  BY <1>1, <1>9 DEF StartResolve
<1>10. CASE Environment
  BY <1>4, <1>5, <1>6, <1>7, <1>8, <1>9, <1>10 DEF Environment
<1>11. CASE UNCHANGED alertVars
  BY <1>1, <1>11 DEF alertVars
<1> QED BY <1>2, <1>3, <1>10, <1>11 DEF AlertNext

LEMMA InitTypes == AlertInit => Shared /\ Rows /\ Tasks
<1>1. Idle \in Task
  BY IdleType
<1>2. NoRow \in Columns
  BY DEF NoRow, Columns
<1> QED BY <1>1, <1>2, AlertAssumption DEF AlertInit, Shared, Rows, Tasks

\* The tables, the tasks and the counters keep their types.
THEOREM AlertTypeCorrect == AlertSpec => []TypeOK
<1>1. AlertInit => TypeOK
  BY InitTypes, TypeParts
<1>2. TypeOK /\ [AlertNext]_alertVars => TypeOK'
  <2> SUFFICES ASSUME Shared, Rows, Tasks, [AlertNext]_alertVars
               PROVE  Shared' /\ Rows' /\ Tasks'
    BY DEF TypeOK, Shared, Rows, Tasks
  <2>1. UNCHANGED alertVars => Tasks'
    BY DEF alertVars, Tasks
  <2>2. Tasks'
    BY <2>1, EvaluatorTasks, OtherTasks DEF AlertNext
  <2> QED BY <2>2, NextRows, NextShared
<1> QED BY <1>1, <1>2, PTL DEF AlertSpec
-----------------------------------------------------------------------------
\* A step that changes one task only, to one that is consistent.
LEMMA TaskStep ==
  ASSUME AlertInv, Tasks, UNCHANGED <<clock, tables>>,
         NEW p \in Procs, NEW t, Become(p, t), Consistent(p, t)
  PROVE  AlertInv'
<1>1. \A q \in Procs : task'[q] = IF q = p THEN t ELSE task[q]
  BY DEF Become, Tasks
<1>2. \A q \in Procs : Consistent(q, task'[q])
  BY <1>1 DEF AlertInv
<1>3. \A q \in Procs : Consistent(q, task[q])'
  BY <1>2 DEF Consistent, tables, Archived, Expired, Open
<1> QED BY <1>3 DEF AlertInv, Fresh, NothingLost, tables, Open, Archived

\* The moves that carry over what was consistent.
LEMMA MoveConsistent ==
  ASSUME AlertInv, Shared, Tasks, NEW p \in Procs
  PROVE  /\ Consistent(p, Idle)
         /\ Consistent(p, [task[p] EXCEPT !.at = "rules", !.rule = NoRule,
                                          !.now = 0])
            \/ task[p].at = "idle"
         /\ Consistent(p, [task[p] EXCEPT !.at = "sweep", !.alert = 1])
            \/ task[p].at = "idle"
         /\ \A s \in Stages \ {"archive", "delete", "expire", "insert"} :
              Consistent(p, [task[p] EXCEPT !.at = s]) \/ task[p].at = "idle"
<1>1. task[p] \in Task /\ clock \in Nat /\ Consistent(p, task[p])
  BY DEF Tasks, Shared, AlertInv
<1> DEFINE t == task[p]
<1> HIDE DEF t
<1>2. t \in Task /\ Consistent(p, t)
  BY <1>1 DEF t
<1>3. Consistent(p, Idle)
  BY <1>1 DEF Consistent, Idle
<1>4. Consistent(p, [t EXCEPT !.at = "rules", !.rule = NoRule, !.now = 0])
      \/ t.at = "idle"
  BY <1>1, <1>2 DEF Consistent, Task
<1>5. Consistent(p, [t EXCEPT !.at = "sweep", !.alert = 1]) \/ t.at = "idle"
  BY <1>2 DEF Consistent, Task
<1>6. \A s \in Stages \ {"archive", "delete", "expire", "insert"} :
        Consistent(p, [t EXCEPT !.at = s]) \/ t.at = "idle"
  BY <1>2 DEF Consistent, Task
<1> QED BY <1>3, <1>4, <1>5, <1>6 DEF t

\* The evaluator's steps that write no table.
LEMMA ReadingSteps ==
  ASSUME AlertInv, Shared, Rows, Tasks, NEW e \in Evaluators,
         \/ StartEvaluation(e) \/ (\E r \in Rules : CheckCooldown(e, r))
         \/ CheckHistory(e) \/ EvaluateCondition(e) \/ CheckDuplicate(e)
         \/ ListAlerts(e) \/ (\E i \in Ids : RecheckAlert(e, i))
  PROVE  AlertInv'
<1>1. /\ e \in Procs /\ task[e] \in Task /\ Consistent(e, task[e])
      /\ clock \in Nat
  BY DEF Procs, Tasks, AlertInv, Shared
<1> DEFINE t == task[e]
<1> HIDE DEF t
<1>2. t \in Task /\ Consistent(e, t) /\ t = task[e]
  BY <1>1 DEF t
<1>3. UNCHANGED <<clock, tables>>
  BY DEF StartEvaluation, CheckCooldown, CheckHistory, EvaluateCondition,
         CheckDuplicate, ListAlerts, RecheckAlert
<1>4. CASE StartEvaluation(e)
  <2>1. Consistent(e, [Idle EXCEPT !.at = "rules", !.since = clock,
                         !.rules = enabled, !.todo = enabled])
    BY <1>1, AlertAssumption DEF Consistent, Idle
  <2> QED BY <1>1, <1>3, <1>4, <2>1, TaskStep DEF StartEvaluation
<1>5. ASSUME NEW r \in Rules, CheckCooldown(e, r) PROVE AlertInv'
  <2>1. /\ t.at = "rules"
        /\ \/ Become(e, [t EXCEPT !.todo = t.todo \ {r}])
           \/ Become(e, [t EXCEPT !.todo = t.todo \ {r}, !.at = "history",
                                  !.rule = r, !.now = clock])
    BY <1>2, <1>5 DEF CheckCooldown
  <2>2. /\ Consistent(e, [t EXCEPT !.todo = t.todo \ {r}])
        /\ Consistent(e, [t EXCEPT !.todo = t.todo \ {r}, !.at = "history",
                                   !.rule = r, !.now = clock])
    BY <1>1, <1>2, <2>1 DEF Consistent, Task
  <2> QED BY <1>1, <1>3, <2>1, <2>2, TaskStep
<1>6. CASE CheckHistory(e) \/ EvaluateCondition(e)
  <2>1. \/ NextRule(e)
        \/ \E s \in {"condition", "duplicate"} : Proceed(e, s)
    BY <1>6 DEF CheckHistory, EvaluateCondition
  <2>2. task[e].at # "idle"
    BY <1>6 DEF CheckHistory, EvaluateCondition
  <2>3. {"condition", "duplicate"}
          \subseteq Stages \ {"archive", "delete", "expire", "insert"}
    BY DEF Stages
  <2> QED BY <1>1, <1>3, <2>1, <2>2, <2>3, MoveConsistent, TaskStep
          DEF NextRule, Proceed
<1>7. CASE CheckDuplicate(e)
  <2>1. /\ t.at = "duplicate"
        /\ \/ NextRule(e)
           \/ Become(e, [t EXCEPT !.at = "insert", !.now = clock])
    BY <1>2, <1>7 DEF CheckDuplicate
  <2>2. Consistent(e, [t EXCEPT !.at = "insert", !.now = clock])
    BY <1>1, <1>2, <2>1 DEF Consistent, Task
  <2> QED BY <1>1, <1>2, <1>3, <2>1, <2>2, MoveConsistent, TaskStep
          DEF NextRule
<1>8. CASE ListAlerts(e)
  <2>1. PICK S : Become(e, [t EXCEPT !.at = "sweep", !.listed = S])
    BY <1>2, <1>8 DEF ListAlerts
  <2>2. t.at = "rules"
    BY <1>2, <1>8 DEF ListAlerts
  <2>3. Consistent(e, [t EXCEPT !.at = "sweep", !.listed = S])
    BY <1>2, <2>2 DEF Consistent, Task
  <2> QED BY <1>1, <1>3, <2>1, <2>3, TaskStep
<1>9. ASSUME NEW i \in Ids, RecheckAlert(e, i) PROVE AlertInv'
  <2>1. /\ t.at = "sweep"
        /\ \/ Become(e, [t EXCEPT !.listed = t.listed \ {i}, !.at = "read",
                                  !.alert = i])
           \/ Become(e, [t EXCEPT !.listed = t.listed \ {i}])
    BY <1>2, <1>9 DEF RecheckAlert
  <2>2. /\ Consistent(e, [t EXCEPT !.listed = t.listed \ {i}, !.at = "read",
                                   !.alert = i])
        /\ Consistent(e, [t EXCEPT !.listed = t.listed \ {i}])
    BY <1>2, <2>1 DEF Consistent, Task
  <2> QED BY <1>1, <1>3, <2>1, <2>2, TaskStep
<1> QED BY <1>4, <1>5, <1>6, <1>7, <1>8, <1>9

\* The new alert outlives every cleanup under way.
LEMMA InsertInv ==
  ASSUME AlertInv, Shared, Rows, Tasks, NEW e \in Evaluators, InsertAlert(e)
  PROVE  AlertInv'
<1>1. /\ e \in Procs /\ task[e] \in Task /\ task[e].at = "insert"
      /\ Consistent(e, task[e]) /\ clock \in Nat /\ nextId \in Nat
      /\ NextRule(e) /\ clock' = clock
  BY AlertAssumption DEF Procs, Tasks, AlertInv, Shared, InsertAlert
<1>2. Consistent(e, [task[e] EXCEPT !.at = "rules", !.rule = NoRule, !.now = 0])
  BY <1>1, MoveConsistent
<1>3. CASE UNCHANGED tables
  BY <1>1, <1>2, <1>3, TaskStep DEF NextRule
<1>4. CASE ~ UNCHANGED tables
  <2> DEFINE new == [rule |-> task[e].rule, triggered |-> clock,
                     expires |-> task[e].now + Expiry]
  <2>1. /\ nextId <= MaxAlerts /\ nextId' = nextId + 1 /\ history' = history
        /\ status' = [status EXCEPT ![nextId] = "active"]
        /\ columns' = [columns EXCEPT ![nextId] = new]
    BY <1>4 DEF InsertAlert
  <2>2. /\ task[e].now \in Nat /\ task[e].since \in Nat
        /\ task[e].since <= task[e].now /\ clock - task[e].since <= TaskLimit
    BY <1>1, TaskFields DEF Consistent
  <2>3. new.expires >= clock
    BY <1>1, <2>2, AlertAssumption
  <2> HIDE DEF new
  <2>4. nextId \in Ids
    BY <1>1, <2>1, AlertAssumption DEF Ids, Shared
  <2>5. \A i \in Ids \ {nextId} :
          status'[i] = status[i] /\ columns'[i] = columns[i]
    BY <2>1, <2>4 DEF Rows
  <2>6. status'[nextId] = "active" /\ columns'[nextId] = new
    BY <2>1, <2>4 DEF Rows
  <2>7. Fresh' /\ NothingLost'
    BY <1>1, <2>1, <2>4, <2>5, <2>6
       DEF AlertInv, Fresh, NothingLost, Open, Archived, Ids
  <2>8. ASSUME NEW p \in Procs, NEW t \in Task, Consistent(p, t)
        PROVE  Consistent(p, t)'
    <3>1. t.now \in Nat /\ t.now <= clock
      BY <2>8, TaskFields DEF Consistent
    <3>2. new.expires \in Nat
      BY <2>2, AlertAssumption DEF new
    <3>3. \A i \in Ids : Expired(i, t.now)' => Expired(i, t.now)
      BY <1>1, <2>3, <2>4, <2>5, <2>6, <3>1, <3>2 DEF Expired, Open
    <3>4. \A i \in Ids : Archived(i)' <=> Archived(i)
      BY <2>1 DEF Archived
    <3>5. t.alert \in Ids
      BY TaskFields
    <3> QED BY <1>1, <2>1, <2>8, <3>3, <3>4, <3>5 DEF Consistent, Ids
  <2>9. \A p \in Procs : task'[p] = IF p = e
          THEN [task[e] EXCEPT !.at = "rules", !.rule = NoRule, !.now = 0]
          ELSE task[p]
    BY <1>1 DEF NextRule, Become, Tasks
  <2>10. \A p \in Procs : task'[p] \in Task /\ Consistent(p, task'[p])
    <3>1. [task[e] EXCEPT !.at = "rules", !.rule = NoRule, !.now = 0] \in Task
      BY <1>1, SetRule DEF Stages
    <3> QED BY <1>2, <2>9, <3>1 DEF AlertInv, Tasks
  <2> HIDE DEF Consistent
  <2>11. \A p \in Procs : Consistent(p, task[p])'
    BY <2>8, <2>10
  <2> QED BY <2>7, <2>11 DEF AlertInv
<1> QED BY <1>3, <1>4

\* A step that archives, acknowledges or deletes what is archived keeps what
\* was consistent.
Settles ==
  /\ clock' = clock /\ nextId' = nextId /\ columns' = columns
  /\ \A i \in Ids : Archived(i) => Archived(i)'
  /\ \A i \in Ids : Open(i)' => Open(i)
  /\ \A i \in Ids : Open(i) /\ ~ Open(i)' => Archived(i)
  /\ \A i \in Ids : Archived(i)' => Archived(i) \/ Open(i)

LEMMA SettlesConsistent ==
  ASSUME Settles, NEW p \in Procs, NEW t \in Task, Consistent(p, t)
  PROVE  Consistent(p, t)'
<1>1. t.alert \in Ids
  BY TaskFields
<1>2. \A i \in Ids : Expired(i, t.now)' => Expired(i, t.now)
  BY DEF Settles, Expired
<1> QED BY <1>1, <1>2 DEF Settles, Consistent

LEMMA SettlesTables ==
  ASSUME Settles, AlertInv
  PROVE  Fresh' /\ NothingLost'
BY DEF Settles, AlertInv, Fresh, NothingLost

LEMMA SettlesTask ==
  ASSUME AlertInv, Tasks, Settles, NEW p \in Procs, NEW t \in Task,
         Become(p, t), Consistent(p, t)'
  PROVE  AlertInv'
<1>1. \A q \in Procs : task'[q] = IF q = p THEN t ELSE task[q]
  BY DEF Become, Tasks
<1>2. \A q \in Procs : task[q] \in Task /\ Consistent(q, task[q])
  BY DEF AlertInv, Tasks
<1>3. ASSUME NEW q \in Procs PROVE Consistent(q, task[q])'
  <2>1. Consistent(q, task[q]) /\ task[q] \in Task
    BY <1>2
  <2>2. CASE q = p
    BY <1>1, <2>2 DEF Consistent
  <2>3. CASE q # p
    <3> DEFINE u == task[q]
    <3> HIDE DEF u
    <3>1. u \in Task /\ Consistent(q, u) /\ task'[q] = u
      BY <1>1, <2>1, <2>3 DEF u
    <3>2. \A v \in Task : Consistent(q, v) => Consistent(q, v)'
      BY SettlesConsistent
    <3>3. task'[q] \in Task /\ Consistent(q, task'[q])
      BY <3>1
    <3> HIDE DEF Consistent
    <3> QED BY <3>2, <3>3
  <2> QED BY <2>2, <2>3
<1> QED BY <1>3, SettlesTables DEF AlertInv

LEMMA AppendNotEmpty ==
  \A h \in Seq({"resolved", "expired"}), v \in {"resolved", "expired"} :
    Append(h, v) # <<>>
<1> SUFFICES ASSUME NEW h \in Seq({"resolved", "expired"}),
                    NEW v \in {"resolved", "expired"}
             PROVE  Append(h, v) # <<>>
  OBVIOUS
<1>1. Len(Append(h, v)) = Len(h) + 1 /\ Len(h) \in Nat /\ Len(<<>>) = 0
  OBVIOUS
<1> QED BY <1>1

LEMMA ArchiveInv ==
  ASSUME AlertInv, Shared, Rows, Tasks, NEW p \in Procs, ArchiveAlert(p)
  PROVE  AlertInv' /\ Settles
<1>1. task[p] \in Task /\ Consistent(p, task[p]) /\ task[p].at = "archive"
  BY DEF Tasks, AlertInv, ArchiveAlert
<1>a. PICK a \in Ids : a = task[p].alert
  BY <1>1, TaskFields
<1>t. PICK t \in Task : /\ Become(p, t) /\ t.at = "delete" /\ t.alert = a
                        /\ t.now = task[p].now /\ t.since = task[p].since
  <2> DEFINE u == task[p]
  <2> HIDE DEF u
  <2>1. u \in Task /\ u.alert = a
    BY <1>1, <1>a DEF u
  <2>2. "delete" \in Stages
    BY DEF Stages
  <2>3. [u EXCEPT !.at = "delete"] \in Task
    BY <2>1, <2>2, SetAt
  <2>4. /\ [u EXCEPT !.at = "delete"].at = "delete"
        /\ [u EXCEPT !.at = "delete"].alert = a
        /\ [u EXCEPT !.at = "delete"].now = u.now
        /\ [u EXCEPT !.at = "delete"].since = u.since
    BY <2>1 DEF Task
  <2>5. Become(p, [u EXCEPT !.at = "delete"])
    BY DEF ArchiveAlert, Proceed, u
  <2>6. \E t \in Task : /\ Become(p, t) /\ t.at = "delete" /\ t.alert = a
                        /\ t.now = u.now /\ t.since = u.since
    BY <2>3, <2>4, <2>5
  <2> QED BY <2>6 DEF u
<1>2. a < nextId
  BY <1>1, <1>a DEF Consistent
<1>3. /\ clock' = clock /\ nextId' = nextId /\ columns' = columns
      /\ status' = status
      /\ history' = IF Open(a) THEN [history EXCEPT ![a] = Append(@, "resolved")]
                    ELSE history
  BY <1>a DEF ArchiveAlert
<1>4. \A i \in Ids : history[i] \in Seq({"resolved", "expired"})
  BY DEF Rows
<1>5. Append(history[a], "resolved") # <<>>
  BY <1>4, AppendNotEmpty
<1>6. \A i \in Ids :
        \/ history'[i] = history[i]
        \/ i = a /\ Open(a) /\ history'[i] = Append(history[a], "resolved")
  BY <1>3 DEF Rows
<1>7. Archived(a)'
  <2>1. CASE Open(a)
    BY <1>3, <1>5, <2>1 DEF Archived, Rows
  <2>2. CASE ~ Open(a)
    BY <1>2, <1>3, <2>2 DEF AlertInv, NothingLost, Archived
  <2> QED BY <2>1, <2>2
<1>8. Settles
  BY <1>3, <1>5, <1>6 DEF Settles, Open, Archived
<1>9. Consistent(p, t)'
  BY <1>1, <1>t, <1>2, <1>3, <1>7 DEF Consistent
<1> QED BY <1>t, <1>8, <1>9, SettlesTask

LEMMA DeleteInv ==
  ASSUME AlertInv, Shared, Rows, Tasks, NEW p \in Procs, DeleteAlert(p)
  PROVE  AlertInv' /\ Settles
<1>1. /\ task[p] \in Task /\ Consistent(p, task[p]) /\ task[p].at = "delete"
      /\ task[p].alert \in Ids
  BY TaskFields DEF Tasks, AlertInv, DeleteAlert
<1>2. /\ clock' = clock /\ nextId' = nextId /\ columns' = columns
      /\ history' = history
      /\ status' = [status EXCEPT ![task[p].alert] = "absent"]
  BY DEF DeleteAlert
<1>3. Archived(task[p].alert)
  BY <1>1 DEF Consistent
<1>4. Settles
  BY <1>1, <1>2, <1>3 DEF Settles, Open, Archived, Rows
<1>5. PICK t \in {Idle, [task[p] EXCEPT !.at = "sweep", !.alert = 1]} :
        Become(p, t)
  BY DEF DeleteAlert, NextAlert
<1>6. t \in Task
  <2>1. "sweep" \in Stages /\ 1 \in Ids
    BY AlertAssumption DEF Stages, Ids
  <2>2. [task[p] EXCEPT !.at = "sweep", !.alert = 1] \in Task
    BY <1>1, <2>1, SetAlert
  <2> QED BY <1>5, <2>2, IdleType
<1>7. Consistent(p, t)
  BY <1>1, <1>5, MoveConsistent
<1>8. Consistent(p, t)'
  BY <1>4, <1>6, <1>7, SettlesConsistent
<1> QED BY <1>4, <1>5, <1>6, <1>8, SettlesTask

LEMMA CleanupInv ==
  ASSUME AlertInv, Shared, Rows, Tasks, NEW e \in Evaluators,
         ArchiveExpired(e) \/ DeleteExpired(e)
  PROVE  AlertInv' /\ Settles
<1>1. /\ e \in Procs /\ task[e] \in Task /\ Consistent(e, task[e])
      /\ clock \in Nat
  BY DEF Procs, Tasks, AlertInv, Shared
<1>2. CASE ArchiveExpired(e)
  <2>1. /\ clock' = clock /\ nextId' = nextId /\ columns' = columns
        /\ status' = status /\ task[e].at = "sweep"
        /\ history' = [i \in Ids |-> IF Expired(i, clock)
                                    THEN Append(history[i], "expired")
                                    ELSE history[i]]
    BY <1>2 DEF ArchiveExpired
  <2>2. PICK t \in Task : /\ Become(e, t) /\ t.at = "expire" /\ t.now = clock
                          /\ t.since = task[e].since
    <3> DEFINE u == task[e]
               v == [u EXCEPT !.at = "expire", !.now = clock]
    <3> HIDE DEF u
    <3>1. u \in Task
      BY <1>1 DEF u
    <3>2. "expire" \in Stages
      BY DEF Stages
    <3>3. v \in Task
      BY <1>1, <3>1, <3>2, SetNow
    <3>4. v.at = "expire" /\ v.now = clock /\ v.since = u.since
      BY <3>1 DEF Task
    <3>5. Become(e, v)
      BY <1>2 DEF ArchiveExpired, u
    <3> HIDE DEF v
    <3>6. \E t \in Task : /\ Become(e, t) /\ t.at = "expire" /\ t.now = clock
                          /\ t.since = u.since
      BY <3>3, <3>4, <3>5
    <3> QED BY <3>6 DEF u
  <2>3. \A i \in Ids : history[i] \in Seq({"resolved", "expired"})
    BY DEF Rows
  <2>4. \A i \in Ids : Append(history[i], "expired") # <<>>
    BY <2>3, AppendNotEmpty
  <2>5. \A i \in Ids : /\ Archived(i) => Archived(i)'
                       /\ Expired(i, clock) => Archived(i)'
                       /\ Archived(i)' => Archived(i) \/ Open(i)
    BY <2>1, <2>4 DEF Archived, Expired
  <2>6. Settles
    BY <2>1, <2>5 DEF Settles, Open
  <2>7. \A i \in Ids : Expired(i, t.now)' => Expired(i, clock)
    BY <2>1, <2>2 DEF Expired, Open
  <2>8. Consistent(e, t)'
    BY <1>1, <2>1, <2>2, <2>5, <2>7 DEF Consistent
  <2> QED BY <1>1, <2>1, <2>2, <2>6, <2>8, SettlesTask
<1>3. CASE DeleteExpired(e)
  <2>1. /\ clock' = clock /\ nextId' = nextId /\ columns' = columns
        /\ history' = history /\ task[e].at = "expire" /\ Become(e, Idle)
        /\ status' = [i \in Ids |-> IF Expired(i, task[e].now) THEN "absent"
                                                             ELSE status[i]]
    BY <1>3 DEF DeleteExpired
  <2>2. \A i \in Ids : Expired(i, task[e].now) => Archived(i)
    BY <1>1, <2>1 DEF Consistent
  <2>3. Settles
    BY <2>1, <2>2 DEF Settles, Open, Archived
  <2>4. Idle \in Task /\ Consistent(e, Idle)
    BY <1>1, IdleType, MoveConsistent
  <2> QED BY <1>1, <2>1, <2>3, <2>4, SettlesConsistent, SettlesTask
<1> QED BY <1>2, <1>3

LEMMA AcknowledgeInv ==
  ASSUME AlertInv, Rows, Tasks, NEW i \in Ids, Acknowledge(i)
  PROVE  AlertInv'
<1>1. /\ clock' = clock /\ nextId' = nextId /\ columns' = columns
      /\ history' = history /\ task' = task /\ status[i] = "active"
      /\ status' = [status EXCEPT ![i] = "acknowledged"]
  BY DEF Acknowledge
<1>2. Settles
  BY <1>1 DEF Settles, Open, Archived, Rows
<1>3. ASSUME NEW p \in Procs PROVE Consistent(p, task[p])'
  <2>1. PICK t \in Task : t = task[p] /\ Consistent(p, t)
    BY DEF Tasks, AlertInv
  <2>2. \A v \in Task : Consistent(p, v) => Consistent(p, v)'
    BY <1>2, SettlesConsistent
  <2>3. t = task'[p]
    BY <1>1, <2>1
  <2>4. Consistent(p, t)'
    BY <2>1, <2>2
  <2> QED BY <2>3, <2>4 DEF Consistent
<1> QED BY <1>2, <1>3, SettlesTables DEF AlertInv

\* The hard time limit stops the clock for the tasks that would outlive it.
LEMMA TickInv ==
  ASSUME AlertInv, Shared, Tasks, Tick
  PROVE  AlertInv'
<1>1. /\ clock \in Nat /\ clock' = clock + 1 /\ UNCHANGED <<tables, task>>
      /\ \A e \in Evaluators : task[e].at # "idle" =>
                                clock - task[e].since < TaskLimit
  BY DEF Shared, Tick
<1>2. ASSUME NEW p \in Procs PROVE Consistent(p, task[p])'
  <2>1. task[p] \in Task /\ Consistent(p, task[p])
    BY DEF Tasks, AlertInv
  <2>2. task[p].now \in Nat /\ task[p].since \in Nat
    BY <2>1, TaskFields
  <2>3. task[p].now <= clock + 1
    BY <1>1, <2>1, <2>2 DEF Consistent
  <2>4. p \in Evaluators /\ task[p].at # "idle" =>
          task[p].since <= clock + 1 /\ clock + 1 - task[p].since <= TaskLimit
    BY <1>1, <2>1, <2>2, AlertAssumption DEF Consistent
  <2>5. PICK t : /\ t = task[p] /\ Consistent(p, t)
                 /\ t.now \in Nat /\ t.since \in Nat
    BY <2>1, <2>2
  <2>6. \A i \in Ids : /\ Archived(i)' <=> Archived(i)
                       /\ Expired(i, t.now)' <=> Expired(i, t.now)
    BY <1>1 DEF tables, Expired, Open, Archived
  <2>7. /\ t.at \in {"archive", "delete"} => t.alert < nextId'
        /\ t.at = "delete" => history'[t.alert] # <<>>
        /\ t.at = "expire" => \A i \in Ids : Expired(i, t.now)' => Archived(i)'
        /\ t.at = "insert" => p \in Evaluators /\ t.since <= t.now
    BY <1>1, <2>5, <2>6 DEF Consistent, tables, Archived
  <2>8. /\ t.now <= clock'
        /\ p \in Evaluators /\ t.at # "idle" =>
             t.since <= clock' /\ clock' - t.since <= TaskLimit
    <3>1. clock' \in Nat /\ clock' = clock + 1
      BY <1>1
    <3>2. t.now <= clock'
      BY <2>3, <2>5, <3>1
    <3>3. ASSUME p \in Evaluators, t.at # "idle"
          PROVE  t.since <= clock' /\ clock' - t.since <= TaskLimit
      BY <1>1, <2>2, <2>4, <2>5, <3>1, <3>3, AlertAssumption
    <3> QED BY <3>2, <3>3
  <2>9. Consistent(p, t)'
    BY <2>7, <2>8 DEF Consistent, Archived
  <2> QED BY <1>1, <2>5, <2>9 DEF Consistent
<1> QED BY <1>1, <1>2
        DEF AlertInv, Fresh, NothingLost, tables, Open, Archived

LEMMA EnvironmentInv ==
  ASSUME AlertInv, Shared, Rows, Tasks, Environment
  PROVE  AlertInv'
<1>1. ASSUME NEW c \in Callers, NEW i \in Ids, StartResolve(c, i)
      PROVE  AlertInv'
  <2>1. c \in Procs /\ c \notin Evaluators /\ clock \in Nat
    BY AlertAssumption DEF Procs, Shared
  <2>2. Consistent(c, [Idle EXCEPT !.at = "read", !.alert = i])
    BY <2>1 DEF Consistent, Idle
  <2> QED BY <1>1, <2>1, <2>2, TaskStep DEF StartResolve
<1>2. ASSUME NEW r \in Rules, SetEnabled(r) \/ Flip(r) PROVE AlertInv'
  BY <1>2 DEF SetEnabled, Flip, tables, AlertInv, Fresh, NothingLost,
              Consistent, Expired, Open, Archived
<1>3. ASSUME NEW p \in Procs, Become(p, Idle), UNCHANGED <<clock, tables>>
      PROVE  AlertInv'
  BY <1>3, MoveConsistent, TaskStep
<1>4. ASSUME NEW e \in Evaluators, StatementFails(e) PROVE AlertInv'
  <2>1. e \in Procs /\ task[e].at # "idle" /\ UNCHANGED <<clock, tables>>
    BY <1>4 DEF StatementFails, Procs
  <2>2. NextRule(e) => AlertInv'
    BY <2>1, MoveConsistent, TaskStep DEF NextRule
  <2>3. NextAlert(e) => AlertInv'
    BY <2>1, MoveConsistent, TaskStep DEF NextAlert
  <2> QED BY <1>3, <1>4, <2>1, <2>2, <2>3 DEF StatementFails
<1>5. ASSUME NEW p \in Procs, Crash(p) PROVE AlertInv'
  BY <1>3, <1>5 DEF Crash
<1> QED BY <1>1, <1>2, <1>4, <1>5, AcknowledgeInv, TickInv DEF Environment

LEMMA ReadInv ==
  ASSUME AlertInv, Shared, Rows, Tasks, NEW p \in Procs, ReadAlert(p)
  PROVE  AlertInv'
<1>1. /\ task[p] \in Task /\ Consistent(p, task[p]) /\ task[p].at = "read"
      /\ UNCHANGED <<clock, tables>> /\ task[p].alert \in Ids
  BY TaskFields DEF Tasks, AlertInv, ReadAlert
<1>2. CASE NextAlert(p)
  BY <1>1, <1>2, MoveConsistent, TaskStep DEF NextAlert
<1>3. CASE Open(task[p].alert) /\ Proceed(p, "archive")
  <2> DEFINE u == task[p]
  <2> HIDE DEF u
  <2>1. u \in Task /\ Consistent(p, u) /\ u.at = "read" /\ Open(u.alert)
        /\ u.alert \in Ids
    BY <1>1, <1>3 DEF u
  <2>2. u.alert < nextId
    BY <2>1, AlertAssumption DEF AlertInv, Fresh, Ids, Shared
  <2>3. Consistent(p, [u EXCEPT !.at = "archive"])
    BY <2>1, <2>2 DEF Consistent, Task
  <2> QED BY <1>1, <1>3, <2>3, TaskStep DEF Proceed, u
<1> QED BY <1>2, <1>3 DEF ReadAlert

LEMMA AlertInvKept ==
  ASSUME AlertInv, Shared, Rows, Tasks, [AlertNext]_alertVars
  PROVE  AlertInv'
<1>1. ASSUME NEW e \in Evaluators, EvaluatorStep(e) PROVE AlertInv'
  BY <1>1, ReadingSteps, InsertInv, CleanupInv DEF EvaluatorStep
<1>2. ASSUME NEW p \in Procs, ResolveStep(p) PROVE AlertInv'
  BY <1>2, ReadInv, ArchiveInv, DeleteInv DEF ResolveStep
<1>3. CASE UNCHANGED alertVars
  BY <1>3 DEF alertVars, tables, AlertInv, Fresh, NothingLost, Consistent,
              Expired, Open, Archived
<1> QED BY <1>1, <1>2, <1>3, EnvironmentInv DEF AlertNext

LEMMA AlertInvInit == AlertInit => AlertInv
BY AlertAssumption DEF AlertInit, AlertInv, Fresh, NothingLost, Consistent, Idle,
   Open, Archived, Ids

\* The invariant holds for any number of overlapping evaluations and callers.
THEOREM AlertsConsistent == AlertSpec => []AlertInv
<1>1. TypeOK <=> Shared /\ Rows /\ Tasks
  BY TypeParts
<1>2. TypeOK /\ AlertInv /\ [AlertNext]_alertVars => AlertInv'
  BY <1>1, AlertInvKept
<1> QED BY <1>2, AlertInvInit, AlertTypeCorrect, PTL DEF AlertSpec

\* No created alert disappears from both tables.
THEOREM NoAlertLost == AlertSpec => []NothingLost
<1>1. AlertInv => NothingLost
  BY DEF AlertInv
<1> QED BY <1>1, AlertsConsistent, PTL
-----------------------------------------------------------------------------
\* What a step may do to the state of an alert.
Follows == \A i \in Ids : State(i) = State(i)'
                          \/ <<State(i), State(i)'>> \in Lifecycle

LEMMA TablesFollow ==
  ASSUME UNCHANGED tables
  PROVE  Follows
BY DEF tables, Follows, State, Open, Archived

LEMMA SettlesFollow ==
  ASSUME Rows, Settles, \A i \in Ids : Open(i)' => status'[i] = status[i]
  PROVE  Follows
<1> SUFFICES ASSUME NEW i \in Ids
             PROVE  State(i) = State(i)' \/ <<State(i), State(i)'>> \in Lifecycle
  BY DEF Follows
<1>1. Open(i) => status[i] = "active" \/ status[i] = "acknowledged"
  BY DEF Rows, Open
<1>2. CASE Archived(i)
  BY <1>2 DEF Settles, State
<1>3. CASE ~ Archived(i) /\ Archived(i)'
  BY <1>1, <1>3 DEF Settles, State, Lifecycle
<1>4. CASE ~ Archived(i) /\ ~ Archived(i)'
  BY <1>4 DEF Settles, State
<1> QED BY <1>2, <1>3, <1>4

LEMMA InsertFollows ==
  ASSUME AlertInv, Shared, Rows, NEW e \in Evaluators, InsertAlert(e)
  PROVE  Follows
<1>1. CASE UNCHANGED tables
  BY <1>1, TablesFollow
<1>2. CASE ~ UNCHANGED tables
  <2>1. /\ nextId <= MaxAlerts /\ history' = history
        /\ status' = [status EXCEPT ![nextId] = "active"]
    BY <1>2 DEF InsertAlert
  <2>2. nextId \in Ids /\ ~ Open(nextId) /\ ~ Archived(nextId)
    BY <2>1, AlertAssumption DEF AlertInv, Fresh, Ids, Shared
  <2>3. \A i \in Ids : status'[i] = IF i = nextId THEN "active" ELSE status[i]
    BY <2>1 DEF Rows
  <2> QED BY <2>1, <2>2, <2>3 DEF Follows, State, Lifecycle, Open, Archived
<1> QED BY <1>1, <1>2

LEMMA AcknowledgeFollows ==
  ASSUME Rows, NEW i \in Ids, Acknowledge(i)
  PROVE  Follows
<1>1. /\ history' = history /\ status[i] = "active"
      /\ \A j \in Ids : status'[j] = IF j = i THEN "acknowledged" ELSE status[j]
  BY DEF Acknowledge, Rows
<1> QED BY <1>1 DEF Follows, State, Lifecycle, Open, Archived

LEMMA StepFollows ==
  ASSUME AlertInv, Shared, Rows, Tasks, [AlertNext]_alertVars
  PROVE  Follows
<1>1. ASSUME NEW e \in Evaluators, EvaluatorStep(e) PROVE Follows
  <2>1. ASSUME ArchiveExpired(e) \/ DeleteExpired(e) PROVE Follows
    <3>1. Settles
      BY <2>1, CleanupInv
    <3>2. \A i \in Ids : Open(i)' => status'[i] = status[i]
      BY <2>1 DEF ArchiveExpired, DeleteExpired, Open
    <3> QED BY <3>1, <3>2, SettlesFollow
  <2>2. CASE InsertAlert(e)
    BY <2>2, InsertFollows
  <2>3. CASE UNCHANGED tables
    BY <2>3, TablesFollow
  <2> QED BY <1>1, <2>1, <2>2, <2>3
          DEF EvaluatorStep, StartEvaluation, CheckCooldown, CheckHistory,
              EvaluateCondition, CheckDuplicate, ListAlerts, RecheckAlert
<1>2. ASSUME NEW p \in Procs, ResolveStep(p) PROVE Follows
  <2>1. ASSUME ArchiveAlert(p) \/ DeleteAlert(p) PROVE Follows
    <3>1. Settles
      BY <2>1, ArchiveInv, DeleteInv
    <3>2. \A i \in Ids : Open(i)' => status'[i] = status[i]
      BY <2>1, TaskFields DEF ArchiveAlert, DeleteAlert, Open, Rows, Tasks
    <3> QED BY <3>1, <3>2, SettlesFollow
  <2> QED BY <1>2, <2>1, TablesFollow DEF ResolveStep, ReadAlert
<1>3. CASE Environment
  BY <1>3, AcknowledgeFollows, TablesFollow
     DEF Environment, StartResolve, SetEnabled, Flip, StatementFails, Crash, Tick
<1>4. CASE UNCHANGED alertVars
  BY <1>4, TablesFollow DEF alertVars, tables
<1> QED BY <1>1, <1>2, <1>3, <1>4 DEF AlertNext

\* An alert is created active, may be acknowledged, and ends archived.
THEOREM AlertsFollowLifecycle == AlertSpec => FollowsLifecycle
<1>1. TypeOK <=> Shared /\ Rows /\ Tasks
  BY TypeParts
<1>2. TypeOK /\ AlertInv /\ [AlertNext]_alertVars
        => [\A i \in Ids : State(i) = State(i)'
              \/ <<State(i), State(i)'>> \in Lifecycle]_alertVars
  BY <1>1, StepFollows DEF Follows
<1> QED BY <1>2, AlertTypeCorrect, AlertsConsistent, PTL
        DEF AlertSpec, FollowsLifecycle
-----------------------------------------------------------------------------
(***************************************************************************)
(* One evaluation at a time.  What an evaluation has found out about its   *)
(* rule stays true until it inserts an alert, since only evaluations       *)
(* insert: the two queries of the cooldown see every alert between them,   *)
(* although one may be moved to the history after the first, and an open   *)
(* alert is not seen to appear after the duplicate check.                  *)
(***************************************************************************)
Unarchived(r, t) ==
  \A i \in Ids : i < nextId /\ RuleOf(i) = r /\ columns[i].triggered > t
                  => Archived(i)

CooledDown(r) ==
  \A i \in Ids : i < nextId /\ RuleOf(i) = r
                  => columns[i].triggered + Cooldown <= clock

NoneOpen(r) == \A i \in Ids : Open(i) => RuleOf(i) # r

Checking == {"history", "condition", "duplicate", "insert"}

Vetted(t) ==
  /\ t.at = "history" => Unarchived(t.rule, t.now - Cooldown)
  /\ t.at \in {"condition", "duplicate", "insert"} => CooledDown(t.rule)
  /\ t.at = "insert" => NoneOpen(t.rule)

RuleInv == /\ OneOpenPerRule /\ CooldownKept
           /\ \A e \in Evaluators : Vetted(task[e])

\* The steps that create no alert.
Quiet ==
  /\ clock' \in Nat /\ clock' >= clock
  /\ nextId' = nextId /\ columns' = columns
  /\ \A i \in Ids : Archived(i) => Archived(i)'
  /\ \A i \in Ids : Open(i)' => Open(i)

LEMMA QuietVetted ==
  ASSUME Quiet, Shared, Rows, NEW t, Vetted(t)
  PROVE  Vetted(t)'
<1>1. \A i \in Ids : columns[i].triggered \in Nat
  BY DEF Rows, Columns
<1>2. Unarchived(t.rule, t.now - Cooldown) => Unarchived(t.rule, t.now - Cooldown)'
  BY DEF Quiet, Unarchived, RuleOf
<1>3. CooledDown(t.rule) => CooledDown(t.rule)'
  BY <1>1, AlertAssumption DEF Quiet, CooledDown, RuleOf, Shared
<1>4. NoneOpen(t.rule) => NoneOpen(t.rule)'
  BY DEF Quiet, NoneOpen, RuleOf
<1> QED BY <1>2, <1>3, <1>4 DEF Vetted

LEMMA QuietRules ==
  ASSUME Quiet, OneOpenPerRule, CooldownKept
  PROVE  OneOpenPerRule' /\ CooldownKept'
BY DEF Quiet, OneOpenPerRule, CooldownKept, RuleOf

LEMMA StepQuiet ==
  ASSUME AlertInv, Shared, Rows, Tasks, [AlertNext]_alertVars,
         \A e \in Evaluators : ~ InsertAlert(e)
  PROVE  Quiet
<1>1. ASSUME UNCHANGED tables, clock' = clock \/ Tick
      PROVE  Quiet
  BY <1>1 DEF tables, Quiet, Open, Archived, Shared, Tick
<1>2. ASSUME Settles PROVE Quiet
  BY <1>2 DEF Settles, Quiet, Shared
<1>3. ASSUME NEW e \in Evaluators, EvaluatorStep(e) PROVE Quiet
  <2>1. CASE ArchiveExpired(e) \/ DeleteExpired(e)
    BY <1>2, <2>1, CleanupInv
  <2>2. CASE ~ (ArchiveExpired(e) \/ DeleteExpired(e))
    BY <1>1, <1>3, <2>2
       DEF EvaluatorStep, StartEvaluation, CheckCooldown, CheckHistory,
           EvaluateCondition, CheckDuplicate, ListAlerts, RecheckAlert
  <2> QED BY <2>1, <2>2
<1>4. ASSUME NEW p \in Procs, ResolveStep(p) PROVE Quiet
  <2>1. CASE ArchiveAlert(p) \/ DeleteAlert(p)
    BY <1>2, <2>1, ArchiveInv, DeleteInv
  <2>2. CASE ReadAlert(p)
    BY <1>1, <2>2 DEF ReadAlert
  <2> QED BY <1>4, <2>1, <2>2 DEF ResolveStep
<1>5. ASSUME NEW i \in Ids, Acknowledge(i) PROVE Quiet
  BY <1>5 DEF Acknowledge, Quiet, Open, Archived, Rows, Shared
<1>6. CASE Environment
  BY <1>1, <1>5, <1>6
     DEF Environment, StartResolve, SetEnabled, Flip, StatementFails, Crash, Tick
<1>7. CASE UNCHANGED alertVars
  BY <1>1, <1>7 DEF alertVars, tables
<1> QED BY <1>3, <1>4, <1>6, <1>7 DEF AlertNext

\* The queries themselves.
LEMMA CheckVets ==
  ASSUME AlertInv, Shared, Rows, Tasks, NEW e \in Evaluators, Vetted(task[e]),
         \/ \E r \in Rules : CheckCooldown(e, r)
         \/ CheckHistory(e) \/ EvaluateCondition(e) \/ CheckDuplicate(e)
  PROVE  Vetted(task'[e])
<1>1. /\ e \in Procs /\ clock \in Nat /\ nextId \in Nat /\ Cooldown \in Nat
      /\ \A i \in Ids : columns[i].triggered \in Nat
  BY AlertAssumption DEF Procs, Shared, Rows, Columns
<1> DEFINE t == task[e]
<1>2. t \in Task /\ t.now \in Nat /\ t.now <= clock
  BY <1>1, TaskFields DEF Tasks, AlertInv, Consistent
<1>3. \A u : Become(e, u) => task'[e] = u
  BY <1>1 DEF Become, Tasks
<1> HIDE DEF t
<1>4. t = task[e] /\ Vetted(t)
  BY DEF t
<1>5. NextRule(e) => Vetted(task'[e])
  BY <1>2, <1>3, <1>4 DEF NextRule, Vetted, Task
<1>6. ASSUME NEW r \in Rules, CheckCooldown(e, r) PROVE Vetted(task'[e])
  <2>1. CASE Become(e, [t EXCEPT !.todo = @ \ {r}])
    BY <1>2, <1>3, <1>4, <1>6, <2>1 DEF CheckCooldown, Vetted, Task
  <2>2. CASE /\ ~ \E i \in Ids : /\ Open(i) /\ RuleOf(i) = r
                                 /\ columns[i].triggered > clock - Cooldown
             /\ Become(e, [t EXCEPT !.todo = @ \ {r}, !.at = "history",
                                    !.rule = r, !.now = clock])
    <3>1. Unarchived(r, clock - Cooldown)
      BY <2>2 DEF Unarchived, AlertInv, NothingLost
    <3>2. /\ task'[e].at = "history" /\ task'[e].rule = r
          /\ task'[e].now = clock
      BY <1>2, <1>3, <2>2 DEF Task
    <3> QED BY <3>1, <3>2 DEF Vetted
  <2> QED BY <1>4, <1>6, <2>1, <2>2 DEF CheckCooldown
<1>7. CASE CheckHistory(e)
  <2>1. CASE /\ ~ \E i \in Ids : /\ Archived(i) /\ RuleOf(i) = t.rule
                                 /\ columns[i].triggered > t.now - Cooldown
             /\ Proceed(e, "condition")
    <3>1. Unarchived(t.rule, t.now - Cooldown)
      BY <1>4, <1>7 DEF CheckHistory, Vetted
    <3>2. CooledDown(t.rule)
      BY <1>1, <1>2, <2>1, <3>1 DEF Unarchived, CooledDown
    <3>3. task'[e].at = "condition" /\ task'[e].rule = t.rule
      BY <1>2, <1>3, <1>4, <2>1 DEF Proceed, Task
    <3> QED BY <3>2, <3>3 DEF Vetted
  <2> QED BY <1>4, <1>5, <1>7, <2>1 DEF CheckHistory
<1>8. CASE EvaluateCondition(e)
  <2>1. CASE Proceed(e, "duplicate")
    <3>1. CooledDown(t.rule)
      BY <1>4, <1>8 DEF EvaluateCondition, Vetted
    <3>2. task'[e].at = "duplicate" /\ task'[e].rule = t.rule
      BY <1>2, <1>3, <1>4, <2>1 DEF Proceed, Task
    <3> QED BY <3>1, <3>2 DEF Vetted
  <2> QED BY <1>5, <1>8, <2>1 DEF EvaluateCondition
<1>9. CASE CheckDuplicate(e)
  <2>1. CASE /\ ~ \E i \in Ids : Open(i) /\ RuleOf(i) = t.rule
             /\ Become(e, [t EXCEPT !.at = "insert", !.now = clock])
    <3>1. CooledDown(t.rule) /\ NoneOpen(t.rule)
      BY <1>4, <1>9, <2>1 DEF CheckDuplicate, Vetted, NoneOpen
    <3>2. task'[e].at = "insert" /\ task'[e].rule = t.rule
      BY <1>2, <1>3, <2>1 DEF Task
    <3> QED BY <3>1, <3>2 DEF Vetted
  <2> QED BY <1>4, <1>5, <1>9, <2>1 DEF CheckDuplicate
<1> QED BY <1>6, <1>7, <1>8, <1>9

\* A step of another kind leaves the stages of the checks, or does not touch
\* the evaluation.
LEMMA OtherVets ==
  ASSUME Tasks, NEW e \in Evaluators, [AlertNext]_alertVars,
         Vetted(task[e]),
         ~ \E r \in Rules : CheckCooldown(e, r),
         ~ CheckHistory(e), ~ EvaluateCondition(e), ~ CheckDuplicate(e)
  PROVE  Vetted(task'[e])
<1>1. e \in Procs /\ task[e] \in Task
  BY DEF Procs, Tasks
<1>2. ASSUME task'[e].at \notin Checking PROVE Vetted(task'[e])
  BY <1>2 DEF Checking, Vetted
<1>3. \A p \in Procs : \A u : Become(p, u) => task'[e] = IF p = e THEN u ELSE task[e]
  BY <1>1 DEF Become, Tasks
<1>6. ASSUME NEW p \in Procs,
             \/ NextRule(p) \/ NextAlert(p) \/ Become(p, Idle)
             \/ Proceed(p, "archive") \/ Proceed(p, "delete")
      PROVE  Vetted(task'[e])
  <2>1. CASE p # e
    BY <1>3, <1>6, <2>1 DEF NextRule, NextAlert, Proceed
  <2>2. CASE p = e
    <3>1. CASE NextRule(p)
      <4>1. task'[e].at = "rules"
        BY <1>1, <2>2, <3>1 DEF NextRule, Become, Tasks, Task
      <4> QED BY <1>2, <4>1 DEF Checking
    <3>2. CASE NextAlert(p) \/ Become(p, Idle)
      <4>1. PICK u : /\ Become(e, u)
                     /\ u \in {Idle, [task[e] EXCEPT !.at = "sweep", !.alert = 1]}
        BY <2>2, <3>2 DEF NextAlert
      <4>2. task'[e] = u
        BY <1>1, <1>3, <4>1
      <4>3. Idle.at = "idle"
        BY DEF Idle
      <4>5. [task[e] EXCEPT !.at = "sweep", !.alert = 1].at = "sweep"
        BY <1>1 DEF Task
      <4>4. task'[e].at \in {"idle", "sweep"}
        BY <4>1, <4>2, <4>3, <4>5
      <4> QED BY <1>2, <4>4 DEF Checking
    <3>3. CASE Proceed(p, "archive") \/ Proceed(p, "delete")
      <4>1. task'[e].at \in {"archive", "delete"}
        BY <1>1, <2>2, <3>3 DEF Proceed, Become, Tasks, Task
      <4> QED BY <1>2, <4>1 DEF Checking
    <3> QED BY <1>6, <3>1, <3>2, <3>3
  <2> QED BY <2>1, <2>2
<1>7. ASSUME NEW f \in Evaluators, EvaluatorStep(f) PROVE Vetted(task'[e])
  <2>1. f \in Procs
    BY DEF Procs
  <2>2. CASE f # e
    <3>1. \E u : Become(f, u)
      BY <1>7 DEF EvaluatorStep, StartEvaluation, CheckCooldown, CheckHistory,
            EvaluateCondition, CheckDuplicate, InsertAlert, ListAlerts,
            RecheckAlert, ArchiveExpired, DeleteExpired, NextRule, Proceed
    <3> QED BY <1>3, <2>1, <2>2, <3>1
  <2>3. CASE f = e
    <3>1. CASE StartEvaluation(e)
      <4>1. task'[e].at = "rules"
        BY <1>1, <3>1 DEF StartEvaluation, Become, Tasks, Idle
      <4> QED BY <1>2, <4>1 DEF Checking
    <3>2. CASE InsertAlert(e) \/ DeleteExpired(e)
      BY <1>1, <1>6, <3>2 DEF InsertAlert, DeleteExpired
    <3>3. CASE ListAlerts(e) \/ ArchiveExpired(e)
      <4>1. task'[e].at \in {"sweep", "expire"}
        BY <1>1, <3>3 DEF ListAlerts, ArchiveExpired, Become, Tasks, Task
      <4> QED BY <1>2, <4>1 DEF Checking
    <3>4. ASSUME NEW i \in Ids, RecheckAlert(e, i) PROVE Vetted(task'[e])
      <4>1. task[e].at = "sweep" /\ task'[e].at \in {task[e].at, "read"}
        <5>1. PICK u : /\ Become(e, u)
                       /\ u \in {[task[e] EXCEPT !.listed = @ \ {i}, !.at = "read",
                                                !.alert = i],
                                [task[e] EXCEPT !.listed = @ \ {i}]}
          BY <3>4 DEF RecheckAlert
        <5>2. task'[e] = u
          BY <1>1, <1>3, <5>1
        <5>3. u.at \in {task[e].at, "read"}
          BY <1>1, <5>1 DEF Task
        <5> QED BY <3>4, <5>2, <5>3 DEF RecheckAlert
      <4> QED BY <1>2, <4>1 DEF Checking
    <3> QED BY <1>7, <2>3, <3>1, <3>2, <3>3, <3>4 DEF EvaluatorStep
  <2> QED BY <2>2, <2>3
<1>8. ASSUME NEW p \in Procs, ResolveStep(p) PROVE Vetted(task'[e])
  BY <1>6, <1>8 DEF ResolveStep, ReadAlert, ArchiveAlert, DeleteAlert
<1>9. ASSUME NEW c \in Callers, NEW i \in Ids, StartResolve(c, i)
      PROVE  Vetted(task'[e])
  <2>1. c \in Procs /\ c # e
    BY AlertAssumption DEF Procs
  <2> QED BY <1>3, <1>9, <2>1 DEF StartResolve
<1>10. ASSUME task' = task PROVE Vetted(task'[e])
  BY <1>10
<1>11. CASE Environment
  <2>1. ASSUME NEW f \in Evaluators, StatementFails(f) PROVE Vetted(task'[e])
    BY <1>6, <2>1 DEF StatementFails, Procs
  <2> QED BY <1>6, <1>9, <1>10, <1>11, <2>1
          DEF Environment, Acknowledge, SetEnabled, Flip, Crash, Tick
<1>12. CASE UNCHANGED alertVars
  BY <1>10, <1>12 DEF alertVars
<1> QED BY <1>7, <1>8, <1>11, <1>12 DEF AlertNext

\* The insertion makes use of what has been found out.
LEMMA InsertRules ==
  ASSUME AlertInv, Shared, Rows, Tasks, OneOpenPerRule, CooldownKept,
         NEW e \in Evaluators, Vetted(task[e]), InsertAlert(e)
  PROVE  /\ OneOpenPerRule' /\ CooldownKept'
         /\ Vetted(task[e])'
<1>1. /\ e \in Procs /\ task[e] \in Task /\ task[e].at = "insert"
      /\ NextRule(e) /\ clock' = clock
  BY DEF Procs, Tasks, InsertAlert
<1>2. task'[e].at = "rules"
  BY <1>1 DEF NextRule, Become, Tasks, Task
<1>3. Vetted(task[e])'
  BY <1>2 DEF Vetted
<1>4. CASE UNCHANGED tables
  BY <1>4, <1>3 DEF tables, OneOpenPerRule, CooldownKept, Open, RuleOf
<1>5. CASE ~ UNCHANGED tables
  <2> DEFINE new == [rule |-> task[e].rule, triggered |-> clock,
                     expires |-> task[e].now + Expiry]
  <2>1. /\ nextId <= MaxAlerts /\ nextId' = nextId + 1
        /\ status' = [status EXCEPT ![nextId] = "active"]
        /\ columns' = [columns EXCEPT ![nextId] = new]
    BY <1>5 DEF InsertAlert
  <2>2. new.rule = task[e].rule /\ new.triggered = clock
    OBVIOUS
  <2> HIDE DEF new
  <2>3. nextId \in Ids /\ nextId \in Nat /\ clock \in Nat
    BY <2>1, AlertAssumption DEF Ids, Shared
  <2>4. \A i \in Ids \ {nextId} :
          status'[i] = status[i] /\ columns'[i] = columns[i]
    BY <2>1, <2>3 DEF Rows
  <2>5. columns'[nextId] = new
    BY <2>1, <2>3 DEF Rows
  <2>6. NoneOpen(task[e].rule) /\ CooledDown(task[e].rule)
    BY <1>1 DEF Vetted
  <2>7. OneOpenPerRule'
    BY <2>2, <2>4, <2>5, <2>6 DEF OneOpenPerRule, NoneOpen, Open, RuleOf
  <2>8. CooldownKept'
    <3> SUFFICES ASSUME NEW i \in Ids, NEW j \in Ids, i < j, j < nextId',
                        columns'[i].rule = columns'[j].rule
                 PROVE  columns'[j].triggered >= columns'[i].triggered + Cooldown
      BY DEF CooldownKept, RuleOf
    <3>1. i \in Nat /\ j \in Nat /\ i # nextId /\ i < nextId
      BY <2>1, <2>3 DEF Ids
    <3>2. CASE j = nextId
      <4>1. columns[i].rule = task[e].rule /\ columns'[j].triggered = clock
        BY <2>2, <2>4, <2>5, <3>1, <3>2
      <4>2. columns[i].triggered + Cooldown <= clock
        BY <2>6, <3>1, <4>1 DEF CooledDown, RuleOf
      <4>3. columns[i].triggered \in Nat
        BY DEF Rows, Columns
      <4> QED BY <2>3, <2>4, <3>1, <4>1, <4>2, <4>3, AlertAssumption
    <3>3. CASE j # nextId
      BY <2>1, <2>3, <2>4, <3>1, <3>3 DEF CooldownKept, RuleOf
    <3> QED BY <3>2, <3>3
  <2> QED BY <1>3, <2>7, <2>8
<1> QED BY <1>3, <1>4, <1>5

LEMMA RuleInvKept ==
  ASSUME \A e, f \in Evaluators : e = f,
         AlertInv, Shared, Rows, Tasks, RuleInv, [AlertNext]_alertVars
  PROVE  RuleInv'
<1>1. ASSUME NEW e \in Evaluators, InsertAlert(e) PROVE RuleInv'
  <2>1. OneOpenPerRule' /\ CooldownKept' /\ Vetted(task[e])'
    BY <1>1, InsertRules DEF RuleInv
  <2>2. \A f \in Evaluators : f = e
    OBVIOUS
  <2> QED BY <2>1, <2>2 DEF RuleInv
<1>2. ASSUME \A e \in Evaluators : ~ InsertAlert(e) PROVE RuleInv'
  <2>1. Quiet
    BY <1>2, StepQuiet
  <2>2. ASSUME NEW e \in Evaluators PROVE Vetted(task'[e])
    BY CheckVets, OtherVets DEF RuleInv
  <2>3. ASSUME NEW e \in Evaluators PROVE Vetted(task[e])'
    <3>1. PICK t : t = task'[e]
      OBVIOUS
    <3>2. Vetted(t)
      BY <2>2, <3>1
    <3>3. Vetted(t)'
      BY <2>1, <3>2, QuietVetted
    <3> QED BY <3>1, <3>3 DEF Vetted
  <2> QED BY <2>1, <2>3, QuietRules DEF RuleInv
<1> QED BY <1>1, <1>2

LEMMA RuleInvInit == AlertInit => RuleInv
<1> SUFFICES ASSUME AlertInit PROVE RuleInv
  OBVIOUS
<1>1. nextId = 1 /\ (\A i \in Ids : status[i] = "absent")
  BY DEF AlertInit
<1>2. OneOpenPerRule /\ CooldownKept
  BY <1>1 DEF OneOpenPerRule, CooldownKept, Open, Ids
<1>3. \A e \in Evaluators : task[e].at = "idle"
  BY DEF AlertInit, Procs, Idle
<1> QED BY <1>2, <1>3 DEF RuleInv, Vetted

\* While evaluations do not overlap, what they promise of a rule holds
\* whatever callers resolve and acknowledge and wherever a task is cut off.
LEMMA RulesKept ==
  ASSUME \A e, f \in Evaluators : e = f
  PROVE  AlertSpec => []RuleInv
<1>1. TypeOK <=> Shared /\ Rows /\ Tasks
  BY TypeParts
<1>2. TypeOK /\ AlertInv /\ RuleInv /\ [AlertNext]_alertVars => RuleInv'
  BY <1>1, RuleInvKept
<1> QED BY <1>2, RuleInvInit, AlertTypeCorrect, AlertsConsistent, PTL
        DEF AlertSpec

\* A rule never has two open alerts (create_alert's duplicate check).
THEOREM OneAlertOpen ==
  ASSUME \A e, f \in Evaluators : e = f
  PROVE  AlertSpec => []OneOpenPerRule
<1>1. RuleInv => OneOpenPerRule
  BY DEF RuleInv
<1> QED BY <1>1, RulesKept, PTL

\* Two alerts of a rule are at least the cooldown apart (_check_cooldown).
THEOREM AlertsSpaced ==
  ASSUME \A e, f \in Evaluators : e = f
  PROVE  AlertSpec => []CooldownKept
<1>1. RuleInv => CooldownKept
  BY DEF RuleInv
<1> QED BY <1>1, RulesKept, PTL
=============================================================================
