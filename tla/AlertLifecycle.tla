---------------------------- MODULE AlertLifecycle ----------------------------
(***************************************************************************)
(* System alerts: the periodic evaluation task (AlertEvaluator) and the    *)
(* callers of AlertService, over the tables system_alerts and              *)
(* alert_history.  Every statement is a transaction of its own, so an      *)
(* evaluation is a sequence of steps with local state between them.  Beat  *)
(* queues an evaluation every minute; when workers are late several run    *)
(* at once.                                                                *)
(***************************************************************************)
EXTENDS Integers, Sequences, FiniteSets

CONSTANTS
  Rules,       \* alert rules; a rule's alert_key is its name and id
  Evaluators,  \* evaluation tasks that may run at the same time
  Callers,     \* other callers of resolve_alert
  Cooldown, Expiry,  \* cooldown_minutes, expires_hours
  TaskLimit,   \* longest life of a task: Celery's hard time limit
  NoRule,
  Limit,       \* alerts looked at by one auto-resolve pass
  MaxAlerts, MaxTime, MaxFaults   \* bounds of the model

Ids   == 1 .. MaxAlerts
Procs == Evaluators \cup Callers

ASSUME AlertAssumption ==
  /\ NoRule \notin Rules
  /\ Evaluators \cap Callers = {}
  /\ Cooldown \in Nat /\ Expiry \in Nat /\ TaskLimit \in Nat
  /\ TaskLimit <= Expiry
  /\ Limit \in Nat /\ MaxAlerts \in Nat \ {0}
  /\ MaxTime \in Nat /\ MaxFaults \in Nat

VARIABLES
  clock,
  firing,     \* firing[r]: r's condition holds now (logs, jobs, workers)
  enabled,    \* rules with enabled = TRUE
  nextId,     \* next value of the id sequence
  status,     \* status[i] of row i of system_alerts, "absent" without a row
  columns,    \* its columns that no statement changes
  history,    \* history[i]: alert_history rows of alert i, oldest first
  task,       \* task[p]: where process p is, and its local variables
  faults      \* crashes and failed statements so far

world  == <<firing, enabled>>
tables == <<nextId, status, columns, history>>
alertVars == <<clock, world, tables, task, faults>>
-----------------------------------------------------------------------------
Columns == [rule : Rules \cup {NoRule}, triggered : Nat, expires : Nat]
NoRow   == [rule |-> NoRule, triggered |-> 0, expires |-> 0]

Open(i)     == status[i] # "absent"
Archived(i) == history[i] # <<>>
RuleOf(i)   == columns[i].rule

Expired(i, t) == Open(i) /\ columns[i].expires < t

\* at: the statement that is next; since: the start of an evaluation; rules:
\* the rules it has read; todo: those it has still to evaluate; rule: the one
\* it evaluates; now: the time it has computed last; listed: alerts still to
\* consider for auto-resolve; alert: the one being resolved.
Stages == {"idle", "rules", "history", "condition", "duplicate", "insert",
           "sweep", "read", "archive", "delete", "expire"}

Task == [at : Stages, since : Nat, rules : SUBSET Rules, todo : SUBSET Rules,
         rule : Rules \cup {NoRule}, now : Nat, listed : SUBSET Ids,
         alert : Ids]

Idle == [at |-> "idle", since |-> 0, rules |-> {}, todo |-> {},
         rule |-> NoRule, now |-> 0, listed |-> {}, alert |-> 1]

AlertInit ==
  /\ clock = 0
  /\ firing \in [Rules -> BOOLEAN]
  /\ enabled = Rules
  /\ nextId = 1
  /\ status = [i \in Ids |-> "absent"]
  /\ columns = [i \in Ids |-> NoRow]
  /\ history = [i \in Ids |-> <<>>]
  /\ task = [p \in Procs |-> Idle]
  /\ faults = 0

Become(p, t) == task' = [task EXCEPT ![p] = t]

\* Back in the loop over the rules, or over the listed alerts; a caller is
\* done.
NextRule(p)  == Become(p, [task[p] EXCEPT !.at = "rules", !.rule = NoRule,
                                          !.now = 0])
NextAlert(p) == Become(p, IF p \in Evaluators
                          THEN [task[p] EXCEPT !.at = "sweep", !.alert = 1]
                          ELSE Idle)
Proceed(p, stage) == Become(p, [task[p] EXCEPT !.at = stage])
-----------------------------------------------------------------------------
\* evaluate_all_rules: the enabled rules, one after the other.
StartEvaluation(e) ==
  /\ task[e].at = "idle"
  /\ Become(e, [Idle EXCEPT !.at = "rules", !.since = clock,
                            !.rules = enabled, !.todo = enabled])
  /\ UNCHANGED <<clock, world, tables, faults>>

\* Mutant: the cutoff is kept instead of the time it is computed from.
CheckCooldownCutoff(e, r) ==
  /\ task[e].at = "rules" /\ r \in task[e].todo
  /\ Become(e, [task[e] EXCEPT !.todo = @ \ {r}, !.at = "history",
                               !.rule = r, !.now = clock - Cooldown])
  /\ UNCHANGED <<clock, world, tables, faults>>

\* _check_cooldown, first query: a recent alert of the rule in system_alerts.
CheckCooldown(e, r) ==
  /\ task[e].at = "rules" /\ r \in task[e].todo
  /\ IF \E i \in Ids : /\ Open(i) /\ RuleOf(i) = r
                       /\ columns[i].triggered > clock - Cooldown
     THEN Become(e, [task[e] EXCEPT !.todo = @ \ {r}])
     ELSE Become(e, [task[e] EXCEPT !.todo = @ \ {r}, !.at = "history",
                                    !.rule = r, !.now = clock])
  /\ UNCHANGED <<clock, world, tables, faults>>

\* Mutant: the history is not looked at.
SkipHistory(e) == /\ task[e].at = "history" /\ Proceed(e, "condition")
                  /\ UNCHANGED <<clock, world, tables, faults>>

\* Second query: a recent one in alert_history, with the same cutoff.
CheckHistory(e) ==
  /\ task[e].at = "history"
  /\ IF \E i \in Ids : /\ Archived(i) /\ RuleOf(i) = task[e].rule
                       /\ columns[i].triggered > task[e].now - Cooldown
     THEN NextRule(e) ELSE Proceed(e, "condition")
  /\ UNCHANGED <<clock, world, tables, faults>>

EvaluateCondition(e) ==
  /\ task[e].at = "condition"
  /\ IF firing[task[e].rule] THEN Proceed(e, "duplicate") ELSE NextRule(e)
  /\ UNCHANGED <<clock, world, tables, faults>>

\* Mutant: an acknowledged alert is no duplicate.
CheckActiveDuplicate(e) ==
  /\ task[e].at = "duplicate"
  /\ IF \E i \in Ids : status[i] = "active" /\ RuleOf(i) = task[e].rule
     THEN NextRule(e)
     ELSE Become(e, [task[e] EXCEPT !.at = "insert", !.now = clock])
  /\ UNCHANGED <<clock, world, tables, faults>>

\* create_alert: expires_at is computed, then the duplicate looked for.
CheckDuplicate(e) ==
  /\ task[e].at = "duplicate"
  /\ IF \E i \in Ids : Open(i) /\ RuleOf(i) = task[e].rule
     THEN NextRule(e)
     ELSE Become(e, [task[e] EXCEPT !.at = "insert", !.now = clock])
  /\ UNCHANGED <<clock, world, tables, faults>>

\* UNIQUE (alert_key, status): with an active alert of the rule in the table
\* the statement fails, which evaluate_all_rules notes and passes over.
HasRow(r, s) == \E i \in Ids : status[i] = s /\ RuleOf(i) = r

InsertAlert(e) ==
  /\ task[e].at = "insert"
  /\ NextRule(e)
  /\ IF HasRow(task[e].rule, "active") THEN UNCHANGED tables
     ELSE /\ nextId <= MaxAlerts
          /\ nextId' = nextId + 1
          /\ status' = [status EXCEPT ![nextId] = "active"]
          /\ columns' = [columns EXCEPT ![nextId] =
               [rule |-> task[e].rule, triggered |-> clock,
                expires |-> task[e].now + Expiry]]
          /\ UNCHANGED history
  /\ UNCHANGED <<clock, world, faults>>
-----------------------------------------------------------------------------
\* _auto_resolve_cleared_alerts reads the newest open alerts, at most Limit.
Newest(S) ==
  \A i \in S, j \in Ids \ S : Open(j) =>
    columns[i].triggered >= columns[j].triggered

\* Mutant: acknowledged alerts are not listed.
ListActive(e) ==
  /\ task[e].at = "rules" /\ task[e].todo = {}
  /\ Become(e, [task[e] EXCEPT !.at = "sweep",
                  !.listed = {i \in Ids : status[i] = "active"}])
  /\ UNCHANGED <<clock, world, tables, faults>>

ListAlerts(e) ==
  /\ task[e].at = "rules" /\ task[e].todo = {}
  /\ \E S \in SUBSET {i \in Ids : Open(i)} :
       /\ Newest(S)
       /\ Cardinality(S) <= Limit
       /\ Cardinality(S) = Limit \/ \A i \in Ids : Open(i) => i \in S
       /\ Become(e, [task[e] EXCEPT !.at = "sweep", !.listed = S])
  /\ UNCHANGED <<clock, world, tables, faults>>

\* The condition is evaluated once more, if the rule was enabled at the start.
RecheckAlert(e, i) ==
  /\ task[e].at = "sweep" /\ i \in task[e].listed
  /\ IF RuleOf(i) \in task[e].rules /\ ~ firing[RuleOf(i)]
     THEN Become(e, [task[e] EXCEPT !.listed = @ \ {i}, !.at = "read",
                                    !.alert = i])
     ELSE Become(e, [task[e] EXCEPT !.listed = @ \ {i}])
  /\ UNCHANGED <<clock, world, tables, faults>>

\* resolve_alert: read the alert, copy it to the history, delete it.
ReadAlert(p) ==
  /\ task[p].at = "read"
  /\ IF Open(task[p].alert) THEN Proceed(p, "archive") ELSE NextAlert(p)
  /\ UNCHANGED <<clock, world, tables, faults>>

\* Mutant: the alert is deleted first, and copied from what was read.
DeleteFirst(p) ==
  /\ task[p].at = "archive"
  /\ status' = [status EXCEPT ![task[p].alert] = "absent"]
  /\ Proceed(p, "delete")
  /\ UNCHANGED <<clock, world, nextId, columns, history, faults>>

\* Mutant: only an active alert is copied.
ArchiveActive(p) ==
  /\ task[p].at = "archive"
  /\ history' = IF status[task[p].alert] = "active"
                THEN [history EXCEPT ![task[p].alert] = Append(@, "resolved")]
                ELSE history
  /\ Proceed(p, "delete")
  /\ UNCHANGED <<clock, world, nextId, status, columns, faults>>

ArchiveAlert(p) ==
  /\ task[p].at = "archive"
  /\ history' = IF Open(task[p].alert)
                THEN [history EXCEPT ![task[p].alert] = Append(@, "resolved")]
                ELSE history
  /\ Proceed(p, "delete")
  /\ UNCHANGED <<clock, world, nextId, status, columns, faults>>

DeleteAlert(p) ==
  /\ task[p].at = "delete"
  /\ status' = [status EXCEPT ![task[p].alert] = "absent"]
  /\ NextAlert(p)
  /\ UNCHANGED <<clock, world, nextId, columns, history, faults>>

\* cleanup_expired_alerts: both statements use the same `now`.
ArchiveExpired(e) ==
  /\ task[e].at = "sweep" /\ task[e].listed = {}
  /\ history' = [i \in Ids |-> IF Expired(i, clock)
                               THEN Append(history[i], "expired")
                               ELSE history[i]]
  /\ Become(e, [task[e] EXCEPT !.at = "expire", !.now = clock])
  /\ UNCHANGED <<clock, world, nextId, status, columns, faults>>

DeleteExpired(e) ==
  /\ task[e].at = "expire"
  /\ status' = [i \in Ids |-> IF Expired(i, task[e].now) THEN "absent"
                                                          ELSE status[i]]
  /\ Become(e, Idle)
  /\ UNCHANGED <<clock, world, nextId, columns, history, faults>>
-----------------------------------------------------------------------------
\* A caller resolves any alert id; acknowledging is one statement, refused
\* by the constraint when the key already has an acknowledged alert.
StartResolve(c, i) ==
  /\ task[c].at = "idle"
  /\ Become(c, [Idle EXCEPT !.at = "read", !.alert = i])
  /\ UNCHANGED <<clock, world, tables, faults>>

\* Mutant: acknowledging an alert again takes the acknowledgement back.
AcknowledgeToggles(i) ==
  /\ Open(i)
  /\ status' = [status EXCEPT ![i] =
                  IF @ = "active" THEN "acknowledged" ELSE "active"]
  /\ UNCHANGED <<clock, world, nextId, columns, history, task, faults>>

Acknowledge(i) ==
  /\ status[i] = "active" /\ ~ HasRow(RuleOf(i), "acknowledged")
  /\ status' = [status EXCEPT ![i] = "acknowledged"]
  /\ UNCHANGED <<clock, world, nextId, columns, history, task, faults>>

\* update_rule's enabled flag; the monitored system.
SetEnabled(r) ==
  /\ enabled' = IF r \in enabled THEN enabled \ {r} ELSE enabled \cup {r}
  /\ UNCHANGED <<clock, firing, tables, task, faults>>

Flip(r) == /\ firing' = [firing EXCEPT ![r] = ~ @]
           /\ UNCHANGED <<clock, enabled, tables, task, faults>>

\* A failing statement loses a rule, an alert or the cleanup.
StatementFails(e) ==
  /\ faults < MaxFaults /\ faults' = faults + 1
  /\ \/ task[e].at \in {"history", "condition", "duplicate", "insert"}
          /\ NextRule(e)
     \/ task[e].at \in {"read", "archive", "delete"} /\ NextAlert(e)
     \/ task[e].at = "expire" /\ Become(e, Idle)
  /\ UNCHANGED <<clock, world, tables>>

Crash(p) ==
  /\ faults < MaxFaults /\ faults' = faults + 1
  /\ task[p].at # "idle" /\ Become(p, Idle)
  /\ UNCHANGED <<clock, world, tables>>

\* No evaluation outlives the hard time limit.
Tick ==
  /\ clock < MaxTime
  /\ \A e \in Evaluators : task[e].at # "idle" =>
                              clock - task[e].since < TaskLimit
  /\ clock' = clock + 1
  /\ UNCHANGED <<world, tables, task, faults>>

EvaluatorStep(e) ==
  \/ StartEvaluation(e)
  \/ \E r \in Rules : CheckCooldown(e, r)
  \/ CheckHistory(e) \/ EvaluateCondition(e) \/ CheckDuplicate(e)
  \/ InsertAlert(e) \/ ListAlerts(e)
  \/ \E i \in Ids : RecheckAlert(e, i)
  \/ ArchiveExpired(e) \/ DeleteExpired(e)

ResolveStep(p) == ReadAlert(p) \/ ArchiveAlert(p) \/ DeleteAlert(p)

Environment ==
  \/ \E c \in Callers, i \in Ids : StartResolve(c, i)
  \/ \E i \in Ids : Acknowledge(i)
  \/ \E r \in Rules : SetEnabled(r) \/ Flip(r)
  \/ \E e \in Evaluators : StatementFails(e)
  \/ \E p \in Procs : Crash(p)
  \/ Tick

AlertNext == \/ \E e \in Evaluators : EvaluatorStep(e)
             \/ \E p \in Procs : ResolveStep(p)
             \/ Environment

AlertSpec == AlertInit /\ [][AlertNext]_alertVars

\* Beat keeps queueing evaluations and a started one is carried on.
FairAlertSpec ==
  /\ AlertSpec
  /\ \A e \in Evaluators :
       WF_alertVars(EvaluatorStep(e) \/ ResolveStep(e))
-----------------------------------------------------------------------------
\* The variables keep their types.
TypeOK ==
  /\ clock \in Nat /\ nextId \in 1 .. MaxAlerts + 1 /\ faults \in 0 .. MaxFaults
  /\ firing \in [Rules -> BOOLEAN] /\ enabled \subseteq Rules
  /\ status \in [Ids -> {"absent", "active", "acknowledged"}]
  /\ columns \in [Ids -> Columns]
  /\ history \in [Ids -> Seq({"resolved", "expired"})]
  /\ task \in [Procs -> Task]

\* An alert that was created is never lost: it is in system_alerts or in
\* alert_history, whatever races, crashes and failed statements come between
\* the copy and the delete.
NothingLost == \A i \in Ids : i < nextId => Open(i) \/ Archived(i)

\* What makes it so: ids are used once, a process is about to delete only
\* what is archived, and an alert inserted while a cleanup is under way does
\* not fall under the cleanup's time, because no task lives as long as an
\* alert.
Fresh == \A i \in Ids : i >= nextId => ~ Open(i) /\ ~ Archived(i)

Consistent(p, t) ==
  /\ t.at \in {"archive", "delete"} => t.alert < nextId
  /\ t.at = "delete" => Archived(t.alert)
  /\ t.at = "expire" => \A i \in Ids : Expired(i, t.now) => Archived(i)
  /\ t.now <= clock
  /\ p \in Evaluators /\ t.at # "idle" =>
       t.since <= clock /\ clock - t.since <= TaskLimit
  /\ t.at = "insert" => p \in Evaluators /\ t.since <= t.now

AlertInv == /\ Fresh /\ NothingLost
            /\ \A p \in Procs : Consistent(p, task[p])

\* The states an alert goes through, as a reader of both tables sees them.
State(i) == IF Archived(i) THEN "archived"
            ELSE IF Open(i) THEN status[i] ELSE "new"

Lifecycle == {<<"new", "active">>, <<"active", "acknowledged">>,
              <<"active", "archived">>, <<"acknowledged", "archived">>}

\* An alert is created active, may be acknowledged, and ends archived: no
\* step revives an archived alert, un-acknowledges one or skips the archive.
FollowsLifecycle ==
  [][\A i \in Ids : State(i) = State(i)' \/ <<State(i), State(i)'>> \in Lifecycle]_alertVars

\* While evaluations do not overlap, a rule has at most one open alert and
\* two of its alerts are at least the cooldown apart, although the first may
\* have been moved from one table to the other between the two queries.
OneOpenPerRule ==
  \A i, j \in Ids : Open(i) /\ Open(j) /\ RuleOf(i) = RuleOf(j) => i = j

CooldownKept ==
  \A i, j \in Ids : i < j /\ j < nextId /\ RuleOf(i) = RuleOf(j) =>
    columns[j].triggered >= columns[i].triggered + Cooldown

\* An alert whose condition has cleared for good does not stay open, as long
\* as its rule is enabled.
ClearedIsResolved ==
  \A r \in Rules :
    <>[](~ firing[r] /\ r \in enabled)
      => <>[](\A i \in Ids : Open(i) => RuleOf(i) # r)

\* "Resolve an alert and move to history": it is there once.
ArchivedOnce == \A i \in Ids : Len(history[i]) <= 1
=============================================================================
