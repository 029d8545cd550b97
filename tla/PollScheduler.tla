---------------------------- MODULE PollScheduler ----------------------------
(***************************************************************************)
(* Polling: the scheduler ticks that read polling_configs and dispatch the *)
(* polls that are due, and the poll tasks, which read a device's counters, *)
(* store them with the traffic since the previous reading, and write the   *)
(* end of the poll back to polling_configs.  Beat queues a tick every 30   *)
(* seconds; both kinds of task share the queue "polling" and its workers.  *)
(***************************************************************************)
EXTENDS Integers, Sequences, FiniteSets

CONSTANTS
  Configs,    \* rows of polling_configs, all for the same device and table
  Tickers,    \* ticks that may run at the same time
  Pollers,    \* poll tasks that may run at the same time
  Interval,   \* interval_seconds
  Wrap,       \* 2^32: where the device's counter, and the code, wrap
  Never,      \* last_run_at IS NULL
  Delay,      \* longest time from the dispatch of a poll to its end
  TickLimit,  \* longest life of a tick: Celery's hard time limit
  MaxTime, MaxPolls, MaxFaults   \* bounds of the model

ASSUME PollAssumption ==
  /\ Interval \in Nat /\ Wrap \in Nat \ {0} /\ Never \notin Nat
  /\ Delay \in Nat /\ TickLimit \in Nat
  /\ MaxTime \in Nat /\ MaxPolls \in Nat /\ MaxFaults \in Nat

VARIABLES
  clock,
  enabled,  \* configs with enabled = true
  lastRun,  \* last_run_at
  tick,     \* the ticks' local state
  sent,     \* sent[c]: times at which a poll of c was dispatched
  queue,    \* dispatched polls that no worker has taken
  poll,     \* the poll tasks' local state
  bytes,    \* octets the device has received since it counts
  metrics,  \* rows of interface_metrics, by id
  faults

pollVars == <<clock, enabled, lastRun, tick, sent, queue, poll, bytes,
              metrics, faults>>
-----------------------------------------------------------------------------
\* at: "dispatch" while looping over due; "mark" with the update of `config`
\* still to come.
Tick == [at : {"idle", "dispatch", "mark"}, due : SUBSET Configs,
         config : Configs \cup {Never}, since : Nat]
NoTick == [at |-> "idle", due |-> {}, config |-> Never, since |-> 0]

Message == [config : Configs, sent : Nat]

\* reading: the counter; finished: completed_at. Known to the model alone:
\* total, what the reading stands for, and after, the number of rows there
\* were when it was taken.
Poll == [at : {"idle", "walk", "compare", "store", "record"},
         job : Message \cup {Never}, reading : Nat, total : Nat,
         after : Nat, delta : Int, finished : Nat]
NoPoll == [at |-> "idle", job |-> Never, reading |-> 0, total |-> 0,
           after |-> 0, delta |-> 0, finished |-> 0]

PollInit ==
  /\ clock = 0
  /\ enabled = Configs
  /\ lastRun = [c \in Configs |-> Never]
  /\ tick = [t \in Tickers |-> NoTick]
  /\ sent = [c \in Configs |-> <<>>]
  /\ queue = <<>>
  /\ poll = [p \in Pollers |-> NoPoll]
  /\ bytes \in 0 .. Wrap - 1
  /\ metrics = <<>>
  /\ faults = 0

Due(c) == /\ c \in enabled
          /\ lastRun[c] # Never => lastRun[c] + Interval < clock

TickBecomes(t, v) == tick' = [tick EXCEPT ![t] = v]
PollBecomes(p, v) == poll' = [poll EXCEPT ![p] = v]
-----------------------------------------------------------------------------
\* Mutant: the tick marks all that is due before it sends anything.
ClaimDue(t) ==
  /\ tick[t].at = "idle"
  /\ \E c \in Configs : Due(c)
  /\ lastRun' = [c \in Configs |-> IF Due(c) THEN clock ELSE lastRun[c]]
  /\ TickBecomes(t, [NoTick EXCEPT !.at = "dispatch", !.since = clock,
                                   !.due = {c \in Configs : Due(c)}])
  /\ UNCHANGED <<clock, enabled, sent, queue, poll, bytes, metrics, faults>>

\* polling_scheduler_tick: the configs that are due, one after the other.
StartTick(t) ==
  /\ tick[t].at = "idle"
  /\ \E c \in Configs : Due(c)
  /\ TickBecomes(t, [NoTick EXCEPT !.at = "dispatch", !.since = clock,
                                   !.due = {c \in Configs : Due(c)}])
  /\ UNCHANGED <<clock, enabled, lastRun, sent, queue, poll, bytes, metrics,
                 faults>>

Send(c) == /\ Len(sent[c]) < MaxPolls
           /\ sent' = [sent EXCEPT ![c] = Append(@, clock)]
           /\ queue' = Append(queue, [config |-> c, sent |-> clock])

Dispatch(t, c) ==
  /\ tick[t].at = "dispatch" /\ c \in tick[t].due
  /\ Send(c)
  /\ TickBecomes(t, [tick[t] EXCEPT !.at = "mark", !.config = c,
                                    !.due = @ \ {c}])
  /\ UNCHANGED <<clock, enabled, lastRun, poll, bytes, metrics, faults>>

\* Mutant: the update is forgotten.
MarkNothing(t) ==
  /\ tick[t].at = "mark"
  /\ TickBecomes(t, [tick[t] EXCEPT !.at = "dispatch", !.config = Never])
  /\ UNCHANGED <<clock, enabled, lastRun, sent, queue, poll, bytes, metrics,
                 faults>>

\* "Update last_run_at immediately".
Mark(t) ==
  /\ tick[t].at = "mark"
  /\ lastRun' = [lastRun EXCEPT ![tick[t].config] = clock]
  /\ TickBecomes(t, [tick[t] EXCEPT !.at = "dispatch", !.config = Never])
  /\ UNCHANGED <<clock, enabled, sent, queue, poll, bytes, metrics, faults>>

EndTick(t) ==
  /\ tick[t].at = "dispatch" /\ tick[t].due = {}
  /\ TickBecomes(t, NoTick)
  /\ UNCHANGED <<clock, enabled, lastRun, sent, queue, poll, bytes, metrics,
                 faults>>

\* send_task or the update fails: the next config is tried.
TickFails(t) ==
  /\ faults < MaxFaults /\ faults' = faults + 1
  /\ \/ tick[t].at = "dispatch" /\ \E c \in tick[t].due :
          TickBecomes(t, [tick[t] EXCEPT !.due = @ \ {c}])
     \/ tick[t].at = "mark" /\
          TickBecomes(t, [tick[t] EXCEPT !.at = "dispatch", !.config = Never])
  /\ UNCHANGED <<clock, enabled, lastRun, sent, queue, poll, bytes, metrics>>

\* A worker is lost; the tick is delivered again, as one more tick.
TickCrashes(t) ==
  /\ faults < MaxFaults /\ faults' = faults + 1
  /\ tick[t].at # "idle" /\ TickBecomes(t, NoTick)
  /\ UNCHANGED <<clock, enabled, lastRun, sent, queue, poll, bytes, metrics>>
-----------------------------------------------------------------------------
\* A worker takes a poll.
Deliver(p) ==
  /\ poll[p].at = "idle" /\ queue # <<>>
  /\ PollBecomes(p, [NoPoll EXCEPT !.at = "walk", !.job = Head(queue)])
  /\ queue' = Tail(queue)
  /\ UNCHANGED <<clock, enabled, lastRun, tick, sent, bytes, metrics, faults>>

\* walk_devices; completed_at is taken before anything is stored.
Walk(p) ==
  /\ poll[p].at = "walk"
  /\ PollBecomes(p, [poll[p] EXCEPT !.at = "compare", !.total = bytes,
                       !.reading = bytes % Wrap, !.after = Len(metrics),
                       !.finished = clock])
  /\ UNCHANGED <<clock, enabled, lastRun, tick, sent, queue, bytes, metrics,
                 faults>>

\* The device does not answer, or there is no device or no OID: nothing is
\* stored, the execution is recorded.
WalkFails(p) ==
  /\ poll[p].at = "walk"
  /\ PollBecomes(p, [poll[p] EXCEPT !.at = "record", !.finished = clock])
  /\ UNCHANGED <<clock, enabled, lastRun, tick, sent, queue, bytes, metrics,
                 faults>>

\* Mutant: the wrapped counter counts from zero.
DeltaFromZero(reading, previous) ==
  IF reading < previous THEN reading ELSE reading - previous

\* Bytes since the previous reading.
Delta(reading, previous) ==
  LET d == reading - previous IN IF d < 0 THEN d + Wrap ELSE d

\* _store_to_target_table: the newest row is read, then the new one inserted.
Compare(p) ==
  /\ poll[p].at = "compare"
  /\ PollBecomes(p, [poll[p] EXCEPT !.at = "store", !.delta =
       IF metrics = <<>> THEN 0
       ELSE Delta(poll[p].reading, metrics[Len(metrics)].reading)])
  /\ UNCHANGED <<clock, enabled, lastRun, tick, sent, queue, bytes, metrics,
                 faults>>

Store(p) ==
  /\ poll[p].at = "store"
  /\ metrics' = Append(metrics,
       [reading |-> poll[p].reading, total |-> poll[p].total,
        after |-> poll[p].after, delta |-> poll[p].delta])
  /\ PollBecomes(p, [poll[p] EXCEPT !.at = "record"])
  /\ UNCHANGED <<clock, enabled, lastRun, tick, sent, queue, bytes, faults>>

\* _record_execution writes completed_at to last_run_at.
Record(p) ==
  /\ poll[p].at = "record"
  /\ lastRun' = [lastRun EXCEPT ![poll[p].job.config] = poll[p].finished]
  /\ PollBecomes(p, NoPoll)
  /\ UNCHANGED <<clock, enabled, tick, sent, queue, bytes, metrics, faults>>

\* An exception, in storing as in recording, ends the poll; a lost worker
\* puts it back in the queue.
PollFails(p) ==
  /\ faults < MaxFaults /\ faults' = faults + 1
  /\ poll[p].at # "idle" /\ PollBecomes(p, NoPoll)
  /\ queue' \in {queue, Append(queue, poll[p].job)}
  /\ UNCHANGED <<clock, enabled, lastRun, tick, sent, bytes, metrics>>
-----------------------------------------------------------------------------
SetEnabled(c) ==
  /\ enabled' = IF c \in enabled THEN enabled \ {c} ELSE enabled \cup {c}
  /\ UNCHANGED <<clock, lastRun, tick, sent, queue, poll, bytes, metrics,
                 faults>>

\* Time passes and the device receives.
Pass ==
  /\ clock < MaxTime
  /\ \A t \in Tickers : tick[t].at # "idle" => clock - tick[t].since < TickLimit
  /\ \A k \in DOMAIN queue : clock - queue[k].sent < Delay
  /\ \A p \in Pollers : poll[p].at # "idle" => clock - poll[p].job.sent < Delay
  /\ clock' = clock + 1
  /\ \E n \in 0 .. 1 : bytes' = bytes + n
  /\ UNCHANGED <<enabled, lastRun, tick, sent, queue, poll, metrics, faults>>

TickStep(t) == \/ StartTick(t) \/ Mark(t) \/ EndTick(t)
               \/ \E c \in Configs : Dispatch(t, c)

PollStep(p) == \/ Deliver(p) \/ Walk(p) \/ WalkFails(p) \/ Compare(p)
               \/ Store(p) \/ Record(p)

PollNext ==
  \/ \E t \in Tickers : TickStep(t) \/ TickFails(t) \/ TickCrashes(t)
  \/ \E p \in Pollers : PollStep(p) \/ PollFails(p)
  \/ \E c \in Configs : SetEnabled(c)
  \/ Pass

PollSpec == PollInit /\ [][PollNext]_pollVars

\* Beat goes on queueing ticks and the workers take what is queued.
FairPollSpec ==
  /\ PollSpec
  /\ \A t \in Tickers : WF_pollVars(TickStep(t))
  /\ \A p \in Pollers : WF_pollVars(PollStep(p))
-----------------------------------------------------------------------------
\* The variables keep their types.
TypeOK ==
  /\ clock \in 0 .. MaxTime /\ faults \in 0 .. MaxFaults /\ bytes \in Nat
  /\ enabled \subseteq Configs
  /\ lastRun \in [Configs -> Nat \cup {Never}]
  /\ tick \in [Tickers -> Tick]
  /\ sent \in [Configs -> Seq(Nat)]
  /\ queue \in Seq(Message)
  /\ poll \in [Pollers -> Poll]
  /\ metrics \in Seq([reading : 0 .. Wrap - 1, total : Nat, after : Nat,
                      delta : 0 .. Wrap - 1])

\* Two polls of a config are dispatched more than its interval apart.
Spaced ==
  \A c \in Configs : \A i \in 1 .. (Len(sent[c]) - 1) :
    sent[c][i + 1] > sent[c][i] + Interval

\* The traffic stored with a reading is what the device received since the
\* reading of the row before, whatever polls of the same device fail, are
\* interrupted, repeated or under way at the same time: as long as the reading
\* was taken after that row was stored, and the counter has not wrapped more
\* than once in between.
DeltaTrue ==
  \A i \in 2 .. Len(metrics) :
    LET d == metrics[i].total - metrics[i - 1].total IN
    metrics[i].after = i - 1 /\ d < Wrap => metrics[i].delta = d

Outstanding(c) ==
  \/ \E k \in DOMAIN queue : queue[k].config = c
  \/ \E p \in Pollers : poll[p].at # "idle" /\ poll[p].job.config = c

Unattended(c) == Due(c) /\ \A t \in Tickers : tick[t].config # c

\* A config that is due is polled, whatever tick fails or crashes between
\* sending the task and noting that it was sent. Time has no fairness: the
\* config need not wait for another interval.
DueIsPolled ==
  \A c \in Configs : Unattended(c) ~> (Outstanding(c) \/ c \notin enabled)
=============================================================================
