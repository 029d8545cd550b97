----------------------------- MODULE TrapReceiver -----------------------------
(***************************************************************************)
(* The SNMP trap receiver: one process with an asyncio event loop, its     *)
(* queue and workers, over the tables trap_log, trap_events and            *)
(* trap_receiver_status.  The database driver is synchronous, so a worker  *)
(* that has taken a trap holds the loop until it has stored it; only the   *)
(* end of the process can come in between.                                 *)
(***************************************************************************)
EXTENDS TrapHandlers, Sequences, FiniteSets

CONSTANTS
  Traps,      \* the traps that devices may send
  Workers, QueueSize,
  MaxTraps, MaxFaults, MaxStarts   \* bounds of the model

ASSUME TrapAssumption ==
  /\ Traps \subseteq Trap
  /\ QueueSize \in Nat \ {0}
  /\ MaxTraps \in Nat /\ MaxFaults \in Nat /\ MaxStarts \in Nat

VARIABLES
  starts,     \* processes started so far
  up,         \* the current one is running
  todo,       \* handles the loop runs in this iteration
  ready,      \* handles scheduled for the next one
  queue, work,
  counters,   \* traps_received, traps_processed, traps_errors
  log,        \* rows of trap_log, by id
  events,     \* rows of trap_events, by id
  row,        \* the row of trap_receiver_status
  arrivals, faults

loop      == <<todo, ready, queue>>
tables    == <<log, events>>
world     == <<starts, arrivals>>
trapVars  == <<up, loop, work, counters, tables, row, world, faults>>
-----------------------------------------------------------------------------
\* A trap on its way, with its received_at.
Item   == [trap : Traps, time : Nat]
Handle == [do : {"read", "callback", "put"}, item : Item]

\* at: the next statement; event, cleared: event_id and cleared_event_id so
\* far, 0 for None.
Job == [at : {"log", "check", "insert", "update"}, item : Item, log : Nat,
        event : Nat, cleared : Nat]
NoJob == [at |-> "idle"]

NoCounts == [received |-> 0, processed |-> 0, errors |-> 0]

TrapInit ==
  /\ starts = 0 /\ up = FALSE
  /\ todo = <<>> /\ ready = <<>> /\ queue = <<>>
  /\ work = [w \in Workers |-> NoJob]
  /\ counters = NoCounts
  /\ log = <<>> /\ events = <<>>
  /\ row = [counts |-> NoCounts, depth |-> 0, running |-> FALSE]
  /\ arrivals = 0 /\ faults = 0

Idle(w) == work[w].at = "idle"

\* Mutant: an asynchronous driver, so that the other workers go on.
FreeAlways(w) == up

\* No other worker holds the loop.
Free(w) == up /\ \A v \in Workers \ {w} : Idle(v)

Waiting == up /\ \A w \in Workers : Idle(w)

Count(field) == counters' = [counters EXCEPT ![field] = @ + 1]
-----------------------------------------------------------------------------
\* Mutant: only one of the counters of the row is reset.
StartResetsReceived ==
  /\ ~ up /\ starts < MaxStarts
  /\ up' = TRUE /\ starts' = starts + 1
  /\ row' = [row EXCEPT !.counts.received = 0, !.running = TRUE]
  /\ UNCHANGED <<loop, work, counters, tables, arrivals, faults>>

\* start(): a new process; the row's queue_depth is left as it was.
Start ==
  /\ ~ up /\ starts < MaxStarts
  /\ up' = TRUE /\ starts' = starts + 1
  /\ \/ /\ row' = [row EXCEPT !.counts = NoCounts, !.running = TRUE]
        /\ UNCHANGED faults
     \/ /\ faults < MaxFaults /\ faults' = faults + 1
        /\ UNCHANGED row
  /\ UNCHANGED <<loop, work, counters, tables, arrivals>>

\* The end of the process: stop() from a signal handler, which runs between
\* any two statements and leaves through sys.exit, or a crash; the last
\* status update is made by the first only.
End ==
  /\ up /\ up' = FALSE
  /\ todo' = <<>> /\ ready' = <<>> /\ queue' = <<>>
  /\ work' = [w \in Workers |-> NoJob]
  /\ counters' = NoCounts
  /\ row' \in {row, [row EXCEPT !.running = FALSE]}
  /\ UNCHANGED <<tables, world, faults>>

\* Mutant: two datagrams may be read in one iteration.
IterateReadsTwo ==
  /\ Waiting /\ todo = <<>>
  /\ \E n \in 0 .. 2, t \in Traps :
       /\ n > 0 \/ ready # <<>>
       /\ arrivals + n <= MaxTraps /\ arrivals' = arrivals + n
       /\ todo' = ready \o [i \in 1 .. n |-> [do |-> "read",
                    item |-> [trap |-> t, time |-> arrivals + i]]]
  /\ ready' = <<>>
  /\ UNCHANGED <<up, queue, work, counters, tables, row, starts, faults>>

\* An iteration of the loop: what is scheduled, then the socket if it is
\* readable; its reader takes one datagram.
Iterate ==
  /\ Waiting /\ todo = <<>>
  /\ \/ /\ ready # <<>>
        /\ todo' = ready
        /\ UNCHANGED arrivals
     \/ /\ arrivals < MaxTraps /\ arrivals' = arrivals + 1
        /\ \E t \in Traps :
             todo' = Append(ready, [do |-> "read",
                       item |-> [trap |-> t, time |-> arrivals + 1]])
  /\ ready' = <<>>
  /\ UNCHANGED <<up, queue, work, counters, tables, row, starts, faults>>

Turn(do) == Waiting /\ todo # <<>> /\ Head(todo).do = do /\ todo' = Tail(todo)

Schedule(do) == ready' = Append(ready, [do |-> do, item |-> Head(todo).item])

\* pysnmp hands the datagram to its dispatcher in the next iteration.
Read == /\ Turn("read") /\ Schedule("callback")
        /\ UNCHANGED <<up, queue, work, counters, tables, row, world, faults>>

\* _trap_callback: the trap is counted, and put in the queue by the loop
\* later, or dropped when the queue is full now.
Callback ==
  /\ Turn("callback")
  /\ IF Len(queue) < QueueSize
     THEN /\ Schedule("put")
          /\ counters' = [counters EXCEPT !.received = @ + 1]
     ELSE /\ counters' = [counters EXCEPT !.received = @ + 1, !.errors = @ + 1]
          /\ UNCHANGED ready
  /\ UNCHANGED <<up, queue, work, tables, row, world, faults>>

\* It raises before the trap is counted.
CallbackFails ==
  /\ Turn("callback")
  /\ faults < MaxFaults /\ faults' = faults + 1
  /\ Count("errors")
  /\ UNCHANGED <<up, ready, queue, work, tables, row, world>>

\* queue.put_nowait: on a full queue it raises in the loop, where nothing
\* counts the trap.
Put ==
  /\ Turn("put")
  /\ queue' = IF Len(queue) < QueueSize THEN Append(queue, Head(todo).item)
              ELSE queue
  /\ UNCHANGED <<up, ready, work, counters, tables, row, world, faults>>

\* Mutant: the depth counts what is still to be put in the queue.
UpdateStatusOnItsWay ==
  /\ Waiting
  /\ row' = [counts |-> counters, running |-> TRUE,
             depth |-> Len(queue) + Len(todo) + Len(ready)]
  /\ UNCHANGED <<up, loop, work, counters, tables, world, faults>>

\* _update_status: one statement every ten seconds.
UpdateStatus ==
  /\ Waiting
  /\ row' = [counts |-> counters, depth |-> Len(queue), running |-> TRUE]
  /\ UNCHANGED <<up, loop, work, counters, tables, world, faults>>
-----------------------------------------------------------------------------
Become(w, job) == work' = [work EXCEPT ![w] = job]

\* Mutant: the worker waits for a second trap.
TakeOneOfTwo(w) ==
  /\ Free(w) /\ Idle(w) /\ Len(queue) > 1
  /\ queue' = Tail(queue)
  /\ Become(w, [at |-> "log", item |-> Head(queue), log |-> 0, event |-> 0,
                cleared |-> 0])
  /\ UNCHANGED <<up, todo, ready, counters, tables, row, world, faults>>

\* _worker: the next trap of the queue.
Take(w) ==
  /\ Free(w) /\ Idle(w) /\ queue # <<>>
  /\ queue' = Tail(queue)
  /\ Become(w, [at |-> "log", item |-> Head(queue), log |-> 0, event |-> 0,
                cleared |-> 0])
  /\ UNCHANGED <<up, todo, ready, counters, tables, row, world, faults>>

At(w, stage) == Free(w) /\ work[w].at = stage

Alarm(w)    == AlarmId(work[w].item.trap, starts)
Clearing(w) == IsClear(work[w].item.trap)

\* _store_trap_log.
StoreLog(w) ==
  /\ At(w, "log")
  /\ log' = Append(log, [item |-> work[w].item, process |-> starts,
                         event |-> 0])
  /\ Become(w, [work[w] EXCEPT !.at = "check", !.log = Len(log')])
  /\ UNCHANGED <<up, loop, counters, events, row, world, faults>>

\* Mutant: the clears are not excluded.
Mentions(alarm) == {k \in DOMAIN events : events[k].alarm = alarm}

\* The rows that raised an alarm.
Raises(alarm) == {k \in DOMAIN events : events[k].alarm = alarm
                                          /\ ~ events[k].clear}

\* _store_event: a raise is looked up among the raises, and is a duplicate
\* when there is one; a clear looks for the raise it clears.
CheckAlarm(w) ==
  /\ At(w, "check")
  /\ \/ /\ Alarm(w) = <<>> \/ Raises(Alarm(w)) = {}
        /\ Become(w, [work[w] EXCEPT !.at = "insert"])
     \/ /\ Alarm(w) # <<>>
        /\ \E k \in Raises(Alarm(w)) :
             /\ \A j \in Raises(Alarm(w)) : j <= k
             /\ Become(w, IF Clearing(w)
                          THEN [work[w] EXCEPT !.at = "insert", !.cleared = k]
                          ELSE [work[w] EXCEPT !.at = "update", !.event = k])
  /\ UNCHANGED <<up, loop, counters, tables, row, world, faults>>

StoreEvent(w) ==
  /\ At(w, "insert")
  /\ events' = Append(events,
       [source |-> work[w].item.trap.source, alarm |-> Alarm(w),
        clear |-> Clearing(w), cleared |-> work[w].cleared,
        log |-> work[w].log])
  /\ Become(w, [work[w] EXCEPT !.at = "update", !.event = Len(events')])
  /\ UNCHANGED <<up, loop, counters, log, row, world, faults>>

\* _update_trap_log, which finds no row without a log id; the trap is done.
UpdateLog(w) ==
  /\ At(w, "update")
  /\ log' = [k \in DOMAIN log |->
               IF k = work[w].log THEN [log[k] EXCEPT !.event = work[w].event]
               ELSE log[k]]
  /\ Count("processed")
  /\ Become(w, NoJob)
  /\ UNCHANGED <<up, loop, events, row, world, faults>>

\* Every statement swallows its exception: without a log row the event is
\* still stored, without an event the trap still counts as processed.
StatementFails(w) ==
  /\ faults < MaxFaults /\ faults' = faults + 1
  /\ \/ /\ At(w, "log")
        /\ Become(w, [work[w] EXCEPT !.at = "check"])
        /\ UNCHANGED counters
     \/ /\ At(w, "check") \/ At(w, "insert") \/ At(w, "update")
        /\ Become(w, NoJob)
        /\ Count("processed")
  /\ UNCHANGED <<up, loop, tables, row, world>>

\* A handler that raises.
HandlerFails(w) ==
  /\ faults < MaxFaults /\ faults' = faults + 1
  /\ At(w, "log") /\ Become(w, NoJob) /\ Count("errors")
  /\ UNCHANGED <<up, loop, tables, row, world>>

WorkerStep(w) == \/ Take(w) \/ StoreLog(w) \/ CheckAlarm(w) \/ StoreEvent(w)
                 \/ UpdateLog(w)

LoopStep == Iterate \/ Read \/ Callback \/ Put

TrapNext ==
  \/ Start \/ End \/ LoopStep \/ CallbackFails \/ UpdateStatus
  \/ \E w \in Workers : WorkerStep(w) \/ StatementFails(w) \/ HandlerFails(w)

TrapSpec == TrapInit /\ [][TrapNext]_trapVars

\* The loop runs what is scheduled, and the workers' wait_for wakes up.
FairTrapSpec ==
  /\ TrapSpec
  /\ WF_trapVars(LoopStep)
  /\ WF_trapVars(\E w \in Workers : WorkerStep(w))
-----------------------------------------------------------------------------
Counts == [received : Nat, processed : Nat, errors : Nat]

\* The variables keep their types.
TypeOK ==
  /\ starts \in 0 .. MaxStarts /\ up \in BOOLEAN
  /\ todo \in Seq(Handle) /\ ready \in Seq(Handle) /\ queue \in Seq(Item)
  /\ Len(queue) <= QueueSize
  /\ work \in [Workers -> Job \cup {NoJob}]
  /\ counters \in Counts
  /\ log \in Seq([item : Item, process : 1 .. MaxStarts, event : Nat])
  /\ row \in [counts : Counts, depth : 0 .. QueueSize, running : BOOLEAN]
  /\ arrivals \in 0 .. MaxTraps /\ faults \in 0 .. MaxFaults

Puts(handles) == {i \in DOMAIN handles : handles[i].do = "put"}

Busy    == {w \in Workers : ~ Idle(w)}
Pending == Len(queue) + Cardinality(Puts(todo)) + Cardinality(Puts(ready))
             + Cardinality(Busy)

\* No trap vanishes uncounted inside the process: every trap received is
\* processed, counted as an error, or still on its way, although the queue is
\* tested in one callback and filled in another.
Accounting ==
  /\ counters.processed + Pending <= counters.received
  /\ counters.received <= counters.processed + counters.errors + Pending

\* With several workers the traps are still stored in the order in which
\* they were received, which is what makes a clear follow its raise.
ReceiptOrder ==
  /\ \A j, k \in DOMAIN log : j < k => log[j].item.time < log[k].item.time
  /\ \A j, k \in DOMAIN events :
       j < k /\ events[j].log # 0 /\ events[k].log # 0
         => events[j].log < events[k].log

\* An alarm that is repeated before it is cleared has one row.
NoDuplicateRaise ==
  \A j, k \in DOMAIN events :
    /\ j < k /\ events[j].alarm # <<>> /\ events[j].alarm = events[k].alarm
    /\ ~ events[j].clear /\ ~ events[k].clear
    => \E i \in (j + 1) .. (k - 1) : /\ events[i].clear
                                     /\ events[i].alarm = events[j].alarm

\* The references between the rows are right whatever statement failed and
\* wherever the process ended: an event stands in the log row it names, a log
\* row names an event of its alarm, a clear names an earlier raise of it.
LogAlarm(k) == AlarmId(log[k].item.trap, log[k].process)

ReferencesSound ==
  /\ \A k \in DOMAIN events :
       /\ events[k].log # 0 => /\ events[k].log \in DOMAIN log
                               /\ LogAlarm(events[k].log) = events[k].alarm
       /\ events[k].cleared # 0 => /\ events[k].clear
                                   /\ events[k].cleared < k
                                   /\ ~ events[events[k].cleared].clear
                                   /\ events[events[k].cleared].alarm
                                        = events[k].alarm
  /\ \A k \in DOMAIN log :
       log[k].event # 0 => /\ log[k].event \in DOMAIN events
                           /\ events[log[k].event].alarm = LogAlarm(k)

\* The status row is a snapshot of one moment, or has just been reset.
StatusConsistent ==
  row.counts.processed + row.depth <= row.counts.received
    \/ row.counts = NoCounts

\* Traps do not wait for ever in a process that goes on.
Drained == []<>(Pending = 0 \/ ~ up)
-----------------------------------------------------------------------------
\* active_trap_alarms: raises without a later clear of the same alarm.
Active(alarm) ==
  \E k \in DOMAIN events :
    /\ events[k].alarm = alarm /\ ~ events[k].clear
    /\ \A j \in DOMAIN events :
         events[j].alarm = alarm /\ events[j].clear => j < k

\* The last trap about an alarm that has been stored with its event.
LastAbout(k) ==
  /\ LogAlarm(k) # <<>> /\ log[k].event # 0
  /\ \A j \in DOMAIN log : j > k => LogAlarm(j) # LogAlarm(k)

\* "same alarm_id, not cleared" is a duplicate: an alarm raised again after
\* its clear is active.
RaisedAgainIsActive ==
  \A k \in DOMAIN log :
    LastAbout(k) /\ ~ IsClear(log[k].item.trap) => Active(LogAlarm(k))

\* alarm_id is a "unique alarm identifier": the event of a trap is one of its
\* own device.
OwnDevice ==
  \A k \in DOMAIN log : log[k].event # 0 =>
    events[log[k].event].source = log[k].item.trap.source

\* The view "correlates raised/cleared": after a linkUp of a device its
\* linkDown is no longer active.
LinkUpClears ==
  \A k \in DOMAIN log :
    /\ log[k].item.trap.kind = "linkUp" /\ log[k].event # 0
    /\ \A j \in DOMAIN log : j > k => log[j].item.trap.kind # "linkDown"
    => ~ Active(<<log[k].item.trap.source, "linkDown">>)

\* "with alarm correlation": a cfmDefectCleared with the bindings of a
\* cfmDefect clears it.
Defect(t) == [t EXCEPT !.kind = "cfmDefect"]

CfmCleared ==
  \A j, k \in DOMAIN log :
    /\ log[j].item.trap.kind = "cfmDefect"
    /\ log[k].item.trap.kind = "cfmDefectCleared"
    /\ Defect(log[k].item.trap) = log[j].item.trap
    /\ log[k].event # 0 /\ LastAbout(k) /\ j < k
    => ~ Active(LogAlarm(j))

\* "drop oldest if full": the trap just received is always on its way.
OldestDropped ==
  [][counters'.received > counters.received
       => \E h \in DOMAIN ready' : ready'[h].item = Head(todo).item]_trapVars
=============================================================================
