-------------------------- MODULE TrapReceiverProofs --------------------------
(***************************************************************************)
(* Proofs about TrapReceiver, for any traps, workers, queue size, restarts *)
(* and failing statements: its types; an alarm that is raised again and    *)
(* again has one row; the rows refer to rows of their own alarm; traps are *)
(* stored in the order of receipt; every trap is accounted for.            *)
(***************************************************************************)
EXTENDS TrapReceiver, FiniteSetTheorems, SequenceTheorems, TLAPS

LogRow   == [item : Item, process : 1 .. MaxStarts, event : Nat]
AlarmSet == {AlarmId(t, p) : t \in Traps, p \in 1 .. MaxStarts}
EventRow == [source : Sources, alarm : AlarmSet, clear : BOOLEAN,
             cleared : Nat, log : Nat]
Status   == [counts : Counts, depth : 0 .. QueueSize, running : BOOLEAN]

TypeInv == TypeOK /\ events \in Seq(EventRow) /\ (up => starts > 0)

\* A raise that is about to be stored has no row yet.
NewRaise(job) ==
  LET alarm == AlarmId(job.item.trap, starts)
  IN  job.at = "insert" /\ alarm # <<>> /\ ~ IsClear(job.item.trap)
        => Raises(alarm) = {}

\* One worker at most is inside a trap, so that nothing comes between the
\* check and the insert of an alarm.
AlarmInv ==
  /\ ~ up => \A w \in Workers : Idle(w)
  /\ \A v, w \in Workers : Idle(v) \/ Idle(w) \/ v = w
  /\ \A w \in Workers : NewRaise(work[w])
  /\ \A j, k \in DOMAIN events :
       /\ events[j].alarm # <<>> /\ events[j].alarm = events[k].alarm
       /\ ~ events[j].clear /\ ~ events[k].clear
       => j = k
-----------------------------------------------------------------------------
\* A worker inside a trap has a job.
LEMMA BusyJob ==
  ASSUME TypeInv, NEW w \in Workers, ~ Idle(w)
  PROVE  /\ work[w] \in Job /\ work[w].item \in Item
         /\ work[w].item.trap \in Traps
         /\ work[w].log \in Nat /\ work[w].event \in Nat
         /\ work[w].cleared \in Nat
<1>1. work[w] \in Job \cup {NoJob} /\ work[w] # NoJob
  BY DEF TypeInv, TypeOK, Idle, NoJob
<1>2. work[w] \in Job
  BY <1>1
<1>3. QED BY <1>2 DEF Job, Item

\* Every step gives a worker a job or none.
LEMMA BecomeType ==
  ASSUME TypeInv, NEW w \in Workers, NEW job \in Job \cup {NoJob}, Become(w, job)
  PROVE  work' \in [Workers -> Job \cup {NoJob}]
BY DEF Become, TypeInv, TypeOK

\* A function on the first n numbers is a sequence.
LEMMA FunctionIsSeq ==
  ASSUME NEW S, NEW n \in Nat, NEW f \in [1 .. n -> S]
  PROVE  f \in Seq(S)
<1>1. f \in UNION {[1 .. m -> S] : m \in Nat}
  OBVIOUS
<1>2. QED BY <1>1, SeqDef

\* Counters only grow.
LEMMA CountType ==
  ASSUME counters \in Counts
  PROVE  /\ [counters EXCEPT !.received = @ + 1] \in Counts
         /\ [counters EXCEPT !.processed = @ + 1] \in Counts
         /\ [counters EXCEPT !.errors = @ + 1] \in Counts
         /\ [counters EXCEPT !.received = @ + 1, !.errors = @ + 1] \in Counts
<1>1. /\ counters.received + 1 \in Nat /\ counters.processed + 1 \in Nat
      /\ counters.errors + 1 \in Nat
  BY DEF Counts
<1>2. [counters EXCEPT !.received = @ + 1] \in Counts
  BY <1>1 DEF Counts
<1>3. [counters EXCEPT !.processed = @ + 1] \in Counts
  BY <1>1 DEF Counts
<1>4. [counters EXCEPT !.errors = @ + 1] \in Counts
  BY <1>1 DEF Counts
<1>5. [counters EXCEPT !.received = @ + 1, !.errors = @ + 1] \in Counts
  BY <1>1 DEF Counts
<1>6. QED BY <1>2, <1>3, <1>4, <1>5

LEMMA InitTypes == TrapInit => TypeInv
<1> SUFFICES ASSUME TrapInit PROVE TypeInv
  OBVIOUS
<1>1. NoCounts \in Counts
  BY DEF NoCounts, Counts
<1>2. /\ starts \in 0 .. MaxStarts /\ up = FALSE
      /\ arrivals \in 0 .. MaxTraps /\ faults \in 0 .. MaxFaults
  BY TrapAssumption DEF TrapInit
<1>3. /\ todo \in Seq(Handle) /\ ready \in Seq(Handle) /\ queue \in Seq(Item)
      /\ Len(queue) = 0 /\ events \in Seq(EventRow) /\ log \in Seq(LogRow)
  BY DEF TrapInit
<1>4. work \in [Workers -> Job \cup {NoJob}]
  BY DEF TrapInit
<1>5. row \in Status /\ counters \in Counts
  BY <1>1, TrapAssumption DEF TrapInit, Status
<1>6. Len(queue) <= QueueSize
  BY <1>3, TrapAssumption
<1>7. QED BY <1>2, <1>3, <1>4, <1>5, <1>6 DEF TypeInv, TypeOK, LogRow, Status
-----------------------------------------------------------------------------
\* The loop and the process.
LEMMA LoopTypes ==
  ASSUME TypeInv,
         Start \/ End \/ LoopStep \/ CallbackFails \/ UpdateStatus
  PROVE  TypeInv'
<1> USE DEF TypeInv, TypeOK
<1>1. CASE Start
  <2>1. NoCounts \in Counts
    BY DEF NoCounts, Counts
  <2>2. row' \in Status
    BY <1>1, <2>1 DEF Start, Status
  <2>3. faults' \in 0 .. MaxFaults
    BY <1>1, TrapAssumption DEF Start
  <2>4. starts' \in 0 .. MaxStarts /\ starts' > 0
    BY <1>1, TrapAssumption DEF Start
  <2>5. QED BY <1>1, <2>2, <2>3, <2>4 DEF Start, loop, tables, Status
<1>2. CASE End
  <2>1. NoCounts \in Counts
    BY DEF NoCounts, Counts
  <2>2. row' \in Status
    BY <1>2 DEF End, Status
  <2>3. work' \in [Workers -> Job \cup {NoJob}]
    BY <1>2 DEF End
  <2>4. /\ todo' \in Seq(Handle) /\ ready' \in Seq(Handle)
        /\ queue' \in Seq(Item) /\ Len(queue') = 0
    BY <1>2 DEF End
  <2>5. Len(queue') <= QueueSize
    BY <2>4, TrapAssumption
  <2>6. QED BY <1>2, <2>1, <2>2, <2>3, <2>4, <2>5 DEF End, tables, world, Status
<1>3. CASE Iterate
  <2>1. CASE todo' = ready /\ UNCHANGED arrivals
    BY <1>3, <2>1 DEF Iterate, tables
  <2>2. CASE /\ arrivals < MaxTraps /\ arrivals' = arrivals + 1
             /\ \E t \in Traps :
                  todo' = Append(ready, [do |-> "read",
                            item |-> [trap |-> t, time |-> arrivals + 1]])
    <3>1. PICK t \in Traps :
            todo' = Append(ready, [do |-> "read",
                      item |-> [trap |-> t, time |-> arrivals + 1]])
      BY <2>2
    <3>2. arrivals + 1 \in Nat /\ arrivals' \in 0 .. MaxTraps
      BY <2>2, TrapAssumption
    <3>3. [do |-> "read", item |-> [trap |-> t, time |-> arrivals + 1]] \in Handle
      BY <3>2 DEF Handle, Item
    <3>4. todo' \in Seq(Handle)
      BY <3>1, <3>3
    <3>5. QED BY <1>3, <3>2, <3>4 DEF Iterate, tables
  <2>3. QED BY <1>3, <2>1, <2>2 DEF Iterate
<1>4. ASSUME NEW do, Turn(do)
      PROVE  Head(todo) \in Handle /\ todo' \in Seq(Handle)
  BY <1>4 DEF Turn
<1>5. ASSUME NEW do \in {"read", "callback", "put"}, Head(todo) \in Handle,
             Schedule(do)
      PROVE  ready' \in Seq(Handle)
  <2>1. [do |-> do, item |-> Head(todo).item] \in Handle
    BY <1>5 DEF Handle
  <2>2. QED BY <1>5, <2>1 DEF Schedule
<1>6. CASE Read
  <2>1. todo' \in Seq(Handle) /\ ready' \in Seq(Handle)
    BY <1>4, <1>5, <1>6 DEF Read
  <2>2. QED BY <1>6, <2>1 DEF Read, tables, world
<1>7. CASE Callback
  <2>1. Head(todo) \in Handle /\ todo' \in Seq(Handle)
    BY <1>4, <1>7 DEF Callback
  <2>2. ready' \in Seq(Handle)
    BY <1>5, <1>7, <2>1 DEF Callback
  <2>3. counters' \in Counts
    BY <1>7, CountType DEF Callback
  <2>4. QED BY <1>7, <2>1, <2>2, <2>3 DEF Callback, tables, world
<1>8. CASE CallbackFails
  <2>1. todo' \in Seq(Handle)
    BY <1>4, <1>8 DEF CallbackFails
  <2>2. counters' \in Counts
    BY <1>8, CountType DEF CallbackFails, Count
  <2>3. faults' \in 0 .. MaxFaults
    BY <1>8, TrapAssumption DEF CallbackFails
  <2>4. QED BY <1>8, <2>1, <2>2, <2>3 DEF CallbackFails, tables, world
<1>9. CASE Put
  <2>1. Head(todo) \in Handle /\ todo' \in Seq(Handle)
    BY <1>4, <1>9 DEF Put
  <2>2. Head(todo).item \in Item
    BY <2>1 DEF Handle
  <2>3. queue' \in Seq(Item) /\ Len(queue') <= QueueSize
    <3>1. Len(queue) \in Nat /\ QueueSize \in Nat
      BY TrapAssumption
    <3>2. CASE Len(queue) < QueueSize
      <4>1. queue' = Append(queue, Head(todo).item)
        BY <1>9, <3>2 DEF Put
      <4>2. queue' \in Seq(Item) /\ Len(queue') = Len(queue) + 1
        BY <2>2, <4>1
      <4>3. QED BY <3>1, <3>2, <4>2
    <3>3. CASE ~ (Len(queue) < QueueSize)
      BY <1>9, <3>3 DEF Put
    <3>4. QED BY <3>2, <3>3
  <2>4. QED BY <1>9, <2>1, <2>3 DEF Put, tables, world
<1>10. CASE UpdateStatus
  <2>1. Len(queue) \in 0 .. QueueSize
    BY TrapAssumption
  <2>2. row' \in Status
    BY <1>10, <2>1 DEF UpdateStatus, Status
  <2>3. QED BY <1>10, <2>2 DEF UpdateStatus, loop, tables, world, Status
<1>11. QED
  BY <1>1, <1>2, <1>3, <1>6, <1>7, <1>8, <1>9, <1>10 DEF LoopStep

\* The workers.
LEMMA WorkerTypes ==
  ASSUME TypeInv, NEW w \in Workers,
         WorkerStep(w) \/ StatementFails(w) \/ HandlerFails(w)
  PROVE  TypeInv'
<1> USE DEF TypeInv, TypeOK
<1>1. CASE Take(w)
  <2>1. Head(queue) \in Item /\ queue' \in Seq(Item)
          /\ Len(queue') = Len(queue) - 1
    BY <1>1 DEF Take
  <2>2. Len(queue') <= QueueSize
    BY <2>1, TrapAssumption
  <2>3. [at |-> "log", item |-> Head(queue), log |-> 0, event |-> 0,
         cleared |-> 0] \in Job
    BY <2>1 DEF Job
  <2>4. work' \in [Workers -> Job \cup {NoJob}]
    BY <1>1, <2>3, BecomeType DEF Take
  <2>5. QED BY <1>1, <2>1, <2>2, <2>4 DEF Take, tables, world
<1>2. CASE StoreLog(w)
  <2>1. up /\ starts \in 1 .. MaxStarts /\ ~ Idle(w)
    BY <1>2, TrapAssumption DEF StoreLog, At, Free, Idle
  <2>2. work[w] \in Job /\ work[w].item \in Item
    BY <2>1, BusyJob
  <2>3. [item |-> work[w].item, process |-> starts, event |-> 0] \in LogRow
    BY <2>1, <2>2 DEF LogRow
  <2>4. log \in Seq(LogRow)
    BY DEF LogRow
  <2>5. log' = Append(log, [item |-> work[w].item, process |-> starts, event |-> 0])
    BY <1>2 DEF StoreLog
  <2>6. log' \in Seq(LogRow) /\ Len(log') \in Nat
    BY <2>3, <2>4, <2>5
  <2>7. [work[w] EXCEPT !.at = "check", !.log = Len(log')] \in Job
    BY <2>2, <2>6 DEF Job
  <2>8. work' \in [Workers -> Job \cup {NoJob}]
    BY <1>2, <2>7, BecomeType DEF StoreLog
  <2>9. QED BY <1>2, <2>6, <2>8 DEF StoreLog, loop, world, LogRow
<1>3. CASE CheckAlarm(w)
  <2>1. work[w] \in Job
    BY <1>3, BusyJob DEF CheckAlarm, At, Idle
  <2>2. ASSUME NEW k \in Raises(Alarm(w))
        PROVE  k \in Nat
    BY <2>2 DEF Raises
  <2>3. /\ [work[w] EXCEPT !.at = "insert"] \in Job
        /\ \A k \in Nat :
             /\ [work[w] EXCEPT !.at = "insert", !.cleared = k] \in Job
             /\ [work[w] EXCEPT !.at = "update", !.event = k] \in Job
    BY <2>1 DEF Job
  <2>4. \E job \in Job : Become(w, job)
    BY <1>3, <2>2, <2>3 DEF CheckAlarm
  <2>5. work' \in [Workers -> Job \cup {NoJob}]
    BY <2>4, BecomeType
  <2>6. QED BY <1>3, <2>5 DEF CheckAlarm, loop, tables, world
<1>4. CASE StoreEvent(w)
  <2>1. up /\ starts \in 1 .. MaxStarts /\ ~ Idle(w)
    BY <1>4, TrapAssumption DEF StoreEvent, At, Free, Idle
  <2>2. /\ work[w] \in Job /\ work[w].item.trap \in Traps
        /\ work[w].log \in Nat /\ work[w].cleared \in Nat
    BY <2>1, BusyJob
  <2>3. work[w].item.trap.source \in Sources
    BY <2>2, TrapAssumption DEF Trap
  <2>4. Alarm(w) \in AlarmSet /\ Clearing(w) \in BOOLEAN
    BY <2>1, <2>2 DEF Alarm, AlarmSet, Clearing, IsClear
  <2> DEFINE new == [source |-> work[w].item.trap.source, alarm |-> Alarm(w),
                     clear |-> Clearing(w), cleared |-> work[w].cleared,
                     log |-> work[w].log]
  <2>5. new \in EventRow
    BY <2>2, <2>3, <2>4 DEF EventRow
  <2>6. events' = Append(events, new)
    BY <1>4 DEF StoreEvent
  <2> HIDE DEF new
  <2>7. events' \in Seq(EventRow) /\ Len(events') \in Nat
    BY <2>5, <2>6
  <2>8. [work[w] EXCEPT !.at = "update", !.event = Len(events')] \in Job
    BY <2>2, <2>7 DEF Job
  <2>9. work' \in [Workers -> Job \cup {NoJob}]
    BY <1>4, <2>8, BecomeType DEF StoreEvent
  <2>10. QED BY <1>4, <2>7, <2>9 DEF StoreEvent, loop, world
<1>5. CASE UpdateLog(w)
  <2>1. work[w].event \in Nat
    BY <1>5, BusyJob DEF UpdateLog, At, Idle
  <2>2. log \in Seq(LogRow)
    BY DEF LogRow
  <2>3. \A e \in LogRow : [e EXCEPT !.event = work[w].event] \in LogRow
    BY <2>1 DEF LogRow
  <2>4. log' = [k \in 1 .. Len(log) |->
                 IF k = work[w].log THEN [log[k] EXCEPT !.event = work[w].event]
                 ELSE log[k]]
    BY <1>5, <2>2 DEF UpdateLog
  <2>5. log' \in [1 .. Len(log) -> LogRow] /\ Len(log) \in Nat
    BY <2>2, <2>3, <2>4
  <2>6. log' \in Seq(LogRow)
    BY <2>5, FunctionIsSeq
  <2>7. counters' \in Counts
    BY <1>5, CountType DEF UpdateLog, Count
  <2>8. work' \in [Workers -> Job \cup {NoJob}]
    BY <1>5, BecomeType DEF UpdateLog
  <2>9. QED BY <1>5, <2>6, <2>7, <2>8 DEF UpdateLog, loop, world, LogRow
<1>6. CASE StatementFails(w)
  <2>1. counters' \in Counts
    BY <1>6, CountType DEF StatementFails, Count
  <2>2. faults' \in 0 .. MaxFaults
    BY <1>6, TrapAssumption DEF StatementFails
  <2>3. At(w, "log") => [work[w] EXCEPT !.at = "check"] \in Job
    <3> SUFFICES ASSUME At(w, "log") PROVE [work[w] EXCEPT !.at = "check"] \in Job
      OBVIOUS
    <3>1. work[w] \in Job
      BY BusyJob DEF At, Idle
    <3>2. QED BY <3>1 DEF Job
  <2>4. work' \in [Workers -> Job \cup {NoJob}]
    BY <1>6, <2>3, BecomeType DEF StatementFails
  <2>5. QED BY <1>6, <2>1, <2>2, <2>4 DEF StatementFails, loop, tables, world
<1>7. CASE HandlerFails(w)
  <2>1. counters' \in Counts
    BY <1>7, CountType DEF HandlerFails, Count
  <2>2. faults' \in 0 .. MaxFaults
    BY <1>7, TrapAssumption DEF HandlerFails
  <2>3. work' \in [Workers -> Job \cup {NoJob}]
    BY <1>7, BecomeType DEF HandlerFails
  <2>4. QED BY <1>7, <2>1, <2>2, <2>3 DEF HandlerFails, loop, tables, world
<1>8. QED
  BY <1>1, <1>2, <1>3, <1>4, <1>5, <1>6, <1>7 DEF WorkerStep

LEMMA NextTypes == TypeInv /\ [TrapNext]_trapVars => TypeInv'
<1> SUFFICES ASSUME TypeInv, [TrapNext]_trapVars PROVE TypeInv'
  OBVIOUS
<1>1. CASE UNCHANGED trapVars
  BY <1>1 DEF trapVars, loop, tables, world, TypeInv, TypeOK
<1>2. CASE TrapNext
  BY <1>2, LoopTypes, WorkerTypes DEF TrapNext
<1>3. QED BY <1>1, <1>2

LEMMA Types == TrapSpec => []TypeInv
BY InitTypes, NextTypes, PTL DEF TrapSpec

\* The variables of the receiver keep their types; the queue its size.
THEOREM TrapTypeCorrect == TrapSpec => []TypeOK
BY Types, PTL DEF TypeInv
-----------------------------------------------------------------------------
\* A step of a worker inside a trap, or about to be, which stores no event.
LEMMA WorkStep ==
  ASSUME TypeInv, AlarmInv, NEW w \in Workers, Free(w), NEW job,
         Become(w, job), NewRaise(job),
         events' = events, starts' = starts, up' = up
  PROVE  AlarmInv'
<1>1. work \in [Workers -> Job \cup {NoJob}]
  BY DEF TypeInv, TypeOK
<1>2. \A v \in Workers : work'[v] = IF v = w THEN job ELSE work[v]
  BY <1>1 DEF Become
<1>3. up /\ up' /\ \A v \in Workers \ {w} : Idle(v)
  BY DEF Free
<1>4. \A v \in Workers \ {w} : Idle(v)'
  BY <1>2, <1>3 DEF Idle
<1>5. \A u, v \in Workers : Idle(u)' \/ Idle(v)' \/ u = v
  BY <1>4
<1>6. \A v \in Workers : NewRaise(work'[v])
  BY <1>2 DEF AlarmInv
<1>7. \A v \in Workers : NewRaise(work[v])'
  BY <1>6 DEF NewRaise, Raises
<1>8. QED BY <1>3, <1>5, <1>7 DEF AlarmInv

LEMMA AlarmInvInit == TrapInit => AlarmInv
<1> SUFFICES ASSUME TrapInit PROVE AlarmInv
  OBVIOUS
<1>1. \A w \in Workers : work[w].at = "idle"
  BY DEF TrapInit, NoJob
<1>2. DOMAIN events = {}
  BY DEF TrapInit
<1>3. QED BY <1>1, <1>2 DEF AlarmInv, Idle, NewRaise

\* The loop stores nothing; the process ends with its workers.
LEMMA LoopAlarms ==
  ASSUME TypeInv, AlarmInv,
         Start \/ End \/ LoopStep \/ CallbackFails \/ UpdateStatus
  PROVE  AlarmInv'
<1>1. CASE Start
  <2>1. \A w \in Workers : work'[w].at = "idle"
    BY <1>1 DEF Start, AlarmInv, Idle
  <2>2. up' /\ events' = events
    BY <1>1 DEF Start, tables
  <2>3. QED BY <2>1, <2>2 DEF AlarmInv, Idle, NewRaise
<1>2. CASE End
  <2>1. \A w \in Workers : work'[w].at = "idle"
    BY <1>2 DEF End, NoJob
  <2>2. events' = events
    BY <1>2 DEF End, tables
  <2>3. QED BY <2>1, <2>2 DEF AlarmInv, Idle, NewRaise
<1>3. CASE LoopStep \/ CallbackFails \/ UpdateStatus
  <2>1. work' = work /\ events' = events /\ starts' = starts /\ up' = up
    BY <1>3 DEF LoopStep, Iterate, Read, Callback, Put, CallbackFails,
                UpdateStatus, tables, world
  <2>2. QED BY <2>1 DEF AlarmInv, Idle, NewRaise, Raises
<1>4. QED BY <1>1, <1>2, <1>3

\* The row that is stored is the only raise of its alarm.
LEMMA StoreEventAlarms ==
  ASSUME TypeInv, AlarmInv, NEW w \in Workers, StoreEvent(w)
  PROVE  AlarmInv'
<1>1. Free(w) /\ work[w].at = "insert" /\ up /\ up' = up /\ starts' = starts
  BY DEF StoreEvent, At, Free, world
<1> DEFINE new == [source |-> work[w].item.trap.source, alarm |-> Alarm(w),
                   clear |-> Clearing(w), cleared |-> work[w].cleared,
                   log |-> work[w].log]
<1>2. events' = Append(events, new)
  BY DEF StoreEvent
<1>3. new.alarm = Alarm(w) /\ new.clear = Clearing(w)
  OBVIOUS
<1> HIDE DEF new
<1>4. events \in Seq(EventRow) /\ Len(events) \in Nat
  BY DEF TypeInv
<1>5. /\ DOMAIN events' = 1 .. Len(events) + 1
      /\ \A k \in 1 .. Len(events) : events'[k] = events[k]
      /\ events'[Len(events) + 1] = new
  BY <1>2, <1>4
<1>6. ~ Clearing(w) /\ Alarm(w) # <<>> =>
        \A k \in 1 .. Len(events) : ~ (events[k].alarm = Alarm(w)
                                          /\ ~ events[k].clear)
  BY <1>1, <1>4 DEF AlarmInv, NewRaise, Alarm, Clearing, Raises
<1>7. \A j, k \in DOMAIN events' :
       /\ events'[j].alarm # <<>> /\ events'[j].alarm = events'[k].alarm
       /\ ~ events'[j].clear /\ ~ events'[k].clear
       => j = k
  <2> SUFFICES ASSUME NEW j \in DOMAIN events', NEW k \in DOMAIN events',
                      events'[j].alarm # <<>>,
                      events'[j].alarm = events'[k].alarm,
                      ~ events'[j].clear, ~ events'[k].clear
               PROVE  j = k
    OBVIOUS
  <2> DEFINE n == Len(events)
  <2>1. j \in 1 .. n \/ j = n + 1
    BY <1>4, <1>5
  <2>2. k \in 1 .. n \/ k = n + 1
    BY <1>4, <1>5
  <2>3. CASE j \in 1 .. n /\ k \in 1 .. n
    BY <1>4, <1>5, <2>3 DEF AlarmInv
  <2>4. CASE j \in 1 .. n /\ k = n + 1
    BY <1>3, <1>5, <1>6, <2>4
  <2>5. CASE j = n + 1 /\ k \in 1 .. n
    BY <1>3, <1>5, <1>6, <2>5
  <2>6. QED BY <2>1, <2>2, <2>3, <2>4, <2>5
<1>8. \A v \in Workers : v # w => work'[v].at = "idle"
  BY <1>1 DEF Free, Idle, StoreEvent, Become, TypeInv, TypeOK
<1>9. work'[w].at # "insert"
  <2>1. work[w] \in Job
    BY <1>1, BusyJob DEF Idle
  <2>2. work' = [work EXCEPT ![w] =
                   [work[w] EXCEPT !.at = "update", !.event = Len(events')]]
    BY DEF StoreEvent, Become
  <2>3. work'[w] = [work[w] EXCEPT !.at = "update", !.event = Len(events')]
    BY <2>2 DEF TypeInv, TypeOK
  <2>4. QED BY <2>1, <2>3 DEF Job
<1>10. \A v \in Workers : work'[v].at # "insert"
  BY <1>8, <1>9
<1>11. QED BY <1>1, <1>7, <1>8, <1>10 DEF AlarmInv, Idle, NewRaise

LEMMA WorkerAlarms ==
  ASSUME TypeInv, AlarmInv, NEW w \in Workers,
         WorkerStep(w) \/ StatementFails(w) \/ HandlerFails(w)
  PROVE  AlarmInv'
<1>1. CASE Take(w)
  <2> DEFINE job == [at |-> "log", item |-> Head(queue), log |-> 0,
                     event |-> 0, cleared |-> 0]
  <2>1. Become(w, job) /\ Free(w)
    BY <1>1 DEF Take
  <2>2. NewRaise(job)
    BY DEF NewRaise
  <2> HIDE DEF job
  <2>3. QED BY <1>1, <2>1, <2>2, WorkStep DEF Take, tables, world
<1>2. CASE StoreLog(w)
  <2>1. work[w] \in Job
    BY <1>2, BusyJob DEF StoreLog, At, Idle
  <2> DEFINE job == [work[w] EXCEPT !.at = "check", !.log = Len(log')]
  <2>2. Become(w, job) /\ Free(w)
    BY <1>2 DEF StoreLog, At
  <2>3. job.at = "check"
    BY <2>1 DEF Job
  <2>4. NewRaise(job)
    BY <2>3 DEF NewRaise
  <2> HIDE DEF job
  <2>5. QED BY <1>2, <2>2, <2>4, WorkStep DEF StoreLog, world
<1>3. CASE CheckAlarm(w)
  <2>1. work[w] \in Job
    BY <1>3, BusyJob DEF CheckAlarm, At, Idle
  <2>2. Free(w) /\ events' = events /\ starts' = starts /\ up' = up
    BY <1>3 DEF CheckAlarm, At, tables, world
  <2>3. CASE /\ Alarm(w) = <<>> \/ Raises(Alarm(w)) = {}
             /\ Become(w, [work[w] EXCEPT !.at = "insert"])
    <3> DEFINE job == [work[w] EXCEPT !.at = "insert"]
    <3>1. job.item = work[w].item
      BY <2>1 DEF Job
    <3> HIDE DEF job
    <3>2. NewRaise(job)
      BY <2>3, <3>1 DEF NewRaise, Alarm
    <3>3. Become(w, job)
      BY <2>3 DEF job
    <3>4. QED BY <2>2, <3>2, <3>3, WorkStep
  <2>4. CASE \E k \in Raises(Alarm(w)) :
               Become(w, IF Clearing(w)
                         THEN [work[w] EXCEPT !.at = "insert", !.cleared = k]
                         ELSE [work[w] EXCEPT !.at = "update", !.event = k])
    <3>1. PICK k \in Raises(Alarm(w)) :
            Become(w, IF Clearing(w)
                      THEN [work[w] EXCEPT !.at = "insert", !.cleared = k]
                      ELSE [work[w] EXCEPT !.at = "update", !.event = k])
      BY <2>4
    <3> DEFINE job == IF Clearing(w)
                      THEN [work[w] EXCEPT !.at = "insert", !.cleared = k]
                      ELSE [work[w] EXCEPT !.at = "update", !.event = k]
    <3>2. job.item = work[w].item /\ (~ Clearing(w) => job.at = "update")
      BY <2>1 DEF Job
    <3>3. Become(w, job)
      BY <3>1
    <3> HIDE DEF job
    <3>4. NewRaise(job)
      BY <3>2 DEF NewRaise, Clearing
    <3>5. QED BY <2>2, <3>3, <3>4, WorkStep
  <2>5. QED BY <1>3, <2>3, <2>4 DEF CheckAlarm
<1>4. CASE StoreEvent(w)
  BY <1>4, StoreEventAlarms
<1>5. NewRaise(NoJob)
  BY DEF NewRaise, NoJob
<1>6. CASE UpdateLog(w) \/ HandlerFails(w)
  <2>1. Become(w, NoJob) /\ Free(w)
    BY <1>6 DEF UpdateLog, HandlerFails, At
  <2>2. events' = events /\ starts' = starts /\ up' = up
    BY <1>6 DEF UpdateLog, HandlerFails, tables, world
  <2>3. QED BY <1>5, <2>1, <2>2, WorkStep
<1>7. CASE StatementFails(w)
  <2>1. Free(w) /\ events' = events /\ starts' = starts /\ up' = up
    BY <1>7 DEF StatementFails, At, tables, world
  <2>2. CASE Become(w, NoJob)
    BY <1>5, <2>1, <2>2, WorkStep
  <2>3. CASE At(w, "log") /\ Become(w, [work[w] EXCEPT !.at = "check"])
    <3> DEFINE job == [work[w] EXCEPT !.at = "check"]
    <3>1. work[w] \in Job
      BY <2>3, BusyJob DEF At, Idle
    <3>2. job.at = "check"
      BY <3>1 DEF Job
    <3>3. NewRaise(job)
      BY <3>2 DEF NewRaise
    <3>4. Become(w, job)
      BY <2>3
    <3> HIDE DEF job
    <3>5. QED BY <2>1, <3>3, <3>4, WorkStep
  <2>4. QED BY <1>7, <2>2, <2>3 DEF StatementFails
<1>8. QED BY <1>1, <1>2, <1>3, <1>4, <1>6, <1>7 DEF WorkerStep

LEMMA NextAlarms == TypeInv /\ AlarmInv /\ [TrapNext]_trapVars => AlarmInv'
<1> SUFFICES ASSUME TypeInv, AlarmInv, [TrapNext]_trapVars PROVE AlarmInv'
  OBVIOUS
<1>1. CASE UNCHANGED trapVars
  BY <1>1 DEF trapVars, tables, world, AlarmInv, Idle, NewRaise, Raises
<1>2. CASE TrapNext
  BY <1>2, LoopAlarms, WorkerAlarms DEF TrapNext
<1>3. QED BY <1>1, <1>2

\* However often an alarm is raised, by whichever worker and process and with
\* whatever statements failing, there is one raise of it among the events
\* (_store_event checks and inserts in two statements).
THEOREM OneRowPerAlarm == TrapSpec => []NoDuplicateRaise
<1>1. AlarmInv /\ TypeInv => NoDuplicateRaise
  <2> SUFFICES ASSUME AlarmInv, TypeInv,
                      NEW j \in DOMAIN events, NEW k \in DOMAIN events, j < k,
                      events[j].alarm # <<>>, events[j].alarm = events[k].alarm,
                      ~ events[j].clear, ~ events[k].clear
               PROVE  FALSE
    BY DEF NoDuplicateRaise
  <2>1. j = k
    BY DEF AlarmInv
  <2>2. j \in Nat
    BY DEF TypeInv
  <2>3. QED BY <2>1, <2>2
<1>2. TrapSpec => []AlarmInv
  BY AlarmInvInit, NextAlarms, Types, PTL DEF TrapSpec
<1>3. QED BY <1>1, <1>2, Types, PTL
-----------------------------------------------------------------------------
\* What a worker remembers of its trap is in the tables.
JobRefs(job) ==
  LET alarm == AlarmId(job.item.trap, starts)
  IN  job.at # "idle" =>
        /\ job.log # 0 => /\ job.log \in DOMAIN log
                          /\ log[job.log].item = job.item
                          /\ log[job.log].process = starts
        /\ job.event # 0 => /\ job.event \in DOMAIN events
                            /\ events[job.event].alarm = alarm
        /\ job.cleared # 0 => /\ IsClear(job.item.trap)
                              /\ job.cleared \in DOMAIN events
                              /\ ~ events[job.cleared].clear
                              /\ events[job.cleared].alarm = alarm

RefInv == ReferencesSound /\ \A w \in Workers : JobRefs(work[w])

Invs == TypeInv /\ AlarmInv
-----------------------------------------------------------------------------
LEMMA Basics == TrapSpec => []Invs
BY Types, AlarmInvInit, NextAlarms, PTL DEF TrapSpec, Invs

\* A worker that goes on is the only one with a job.
LEMMA Becoming ==
  ASSUME TypeInv, NEW w \in Workers, Free(w), NEW job, Become(w, job)
  PROVE  /\ work'[w] = job
         /\ \A v \in Workers : v # w => work'[v] = work[v] /\ work'[v].at = "idle"
<1>1. work \in [Workers -> Job \cup {NoJob}]
  BY DEF TypeInv, TypeOK
<1>2. \A v \in Workers : work'[v] = IF v = w THEN job ELSE work[v]
  BY <1>1 DEF Become
<1>3. QED BY <1>2 DEF Free, Idle

LEMMA LogType ==
  ASSUME TypeInv
  PROVE  log \in Seq(LogRow) /\ Len(log) \in Nat /\ DOMAIN log = 1 .. Len(log)
<1>1. log \in Seq(LogRow)
  BY DEF TypeInv, TypeOK, LogRow
<1> QED BY <1>1

LEMMA EventsType ==
  ASSUME TypeInv
  PROVE  /\ events \in Seq(EventRow) /\ Len(events) \in Nat
         /\ DOMAIN events = 1 .. Len(events)
<1>1. events \in Seq(EventRow)
  BY DEF TypeInv
<1> QED BY <1>1

\* The appended row, and those that were there.
LEMMA AppendedRow ==
  ASSUME NEW S, NEW s \in Seq(S), NEW x
  PROVE  /\ Len(s) \in Nat
         /\ DOMAIN s = 1 .. Len(s)
         /\ DOMAIN Append(s, x) = 1 .. Len(s) + 1
         /\ Len(Append(s, x)) = Len(s) + 1
         /\ Append(s, x)[Len(s) + 1] = x
         /\ \A k \in DOMAIN s : k \in DOMAIN Append(s, x) /\ Append(s, x)[k] = s[k]
OBVIOUS
-----------------------------------------------------------------------------
LEMMA InitRefs == TrapInit => RefInv
BY DEF TrapInit, RefInv, ReferencesSound, JobRefs, NoJob

\* The loop stores nothing, and a process starts and ends without jobs.
LEMMA LoopRefs ==
  ASSUME Invs, RefInv,
         Start \/ End \/ LoopStep \/ CallbackFails \/ UpdateStatus
  PROVE  RefInv'
<1>1. log' = log /\ events' = events
  BY DEF Start, End, LoopStep, Iterate, Read, Callback, Put, CallbackFails,
         UpdateStatus, tables
<1>2. ReferencesSound'
  BY <1>1 DEF RefInv, ReferencesSound, LogAlarm
<1>3. CASE Start \/ End
  <2>1. \A w \in Workers : work'[w].at = "idle"
    BY <1>3 DEF Start, End, Invs, AlarmInv, Idle, NoJob
  <2>2. QED BY <1>2, <2>1 DEF RefInv, JobRefs
<1>4. CASE LoopStep \/ CallbackFails \/ UpdateStatus
  <2>1. work' = work /\ starts' = starts
    BY <1>4 DEF LoopStep, Iterate, Read, Callback, Put, CallbackFails,
                UpdateStatus, world
  <2>2. QED BY <1>1, <1>2, <2>1 DEF RefInv, JobRefs
<1>5. QED BY <1>3, <1>4

\* A step of a worker that leaves the tables alone.
LEMMA QuietRefs ==
  ASSUME Invs, RefInv, NEW w \in Workers, Free(w), NEW job, Become(w, job),
         JobRefs(job), UNCHANGED <<log, events, starts>>
  PROVE  RefInv'
<1>1. \A v \in Workers : work'[v] = job \/ work'[v].at = "idle"
  BY Becoming DEF Invs
<1>2. \A v \in Workers : JobRefs(work'[v])
  BY <1>1 DEF JobRefs
<1>3. \A v \in Workers : JobRefs(work[v])'
  BY <1>2 DEF JobRefs
<1>4. QED BY <1>3 DEF RefInv, ReferencesSound, LogAlarm

LEMMA StoreLogRefs ==
  ASSUME Invs, RefInv, NEW w \in Workers, StoreLog(w)
  PROVE  RefInv'
<1>1. Free(w) /\ ~ Idle(w) /\ events' = events /\ starts' = starts
  BY DEF StoreLog, At, Idle, world
<1>2. work[w] \in Job /\ JobRefs(work[w]) /\ work[w].at = "log"
  BY <1>1, BusyJob DEF RefInv, Invs, StoreLog, At
<1> DEFINE new == [item |-> work[w].item, process |-> starts, event |-> 0]
           job == [work[w] EXCEPT !.at = "check", !.log = Len(log')]
<1>3. log' = Append(log, new) /\ Become(w, job)
  BY DEF StoreLog
<1>4. /\ job.item = work[w].item /\ job.log = Len(log') /\ job.at = "check"
      /\ job.event = work[w].event /\ job.cleared = work[w].cleared
  BY <1>2 DEF Job
<1>5. new.item = work[w].item /\ new.process = starts /\ new.event = 0
  OBVIOUS
<1> HIDE DEF new, job
<1>6. /\ DOMAIN log = 1 .. Len(log) /\ Len(log) \in Nat
      /\ DOMAIN log' = 1 .. Len(log) + 1 /\ Len(log') = Len(log) + 1
      /\ log'[Len(log) + 1] = new
      /\ \A k \in DOMAIN log : k \in DOMAIN log' /\ log'[k] = log[k]
  BY <1>3, LogType, AppendedRow DEF Invs
<1>7. /\ work'[w] = job
      /\ \A v \in Workers : v # w => work'[v].at = "idle"
  BY <1>1, <1>3, Becoming DEF Invs
<1>8. \A v \in Workers : JobRefs(work[v])'
  <2>1. JobRefs(work[w])'
    BY <1>1, <1>2, <1>4, <1>5, <1>6, <1>7 DEF JobRefs
  <2>2. QED BY <1>7, <2>1 DEF JobRefs
<1>9. ReferencesSound'
  BY <1>1, <1>5, <1>6 DEF RefInv, ReferencesSound, LogAlarm
<1>10. QED BY <1>8, <1>9 DEF RefInv

LEMMA CheckAlarmRefs ==
  ASSUME Invs, RefInv, NEW w \in Workers, CheckAlarm(w)
  PROVE  RefInv'
<1>1. /\ Free(w) /\ ~ Idle(w) /\ work[w].at = "check"
      /\ UNCHANGED <<log, events, starts>>
  BY DEF CheckAlarm, At, Idle, world, tables
<1>2. work[w] \in Job /\ JobRefs(work[w])
  BY <1>1, BusyJob DEF RefInv, Invs
<1>3. CASE Become(w, [work[w] EXCEPT !.at = "insert"])
  <2> DEFINE job == [work[w] EXCEPT !.at = "insert"]
  <2>1. /\ job.item = work[w].item /\ job.log = work[w].log
        /\ job.event = work[w].event /\ job.cleared = work[w].cleared
    BY <1>2 DEF Job
  <2> HIDE DEF job
  <2>2. JobRefs(job)
    BY <1>1, <1>2, <2>1 DEF JobRefs
  <2>3. Become(w, job)
    BY <1>3 DEF job
  <2>4. QED BY <1>1, <2>2, <2>3, QuietRefs
<1>4. ASSUME NEW k \in Raises(Alarm(w)),
             Become(w, IF Clearing(w)
                       THEN [work[w] EXCEPT !.at = "insert", !.cleared = k]
                       ELSE [work[w] EXCEPT !.at = "update", !.event = k])
      PROVE  RefInv'
  <2> DEFINE job == IF Clearing(w)
                    THEN [work[w] EXCEPT !.at = "insert", !.cleared = k]
                    ELSE [work[w] EXCEPT !.at = "update", !.event = k]
  <2>1. /\ job.item = work[w].item /\ job.log = work[w].log
        /\ Clearing(w) => job.event = work[w].event /\ job.cleared = k
        /\ ~ Clearing(w) => job.event = k /\ job.cleared = work[w].cleared
    BY <1>2 DEF Job
  <2>2. Become(w, job)
    BY <1>4
  <2> HIDE DEF job
  <2>3. JobRefs(job)
    BY <1>1, <1>2, <2>1 DEF JobRefs, Raises, Alarm, Clearing
  <2>4. QED BY <1>1, <2>2, <2>3, QuietRefs
<1>5. QED BY <1>3, <1>4 DEF CheckAlarm

LEMMA StoreEventRefs ==
  ASSUME Invs, RefInv, NEW w \in Workers, StoreEvent(w)
  PROVE  RefInv'
<1>1. /\ Free(w) /\ ~ Idle(w) /\ work[w].at = "insert"
      /\ log' = log /\ starts' = starts
  BY DEF StoreEvent, At, Idle, world
<1>2. work[w] \in Job /\ JobRefs(work[w]) /\ work[w].cleared \in Nat
  BY <1>1, BusyJob DEF RefInv, Invs
<1> DEFINE new == [source |-> work[w].item.trap.source, alarm |-> Alarm(w),
                   clear |-> Clearing(w), cleared |-> work[w].cleared,
                   log |-> work[w].log]
           job == [work[w] EXCEPT !.at = "update", !.event = Len(events')]
<1>3. events' = Append(events, new) /\ Become(w, job)
  BY DEF StoreEvent
<1>4. /\ job.item = work[w].item /\ job.log = work[w].log
      /\ job.event = Len(events') /\ job.cleared = work[w].cleared
  BY <1>2 DEF Job
<1>5. /\ new.alarm = AlarmId(work[w].item.trap, starts)
      /\ new.clear = IsClear(work[w].item.trap)
      /\ new.cleared = work[w].cleared /\ new.log = work[w].log
  BY DEF Alarm, Clearing
<1> HIDE DEF new, job
<1>6. /\ DOMAIN events = 1 .. Len(events) /\ Len(events) \in Nat
      /\ DOMAIN events' = 1 .. Len(events) + 1
      /\ Len(events') = Len(events) + 1
      /\ events'[Len(events) + 1] = new
      /\ \A k \in DOMAIN events : k \in DOMAIN events' /\ events'[k] = events[k]
  BY <1>3, EventsType, AppendedRow DEF Invs
<1>7. /\ work'[w] = job
      /\ \A v \in Workers : v # w => work'[v].at = "idle"
  BY <1>1, <1>3, Becoming DEF Invs
<1>8. \A v \in Workers : JobRefs(work[v])'
  <2>1. JobRefs(work[w])'
    BY <1>1, <1>2, <1>4, <1>5, <1>6, <1>7 DEF JobRefs
  <2>2. QED BY <1>7, <2>1 DEF JobRefs
<1>9. ReferencesSound'
  <2>1. ASSUME NEW k \in DOMAIN events'
        PROVE  /\ events'[k].log # 0 =>
                    /\ events'[k].log \in DOMAIN log
                    /\ LogAlarm(events'[k].log) = events'[k].alarm
               /\ events'[k].cleared # 0 =>
                    /\ events'[k].clear /\ events'[k].cleared < k
                    /\ ~ events'[events'[k].cleared].clear
                    /\ events'[events'[k].cleared].alarm = events'[k].alarm
    <3>1. CASE k \in DOMAIN events
      <4>1. /\ events[k].log # 0 =>
                 /\ events[k].log \in DOMAIN log
                 /\ LogAlarm(events[k].log) = events[k].alarm
            /\ events[k].cleared # 0 =>
                 /\ events[k].clear /\ events[k].cleared < k
                 /\ ~ events[events[k].cleared].clear
                 /\ events[events[k].cleared].alarm = events[k].alarm
        BY <3>1 DEF RefInv, ReferencesSound
      <4>2. events[k].cleared \in Nat
        <5>1. events[k] \in EventRow
          BY <3>1, EventsType DEF Invs
        <5>2. QED BY <5>1 DEF EventRow
      <4>3. events[k].cleared # 0 => events[k].cleared \in DOMAIN events
        BY <1>6, <3>1, <4>1, <4>2
      <4>4. QED BY <1>1, <1>6, <3>1, <4>1, <4>3 DEF LogAlarm
    <3>2. CASE k = Len(events) + 1
      <4>1. events'[k] = new
        BY <1>6, <3>2
      <4>2. new.cleared # 0 => /\ new.clear /\ new.cleared \in DOMAIN events
                               /\ ~ events[new.cleared].clear
                               /\ events[new.cleared].alarm = new.alarm
        BY <1>1, <1>2, <1>5 DEF JobRefs
      <4>3. new.log # 0 => /\ new.log \in DOMAIN log
                           /\ LogAlarm(new.log) = new.alarm
        BY <1>1, <1>2, <1>5 DEF JobRefs, LogAlarm
      <4>4. QED BY <1>1, <1>6, <3>2, <4>1, <4>2, <4>3 DEF LogAlarm
    <3>3. QED BY <1>6, <3>1, <3>2
  <2>2. ASSUME NEW k \in DOMAIN log, log[k].event # 0
        PROVE  /\ log[k].event \in DOMAIN events'
               /\ events'[log[k].event].alarm = LogAlarm(k)
    BY <1>6, <2>2 DEF RefInv, ReferencesSound
  <2>3. QED BY <1>1, <2>1, <2>2 DEF ReferencesSound, LogAlarm
<1>10. QED BY <1>8, <1>9 DEF RefInv

LEMMA UpdateLogRefs ==
  ASSUME Invs, RefInv, NEW w \in Workers, UpdateLog(w)
  PROVE  RefInv'
<1>1. /\ Free(w) /\ ~ Idle(w) /\ work[w].at = "update"
      /\ events' = events /\ starts' = starts /\ Become(w, NoJob)
  BY DEF UpdateLog, At, Idle, world
<1>2. /\ work[w] \in Job /\ JobRefs(work[w])
      /\ work[w].log \in Nat /\ work[w].event \in Nat
  BY <1>1, BusyJob DEF RefInv, Invs
<1>3. log' = [k \in DOMAIN log |->
                IF k = work[w].log THEN [log[k] EXCEPT !.event = work[w].event]
                ELSE log[k]]
  BY DEF UpdateLog
<1>4. \A k \in DOMAIN log :
        /\ k \in DOMAIN log'
        /\ log'[k].item = log[k].item /\ log'[k].process = log[k].process
        /\ log'[k].event = IF k = work[w].log THEN work[w].event ELSE log[k].event
  <2>1. \A k \in DOMAIN log : log[k] \in LogRow
    BY LogType DEF Invs
  <2>2. QED BY <1>3, <2>1 DEF LogRow
<1>5. DOMAIN log' = DOMAIN log
  BY <1>3
<1>6. \A k \in DOMAIN log : LogAlarm(k)' = LogAlarm(k)
  BY <1>4 DEF LogAlarm
<1>7. \A v \in Workers : work'[v].at = "idle"
  BY <1>1, Becoming DEF Invs, NoJob
<1>8. \A k \in DOMAIN events :
        /\ events[k].log # 0 => /\ events[k].log \in DOMAIN log
                                /\ LogAlarm(events[k].log) = events[k].alarm
        /\ events[k].cleared # 0 => /\ events[k].clear
                                    /\ events[k].cleared < k
                                    /\ ~ events[events[k].cleared].clear
                                    /\ events[events[k].cleared].alarm
                                         = events[k].alarm
  BY DEF RefInv, ReferencesSound
<1>9. \A k \in DOMAIN log' :
        log'[k].event # 0 => /\ log'[k].event \in DOMAIN events
                             /\ events[log'[k].event].alarm = LogAlarm(k)'
  <2> SUFFICES ASSUME NEW k \in DOMAIN log', log'[k].event # 0
               PROVE  /\ log'[k].event \in DOMAIN events
                      /\ events[log'[k].event].alarm = LogAlarm(k)'
    OBVIOUS
  <2>1. CASE k = work[w].log
    <3>1. work[w].log # 0
      BY <1>5, <2>1, LogType DEF Invs
    <3>2. LogAlarm(k) = AlarmId(work[w].item.trap, starts)
      BY <1>1, <1>2, <2>1, <3>1 DEF JobRefs, LogAlarm
    <3>3. QED BY <1>1, <1>2, <1>4, <1>5, <1>6, <2>1, <3>2 DEF JobRefs
  <2>2. CASE k # work[w].log
    BY <1>4, <1>5, <1>6, <2>2 DEF RefInv, ReferencesSound
  <2>3. QED BY <2>1, <2>2
<1>10. ReferencesSound'
  BY <1>1, <1>5, <1>6, <1>8, <1>9 DEF ReferencesSound
<1>11. QED BY <1>7, <1>10 DEF RefInv, JobRefs

LEMMA WorkerRefs ==
  ASSUME Invs, RefInv, NEW w \in Workers,
         WorkerStep(w) \/ StatementFails(w) \/ HandlerFails(w)
  PROVE  RefInv'
<1>1. CASE Take(w)
  <2> DEFINE job == [at |-> "log", item |-> Head(queue), log |-> 0,
                     event |-> 0, cleared |-> 0]
  <2>1. /\ Free(w) /\ Become(w, job) /\ UNCHANGED <<log, events, starts>>
        /\ job.log = 0 /\ job.event = 0 /\ job.cleared = 0
    BY <1>1 DEF Take, world, tables
  <2> HIDE DEF job
  <2>2. JobRefs(job)
    BY <2>1 DEF JobRefs
  <2>3. QED BY <2>1, <2>2, QuietRefs
<1>2. CASE StoreLog(w) \/ CheckAlarm(w) \/ StoreEvent(w) \/ UpdateLog(w)
  BY <1>2, StoreLogRefs, CheckAlarmRefs, StoreEventRefs, UpdateLogRefs
<1>3. CASE StatementFails(w) \/ HandlerFails(w)
  <2>1. Free(w) /\ UNCHANGED <<log, events, starts>>
    BY <1>3 DEF StatementFails, HandlerFails, At, world, tables
  <2>2. CASE Become(w, NoJob)
    <3>1. JobRefs(NoJob)
      BY DEF JobRefs, NoJob
    <3>2. QED BY <2>1, <2>2, <3>1, QuietRefs
  <2>3. CASE At(w, "log") /\ Become(w, [work[w] EXCEPT !.at = "check"])
    <3> DEFINE job == [work[w] EXCEPT !.at = "check"]
    <3>1. work[w] \in Job /\ JobRefs(work[w]) /\ work[w].at = "log"
      BY <2>3, BusyJob DEF At, Idle, RefInv, Invs
    <3>2. /\ job.item = work[w].item /\ job.log = work[w].log
          /\ job.event = work[w].event /\ job.cleared = work[w].cleared
      BY <3>1 DEF Job
    <3> HIDE DEF job
    <3>3. JobRefs(job)
      BY <3>1, <3>2 DEF JobRefs
    <3>4. Become(w, job)
      BY <2>3 DEF job
    <3>5. QED BY <2>1, <3>3, <3>4, QuietRefs
  <2>4. QED BY <1>3, <2>2, <2>3 DEF StatementFails, HandlerFails
<1>4. QED BY <1>1, <1>2, <1>3 DEF WorkerStep

LEMMA NextRefs == Invs /\ RefInv /\ [TrapNext]_trapVars => RefInv'
<1> SUFFICES ASSUME Invs, RefInv, [TrapNext]_trapVars PROVE RefInv'
  OBVIOUS
<1>1. CASE UNCHANGED trapVars
  <2>1. UNCHANGED <<log, events, work, starts>>
    BY <1>1 DEF trapVars, tables, world
  <2>2. QED BY <2>1 DEF RefInv, ReferencesSound, LogAlarm, JobRefs
<1>2. CASE TrapNext
  BY <1>2, LoopRefs, WorkerRefs DEF TrapNext
<1>3. QED BY <1>1, <1>2

LEMMA Refs == TrapSpec => []RefInv
BY Basics, InitRefs, NextRefs, PTL DEF TrapSpec

\* Whatever statement fails and wherever the process ends, an event stands in
\* the log row it names, a log row names an event of its alarm, and a clear an
\* earlier raise of it (_store_trap_log, _store_event, _update_trap_log).
THEOREM ReferencesKept == TrapSpec => []ReferencesSound
BY Refs, PTL DEF RefInv
-----------------------------------------------------------------------------
\* The order of receipt.  A trap is in the log, with a worker, in the queue,
\* among the ready handles or those to do: in this order, as of the handles of
\* an iteration those come first that are further on.  The loop reads once in
\* an iteration, so that no two handles of one are at the same stage.
Items(hs) == [i \in DOMAIN hs |-> hs[i].item]

Ascending(s)  == \A i, j \in DOMAIN s : i < j => s[i].time < s[j].time
Precede(s, t) == \A i \in DOMAIN s, j \in DOMAIN t : s[i].time < t[j].time
Until(s, n)   == \A i \in DOMAIN s : s[i].time <= n

Stage(h) == IF h.do = "read" THEN 1 ELSE IF h.do = "callback" THEN 2 ELSE 3

Stages(r, d) ==
  /\ r \in Seq(Handle) /\ d \in Seq(Handle)
  /\ \A i, j \in DOMAIN d : i < j => Stage(d[i]) > Stage(d[j])
  /\ \A i, j \in DOMAIN r : i < j => Stage(r[i]) > Stage(r[j])
  /\ \A i \in DOMAIN r : /\ Stage(r[i]) > 1
                         /\ \A j \in DOMAIN d : Stage(r[i]) > Stage(d[j]) + 1

\* log, the trap of a worker that has not stored it, queue, ready and todo.
Line(l, s, q, r, d, n) ==
  /\ l \in Seq(Item) /\ s \in Seq(Item) /\ q \in Seq(Item)
  /\ r \in Seq(Item) /\ d \in Seq(Item) /\ n \in Nat
  /\ Ascending(l) /\ Ascending(s) /\ Ascending(q) /\ Ascending(r) /\ Ascending(d)
  /\ Precede(l, s) /\ Precede(l, q) /\ Precede(l, r) /\ Precede(l, d)
  /\ Precede(s, q) /\ Precede(s, r) /\ Precede(s, d)
  /\ Precede(q, r) /\ Precede(q, d) /\ Precede(r, d)
  /\ Until(l, n) /\ Until(s, n) /\ Until(q, n) /\ Until(r, n) /\ Until(d, n)

Unstored(job) == IF job.at = "log" THEN <<job.item>> ELSE <<>>

LineOf(s) == Line(Items(log), s, queue, Items(ready), Items(todo), arrivals)

LineInv == LineOf(<<>>) /\ \A w \in Workers : LineOf(Unstored(work[w]))

\* The log row of a worker that is about to store an event is newer than
\* those of the events.
EventInv ==
  /\ \A j, k \in DOMAIN events :
       j < k /\ events[j].log # 0 /\ events[k].log # 0
         => events[j].log < events[k].log
  /\ \A w \in Workers :
       work[w].at \in {"check", "insert"} /\ work[w].log # 0
         => \A k \in DOMAIN events : events[k].log < work[w].log
  /\ \A w \in Workers : work[w].at = "log" => work[w].log = 0

OrderInv == Stages(ready, todo) /\ LineInv
-----------------------------------------------------------------------------
LEMMA SeqIsFunction ==
  ASSUME NEW S, NEW s \in Seq(S)
  PROVE  s \in [1 .. Len(s) -> S]
OBVIOUS

LEMMA TailFacts ==
  ASSUME NEW S, NEW s \in Seq(S), s # <<>>
  PROVE  /\ Len(s) \in Nat /\ Len(s) > 0 /\ DOMAIN s = 1 .. Len(s)
         /\ Head(s) = s[1] /\ Head(s) \in S /\ Tail(s) \in Seq(S)
         /\ DOMAIN Tail(s) = 1 .. Len(s) - 1
         /\ Tail(s) \in [1 .. Len(s) - 1 -> S]
         /\ \A i \in DOMAIN Tail(s) : i + 1 \in DOMAIN s /\ Tail(s)[i] = s[i + 1]
<1>1. Len(s) \in Nat /\ Len(s) > 0 /\ DOMAIN s = 1 .. Len(s)
  OBVIOUS
<1>2. Head(s) = s[1] /\ Head(s) \in S /\ Tail(s) \in Seq(S)
  OBVIOUS
<1>3. Len(Tail(s)) = Len(s) - 1 /\ DOMAIN Tail(s) = 1 .. Len(s) - 1
  OBVIOUS
<1>4. \A i \in 1 .. Len(s) - 1 : i + 1 \in 1 .. Len(s) /\ Tail(s)[i] = s[i + 1]
  BY <1>1
<1>5. Tail(s) \in [1 .. Len(Tail(s)) -> S]
  BY <1>2, SeqIsFunction
<1>6. QED BY <1>1, <1>2, <1>3, <1>4, <1>5

LEMMA ItemsFacts ==
  ASSUME NEW hs \in Seq(Handle)
  PROVE  /\ Items(hs) \in Seq(Item)
         /\ hs # <<>> => /\ Items(hs) # <<>>
                         /\ Items(Tail(hs)) = Tail(Items(hs))
                         /\ Head(Items(hs)) = Head(hs).item
         /\ \A h \in Handle :
              Items(Append(hs, h)) = Append(Items(hs), h.item)
<1>1. \A h \in Handle : h.item \in Item
  BY DEF Handle
<1>2. Len(hs) \in Nat /\ DOMAIN hs = 1 .. Len(hs)
  OBVIOUS
<1>3. Items(hs) \in [1 .. Len(hs) -> Item]
  BY <1>1, <1>2 DEF Items
<1>4. Items(hs) \in Seq(Item)
  BY <1>2, <1>3, FunctionIsSeq
<1>5. Len(Items(hs)) = Len(hs) /\ \A i \in 1 .. Len(hs) : Items(hs)[i] = hs[i].item
  BY <1>2, <1>3, <1>4 DEF Items
<1>6. ASSUME hs # <<>>
      PROVE  /\ Items(hs) # <<>>
             /\ Items(Tail(hs)) = Tail(Items(hs))
             /\ Head(Items(hs)) = Head(hs).item
  <2>1. Len(hs) > 0 /\ Items(hs) # <<>>
    BY <1>2, <1>4, <1>5, <1>6
  <2>2. /\ DOMAIN Tail(hs) = 1 .. Len(hs) - 1
        /\ \A i \in 1 .. Len(hs) - 1 : Tail(hs)[i] = hs[i + 1]
        /\ Head(hs) = hs[1]
    BY <1>6, TailFacts
  <2>3. /\ Tail(Items(hs)) \in Seq(Item)
        /\ DOMAIN Tail(Items(hs)) = 1 .. Len(hs) - 1
        /\ Tail(Items(hs)) \in [1 .. Len(hs) - 1 -> Item]
        /\ \A i \in 1 .. Len(hs) - 1 : Tail(Items(hs))[i] = Items(hs)[i + 1]
        /\ Head(Items(hs)) = Items(hs)[1]
    BY <1>4, <1>5, <2>1, TailFacts
  <2>4. Items(Tail(hs)) = [i \in 1 .. Len(hs) - 1 |-> hs[i + 1].item]
    BY <2>2 DEF Items
  <2>5. Tail(Items(hs)) = [i \in 1 .. Len(hs) - 1 |-> Tail(Items(hs))[i]]
    BY <2>3
  <2>6. \A i \in 1 .. Len(hs) - 1 : Tail(Items(hs))[i] = hs[i + 1].item
    BY <1>2, <1>5, <2>3
  <2>7. Items(Tail(hs)) = Tail(Items(hs))
    BY <2>4, <2>5, <2>6
  <2>8. QED BY <1>2, <1>5, <2>1, <2>2, <2>3, <2>7
<1>7. ASSUME NEW h \in Handle
      PROVE  Items(Append(hs, h)) = Append(Items(hs), h.item)
  <2>1. /\ DOMAIN Append(hs, h) = 1 .. Len(hs) + 1
        /\ \A i \in 1 .. Len(hs) : Append(hs, h)[i] = hs[i]
        /\ Append(hs, h)[Len(hs) + 1] = h
    BY <1>2, AppendedRow
  <2>2. /\ Append(Items(hs), h.item) \in Seq(Item)
        /\ DOMAIN Append(Items(hs), h.item) = 1 .. Len(hs) + 1
        /\ \A i \in 1 .. Len(hs) : Append(Items(hs), h.item)[i] = Items(hs)[i]
        /\ Append(Items(hs), h.item)[Len(hs) + 1] = h.item
    BY <1>1, <1>4, <1>5, AppendedRow
  <2>3. Items(Append(hs, h)) = [i \in 1 .. Len(hs) + 1 |-> Append(hs, h)[i].item]
    BY <2>1 DEF Items
  <2>4. Append(Items(hs), h.item)
          = [i \in 1 .. Len(hs) + 1 |-> Append(Items(hs), h.item)[i]]
    BY <2>2
  <2>5. \A i \in 1 .. Len(hs) + 1 :
          Append(Items(hs), h.item)[i] = Append(hs, h)[i].item
    BY <1>2, <1>5, <2>1, <2>2
  <2>6. QED BY <2>3, <2>4, <2>5
<1>8. QED BY <1>4, <1>6, <1>7

\* The first trap of a sequence moves to the end of the one before.
LEMMA MoveHead ==
  ASSUME NEW s \in Seq(Item), NEW t \in Seq(Item), t # <<>>,
         Ascending(s), Ascending(t), Precede(s, t)
  PROVE  /\ Ascending(Append(s, Head(t))) /\ Ascending(Tail(t))
         /\ Precede(Append(s, Head(t)), Tail(t))
         /\ \A u : Precede(u, s) /\ Precede(u, t)
                     => Precede(u, Append(s, Head(t))) /\ Precede(u, Tail(t))
         /\ \A u : Precede(s, u) /\ Precede(t, u)
                     => Precede(Append(s, Head(t)), u) /\ Precede(Tail(t), u)
         /\ \A n : Until(s, n) /\ Until(t, n)
                     => Until(Append(s, Head(t)), n) /\ Until(Tail(t), n)
<1> DEFINE a == Append(s, Head(t))
           b == Tail(t)
<1>1. /\ Len(s) \in Nat /\ DOMAIN s = 1 .. Len(s) /\ DOMAIN a = 1 .. Len(s) + 1
      /\ a[Len(s) + 1] = Head(t) /\ \A i \in DOMAIN s : a[i] = s[i]
  BY AppendedRow
<1>2. /\ Len(t) \in Nat /\ DOMAIN t = 1 .. Len(t) /\ 1 \in DOMAIN t
      /\ Head(t) = t[1] /\ DOMAIN b = 1 .. Len(t) - 1
      /\ \A i \in DOMAIN b : i + 1 \in DOMAIN t /\ b[i] = t[i + 1]
  BY TailFacts
<1> HIDE DEF a, b
<1>3. \A i \in DOMAIN a : i \in DOMAIN s \/ i = Len(s) + 1
  BY <1>1
<1>4. Ascending(a)
  <2> SUFFICES ASSUME NEW i \in DOMAIN a, NEW j \in DOMAIN a, i < j
               PROVE  a[i].time < a[j].time
    BY DEF Ascending
  <2>1. i \in DOMAIN s
    BY <1>1
  <2>2. CASE j \in DOMAIN s
    BY <1>1, <2>1, <2>2 DEF Ascending
  <2>3. CASE j = Len(s) + 1
    BY <1>1, <1>2, <2>1, <2>3 DEF Precede
  <2>4. QED BY <1>3, <2>2, <2>3
<1>5. Ascending(b)
  <2> SUFFICES ASSUME NEW i \in DOMAIN b, NEW j \in DOMAIN b, i < j
               PROVE  b[i].time < b[j].time
    BY DEF Ascending
  <2>1. i + 1 \in DOMAIN t /\ j + 1 \in DOMAIN t /\ i + 1 < j + 1
    BY <1>2
  <2>2. QED BY <1>2, <2>1 DEF Ascending
<1>6. \A j \in DOMAIN b : Head(t).time < b[j].time
  <2> SUFFICES ASSUME NEW j \in DOMAIN b PROVE Head(t).time < b[j].time
    OBVIOUS
  <2>1. j + 1 \in DOMAIN t /\ 1 < j + 1
    BY <1>2
  <2>2. QED BY <1>2, <2>1 DEF Ascending
<1>7. Precede(a, b)
  <2> SUFFICES ASSUME NEW i \in DOMAIN a, NEW j \in DOMAIN b
               PROVE  a[i].time < b[j].time
    BY DEF Precede
  <2>1. CASE i \in DOMAIN s
    BY <1>1, <1>2, <2>1 DEF Precede
  <2>2. CASE i = Len(s) + 1
    BY <1>1, <1>6, <2>2
  <2>3. QED BY <1>3, <2>1, <2>2
<1>8. \A u : Precede(u, s) /\ Precede(u, t) => Precede(u, a) /\ Precede(u, b)
  BY <1>1, <1>2, <1>3 DEF Precede
<1>9. \A u : Precede(s, u) /\ Precede(t, u) => Precede(a, u) /\ Precede(b, u)
  BY <1>1, <1>2, <1>3 DEF Precede
<1>10. \A n : Until(s, n) /\ Until(t, n) => Until(a, n) /\ Until(b, n)
  BY <1>1, <1>2, <1>3 DEF Until
<1>11. QED BY <1>4, <1>5, <1>7, <1>8, <1>9, <1>10 DEF a, b

\* The first trap of a sequence is dropped, or taken.
LEMMA DropHead ==
  ASSUME NEW t \in Seq(Item), t # <<>>, Ascending(t)
  PROVE  /\ Ascending(Tail(t)) /\ Precede(<<Head(t)>>, Tail(t))
         /\ \A u : Precede(u, t) => Precede(u, <<Head(t)>>) /\ Precede(u, Tail(t))
         /\ \A u : Precede(t, u) => Precede(<<Head(t)>>, u) /\ Precede(Tail(t), u)
         /\ \A n : Until(t, n) => Until(<<Head(t)>>, n) /\ Until(Tail(t), n)
<1>1. /\ Ascending(<<>>) /\ Precede(<<>>, t)
      /\ \A u : Precede(u, <<>>) /\ Precede(<<>>, u) /\ Until(<<>>, u)
  BY DEF Ascending, Precede, Until
<1>2. Append(<<>>, Head(t)) = <<Head(t)>> /\ <<>> \in Seq(Item)
  OBVIOUS
<1>3. QED BY <1>1, <1>2, MoveHead

\* The next trap comes last.
LEMMA AddLast ==
  ASSUME NEW s \in Seq(Item), NEW n \in Nat, Ascending(s), Until(s, n),
         NEW t \in Traps
  PROVE  LET a == Append(s, [trap |-> t, time |-> n + 1])
         IN  /\ Ascending(a) /\ Until(a, n + 1)
             /\ \A u \in Seq(Item) :
                  Precede(u, s) /\ Until(u, n) => Precede(u, a)
<1> DEFINE x == [trap |-> t, time |-> n + 1]
           a == Append(s, x)
<1>1. /\ Len(s) \in Nat /\ DOMAIN s = 1 .. Len(s) /\ DOMAIN a = 1 .. Len(s) + 1
      /\ a[Len(s) + 1] = x /\ \A i \in DOMAIN s : a[i] = s[i]
  BY AppendedRow
<1>2. x.time = n + 1
  OBVIOUS
<1>3. \A u \in Seq(Item) : \A i \in DOMAIN u : u[i].time \in Nat
  <2> SUFFICES ASSUME NEW u \in Seq(Item), NEW i \in DOMAIN u
               PROVE  u[i].time \in Nat
    OBVIOUS
  <2>1. u[i] \in Item
    OBVIOUS
  <2>2. QED BY <2>1 DEF Item
<1> HIDE DEF a, x
<1>4. \A i \in DOMAIN a : i \in DOMAIN s \/ i = Len(s) + 1
  BY <1>1
<1>5. Ascending(a)
  BY <1>1, <1>2, <1>3, <1>4 DEF Ascending, Until
<1>6. Until(a, n + 1)
  BY <1>1, <1>2, <1>3, <1>4 DEF Until
<1>7. ASSUME NEW u \in Seq(Item), Precede(u, s), Until(u, n)
      PROVE  Precede(u, a)
  <2> SUFFICES ASSUME NEW i \in DOMAIN u, NEW j \in DOMAIN a
               PROVE  u[i].time < a[j].time
    BY DEF Precede
  <2>1. CASE j \in DOMAIN s
    BY <1>1, <1>7, <2>1 DEF Precede
  <2>2. CASE j = Len(s) + 1
    BY <1>1, <1>2, <1>3, <1>7, <2>2 DEF Until
  <2>3. QED BY <1>4, <2>1, <2>2
<1>8. QED BY <1>5, <1>6, <1>7 DEF a, x
-----------------------------------------------------------------------------
LEMMA NothingFacts ==
  /\ <<>> \in Seq(Item) /\ Ascending(<<>>)
  /\ \A u : Precede(u, <<>>) /\ Precede(<<>>, u) /\ Until(<<>>, u)
BY DEF Ascending, Precede, Until

\* The trap of a handle is scheduled further, or dropped.
LEMMA LineTurn ==
  ASSUME NEW l, NEW s, NEW q, NEW r, NEW d, NEW n, Line(l, s, q, r, d, n),
         d # <<>>
  PROVE  /\ Line(l, s, q, r, Tail(d), n)
         /\ Line(l, s, q, Append(r, Head(d)), Tail(d), n)
         /\ r = <<>> => Line(l, s, Append(q, Head(d)), r, Tail(d), n)
<1> USE DEF Line
<1>1. Head(d) \in Item /\ Tail(d) \in Seq(Item)
  BY TailFacts
<1>2. Append(r, Head(d)) \in Seq(Item) /\ Append(q, Head(d)) \in Seq(Item)
  BY <1>1
<1>3. Line(l, s, q, r, Tail(d), n)
  BY <1>1, DropHead
<1>4. Line(l, s, q, Append(r, Head(d)), Tail(d), n)
  BY <1>1, <1>2, MoveHead
<1>5. r = <<>> => Line(l, s, Append(q, Head(d)), r, Tail(d), n)
  BY <1>1, <1>2, MoveHead, NothingFacts
<1>6. QED BY <1>3, <1>4, <1>5

\* A new iteration, in which a trap may arrive.
LEMMA LineIterate ==
  ASSUME NEW l, NEW s, NEW q, NEW r, NEW n, Line(l, s, q, r, <<>>, n),
         NEW t \in Traps
  PROVE  /\ Line(l, s, q, <<>>, r, n)
         /\ Line(l, s, q, <<>>, Append(r, [trap |-> t, time |-> n + 1]), n + 1)
<1> USE DEF Line
<1>1. Line(l, s, q, <<>>, r, n)
  BY NothingFacts
<1> DEFINE a == Append(r, [trap |-> t, time |-> n + 1])
<1>2. /\ Ascending(a) /\ Until(a, n + 1)
      /\ Precede(l, a) /\ Precede(s, a) /\ Precede(q, a)
  BY AddLast
<1>3. a \in Seq(Item) /\ n + 1 \in Nat
  BY DEF Item
<1>4. \A u \in Seq(Item) : Until(u, n) => Until(u, n + 1)
  <2> SUFFICES ASSUME NEW u \in Seq(Item), Until(u, n), NEW i \in DOMAIN u
               PROVE  u[i].time <= n + 1
    BY DEF Until
  <2>1. u[i] \in Item
    OBVIOUS
  <2>2. QED BY <2>1 DEF Until, Item
<1> HIDE DEF a
<1>5. Line(l, s, q, <<>>, a, n + 1)
  BY <1>2, <1>3, <1>4, NothingFacts
<1>6. QED BY <1>1, <1>5 DEF a

\* A worker takes a trap, and stores it or gives it up.
LEMMA LineTake ==
  ASSUME NEW l, NEW q, NEW r, NEW d, NEW n, Line(l, <<>>, q, r, d, n), q # <<>>
  PROVE  /\ Line(l, <<Head(q)>>, Tail(q), r, d, n)
         /\ Line(l, <<>>, Tail(q), r, d, n)
<1> USE DEF Line
<1>1. Head(q) \in Item /\ Tail(q) \in Seq(Item) /\ <<Head(q)>> \in Seq(Item)
  BY TailFacts
<1>2. Ascending(<<Head(q)>>)
  BY DEF Ascending
<1>3. QED BY <1>1, <1>2, DropHead, NothingFacts

LEMMA LineStore ==
  ASSUME NEW l, NEW i, NEW q, NEW r, NEW d, NEW n, Line(l, <<i>>, q, r, d, n)
  PROVE  Line(Append(l, i), <<>>, q, r, d, n)
<1> USE DEF Line
<1>1. <<i>> # <<>> /\ Head(<<i>>) = i /\ i \in Item
  <2>1. <<i>>[1] \in Item
    OBVIOUS
  <2>2. QED BY <2>1
<1>2. Append(l, i) \in Seq(Item)
  BY <1>1
<1>3. QED BY <1>1, <1>2, MoveHead, NothingFacts
-----------------------------------------------------------------------------
LEMMA StageType == \A h \in Handle : Stage(h) \in 1 .. 3
BY DEF Stage

\* A handle is scheduled as the next stage, or dropped; with a put at the
\* head, nothing is ready.
LEMMA StagesTurn ==
  ASSUME NEW r, NEW d, Stages(r, d), d # <<>>
  PROVE  /\ Stages(r, Tail(d))
         /\ \A h \in Handle : Stage(h) = Stage(Head(d)) + 1
                             => Stages(Append(r, h), Tail(d))
         /\ Head(d).do = "put" => r = <<>>
<1>1. /\ r \in Seq(Handle) /\ d \in Seq(Handle)
      /\ \A i, j \in DOMAIN d : i < j => Stage(d[i]) > Stage(d[j])
      /\ \A i, j \in DOMAIN r : i < j => Stage(r[i]) > Stage(r[j])
      /\ \A i \in DOMAIN r : /\ Stage(r[i]) > 1
                             /\ \A j \in DOMAIN d : Stage(r[i]) > Stage(d[j]) + 1
  BY DEF Stages
<1> DEFINE b == Tail(d)
<1>2. /\ Len(d) \in Nat /\ Len(d) > 0 /\ DOMAIN d = 1 .. Len(d)
      /\ 1 \in DOMAIN d /\ Head(d) = d[1]
      /\ b \in Seq(Handle) /\ DOMAIN b = 1 .. Len(d) - 1
      /\ \A i \in DOMAIN b : i + 1 \in DOMAIN d /\ b[i] = d[i + 1]
  BY <1>1, TailFacts
<1>3. /\ \A i \in DOMAIN d : Stage(d[i]) \in 1 .. 3
      /\ \A i \in DOMAIN r : Stage(r[i]) \in 1 .. 3
  <2>1. /\ \A i \in DOMAIN d : d[i] \in Handle
        /\ \A i \in DOMAIN r : r[i] \in Handle
    BY <1>1
  <2>2. QED BY <2>1, StageType
<1> HIDE DEF b
<1>4. \A i, j \in DOMAIN b : i < j => Stage(b[i]) > Stage(b[j])
  <2> SUFFICES ASSUME NEW i \in DOMAIN b, NEW j \in DOMAIN b, i < j
               PROVE  Stage(b[i]) > Stage(b[j])
    OBVIOUS
  <2>1. i + 1 \in DOMAIN d /\ j + 1 \in DOMAIN d /\ i + 1 < j + 1
    BY <1>2
  <2>2. QED BY <1>1, <1>2, <2>1
<1>5. \A j \in DOMAIN b : Stage(Head(d)) > Stage(b[j])
  <2> SUFFICES ASSUME NEW j \in DOMAIN b PROVE Stage(Head(d)) > Stage(b[j])
    OBVIOUS
  <2>1. j + 1 \in DOMAIN d /\ 1 < j + 1
    BY <1>2
  <2>2. QED BY <1>1, <1>2, <2>1
<1>6. Stages(r, b)
  BY <1>1, <1>2, <1>4 DEF Stages
<1>7. ASSUME NEW h \in Handle, Stage(h) = Stage(Head(d)) + 1
      PROVE  Stages(Append(r, h), b)
  <2> DEFINE a == Append(r, h)
  <2>1. /\ a \in Seq(Handle) /\ Len(r) \in Nat /\ DOMAIN r = 1 .. Len(r)
        /\ DOMAIN a = 1 .. Len(r) + 1 /\ a[Len(r) + 1] = h
        /\ \A i \in DOMAIN r : a[i] = r[i]
    BY <1>1, AppendedRow
  <2> HIDE DEF a
  <2>2. \A i \in DOMAIN a : i \in DOMAIN r \/ i = Len(r) + 1
    BY <2>1
  <2>3. \A i \in DOMAIN r : Stage(r[i]) > Stage(h)
    BY <1>1, <1>2, <1>3, <1>7
  <2>4. \A i, j \in DOMAIN a : i < j => Stage(a[i]) > Stage(a[j])
    <3> SUFFICES ASSUME NEW i \in DOMAIN a, NEW j \in DOMAIN a, i < j
                 PROVE  Stage(a[i]) > Stage(a[j])
      OBVIOUS
    <3>1. i \in DOMAIN r
      BY <2>1
    <3>2. QED BY <1>1, <2>1, <2>2, <2>3, <3>1
  <2>5. \A i \in DOMAIN a, j \in DOMAIN b : Stage(a[i]) > Stage(b[j]) + 1
    <3> SUFFICES ASSUME NEW i \in DOMAIN a, NEW j \in DOMAIN b
                 PROVE  Stage(a[i]) > Stage(b[j]) + 1
      OBVIOUS
    <3>1. CASE i \in DOMAIN r
      BY <1>6, <2>1, <3>1 DEF Stages
    <3>2. CASE i = Len(r) + 1
      <4>1. /\ Stage(b[j]) \in 1 .. 3 /\ Stage(Head(d)) \in 1 .. 3
        BY <1>2, <1>3
      <4>2. QED BY <1>5, <1>7, <2>1, <3>2, <4>1
    <3>3. QED BY <2>2, <3>1, <3>2
  <2>6. \A i \in DOMAIN a : Stage(a[i]) > 1
    <3>1. Stage(h) > 1
      BY <1>2, <1>3, <1>7
    <3>2. QED BY <1>1, <2>1, <2>2, <3>1
  <2>7. QED BY <1>2, <1>4, <2>1, <2>4, <2>5, <2>6 DEF Stages, a
<1>8. ASSUME Head(d).do = "put" PROVE r = <<>>
  <2>1. Stage(d[1]) = 3
    BY <1>2, <1>8 DEF Stage
  <2>2. DOMAIN r = {}
    BY <1>1, <1>2, <1>3, <2>1
  <2>3. QED BY <1>1, <2>2
<1>9. QED BY <1>6, <1>7, <1>8 DEF b

LEMMA StagesIterate ==
  ASSUME NEW r, Stages(r, <<>>), NEW h \in Handle, h.do = "read"
  PROVE  Stages(<<>>, r) /\ Stages(<<>>, Append(r, h))
<1>1. /\ r \in Seq(Handle) /\ <<>> \in Seq(Handle)
      /\ \A i, j \in DOMAIN r : i < j => Stage(r[i]) > Stage(r[j])
      /\ \A i \in DOMAIN r : Stage(r[i]) > 1
  BY DEF Stages
<1>2. \A i \in DOMAIN r : Stage(r[i]) > Stage(h)
  <2>1. \A i \in DOMAIN r : r[i] \in Handle
    BY <1>1
  <2>2. Stage(h) = 1
    BY DEF Stage
  <2>3. QED BY <1>1, <2>1, <2>2, StageType
<1> DEFINE a == Append(r, h)
<1>3. /\ a \in Seq(Handle) /\ Len(r) \in Nat /\ DOMAIN r = 1 .. Len(r)
      /\ DOMAIN a = 1 .. Len(r) + 1 /\ a[Len(r) + 1] = h
      /\ \A i \in DOMAIN r : a[i] = r[i]
  BY <1>1, AppendedRow
<1> HIDE DEF a
<1>4. \A i, j \in DOMAIN a : i < j => Stage(a[i]) > Stage(a[j])
  <2> SUFFICES ASSUME NEW i \in DOMAIN a, NEW j \in DOMAIN a, i < j
               PROVE  Stage(a[i]) > Stage(a[j])
    OBVIOUS
  <2>1. i \in DOMAIN r /\ (j \in DOMAIN r \/ j = Len(r) + 1)
    BY <1>3
  <2>2. QED BY <1>1, <1>2, <1>3, <2>1
<1>5. Stages(<<>>, a)
  BY <1>1, <1>3, <1>4 DEF Stages
<1>6. QED BY <1>1, <1>5 DEF Stages, a

-----------------------------------------------------------------------------
LEMMA ItemsNothing == Items(<<>>) = <<>>
<1>1. DOMAIN <<>> = 1 .. 0 /\ \A i \in 1 .. 0 : FALSE
  OBVIOUS
<1>2. Items(<<>>) = [i \in 1 .. 0 |-> <<>>[i].item]
  BY <1>1 DEF Items
<1> DEFINE f == [i \in 1 .. 0 |-> <<>>[i].item]
<1>3. f \in [1 .. 0 -> {}]
  BY <1>1
<1>4. f \in Seq({}) /\ DOMAIN f = 1 .. 0
  BY <1>3, FunctionIsSeq
<1> HIDE DEF f
<1>5. f = <<>>
  BY <1>1, <1>4
<1>6. QED BY <1>2, <1>5 DEF f

\* A step that keeps the jobs.
LEMMA LineKept ==
  ASSUME OrderInv, work' = work,
         \A s : LineOf(s) => Line(Items(log'), s, queue', Items(ready'),
                                  Items(todo'), arrivals')
  PROVE  LineInv'
BY DEF OrderInv, LineInv, LineOf

LEMMA HandlesType ==
  ASSUME TypeInv
  PROVE  /\ todo \in Seq(Handle) /\ ready \in Seq(Handle)
         /\ queue \in Seq(Item) /\ arrivals \in Nat
BY TrapAssumption DEF TypeInv, TypeOK

LEMMA InitOrder == TrapInit => OrderInv
<1> SUFFICES ASSUME TrapInit PROVE OrderInv
  OBVIOUS
<1>1. Stages(ready, todo)
  BY DEF TrapInit, Stages
<1>2. /\ Items(log) = <<>> /\ Items(ready) = <<>> /\ Items(todo) = <<>>
      /\ queue = <<>> /\ arrivals = 0
  BY ItemsNothing DEF TrapInit
<1>3. \A w \in Workers : Unstored(work[w]) = <<>>
  BY DEF TrapInit, Unstored, NoJob
<1>4. LineOf(<<>>)
  BY <1>2, NothingFacts DEF LineOf, Line
<1>5. QED BY <1>1, <1>3, <1>4 DEF OrderInv, LineInv

\* A process ends, and another starts, with nothing on its way.
LEMMA ProcessOrder ==
  ASSUME Invs, OrderInv, Start \/ End
  PROVE  OrderInv'
<1>1. CASE Start
  <2>1. UNCHANGED <<todo, ready, queue, work, log, arrivals>>
    BY <1>1 DEF Start, loop, tables
  <2>2. QED BY <2>1 DEF OrderInv, LineInv, LineOf
<1>2. CASE End
  <2>1. /\ todo' = <<>> /\ ready' = <<>> /\ queue' = <<>>
        /\ log' = log /\ arrivals' = arrivals
        /\ \A w \in Workers : Unstored(work'[w]) = <<>>
    BY <1>2 DEF End, tables, world, Unstored, NoJob
  <2>2. Line(Items(log), <<>>, <<>>, <<>>, <<>>, arrivals)
    BY NothingFacts DEF OrderInv, LineInv, LineOf, Line
  <2>3. LineOf(<<>>)'
    BY <2>1, <2>2, ItemsNothing DEF LineOf
  <2>4. LineInv'
    BY <2>1, <2>3 DEF LineInv, LineOf
  <2>5. Stages(ready, todo)'
    BY <2>1 DEF Stages
  <2>6. QED BY <2>4, <2>5 DEF OrderInv
<1>3. QED BY <1>1, <1>2

LEMMA IterateOrder ==
  ASSUME Invs, OrderInv, Iterate
  PROVE  OrderInv'
<1>1. /\ todo = <<>> /\ ready' = <<>>
      /\ UNCHANGED <<queue, work, log>>
  BY DEF Iterate, tables
<1>2. todo \in Seq(Handle) /\ ready \in Seq(Handle)
  BY HandlesType DEF Invs
<1> DEFINE Step(s) == Line(Items(log), s, queue, Items(ready), <<>>, arrivals)
<1>3. \A s : LineOf(s) => Step(s)
  BY <1>1, ItemsNothing DEF LineOf
<1>4. CASE todo' = ready /\ arrivals' = arrivals
  <2>1. \A s : Step(s) => LineOf(s)'
    <3> SUFFICES ASSUME NEW s, Step(s)
                 PROVE  Line(Items(log), s, queue, <<>>, Items(ready), arrivals)
      BY <1>1, <1>4, ItemsNothing DEF LineOf
    <3>1. QED BY NothingFacts DEF Line
  <2>2. Stages(<<>>, ready)
    BY <1>1, <1>2 DEF OrderInv, Stages
  <2>3. LineInv'
    BY <1>1, <1>3, <2>1, LineKept DEF LineOf
  <2>4. QED BY <1>1, <1>4, <2>2, <2>3 DEF OrderInv
<1>5. ASSUME NEW t \in Traps, arrivals' = arrivals + 1,
             todo' = Append(ready, [do |-> "read",
                       item |-> [trap |-> t, time |-> arrivals + 1]])
      PROVE  OrderInv'
  <2> DEFINE x == [trap |-> t, time |-> arrivals + 1]
             h == [do |-> "read", item |-> x]
  <2>1. arrivals \in Nat
    BY HandlesType DEF Invs
  <2>2. h \in Handle /\ h.do = "read" /\ h.item = x
    BY <2>1 DEF Handle, Item
  <2>3. todo' = Append(ready, h)
    BY <1>5
  <2>4. Items(todo') = Append(Items(ready), x)
    BY <1>2, <2>2, <2>3, ItemsFacts
  <2>5. \A s : Step(s) => LineOf(s)'
    <3> SUFFICES ASSUME NEW s, Step(s)
                 PROVE  Line(Items(log), s, queue, <<>>,
                             Append(Items(ready), x), arrivals + 1)
      BY <1>1, <1>5, <2>4, ItemsNothing DEF LineOf
    <3>1. QED BY LineIterate
  <2> HIDE DEF h
  <2>6. Stages(<<>>, todo')
    BY <1>1, <2>2, <2>3, StagesIterate DEF OrderInv
  <2>7. LineInv'
    BY <1>1, <1>3, <2>5, LineKept DEF LineOf
  <2>8. QED BY <1>1, <2>6, <2>7 DEF OrderInv
<1>6. QED BY <1>4, <1>5 DEF Iterate

\* What is at the head goes to the next stage, or is dropped.
LEMMA TurnOrder ==
  ASSUME Invs, OrderInv,
         Read \/ Callback \/ Put \/ CallbackFails
  PROVE  OrderInv'
<1>1. /\ todo # <<>> /\ todo' = Tail(todo)
      /\ UNCHANGED <<work, log, arrivals>>
  BY DEF Read, Callback, Put, CallbackFails, Turn, tables, world
<1>2. /\ todo \in Seq(Handle) /\ ready \in Seq(Handle) /\ Head(todo) \in Handle
      /\ Stages(ready, todo)
  BY <1>1, HandlesType, TailFacts DEF Invs, OrderInv
<1> DEFINE i == Head(todo).item
<1>3. /\ Items(todo) # <<>> /\ Head(Items(todo)) = i
      /\ Items(todo') = Tail(Items(todo))
  BY <1>1, <1>2, ItemsFacts
<1>4. SUFFICES /\ Stages(ready', todo')
               /\ \A s : LineOf(s) => LineOf(s)'
  <2>1. LineInv'
    BY <1>1, <1>4, LineKept DEF LineOf
  <2>2. QED BY <1>4, <2>1 DEF OrderInv
<1>6. CASE ready' = ready /\ queue' = queue
  BY <1>1, <1>2, <1>3, <1>6, StagesTurn, LineTurn DEF LineOf
<1>7. ASSUME NEW do \in {"callback", "put"}, Schedule(do), queue' = queue,
             Head(todo).do = IF do = "callback" THEN "read" ELSE "callback"
      PROVE  /\ Stages(ready', todo')
             /\ \A s : LineOf(s) => LineOf(s)'
  <2> DEFINE h == [do |-> do, item |-> i]
  <2>1. h \in Handle /\ h.item = i /\ Stage(h) = Stage(Head(todo)) + 1
    BY <1>2, <1>7 DEF Handle, Stage
  <2>2. ready' = Append(ready, h)
    BY <1>7 DEF Schedule
  <2>3. Items(ready') = Append(Items(ready), i)
    BY <1>2, <2>1, <2>2, ItemsFacts
  <2> HIDE DEF h
  <2>4. Stages(ready', todo')
    BY <1>1, <1>2, <2>1, <2>2, StagesTurn
  <2>5. \A s : LineOf(s) => LineOf(s)'
    BY <1>1, <1>3, <1>7, <2>3, LineTurn DEF LineOf
  <2>6. QED BY <2>4, <2>5
<1>8. CASE Head(todo).do = "put" /\ ready' = ready /\ queue' = Append(queue, i)
  <2>1. ready = <<>> /\ Items(ready) = <<>>
    BY <1>1, <1>2, <1>8, StagesTurn, ItemsNothing
  <2>2. Stages(ready', todo')
    BY <1>1, <1>2, <1>8, StagesTurn
  <2>3. \A s : LineOf(s) => LineOf(s)'
    BY <1>1, <1>3, <1>8, <2>1, LineTurn DEF LineOf
  <2>4. QED BY <2>2, <2>3
<1>9. QED
  <2>1. CASE Read
    BY <1>7, <2>1 DEF Read, Turn
  <2>2. CASE Callback
    BY <1>6, <1>7, <2>2 DEF Callback, Turn
  <2>3. CASE Put
    BY <1>6, <1>8, <2>3 DEF Put, Turn
  <2>4. CASE CallbackFails
    BY <1>6, <2>4 DEF CallbackFails, Turn
  <2>5. QED BY <2>1, <2>2, <2>3, <2>4
-----------------------------------------------------------------------------
\* A step of a worker: the others have nothing unstored.
LEMMA WorkerLine ==
  ASSUME TypeInv, OrderInv, NEW w \in Workers, Free(w), NEW job, Become(w, job),
         UNCHANGED <<todo, ready, arrivals>>,
         Line(Items(log'), <<>>, queue', Items(ready), Items(todo), arrivals),
         Line(Items(log'), Unstored(job), queue', Items(ready), Items(todo),
              arrivals)
  PROVE  OrderInv'
<1>1. /\ work'[w] = job
      /\ \A v \in Workers : v # w => work'[v].at = "idle"
  BY Becoming
<1>2. \A v \in Workers : Unstored(work'[v]) \in {<<>>, Unstored(job)}
  BY <1>1 DEF Unstored
<1>3. LineInv'
  BY <1>2 DEF LineInv, LineOf
<1>4. QED BY <1>3 DEF OrderInv

LEMMA WorkerOrder ==
  ASSUME TypeInv, OrderInv, NEW w \in Workers,
         WorkerStep(w) \/ StatementFails(w) \/ HandlerFails(w)
  PROVE  OrderInv'
<1> DEFINE Now(l, s, q) == Line(l, s, q, Items(ready), Items(todo), arrivals)
<1>1. Free(w) /\ UNCHANGED <<todo, ready, arrivals>>
  BY DEF WorkerStep, Take, StoreLog, CheckAlarm, StoreEvent, UpdateLog, At,
         StatementFails, HandlerFails, loop, world
<1>2. Now(Items(log), <<>>, queue) /\ Now(Items(log), Unstored(work[w]), queue)
  BY DEF OrderInv, LineInv, LineOf
<1>3. CASE Take(w)
  <2> DEFINE job == [at |-> "log", item |-> Head(queue), log |-> 0,
                     event |-> 0, cleared |-> 0]
  <2>1. /\ queue # <<>> /\ queue' = Tail(queue) /\ log' = log
        /\ Become(w, job)
    BY <1>3 DEF Take, tables
  <2>2. Unstored(job) = <<Head(queue)>>
    BY DEF Unstored
  <2> HIDE DEF job
  <2>3. /\ Now(Items(log'), <<>>, queue')
        /\ Now(Items(log'), Unstored(job), queue')
    BY <1>2, <2>1, <2>2, LineTake
  <2>4. QED BY <1>1, <2>1, <2>3, WorkerLine
<1>4. CASE StoreLog(w)
  <2> DEFINE job == [work[w] EXCEPT !.at = "check", !.log = Len(log')]
             new == [item |-> work[w].item, process |-> starts, event |-> 0]
  <2>1. /\ queue' = queue /\ log' = Append(log, new) /\ Become(w, job)
        /\ work[w].at = "log"
    BY <1>4 DEF StoreLog, At, loop
  <2>2. work[w] \in Job /\ work[w].item \in Item
    BY <2>1, BusyJob DEF Idle
  <2>3. Unstored(job) = <<>> /\ Unstored(work[w]) = <<work[w].item>>
    BY <2>1, <2>2 DEF Unstored, Job
  <2>4. new.item = work[w].item
    OBVIOUS
  <2> HIDE DEF job, new
  <2>5. Items(log') = Append(Items(log), work[w].item)
    <3>1. /\ Len(log) \in Nat /\ DOMAIN log = 1 .. Len(log)
          /\ DOMAIN log' = 1 .. Len(log) + 1 /\ log'[Len(log) + 1] = new
          /\ \A k \in DOMAIN log : log'[k] = log[k]
      BY <2>1, LogType, AppendedRow
    <3>2. Items(log') = [k \in 1 .. Len(log) + 1 |-> log'[k].item]
      BY <3>1 DEF Items
    <3>3. /\ DOMAIN Items(log) = 1 .. Len(log) /\ Items(log) \in Seq(Item)
          /\ \A k \in 1 .. Len(log) : Items(log)[k] = log[k].item
      BY <1>2, <3>1 DEF Items, Line
    <3>4. Len(Items(log)) = Len(log)
      BY <3>1, <3>3
    <3> DEFINE a == Append(Items(log), work[w].item)
    <3>5. /\ a \in Seq(Item) /\ DOMAIN a = 1 .. Len(log) + 1
          /\ a[Len(log) + 1] = work[w].item
          /\ \A k \in 1 .. Len(log) : a[k] = log[k].item
      BY <2>2, <3>3, <3>4, AppendedRow
    <3>6. a = [k \in 1 .. Len(log) + 1 |-> a[k]]
      BY <3>5
    <3> HIDE DEF a
    <3>7. \A k \in 1 .. Len(log) + 1 : a[k] = log'[k].item
      BY <2>4, <3>1, <3>5
    <3>8. QED BY <3>2, <3>6, <3>7 DEF a
  <2>6. Now(Items(log'), <<>>, queue')
    BY <1>2, <2>1, <2>3, <2>5, LineStore
  <2>7. QED BY <1>1, <2>1, <2>3, <2>6, WorkerLine
<1>5. CASE CheckAlarm(w) \/ StoreEvent(w) \/ UpdateLog(w) \/ StatementFails(w)
             \/ HandlerFails(w)
  <2>1. queue' = queue /\ ~ Idle(w)
    BY <1>5 DEF CheckAlarm, StoreEvent, UpdateLog, StatementFails, HandlerFails,
                At, Idle, loop
  <2>2. work[w] \in Job
    BY <2>1, BusyJob
  <2>3. Items(log') = Items(log)
    <3>1. CASE UpdateLog(w)
      <4>1. \A k \in DOMAIN log : log[k] \in LogRow
        BY LogType
      <4>2. /\ DOMAIN log' = DOMAIN log
            /\ \A k \in DOMAIN log : log'[k].item = log[k].item
        BY <3>1, <4>1 DEF UpdateLog, LogRow
      <4>3. QED BY <4>2 DEF Items
    <3>2. CASE ~ UpdateLog(w)
      BY <1>5, <3>2 DEF CheckAlarm, StoreEvent, StatementFails, HandlerFails,
                        tables
    <3>3. QED BY <3>1, <3>2
  <2>4. PICK job : Become(w, job) /\ Unstored(job) = <<>>
    <3>1. \A stage \in {"check", "insert", "update"} :
            /\ Unstored([work[w] EXCEPT !.at = stage]) = <<>>
            /\ \A k : /\ Unstored([work[w] EXCEPT !.at = stage, !.cleared = k]) = <<>>
                      /\ Unstored([work[w] EXCEPT !.at = stage, !.event = k]) = <<>>
      BY <2>2 DEF Unstored, Job
    <3>2. Unstored(NoJob) = <<>>
      BY DEF Unstored, NoJob
    <3>3. CASE CheckAlarm(w)
      BY <3>1, <3>3 DEF CheckAlarm
    <3>4. CASE StoreEvent(w)
      BY <3>1, <3>4 DEF StoreEvent
    <3>5. CASE UpdateLog(w) \/ StatementFails(w) \/ HandlerFails(w)
      BY <3>1, <3>2, <3>5 DEF UpdateLog, StatementFails, HandlerFails
    <3>6. QED BY <1>5, <3>3, <3>4, <3>5
  <2>5. QED BY <1>1, <1>2, <2>1, <2>3, <2>4, WorkerLine
<1>6. QED BY <1>3, <1>4, <1>5 DEF WorkerStep

LEMMA NextOrder == Invs /\ OrderInv /\ [TrapNext]_trapVars => OrderInv'
<1> SUFFICES ASSUME Invs, OrderInv, [TrapNext]_trapVars PROVE OrderInv'
  OBVIOUS
<1>1. CASE UpdateStatus \/ UNCHANGED trapVars
  <2>1. UNCHANGED <<todo, ready, queue, work, log, arrivals>>
    BY <1>1 DEF UpdateStatus, trapVars, loop, tables, world
  <2>2. QED BY <2>1 DEF OrderInv, LineInv, LineOf
<1>2. CASE Start \/ End \/ LoopStep \/ CallbackFails
  BY <1>2, ProcessOrder, IterateOrder, TurnOrder DEF LoopStep
<1>3. CASE \E w \in Workers : WorkerStep(w) \/ StatementFails(w) \/ HandlerFails(w)
  BY <1>3, WorkerOrder DEF Invs
<1>4. QED BY <1>1, <1>2, <1>3 DEF TrapNext

LEMMA Order == TrapSpec => []OrderInv
BY Basics, InitOrder, NextOrder, PTL DEF TrapSpec
-----------------------------------------------------------------------------
LEMMA InitEvents == TrapInit => EventInv
BY DEF TrapInit, EventInv, NoJob

\* The tables stay, and no job is new but one that has stored nothing.
LEMMA QuietEvents ==
  ASSUME EventInv, UNCHANGED <<log, events>>,
         \A w \in Workers :
           \/ work'[w] = work[w] \/ work'[w].at \in {"idle", "update"}
           \/ work'[w].at \in {"log", "check"} /\ work'[w].log = 0
           \/ /\ work'[w].at = "insert" /\ work[w].at = "check"
              /\ work'[w].log = work[w].log
  PROVE  EventInv'
BY DEF EventInv

LEMMA WorkerEvents ==
  ASSUME Invs, RefInv, EventInv, NEW w \in Workers,
         WorkerStep(w) \/ StatementFails(w) \/ HandlerFails(w)
  PROVE  EventInv'
<1>1. Free(w)
  BY DEF WorkerStep, Take, StoreLog, CheckAlarm, StoreEvent, UpdateLog, At,
         StatementFails, HandlerFails
<1>2. \A job : Become(w, job) => /\ work'[w] = job
                               /\ \A v \in Workers : v # w => work'[v].at = "idle"
  BY <1>1, Becoming DEF Invs
<1>3. \A k \in DOMAIN events : events[k] \in EventRow
  BY EventsType DEF Invs
<1>4. CASE Take(w)
  <2>1. UNCHANGED <<log, events>>
    BY <1>4 DEF Take, tables
  <2>2. work'[w].at = "log" /\ work'[w].log = 0
    BY <1>2, <1>4 DEF Take
  <2>3. \A v \in Workers : v # w => work'[v].at = "idle"
    BY <1>2, <1>4 DEF Take
  <2>4. QED BY <2>1, <2>2, <2>3, QuietEvents
<1>5. CASE StoreLog(w)
  <2> DEFINE job == [work[w] EXCEPT !.at = "check", !.log = Len(log')]
  <2>1. work[w] \in Job
    BY <1>5, BusyJob DEF StoreLog, At, Idle, Invs
  <2>2. /\ events' = events /\ Become(w, job)
        /\ log' = Append(log, [item |-> work[w].item, process |-> starts,
                               event |-> 0])
    BY <1>5 DEF StoreLog
  <2>3. job.log = Len(log') /\ job.at = "check"
    BY <2>1 DEF Job
  <2> HIDE DEF job
  <2>4. /\ Len(log) \in Nat /\ DOMAIN log = 1 .. Len(log)
        /\ Len(log') = Len(log) + 1
    BY <2>2, LogType, AppendedRow DEF Invs
  <2>5. \A k \in DOMAIN events : events[k].log < job.log
    <3>1. \A k \in DOMAIN events : /\ events[k].log \in Nat
                                   /\ events[k].log # 0
                                        => events[k].log \in DOMAIN log
      BY <1>3 DEF EventRow, RefInv, ReferencesSound
    <3>2. QED BY <2>3, <2>4, <3>1
  <2>6. /\ work'[w] = job
        /\ \A v \in Workers : v # w => work'[v].at = "idle"
    BY <1>2, <2>2
  <2>7. QED BY <2>2, <2>3, <2>5, <2>6 DEF EventInv
<1>6. CASE CheckAlarm(w)
  <2>1. work[w] \in Job /\ work[w].at = "check" /\ UNCHANGED <<log, events>>
    BY <1>6, BusyJob DEF CheckAlarm, At, Idle, Invs, tables
  <2>2. PICK job : /\ Become(w, job)
                   /\ \/ job.at = "update"
                      \/ job.at = "insert" /\ job.log = work[w].log
    <3>1. /\ [work[w] EXCEPT !.at = "insert"].at = "insert"
          /\ [work[w] EXCEPT !.at = "insert"].log = work[w].log
          /\ \A k : /\ [work[w] EXCEPT !.at = "insert", !.cleared = k].at = "insert"
                    /\ [work[w] EXCEPT !.at = "insert", !.cleared = k].log
                         = work[w].log
                    /\ [work[w] EXCEPT !.at = "update", !.event = k].at = "update"
      BY <2>1 DEF Job
    <3>2. QED BY <1>6, <3>1 DEF CheckAlarm
  <2>3. /\ work'[w] = job
        /\ \A v \in Workers : v # w => work'[v].at = "idle"
    BY <1>2, <2>2
  <2>4. QED BY <2>1, <2>2, <2>3, QuietEvents
<1>7. CASE StoreEvent(w)
  <2> DEFINE new == [source |-> work[w].item.trap.source, alarm |-> Alarm(w),
                     clear |-> Clearing(w), cleared |-> work[w].cleared,
                     log |-> work[w].log]
             job == [work[w] EXCEPT !.at = "update", !.event = Len(events')]
  <2>1. work[w] \in Job /\ work[w].at = "insert"
    BY <1>7, BusyJob DEF StoreEvent, At, Idle, Invs
  <2>2. events' = Append(events, new) /\ log' = log /\ Become(w, job)
    BY <1>7 DEF StoreEvent
  <2>3. job.at = "update" /\ new.log = work[w].log
    BY <2>1 DEF Job
  <2> HIDE DEF new, job
  <2>4. /\ Len(events) \in Nat /\ DOMAIN events = 1 .. Len(events)
        /\ DOMAIN events' = 1 .. Len(events) + 1
        /\ events'[Len(events) + 1] = new
        /\ \A k \in DOMAIN events : events'[k] = events[k]
    BY <2>2, EventsType, AppendedRow DEF Invs
  <2>5. ASSUME NEW j \in DOMAIN events', NEW k \in DOMAIN events', j < k,
               events'[j].log # 0, events'[k].log # 0
        PROVE  events'[j].log < events'[k].log
    <3>1. j \in DOMAIN events
      BY <2>4, <2>5
    <3>2. CASE k \in DOMAIN events
      BY <2>4, <2>5, <3>1, <3>2 DEF EventInv
    <3>3. CASE k = Len(events) + 1
      BY <2>1, <2>3, <2>4, <2>5, <3>1, <3>3 DEF EventInv
    <3>4. QED BY <2>4, <3>2, <3>3
  <2>6. \A v \in Workers : work'[v].at \in {"idle", "update"}
    BY <1>2, <2>2, <2>3
  <2>7. QED BY <2>5, <2>6 DEF EventInv
<1>8. CASE UpdateLog(w)
  <2>1. events' = events /\ \A v \in Workers : work'[v].at = "idle"
    BY <1>2, <1>8 DEF UpdateLog, NoJob
  <2>2. QED BY <2>1 DEF EventInv
<1>9. CASE StatementFails(w) \/ HandlerFails(w)
  <2>1. UNCHANGED <<log, events>> /\ ~ Idle(w)
    BY <1>9 DEF StatementFails, HandlerFails, tables, At, Idle
  <2>2. work[w] \in Job
    BY <2>1, BusyJob DEF Invs
  <2>3. PICK job : /\ Become(w, job)
                   /\ job.at = "idle" \/ (job.at = "check" /\ job.log = 0)
    <3>1. work[w].at = "log" =>
            /\ [work[w] EXCEPT !.at = "check"].at = "check"
            /\ [work[w] EXCEPT !.at = "check"].log = 0
      BY <2>2 DEF Job, EventInv
    <3>2. NoJob.at = "idle"
      BY DEF NoJob
    <3>3. QED BY <1>9, <3>1, <3>2 DEF StatementFails, HandlerFails, At
  <2>4. /\ work'[w] = job
        /\ \A v \in Workers : v # w => work'[v].at = "idle"
    BY <1>2, <2>3
  <2>5. QED BY <2>1, <2>3, <2>4, QuietEvents
<1>10. QED BY <1>4, <1>5, <1>6, <1>7, <1>8, <1>9 DEF WorkerStep

LEMMA NextEvents ==
  Invs /\ RefInv /\ EventInv /\ [TrapNext]_trapVars => EventInv'
<1> SUFFICES ASSUME Invs, RefInv, EventInv, [TrapNext]_trapVars PROVE EventInv'
  OBVIOUS
<1>1. CASE Start \/ LoopStep \/ CallbackFails \/ UpdateStatus
           \/ UNCHANGED trapVars
  <2>1. UNCHANGED <<log, events, work>>
    BY <1>1 DEF Start, LoopStep, Iterate, Read, Callback, Put, CallbackFails,
                UpdateStatus, trapVars, tables
  <2>2. QED BY <2>1, QuietEvents
<1>2. CASE End
  <2>1. UNCHANGED <<log, events>> /\ \A w \in Workers : work'[w].at = "idle"
    BY <1>2 DEF End, tables, NoJob
  <2>2. QED BY <2>1, QuietEvents
<1>3. CASE \E w \in Workers : WorkerStep(w) \/ StatementFails(w) \/ HandlerFails(w)
  BY <1>3, WorkerEvents
<1>4. QED BY <1>1, <1>2, <1>3 DEF TrapNext

LEMMA Events == TrapSpec => []EventInv
BY Basics, Refs, InitEvents, NextEvents, PTL DEF TrapSpec

\* Whatever the number of workers, the rows of trap_log are in the order in
\* which the traps were received, and the events in that of their traps:
\* _trap_callback, the queue and _worker keep the order.
THEOREM StoredInOrder == TrapSpec => []ReceiptOrder
<1>1. TypeInv /\ OrderInv /\ EventInv => ReceiptOrder
  <2> SUFFICES ASSUME TypeInv, OrderInv, EventInv PROVE ReceiptOrder
    OBVIOUS
  <2>1. Ascending(Items(log)) /\ DOMAIN Items(log) = DOMAIN log
    BY DEF OrderInv, LineInv, LineOf, Line, Items
  <2>2. \A k \in DOMAIN log : Items(log)[k] = log[k].item
    BY DEF Items
  <2>3. QED BY <2>1, <2>2 DEF Ascending, EventInv, ReceiptOrder
<1>2. QED BY <1>1, Basics, Order, Events, PTL DEF Invs
-----------------------------------------------------------------------------
\* The accounts.  One put at most is on its way, at the head of its handles,
\* and there is room for it; one worker at most has a trap.
OnePut(hs) == IF hs # <<>> /\ hs[1].do = "put" THEN 1 ELSE 0
OneBusy    == IF \A w \in Workers : Idle(w) THEN 0 ELSE 1

AccountInv ==
  LET pending == Len(queue) + OnePut(todo) + OnePut(ready) + OneBusy
  IN  /\ counters.processed + pending <= counters.received
      /\ counters.received <= counters.processed + counters.errors + pending
      /\ Len(queue) + OnePut(todo) + OnePut(ready) <= QueueSize

PutInv == AccountInv /\ StatusConsistent

LEMMA PutsCount ==
  ASSUME NEW hs \in Seq(Handle),
         \A i, j \in DOMAIN hs : i < j => Stage(hs[i]) > Stage(hs[j])
  PROVE  Cardinality(Puts(hs)) = OnePut(hs)
<1>1. Len(hs) \in Nat /\ DOMAIN hs = 1 .. Len(hs) /\ (hs = <<>> <=> Len(hs) = 0)
  OBVIOUS
<1>2. \A i \in DOMAIN hs : Stage(hs[i]) \in 1 .. 3
  <2>1. \A i \in DOMAIN hs : hs[i] \in Handle
    OBVIOUS
  <2>2. QED BY <2>1, StageType
<1>3. \A i \in DOMAIN hs : hs[i].do = "put" => Stage(hs[i]) = 3
  BY DEF Stage
<1>4. \A i \in Puts(hs) : i = 1
  BY <1>1, <1>2, <1>3 DEF Puts
<1>5. Puts(hs) = IF OnePut(hs) = 1 THEN {1} ELSE {}
  BY <1>1, <1>4 DEF Puts, OnePut
<1>6. OnePut(hs) \in {0, 1}
  BY DEF OnePut
<1>7. QED BY <1>5, <1>6, FS_EmptySet, FS_Singleton

LEMMA BusyCount ==
  ASSUME AlarmInv
  PROVE  Cardinality(Busy) = OneBusy
<1>1. CASE \A w \in Workers : Idle(w)
  <2>1. Busy = {}
    BY <1>1 DEF Busy
  <2>2. QED BY <1>1, <2>1, FS_EmptySet DEF OneBusy
<1>2. ASSUME NEW w \in Workers, ~ Idle(w) PROVE Cardinality(Busy) = OneBusy
  <2>1. Busy = {w}
    BY <1>2 DEF Busy, AlarmInv
  <2>2. QED BY <1>2, <2>1, FS_Singleton DEF OneBusy
<1>3. QED BY <1>1, <1>2

LEMMA Counted == Invs /\ OrderInv /\ AccountInv => Accounting
<1> SUFFICES ASSUME Invs, OrderInv, AccountInv PROVE Accounting
  OBVIOUS
<1>1. /\ Cardinality(Puts(todo)) = OnePut(todo)
      /\ Cardinality(Puts(ready)) = OnePut(ready)
  BY PutsCount DEF OrderInv, Stages
<1>2. Cardinality(Busy) = OneBusy
  BY BusyCount DEF Invs
<1>3. QED BY <1>1, <1>2 DEF AccountInv, Accounting, Pending

LEMMA Numbers ==
  ASSUME TypeInv
  PROVE  /\ Len(queue) \in Nat /\ QueueSize \in Nat
         /\ counters.received \in Nat /\ counters.processed \in Nat
         /\ counters.errors \in Nat
         /\ \A hs : OnePut(hs) \in {0, 1}
         /\ OneBusy \in {0, 1}
<1>1. queue \in Seq(Item) /\ counters \in Counts
  BY DEF TypeInv, TypeOK
<1>2. QED BY <1>1, TrapAssumption DEF Counts, OnePut, OneBusy

LEMMA InitAccounts == TrapInit => PutInv
<1> SUFFICES ASSUME TrapInit PROVE PutInv
  OBVIOUS
<1>1. /\ OnePut(todo) = 0 /\ OnePut(ready) = 0 /\ OneBusy = 0 /\ Len(queue) = 0
  BY DEF TrapInit, OnePut, OneBusy, Idle, NoJob
<1>2. QED BY <1>1, TrapAssumption DEF TrapInit, NoCounts, PutInv, AccountInv,
                                      StatusConsistent

\* The process: everything starts from zero; the row is reset or not.
LEMMA ProcessAccounts ==
  ASSUME Invs, PutInv, Start \/ End
  PROVE  PutInv'
<1>1. CASE Start
  <2>1. UNCHANGED <<todo, ready, queue, work, counters>>
    BY <1>1 DEF Start, loop
  <2>2. row' = row \/ row'.counts = NoCounts
    <3>1. row \in Status
      BY DEF Invs, TypeInv, TypeOK, Status
    <3>2. QED BY <1>1, <3>1 DEF Start, Status
  <2>3. AccountInv'
    BY <2>1 DEF PutInv, AccountInv, OneBusy, Idle
  <2>4. QED BY <2>2, <2>3 DEF PutInv, StatusConsistent
<1>2. CASE End
  <2>1. /\ todo' = <<>> /\ ready' = <<>> /\ queue' = <<>> /\ Len(queue') = 0
        /\ \A w \in Workers : work'[w].at = "idle"
        /\ counters' = NoCounts
    BY <1>2 DEF End, NoJob
  <2>2. OnePut(todo') = 0 /\ OnePut(ready') = 0 /\ OneBusy' = 0
    BY <2>1 DEF OnePut, OneBusy, Idle
  <2>3. row'.counts = row.counts /\ row'.depth = row.depth
    <3>1. row \in Status
      BY DEF Invs, TypeInv, TypeOK, Status
    <3>2. QED BY <1>2, <3>1 DEF End, Status
  <2>4. AccountInv'
    BY <2>1, <2>2, TrapAssumption DEF AccountInv, NoCounts
  <2>5. QED BY <2>3, <2>4 DEF PutInv, StatusConsistent
<1>3. QED BY <1>1, <1>2

\* After its head, a sequence of handles has no put; a scheduled handle stands
\* first only where nothing is ready.
LEMMA PutsTurn ==
  ASSUME NEW r, NEW d, Stages(r, d), d # <<>>
  PROVE  /\ OnePut(Tail(d)) = 0
         /\ OnePut(d) = IF Head(d).do = "put" THEN 1 ELSE 0
         /\ \A h \in Handle : OnePut(Append(r, h))
              = IF r = <<>> THEN (IF h.do = "put" THEN 1 ELSE 0) ELSE OnePut(r)
         /\ Head(d).do \in {"callback", "put"} => r = <<>>
<1>1. r \in Seq(Handle) /\ d \in Seq(Handle)
  BY DEF Stages
<1> DEFINE b == Tail(d)
<1>2. /\ Len(d) \in Nat /\ Len(d) > 0 /\ DOMAIN d = 1 .. Len(d)
      /\ 1 \in DOMAIN d /\ Head(d) = d[1] /\ b \in Seq(Handle)
      /\ DOMAIN b = 1 .. Len(d) - 1
      /\ \A i \in DOMAIN b : i + 1 \in DOMAIN d /\ b[i] = d[i + 1]
  BY <1>1, TailFacts
<1>3. /\ \A i \in DOMAIN d : Stage(d[i]) \in 1 .. 3
      /\ \A i \in DOMAIN r : Stage(r[i]) \in 1 .. 3
  <2>1. /\ \A i \in DOMAIN d : d[i] \in Handle
        /\ \A i \in DOMAIN r : r[i] \in Handle
    BY <1>1
  <2>2. QED BY <2>1, StageType
<1> HIDE DEF b
<1>4. OnePut(b) = 0
  <2> SUFFICES ASSUME b # <<>>, b[1].do = "put" PROVE FALSE
    BY DEF OnePut
  <2>1. 1 \in DOMAIN b
    BY <1>2
  <2>2. 2 \in DOMAIN d /\ b[1] = d[2]
    BY <1>2, <2>1
  <2>3. Stage(d[2]) = 3
    BY <2>2 DEF Stage
  <2>4. Stage(d[1]) > Stage(d[2])
    BY <1>2, <2>2 DEF Stages
  <2>5. QED BY <1>2, <1>3, <2>3, <2>4
<1>5. OnePut(d) = IF Head(d).do = "put" THEN 1 ELSE 0
  BY <1>2 DEF OnePut
<1>6. ASSUME NEW h \in Handle
      PROVE  OnePut(Append(r, h))
               = IF r = <<>> THEN (IF h.do = "put" THEN 1 ELSE 0) ELSE OnePut(r)
  <2> DEFINE a == Append(r, h)
  <2>1. /\ Len(r) \in Nat /\ DOMAIN r = 1 .. Len(r) /\ a # <<>>
        /\ a[Len(r) + 1] = h /\ \A i \in DOMAIN r : a[i] = r[i]
        /\ (r = <<>> <=> Len(r) = 0)
    BY <1>1, AppendedRow
  <2> HIDE DEF a
  <2>2. r = <<>> => a[1] = h
    BY <2>1
  <2>3. r # <<>> => a[1] = r[1]
    BY <2>1
  <2>4. OnePut(a) = IF r = <<>> THEN (IF h.do = "put" THEN 1 ELSE 0) ELSE OnePut(r)
    BY <2>1, <2>2, <2>3 DEF OnePut
  <2>5. QED BY <2>4 DEF a
<1>7. ASSUME Head(d).do \in {"callback", "put"} PROVE r = <<>>
  <2>1. Stage(d[1]) >= 2
    BY <1>2, <1>7 DEF Stage
  <2>2. \A i \in DOMAIN r : Stage(r[i]) > Stage(d[1]) + 1
    BY <1>2 DEF Stages
  <2>3. ASSUME NEW i \in DOMAIN r PROVE FALSE
    <3>1. Stage(r[i]) \in 1 .. 3 /\ Stage(d[1]) \in 1 .. 3
      BY <1>2, <1>3
    <3>2. QED BY <2>1, <2>2, <3>1
  <2>4. Len(r) \in Nat /\ DOMAIN r = 1 .. Len(r) /\ (Len(r) = 0 => r = <<>>)
    BY <1>1
  <2>5. QED BY <2>3, <2>4
<1>8. QED BY <1>4, <1>5, <1>6, <1>7 DEF b

\* An error is counted, of a trap just received or of one that had been.
LEMMA ErrorKept ==
  ASSUME TypeInv, AccountInv,
         counters'.received \in {counters.received, counters.received + 1},
         counters'.processed = counters.processed,
         counters'.errors = counters.errors + 1,
         queue' = queue, OnePut(todo') = OnePut(todo),
         OnePut(ready') = OnePut(ready), OneBusy' = OneBusy
  PROVE  AccountInv'
<1> DEFINE n == Len(queue) + OnePut(todo) + OnePut(ready)
           p == n + OneBusy
<1>1. /\ p \in Nat /\ counters.received \in Nat /\ counters.processed \in Nat
      /\ counters.errors \in Nat
  BY Numbers
<1>2. /\ counters.processed + p <= counters.received
      /\ counters.received <= counters.processed + counters.errors + p
      /\ n <= QueueSize
  BY DEF AccountInv
<1>3. p' = p /\ n' = n
  OBVIOUS
<1> HIDE DEF n, p
<1>4. /\ counters'.processed + p' <= counters'.received
      /\ counters'.received <= counters'.processed + counters'.errors + p'
      /\ n' <= QueueSize
  BY <1>1, <1>2, <1>3
<1>5. QED BY <1>4 DEF AccountInv, n, p

\* A trap is received, and its put scheduled where there was none.
LEMMA ReceiveKept ==
  ASSUME TypeInv, AccountInv, OneBusy' = OneBusy,
         counters'.received = counters.received + 1,
         counters'.processed = counters.processed,
         counters'.errors = counters.errors,
         queue' = queue, Len(queue) < QueueSize,
         OnePut(todo) = 0, OnePut(todo') = 0, OnePut(ready) = 0, OnePut(ready') = 1
  PROVE  AccountInv'
<1> DEFINE n == Len(queue)
           b == OneBusy
<1>1. /\ n \in Nat /\ b \in Nat /\ QueueSize \in Nat
      /\ counters.received \in Nat /\ counters.processed \in Nat
      /\ counters.errors \in Nat
  BY Numbers
<1>2. /\ counters.processed + (n + 0 + 0 + b) <= counters.received
      /\ counters.received <= counters.processed + counters.errors + (n + 0 + 0 + b)
  BY DEF AccountInv
<1>3. n' = n /\ b' = b /\ n < QueueSize
  OBVIOUS
<1> HIDE DEF n, b
<1>4. /\ counters'.processed + (n' + 0 + 1 + b') <= counters'.received
      /\ counters'.received
           <= counters'.processed + counters'.errors + (n' + 0 + 1 + b')
      /\ n' + 0 + 1 <= QueueSize
  BY <1>1, <1>2, <1>3
<1>5. QED BY <1>4 DEF AccountInv, n, b

\* A worker is done with its trap, or gives it up.
LEMMA DoneKept ==
  ASSUME TypeInv, AccountInv, OneBusy = 1, OneBusy' = 0,
         counters'.received = counters.received,
         \/ /\ counters'.processed = counters.processed + 1
            /\ counters'.errors = counters.errors
         \/ /\ counters'.processed = counters.processed
            /\ counters'.errors = counters.errors + 1,
         UNCHANGED <<queue, todo, ready>>
  PROVE  AccountInv'
<1> DEFINE n == Len(queue) + OnePut(todo) + OnePut(ready)
<1>1. /\ n \in Nat /\ counters.received \in Nat /\ counters.processed \in Nat
      /\ counters.errors \in Nat
  BY Numbers
<1>2. /\ counters.processed + (n + 1) <= counters.received
      /\ counters.received <= counters.processed + counters.errors + (n + 1)
      /\ n <= QueueSize
  BY DEF AccountInv
<1>3. n' = n
  OBVIOUS
<1> HIDE DEF n
<1>4. /\ counters'.processed + (n' + 0) <= counters'.received
      /\ counters'.received <= counters'.processed + counters'.errors + (n' + 0)
      /\ n' <= QueueSize
  BY <1>1, <1>2, <1>3
<1>5. QED BY <1>4 DEF AccountInv, n

LEMMA LoopAccounts ==
  ASSUME Invs, OrderInv, PutInv, LoopStep \/ CallbackFails
  PROVE  PutInv'
<1>1. UNCHANGED <<work, row>> /\ OneBusy' = OneBusy
  BY DEF LoopStep, Iterate, Read, Callback, Put, CallbackFails, OneBusy, Idle
<1>2. /\ Len(queue) \in Nat /\ QueueSize \in Nat
      /\ counters.received \in Nat /\ counters.processed \in Nat
      /\ counters.errors \in Nat /\ OneBusy \in {0, 1}
      /\ \A hs : OnePut(hs) \in {0, 1}
  BY Numbers DEF Invs
<1>3. /\ counters.processed + (Len(queue) + OnePut(todo) + OnePut(ready) + OneBusy)
           <= counters.received
      /\ counters.received <= counters.processed + counters.errors
           + (Len(queue) + OnePut(todo) + OnePut(ready) + OneBusy)
      /\ Len(queue) + OnePut(todo) + OnePut(ready) <= QueueSize
  BY DEF PutInv, AccountInv
<1>4. SUFFICES AccountInv'
  BY <1>1 DEF PutInv, StatusConsistent
<1>5. CASE Iterate
  <2>1. /\ todo = <<>> /\ ready' = <<>> /\ UNCHANGED <<queue, counters>>
    BY <1>5 DEF Iterate
  <2>2. OnePut(todo) = 0 /\ OnePut(ready') = 0
    BY <2>1 DEF OnePut
  <2>3. OnePut(todo') = OnePut(ready)
    <3>1. CASE todo' = ready
      BY <3>1
    <3>2. ASSUME NEW t \in Traps, todo' = Append(ready, [do |-> "read",
                   item |-> [trap |-> t, time |-> arrivals + 1]])
          PROVE  OnePut(todo') = OnePut(ready)
      <4> DEFINE h == [do |-> "read",
                       item |-> [trap |-> t, time |-> arrivals + 1]]
      <4>1. h.do = "read" /\ ready \in Seq(Handle)
        BY HandlesType DEF Invs
      <4>2. todo' = Append(ready, h)
        BY <3>2
      <4> HIDE DEF h
      <4>3. /\ Len(ready) \in Nat /\ DOMAIN ready = 1 .. Len(ready)
            /\ todo' # <<>> /\ (ready = <<>> <=> Len(ready) = 0)
            /\ todo'[Len(ready) + 1] = h
            /\ \A i \in DOMAIN ready : todo'[i] = ready[i]
        BY <4>1, <4>2, AppendedRow
      <4>4. /\ ready = <<>> => todo'[1] = h
            /\ ready # <<>> => todo'[1] = ready[1]
        BY <4>3
      <4>5. QED BY <4>1, <4>3, <4>4 DEF OnePut
    <3>3. QED BY <1>5, <3>1, <3>2 DEF Iterate
  <2>4. QED BY <1>1, <1>2, <1>3, <2>1, <2>2, <2>3 DEF AccountInv
<1>6. CASE Read \/ Callback \/ Put \/ CallbackFails
  <2>1. todo # <<>> /\ todo' = Tail(todo) /\ Stages(ready, todo)
    BY <1>6 DEF Read, Callback, Put, CallbackFails, Turn, OrderInv
  <2>2. Head(todo) \in Handle /\ queue \in Seq(Item) /\ counters \in Counts
    BY <2>1, HandlesType, TailFacts DEF Invs, TypeInv, TypeOK
  <2>3. /\ OnePut(todo') = 0
        /\ OnePut(todo) = IF Head(todo).do = "put" THEN 1 ELSE 0
        /\ \A h \in Handle : OnePut(Append(ready, h))
             = IF ready = <<>> THEN (IF h.do = "put" THEN 1 ELSE 0)
               ELSE OnePut(ready)
        /\ Head(todo).do \in {"callback", "put"} => ready = <<>>
    BY <2>1, PutsTurn
  <2>4. OnePut(<<>>) = 0
    BY DEF OnePut
  <2>5. \A do \in {"callback", "put"} : [do |-> do, item |-> Head(todo).item] \in Handle
    BY <2>2 DEF Handle
  <2>6. CASE Read
    <3>1. /\ Head(todo).do = "read" /\ UNCHANGED <<queue, counters>>
          /\ ready' = Append(ready, [do |-> "callback", item |-> Head(todo).item])
      BY <2>6 DEF Read, Turn, Schedule
    <3>2. OnePut(ready') = OnePut(ready)
      BY <2>3, <2>4, <2>5, <3>1
    <3>3. QED BY <1>1, <1>2, <1>3, <2>3, <3>1, <3>2 DEF AccountInv
  <2>7. CASE Callback
    <3>1. /\ Head(todo).do = "callback" /\ queue' = queue /\ ready = <<>>
          /\ OnePut(todo) = 0 /\ OnePut(ready) = 0
      BY <2>3, <2>4, <2>7 DEF Callback, Turn
    <3>2. CASE Len(queue) < QueueSize
      <4>1. ready' = Append(ready, [do |-> "put", item |-> Head(todo).item])
        BY <2>7, <3>2 DEF Callback, Schedule
      <4>2. OnePut(ready') = 1
        BY <2>3, <2>5, <3>1, <4>1
      <4>3. /\ counters'.received = counters.received + 1
            /\ counters'.processed = counters.processed
            /\ counters'.errors = counters.errors
        BY <2>2, <2>7, <3>2 DEF Callback, Counts
      <4>4. QED BY <1>1, <2>3, <3>1, <3>2, <4>2, <4>3, ReceiveKept DEF Invs, PutInv
    <3>3. CASE ~ (Len(queue) < QueueSize)
      <4>1. ready' = ready
        BY <2>7, <3>3 DEF Callback
      <4>2. /\ counters'.received = counters.received + 1
            /\ counters'.processed = counters.processed
            /\ counters'.errors = counters.errors + 1
        BY <2>2, <2>7, <3>3 DEF Callback, Counts
      <4>3. /\ OnePut(todo') = OnePut(todo) /\ OnePut(ready') = OnePut(ready)
            /\ queue' = queue
        BY <2>3, <3>1, <4>1
      <4>4. QED BY <1>1, <4>2, <4>3, ErrorKept DEF Invs, PutInv
    <3>4. QED BY <3>2, <3>3
  <2>8. CASE Put
    <3>1. /\ Head(todo).do = "put" /\ UNCHANGED <<ready, counters>>
          /\ OnePut(todo) = 1
      BY <2>3, <2>8 DEF Put, Turn
    <3>2. Len(queue) < QueueSize
      BY <1>2, <1>3, <3>1
    <3>3. queue' = Append(queue, Head(todo).item)
      BY <2>8, <3>2 DEF Put
    <3>4. Len(queue') = Len(queue) + 1
      BY <2>2, <3>3, AppendedRow
    <3>5. QED BY <1>1, <1>2, <1>3, <2>3, <3>1, <3>4 DEF AccountInv
  <2>9. CASE CallbackFails
    <3>1. /\ Head(todo).do = "callback" /\ UNCHANGED <<ready, queue>>
          /\ OnePut(todo) = 0
      BY <2>3, <2>9 DEF CallbackFails, Turn
    <3>2. /\ counters'.received = counters.received
          /\ counters'.processed = counters.processed
          /\ counters'.errors = counters.errors + 1
      BY <2>2, <2>9 DEF CallbackFails, Count, Counts
    <3>3. QED BY <1>1, <2>3, <3>1, <3>2, ErrorKept DEF Invs, PutInv
  <2>10. QED BY <1>6, <2>6, <2>7, <2>8, <2>9
<1>7. QED BY <1>5, <1>6 DEF LoopStep

LEMMA WorkerAccounts ==
  ASSUME Invs, PutInv, NEW w \in Workers,
         WorkerStep(w) \/ StatementFails(w) \/ HandlerFails(w)
  PROVE  PutInv'
<1>1. Free(w) /\ UNCHANGED <<todo, ready, row>>
  BY DEF WorkerStep, Take, StoreLog, CheckAlarm, StoreEvent, UpdateLog, At,
         StatementFails, HandlerFails, loop
<1>2. \A job : Become(w, job) => /\ work'[w] = job
                               /\ \A v \in Workers : v # w => work'[v].at = "idle"
  BY <1>1, Becoming DEF Invs
<1>3. \A job : Become(w, job) => OneBusy' = IF job.at = "idle" THEN 0 ELSE 1
  BY <1>2 DEF OneBusy, Idle
<1>4. OneBusy = IF Idle(w) THEN 0 ELSE 1
  BY <1>1 DEF OneBusy, Free
<1>5. /\ Len(queue) \in Nat /\ QueueSize \in Nat /\ counters \in Counts
      /\ counters.received \in Nat /\ counters.processed \in Nat
      /\ counters.errors \in Nat /\ queue \in Seq(Item)
      /\ \A hs : OnePut(hs) \in {0, 1}
  BY Numbers DEF Invs, TypeInv, TypeOK
<1>6. SUFFICES AccountInv'
  BY <1>1 DEF PutInv, StatusConsistent
<1>7. AccountInv
  BY DEF PutInv
<1>8. CASE Take(w)
  <2>1. Idle(w) /\ counters' = counters /\ OneBusy' = 1
    BY <1>3, <1>8 DEF Take
  <2>2. Len(queue') = Len(queue) - 1
    BY <1>5, <1>8 DEF Take
  <2>3. QED BY <1>1, <1>4, <1>5, <1>7, <2>1, <2>2 DEF AccountInv
<1>9. CASE ~ Take(w)
  <2>1. ~ Idle(w) /\ queue' = queue
    BY <1>9 DEF WorkerStep, StoreLog, CheckAlarm, StoreEvent, UpdateLog, At,
                StatementFails, HandlerFails, Idle, loop
  <2>2. work[w] \in Job
    BY <2>1, BusyJob DEF Invs
  <2>3. CASE counters' = counters /\ OneBusy' = 1
    BY <1>1, <1>4, <1>7, <2>1, <2>3 DEF AccountInv
  <2>4. CASE (Count("processed") \/ Count("errors")) /\ OneBusy' = 0
    <3>1. /\ counters'.received = counters.received
          /\ \/ /\ counters'.processed = counters.processed + 1
                /\ counters'.errors = counters.errors
             \/ /\ counters'.processed = counters.processed
                /\ counters'.errors = counters.errors + 1
      BY <1>5, <2>4 DEF Count, Counts
    <3>2. OneBusy = 1
      BY <1>4, <2>1
    <3>3. QED BY <1>1, <1>7, <2>1, <2>4, <3>1, <3>2, DoneKept DEF Invs
  <2>5. CASE StoreLog(w) \/ CheckAlarm(w) \/ StoreEvent(w)
    <3>1. \A stage \in {"check", "insert", "update"} :
            /\ [work[w] EXCEPT !.at = stage].at # "idle"
            /\ \A k : /\ [work[w] EXCEPT !.at = stage, !.log = k].at # "idle"
                      /\ [work[w] EXCEPT !.at = stage, !.cleared = k].at # "idle"
                      /\ [work[w] EXCEPT !.at = stage, !.event = k].at # "idle"
      BY <2>2 DEF Job
    <3>2. counters' = counters
      BY <2>5 DEF StoreLog, CheckAlarm, StoreEvent
    <3>3. PICK job : Become(w, job) /\ job.at # "idle"
      <4>1. CASE CheckAlarm(w)
        BY <3>1, <4>1 DEF CheckAlarm
      <4>2. CASE StoreLog(w) \/ StoreEvent(w)
        BY <3>1, <4>2 DEF StoreLog, StoreEvent
      <4>3. QED BY <2>5, <4>1, <4>2
    <3>4. QED BY <1>3, <2>3, <3>2, <3>3
  <2>6. CASE UpdateLog(w) \/ HandlerFails(w)
    BY <1>3, <2>4, <2>6 DEF UpdateLog, HandlerFails, NoJob
  <2>7. CASE StatementFails(w)
    <3>1. CASE Become(w, [work[w] EXCEPT !.at = "check"]) /\ counters' = counters
      <4>1. [work[w] EXCEPT !.at = "check"].at = "check"
        BY <2>2 DEF Job
      <4>2. QED BY <1>3, <2>3, <3>1, <4>1
    <3>2. CASE Become(w, NoJob) /\ Count("processed")
      BY <1>3, <2>4, <3>2 DEF NoJob
    <3>3. QED BY <2>7, <3>1, <3>2 DEF StatementFails
  <2>8. QED BY <1>9, <2>5, <2>6, <2>7 DEF WorkerStep
<1>10. QED BY <1>8, <1>9

LEMMA NextAccounts == Invs /\ OrderInv /\ PutInv /\ [TrapNext]_trapVars => PutInv'
<1> SUFFICES ASSUME Invs, OrderInv, PutInv, [TrapNext]_trapVars PROVE PutInv'
  OBVIOUS
<1>1. CASE UNCHANGED trapVars
  <2>1. UNCHANGED <<todo, ready, queue, work, counters, row>>
    BY <1>1 DEF trapVars, loop
  <2>2. QED BY <2>1 DEF PutInv, AccountInv, StatusConsistent, OneBusy, Idle
<1>2. CASE UpdateStatus
  <2>1. /\ UNCHANGED <<todo, ready, queue, work, counters>>
        /\ row'.counts = counters /\ row'.depth = Len(queue)
    BY <1>2 DEF UpdateStatus, loop
  <2>2. AccountInv'
    BY <2>1 DEF PutInv, AccountInv, OneBusy, Idle
  <2>3. counters.processed + Len(queue) <= counters.received
    BY Numbers DEF Invs, PutInv, AccountInv
  <2>4. QED BY <2>1, <2>2, <2>3 DEF PutInv, StatusConsistent
<1>3. CASE Start \/ End \/ LoopStep \/ CallbackFails
  BY <1>3, ProcessAccounts, LoopAccounts
<1>4. CASE \E w \in Workers : WorkerStep(w) \/ StatementFails(w) \/ HandlerFails(w)
  BY <1>4, WorkerAccounts
<1>5. QED BY <1>1, <1>2, <1>3, <1>4 DEF TrapNext

LEMMA Accounts == TrapSpec => [](Invs /\ OrderInv /\ PutInv)
BY Basics, Order, InitAccounts, NextAccounts, PTL DEF TrapSpec

\* No trap is lost uncounted while the process lives, although _trap_callback
\* tests the queue and the loop fills it later: there is always room for the
\* one put that is on its way.
THEOREM NoneUncounted == TrapSpec => []Accounting
BY Accounts, Counted, PTL DEF PutInv

\* What _update_status wrote was true of one moment, or the counts are those
\* that a start has reset.
THEOREM StatusIsSnapshot == TrapSpec => []StatusConsistent
BY Accounts, PTL DEF PutInv
=============================================================================
