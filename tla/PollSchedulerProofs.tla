------------------------- MODULE PollSchedulerProofs -------------------------
(***************************************************************************)
(* Proofs about PollScheduler, for any number of configs, ticks, polls and *)
(* faults: the types, and that the traffic stored with a reading is the    *)
(* traffic there was.                                                      *)
(***************************************************************************)
EXTENDS PollScheduler, TLAPS

\* A task in the middle of its work has what it needs for the rest.
InWork ==
  /\ \A t \in Tickers : tick[t].at = "mark" => tick[t].config \in Configs
  /\ \A p \in Pollers :
       /\ poll[p].at # "idle" => poll[p].job \in Message
       /\ poll[p].at \in {"compare", "store"} =>
            poll[p].reading = poll[p].total % Wrap
       /\ poll[p].at = "store" => poll[p].delta \in 0 .. Wrap - 1

TypeInv == TypeOK /\ InWork

LEMMA TickFields ==
  ASSUME NEW v \in Tick
  PROVE  /\ v.at \in {"idle", "dispatch", "mark"} /\ v.due \subseteq Configs
         /\ v.config \in Configs \cup {Never} /\ v.since \in Nat
         /\ v = [at |-> v.at, due |-> v.due, config |-> v.config,
                 since |-> v.since]
<1> DEFINE D == SUBSET Configs
<1>1. v \in [at : {"idle", "dispatch", "mark"}, due : D,
             config : Configs \cup {Never}, since : Nat]
  BY DEF Tick
<1> HIDE DEF D
<1>2. v.due \in D
  BY <1>1
<1>3. v.due \subseteq Configs
  BY <1>2 DEF D
<1> QED BY <1>1, <1>3

\* The local states that the steps of a tick make.
LEMMA TickMarked ==
  ASSUME NEW v \in Tick
  PROVE  LET w == [v EXCEPT !.at = "dispatch", !.config = Never]
         IN  w \in Tick /\ w.at = "dispatch" /\ w.due = v.due
<1> DEFINE D == SUBSET Configs
           T == [at : {"idle", "dispatch", "mark"}, due : D,
                 config : Configs \cup {Never}, since : Nat]
<1>1. Tick = T
  BY DEF Tick
<1> HIDE DEF D
<1> QED BY <1>1

LEMMA TickSkipped ==
  ASSUME NEW v \in Tick, NEW d, d \subseteq Configs
  PROVE  LET w == [v EXCEPT !.due = d]
         IN  w \in Tick /\ w.at = v.at /\ w.due = d
<1> DEFINE D == SUBSET Configs
           T == [at : {"idle", "dispatch", "mark"}, due : D,
                 config : Configs \cup {Never}, since : Nat]
<1>1. Tick = T
  BY DEF Tick
<1>2. d \in D
  OBVIOUS
<1> HIDE DEF D
<1> QED BY <1>1, <1>2

LEMMA TickBegun ==
  ASSUME NEW d, d \subseteq Configs, NEW s \in Nat
  PROVE  /\ NoTick \in Tick /\ NoTick.at = "idle" /\ NoTick.config = Never
         /\ LET w == [NoTick EXCEPT !.at = "dispatch", !.since = s, !.due = d]
            IN  w \in Tick /\ w.at = "dispatch" /\ w.due = d
<1> DEFINE D == SUBSET Configs
           T == [at : {"idle", "dispatch", "mark"}, due : D,
                 config : Configs \cup {Never}, since : Nat]
<1>1. Tick = T
  BY DEF Tick
<1>2. d \in D /\ {} \in D
  OBVIOUS
<1> HIDE DEF D
<1>3. NoTick \in T /\ NoTick.at = "idle" /\ NoTick.config = Never
  BY <1>2 DEF NoTick
<1>4. LET w == [NoTick EXCEPT !.at = "dispatch", !.since = s, !.due = d]
      IN  w \in T /\ w.at = "dispatch" /\ w.due = d
  BY <1>2, <1>3
<1> QED BY <1>1, <1>3, <1>4

\* One task changes, the others stay.
LEMMA TickChange ==
  ASSUME tick \in [Tickers -> Tick], NEW t \in Tickers, NEW v \in Tick,
         TickBecomes(t, v)
  PROVE  /\ tick' \in [Tickers -> Tick] /\ tick'[t] = v
         /\ \A u \in Tickers : u # t => tick'[u] = tick[u]
BY DEF TickBecomes

LEMMA PollChange ==
  ASSUME poll \in [Pollers -> Poll], NEW p \in Pollers, NEW v \in Poll,
         PollBecomes(p, v)
  PROVE  /\ poll' \in [Pollers -> Poll] /\ poll'[p] = v
         /\ \A q \in Pollers : q # p => poll'[q] = poll[q]
BY DEF PollBecomes

\* What the steps of a tick make of it.
LEMMA TickMoves ==
  ASSUME TypeInv, NEW t \in Tickers,
         TickStep(t) \/ TickFails(t) \/ TickCrashes(t)
  PROVE  /\ tick' \in [Tickers -> Tick]
         /\ \A u \in Tickers : u # t => tick'[u] = tick[u]
         /\ tick'[t].at = "mark" => tick'[t].config \in Configs
         /\ StartTick(t) => /\ tick'[t].at = "dispatch"
                            /\ tick'[t].due = {c \in Configs : Due(c)}
         /\ \A c \in Configs : Dispatch(t, c) =>
              /\ tick'[t].at = "mark" /\ tick'[t].config = c
              /\ tick'[t].due = tick[t].due \ {c}
         /\ Mark(t) => /\ tick'[t].at = "dispatch"
                       /\ tick'[t].due = tick[t].due
         /\ EndTick(t) => tick'[t].at = "idle"
<1> DEFINE Goal(v) == /\ tick' \in [Tickers -> Tick] /\ tick'[t] = v
                      /\ \A u \in Tickers : u # t => tick'[u] = tick[u]
<1>0. /\ tick \in [Tickers -> Tick] /\ clock \in Nat /\ tick[t] \in Tick
      /\ tick[t].due \subseteq Configs
  BY TickFields, PollAssumption DEF TypeInv, TypeOK
<1>1. ASSUME NEW v \in Tick, TickBecomes(t, v) PROVE Goal(v)
  BY <1>0, <1>1, TickChange
<1> HIDE DEF Goal
<1>2. CASE StartTick(t)
  <2> DEFINE due == {c \in Configs : Due(c)}
             v   == [NoTick EXCEPT !.at = "dispatch", !.since = clock,
                                   !.due = due]
  <2>2. due \subseteq Configs
    OBVIOUS
  <2> HIDE DEF due
  <2>3. v \in Tick /\ v.at = "dispatch" /\ v.due = due
    BY <1>0, <2>2, TickBegun
  <2>4. TickBecomes(t, v) /\ tick[t].at = "idle"
    BY <1>2 DEF StartTick, due
  <2> HIDE DEF v
  <2>5. Goal(v)
    BY <1>1, <2>3, <2>4
  <2>6. ~ Mark(t) /\ ~ EndTick(t) /\ \A d \in Configs : ~ Dispatch(t, d)
    BY <2>4 DEF Mark, EndTick, Dispatch
  <2> QED BY <2>3, <2>5, <2>6 DEF Goal, due
<1>3. ASSUME NEW c \in Configs, Dispatch(t, c)
      PROVE  /\ tick' \in [Tickers -> Tick]
             /\ \A u \in Tickers : u # t => tick'[u] = tick[u]
             /\ tick'[t].at = "mark" /\ tick'[t].config = c
             /\ tick'[t].due = tick[t].due \ {c}
             /\ tick[t].at = "dispatch" /\ tick[t].due # {}
  <2> DEFINE d == tick[t].due \ {c}
             v == [tick[t] EXCEPT !.at = "mark", !.config = c, !.due = d]
  <2>0. d \subseteq Configs
    BY <1>0
  <2> HIDE DEF d
  <2>1. v \in Tick /\ v.at = "mark" /\ v.config = c /\ v.due = d
    <3> DEFINE D == SUBSET Configs
               T == [at : {"idle", "dispatch", "mark"}, due : D,
                     config : Configs \cup {Never}, since : Nat]
    <3>1. Tick = T
      BY DEF Tick
    <3>2. d \in D
      BY <2>0
    <3> HIDE DEF D
    <3> QED BY <1>0, <1>3, <3>1, <3>2
  <2>2. TickBecomes(t, v) /\ tick[t].at = "dispatch" /\ tick[t].due # {}
    BY <1>3 DEF Dispatch, d
  <2> HIDE DEF v
  <2>3. Goal(v)
    BY <1>1, <2>1, <2>2
  <2> QED BY <2>1, <2>2, <2>3 DEF Goal, d
<1>4. CASE Mark(t) \/ (tick[t].at = "mark" /\ TickFails(t))
  <2> DEFINE v == [tick[t] EXCEPT !.at = "dispatch", !.config = Never]
  <2>1. tick[t].at = "mark" /\ tick[t].config \in Configs
    BY <1>4 DEF Mark, TypeInv, InWork
  <2>2. v \in Tick /\ v.at = "dispatch" /\ v.due = tick[t].due
    BY <1>0, TickMarked
  <2>3. TickBecomes(t, v)
    BY <1>4, <2>1 DEF Mark, TickFails
  <2> HIDE DEF v
  <2>4. Goal(v)
    BY <1>1, <2>2, <2>3
  <2>5. ~ StartTick(t) /\ ~ EndTick(t) /\ \A d \in Configs : ~ Dispatch(t, d)
    BY <2>1 DEF StartTick, EndTick, Dispatch
  <2> QED BY <2>2, <2>4, <2>5 DEF Goal
<1>5. TickFails(t) \/ TickCrashes(t) =>
        /\ ~ StartTick(t) /\ ~ Mark(t) /\ ~ EndTick(t)
        /\ \A c \in Configs : ~ Dispatch(t, c)
  <2>1. faults \in Nat
    BY PollAssumption DEF TypeInv, TypeOK
  <2>2. TickFails(t) \/ TickCrashes(t) => faults' # faults
    BY <2>1 DEF TickFails, TickCrashes
  <2> QED BY <2>2 DEF StartTick, Mark, EndTick, Dispatch
<1>6. CASE EndTick(t) \/ TickCrashes(t)
  <2>1. TickBecomes(t, NoTick)
    BY <1>6 DEF EndTick, TickCrashes
  <2>2. NoTick \in Tick /\ NoTick.at = "idle"
    BY <1>0, TickBegun
  <2>3. Goal(NoTick)
    BY <1>1, <2>1, <2>2
  <2>4. ~ StartTick(t) /\ ~ Mark(t) /\ \A c \in Configs : ~ Dispatch(t, c)
    BY <1>5, <1>6 DEF StartTick, Mark, Dispatch, EndTick
  <2> QED BY <2>2, <2>3, <2>4 DEF Goal
<1>7. CASE tick[t].at = "dispatch" /\ TickFails(t)
  <2>1. PICK c \in tick[t].due :
          TickBecomes(t, [tick[t] EXCEPT !.due = @ \ {c}])
    BY <1>7 DEF TickFails
  <2> DEFINE d == tick[t].due \ {c}
             v == [tick[t] EXCEPT !.due = d]
  <2>0. d \subseteq Configs /\ c \in Configs
    BY <1>0
  <2> HIDE DEF d
  <2>2. v \in Tick /\ v.at = "dispatch"
    BY <1>0, <1>7, <2>0, TickSkipped
  <2>3. TickBecomes(t, v)
    BY <2>1 DEF d
  <2> HIDE DEF v
  <2>4. Goal(v)
    BY <1>1, <2>2, <2>3
  <2> QED BY <1>5, <1>7, <2>2, <2>4 DEF Goal
<1>8. TickFails(t) => tick[t].at = "dispatch" \/ tick[t].at = "mark"
  BY DEF TickFails
<1> QED BY <1>2, <1>3, <1>4, <1>6, <1>7, <1>8 DEF TickStep
-----------------------------------------------------------------------------
\* The type of a poll over an unexpanded set of jobs.
PollOf(m) == [at : {"idle", "walk", "compare", "store", "record"}, job : m,
              reading : Nat, total : Nat, after : Nat, delta : Int,
              finished : Nat]

LEMMA PollIs == Poll = PollOf(Message \cup {Never})
BY DEF Poll, PollOf

LEMMA PollFields ==
  ASSUME NEW v \in Poll
  PROVE  /\ v.at \in {"idle", "walk", "compare", "store", "record"}
         /\ v.job \in Message \cup {Never} /\ v.reading \in Nat
         /\ v.total \in Nat /\ v.after \in Nat /\ v.delta \in Int
         /\ v.finished \in Nat
<1> DEFINE M == Message \cup {Never}
<1>1. v \in PollOf(M)
  BY PollIs
<1> HIDE DEF M
<1>2. /\ v.at \in {"idle", "walk", "compare", "store", "record"}
      /\ v.job \in M /\ v.reading \in Nat
      /\ v.total \in Nat /\ v.after \in Nat /\ v.delta \in Int
         /\ v.finished \in Nat
  BY <1>1 DEF PollOf
<1> QED BY <1>2 DEF M

\* What the steps of a poll make of it.
Keeps(p) == /\ poll' \in [Pollers -> Poll]
            /\ \A q \in Pollers : q # p => poll'[q] = poll[q]

LEMMA Becomes ==
  ASSUME TypeInv, NEW p \in Pollers, NEW v \in Poll, PollBecomes(p, v)
  PROVE  Keeps(p) /\ poll'[p] = v
BY PollChange DEF TypeInv, TypeOK, Keeps

LEMMA DeliverMoves ==
  ASSUME TypeInv, NEW p \in Pollers, Deliver(p)
  PROVE  /\ Keeps(p) /\ poll'[p].at = "walk" /\ poll'[p].job = Head(queue)
         /\ Head(queue) \in Message
<1>1. queue \in Seq(Message) /\ queue # <<>>
  BY DEF TypeInv, TypeOK, Deliver
<1>2. Head(queue) \in Message
  BY <1>1
<1> DEFINE j == Head(queue)
           v == [NoPoll EXCEPT !.at = "walk", !.job = j]
<1> HIDE DEF j
<1>3. v \in Poll /\ v.at = "walk" /\ v.job = j
  <2> DEFINE M == Message \cup {Never}
  <2>1. Poll = PollOf(M) /\ j \in M /\ Never \in M
    BY <1>2, PollIs DEF j
  <2> HIDE DEF M
  <2>2. NoPoll \in PollOf(M)
    BY <2>1 DEF NoPoll, PollOf
  <2> QED BY <2>1, <2>2 DEF PollOf
<1>4. PollBecomes(p, v)
  BY DEF Deliver, j
<1> HIDE DEF v
<1> QED BY <1>2, <1>3, <1>4, Becomes DEF j

LEMMA WalkMoves ==
  ASSUME TypeInv, NEW p \in Pollers, Walk(p)
  PROVE  /\ Keeps(p) /\ poll'[p].at = "compare"
         /\ poll'[p].job = poll[p].job /\ poll'[p].total = bytes
         /\ poll'[p].reading = bytes % Wrap /\ poll'[p].finished = clock
         /\ poll'[p].after = Len(metrics)
<1>1. /\ poll[p] \in Poll /\ bytes \in Nat /\ clock \in Nat
      /\ bytes % Wrap \in Nat /\ Len(metrics) \in Nat
  BY PollAssumption DEF TypeInv, TypeOK
<1> DEFINE r == bytes % Wrap
           n == Len(metrics)
           v == [poll[p] EXCEPT !.at = "compare", !.total = bytes,
                                !.reading = r, !.after = n, !.finished = clock]
<1>2. PollBecomes(p, v)
  BY DEF Walk
<1>3. r \in Nat /\ n \in Nat
  BY <1>1
<1> HIDE DEF r, n
<1>4. /\ v \in Poll /\ v.at = "compare" /\ v.job = poll[p].job
      /\ v.total = bytes /\ v.reading = r /\ v.finished = clock
      /\ v.after = n
  <2> DEFINE M == Message \cup {Never}
  <2>1. Poll = PollOf(M)
    BY PollIs
  <2> HIDE DEF M
  <2> QED BY <1>1, <1>3, <2>1 DEF PollOf
<1> HIDE DEF v
<1> QED BY <1>2, <1>4, Becomes DEF r, n

LEMMA WalkFailsMoves ==
  ASSUME TypeInv, NEW p \in Pollers, WalkFails(p)
  PROVE  /\ Keeps(p) /\ poll'[p].at = "record"
         /\ poll'[p].job = poll[p].job /\ poll'[p].finished = clock
<1>1. poll[p] \in Poll /\ clock \in Nat
  BY PollAssumption DEF TypeInv, TypeOK
<1> DEFINE v == [poll[p] EXCEPT !.at = "record", !.finished = clock]
<1>2. PollBecomes(p, v)
  BY DEF WalkFails
<1>3. /\ v \in Poll /\ v.at = "record" /\ v.job = poll[p].job
      /\ v.finished = clock
  <2> DEFINE M == Message \cup {Never}
  <2>1. Poll = PollOf(M)
    BY PollIs
  <2> HIDE DEF M
  <2> QED BY <1>1, <2>1 DEF PollOf
<1> HIDE DEF v
<1> QED BY <1>2, <1>3, Becomes

\* The traffic since the newest row, as the poll computes it.
Traffic(p) == IF metrics = <<>> THEN 0
              ELSE Delta(poll[p].reading, metrics[Len(metrics)].reading)

LEMMA TrafficType ==
  ASSUME TypeInv, NEW p \in Pollers, poll[p].reading \in 0 .. Wrap - 1
  PROVE  Traffic(p) \in 0 .. Wrap - 1
<1>1. CASE metrics = <<>>
  BY <1>1, PollAssumption DEF Traffic
<1>2. CASE metrics # <<>>
  <2> DEFINE R == [reading : 0 .. Wrap - 1, total : Nat, after : Nat,
                 delta : 0 .. Wrap - 1]
  <2>1. metrics \in Seq(R)
    BY DEF TypeInv, TypeOK
  <2> HIDE DEF R
  <2>2. metrics[Len(metrics)] \in R
    BY <1>2, <2>1
  <2>3. metrics[Len(metrics)].reading \in 0 .. Wrap - 1
    BY <2>2 DEF R
  <2> QED BY <1>2, <2>3, PollAssumption DEF Traffic, Delta
<1> QED BY <1>1, <1>2

LEMMA CompareMoves ==
  ASSUME TypeInv, NEW p \in Pollers, Compare(p)
  PROVE  /\ Keeps(p) /\ poll'[p].at = "store"
         /\ poll'[p].job = poll[p].job /\ poll'[p].total = poll[p].total
         /\ poll'[p].reading = poll[p].reading
         /\ poll'[p].after = poll[p].after
         /\ poll'[p].finished = poll[p].finished
         /\ poll'[p].delta = Traffic(p) /\ Traffic(p) \in 0 .. Wrap - 1
<1>1. poll[p] \in Poll /\ poll[p].at = "compare"
  BY DEF TypeInv, TypeOK, Compare
<1>2. poll[p].reading \in 0 .. Wrap - 1
  <2>1. poll[p].reading = poll[p].total % Wrap
    BY <1>1 DEF TypeInv, InWork
  <2>2. poll[p].total \in Nat
    BY <1>1, PollFields
  <2> QED BY <2>1, <2>2, PollAssumption
<1>3. Traffic(p) \in 0 .. Wrap - 1
  BY <1>2, TrafficType
<1> DEFINE d == Traffic(p)
           v == [poll[p] EXCEPT !.at = "store", !.delta = d]
<1>4. PollBecomes(p, v)
  BY DEF Compare, Traffic
<1>5. d \in Int
  BY <1>3, PollAssumption
<1> HIDE DEF d
<1>6. /\ v \in Poll /\ v.at = "store" /\ v.job = poll[p].job
      /\ v.total = poll[p].total /\ v.reading = poll[p].reading
      /\ v.finished = poll[p].finished /\ v.delta = d
      /\ v.after = poll[p].after
  <2> DEFINE M == Message \cup {Never}
  <2>1. Poll = PollOf(M)
    BY PollIs
  <2> HIDE DEF M
  <2> QED BY <1>1, <1>5, <2>1 DEF PollOf
<1> HIDE DEF v
<1> QED BY <1>3, <1>4, <1>6, Becomes DEF d

LEMMA StoreMoves ==
  ASSUME TypeInv, NEW p \in Pollers, Store(p)
  PROVE  /\ Keeps(p) /\ poll'[p].at = "record"
         /\ poll'[p].job = poll[p].job
         /\ poll'[p].finished = poll[p].finished
<1>1. poll[p] \in Poll
  BY DEF TypeInv, TypeOK
<1> DEFINE v == [poll[p] EXCEPT !.at = "record"]
<1>2. PollBecomes(p, v)
  BY DEF Store
<1>3. /\ v \in Poll /\ v.at = "record" /\ v.job = poll[p].job
      /\ v.finished = poll[p].finished
  <2> DEFINE M == Message \cup {Never}
  <2>1. Poll = PollOf(M)
    BY PollIs
  <2> HIDE DEF M
  <2> QED BY <1>1, <2>1 DEF PollOf
<1> HIDE DEF v
<1> QED BY <1>2, <1>3, Becomes

LEMMA EndMoves ==
  ASSUME TypeInv, NEW p \in Pollers, Record(p) \/ PollFails(p)
  PROVE  Keeps(p) /\ poll'[p].at = "idle"
<1>1. PollBecomes(p, NoPoll)
  BY DEF Record, PollFails
<1>2. NoPoll \in Poll /\ NoPoll.at = "idle"
  <2>1. 0 \in Nat /\ 0 \in Int
    OBVIOUS
  <2> QED BY <2>1 DEF NoPoll, Poll
<1> QED BY <1>1, <1>2, Becomes
-----------------------------------------------------------------------------
LEMMA InitType == PollInit => TypeInv
<1> SUFFICES ASSUME PollInit PROVE TypeInv
  OBVIOUS
<1>1. NoPoll \in Poll
  <2> DEFINE M == Message \cup {Never}
  <2>1. Poll = PollOf(M) /\ Never \in M
    BY PollIs
  <2> HIDE DEF M
  <2> QED BY <2>1 DEF NoPoll, PollOf
<1>2. NoTick \in Tick /\ NoTick.at = "idle"
  BY TickBegun
<1>3. NoPoll.at = "idle"
  BY DEF NoPoll
<1>4. /\ tick \in [Tickers -> Tick] /\ \A t \in Tickers : tick[t].at = "idle"
      /\ poll \in [Pollers -> Poll] /\ \A p \in Pollers : poll[p].at = "idle"
  BY <1>1, <1>2, <1>3 DEF PollInit
<1>5. /\ clock \in 0 .. MaxTime /\ faults \in 0 .. MaxFaults /\ bytes \in Nat
      /\ enabled \subseteq Configs
      /\ lastRun \in [Configs -> Nat \cup {Never}]
      /\ sent \in [Configs -> Seq(Nat)]
  BY PollAssumption DEF PollInit
<1>6. /\ queue \in Seq(Message)
      /\ metrics \in Seq([reading : 0 .. Wrap - 1, total : Nat, after : Nat,
                          delta : 0 .. Wrap - 1])
  <2>1. queue = <<>> /\ metrics = <<>>
    BY DEF PollInit
  <2> QED BY <2>1
<1>7. InWork
  BY <1>4 DEF InWork
<1> QED BY <1>4, <1>5, <1>6, <1>7 DEF TypeInv, TypeOK

LEMMA SendType ==
  ASSUME TypeInv, NEW c \in Configs, Send(c)
  PROVE  sent' \in [Configs -> Seq(Nat)] /\ queue' \in Seq(Message)
<1>1. /\ clock \in Nat /\ sent \in [Configs -> Seq(Nat)]
      /\ queue \in Seq(Message)
  BY PollAssumption DEF TypeInv, TypeOK
<1>2. [config |-> c, sent |-> clock] \in Message
  BY <1>1 DEF Message
<1> DEFINE m == [config |-> c, sent |-> clock]
<1>3. queue' = Append(queue, m)
  BY DEF Send
<1>4. sent' = [sent EXCEPT ![c] = Append(sent[c], clock)]
  BY DEF Send
<1>5. Append(sent[c], clock) \in Seq(Nat)
  BY <1>1
<1> HIDE DEF m
<1> QED BY <1>1, <1>2, <1>3, <1>4, <1>5 DEF m

LEMMA TickType ==
  ASSUME TypeInv, NEW t \in Tickers,
         TickStep(t) \/ TickFails(t) \/ TickCrashes(t)
  PROVE  TypeInv'
<1>1. tick' \in [Tickers -> Tick]
  BY TickMoves
<1>2. UNCHANGED <<clock, enabled, poll, bytes, metrics>>
  BY DEF TickStep, StartTick, Mark, EndTick, Dispatch, TickFails, TickCrashes
<1>3. InWork'
  <2>1. \A u \in Tickers : tick'[u].at = "mark" => tick'[u].config \in Configs
    BY TickMoves DEF TypeInv, InWork
  <2> QED BY <1>2, <2>1 DEF TypeInv, InWork
<1>4. faults' \in 0 .. MaxFaults
  <2>1. faults \in 0 .. MaxFaults
    BY DEF TypeInv, TypeOK
  <2>2. faults' = faults \/ (faults < MaxFaults /\ faults' = faults + 1)
    BY DEF TickStep, StartTick, Mark, EndTick, Dispatch, TickFails, TickCrashes
  <2> QED BY <2>1, <2>2, PollAssumption
<1>5. lastRun' \in [Configs -> Nat \cup {Never}]
  <2>1. lastRun \in [Configs -> Nat \cup {Never}] /\ clock \in Nat
    BY PollAssumption DEF TypeInv, TypeOK
  <2>2. \/ lastRun' = lastRun
        \/ lastRun' = [lastRun EXCEPT ![tick[t].config] = clock]
    BY DEF TickStep, StartTick, Mark, EndTick, Dispatch, TickFails, TickCrashes
  <2> QED BY <2>1, <2>2
<1>6. sent' \in [Configs -> Seq(Nat)] /\ queue' \in Seq(Message)
  <2>1. \/ UNCHANGED <<sent, queue>>
        \/ \E c \in Configs : Send(c)
    BY DEF TickStep, StartTick, Mark, EndTick, Dispatch, TickFails, TickCrashes
  <2>2. CASE UNCHANGED <<sent, queue>>
    BY <2>2 DEF TypeInv, TypeOK
  <2> QED BY <2>1, <2>2, SendType
<1> QED BY <1>1, <1>2, <1>3, <1>4, <1>5, <1>6 DEF TypeInv, TypeOK

LEMMA PollType ==
  ASSUME TypeInv, NEW p \in Pollers, PollStep(p) \/ PollFails(p)
  PROVE  TypeInv'
<1>0. /\ queue \in Seq(Message) /\ faults \in 0 .. MaxFaults
      /\ lastRun \in [Configs -> Nat \cup {Never}] /\ bytes \in Nat
      /\ poll[p] \in Poll
  BY DEF TypeInv, TypeOK
<1>1. UNCHANGED <<clock, enabled, tick, sent, bytes>>
  BY DEF PollStep, Deliver, Walk, WalkFails, Compare, Store, Record, PollFails
<1>2. poll[p].at # "idle" => poll[p].job \in Message
  BY DEF TypeInv, InWork
<1>3. /\ Keeps(p)
      /\ poll'[p].at # "idle" => poll'[p].job \in Message
      /\ poll'[p].at \in {"compare", "store"} =>
           poll'[p].reading = poll'[p].total % Wrap
      /\ poll'[p].at = "store" => poll'[p].delta \in 0 .. Wrap - 1
  <2>1. CASE Deliver(p)
    BY <2>1, DeliverMoves
  <2>2. CASE Walk(p)
    BY <1>2, <2>2, WalkMoves DEF Walk
  <2>3. CASE WalkFails(p)
    BY <1>2, <2>3, WalkFailsMoves DEF WalkFails
  <2>4. CASE Compare(p)
    <3>1. poll[p].at = "compare" /\ poll[p].reading = poll[p].total % Wrap
      BY <2>4 DEF Compare, TypeInv, InWork
    <3> QED BY <1>2, <2>4, <3>1, CompareMoves
  <2>5. CASE Store(p)
    BY <1>2, <2>5, StoreMoves DEF Store
  <2>6. CASE Record(p) \/ PollFails(p)
    BY <2>6, EndMoves
  <2> QED BY <2>1, <2>2, <2>3, <2>4, <2>5, <2>6 DEF PollStep
<1>4. InWork'
  BY <1>1, <1>3 DEF Keeps, TypeInv, InWork
<1>5. queue' \in Seq(Message)
  <2>1. CASE Deliver(p)
    <3>1. queue # <<>> /\ queue' = Tail(queue)
      BY <2>1 DEF Deliver
    <3> QED BY <1>0, <3>1
  <2>2. CASE PollFails(p)
    <3>1. poll[p].job \in Message
      BY <1>2, <2>2 DEF PollFails
    <3>2. queue' = queue \/ queue' = Append(queue, poll[p].job)
      BY <2>2 DEF PollFails
    <3> QED BY <1>0, <3>1, <3>2
  <2>3. CASE Walk(p) \/ WalkFails(p) \/ Compare(p) \/ Store(p) \/ Record(p)
    <3>1. queue' = queue
      BY <2>3 DEF Walk, WalkFails, Compare, Store, Record
    <3> QED BY <1>0, <3>1
  <2> QED BY <2>1, <2>2, <2>3 DEF PollStep
<1>6. lastRun' \in [Configs -> Nat \cup {Never}]
  <2>1. \/ lastRun' = lastRun
        \/ lastRun' = [lastRun EXCEPT ![poll[p].job.config] = poll[p].finished]
    BY DEF PollStep, Deliver, Walk, WalkFails, Compare, Store, Record, PollFails
  <2>2. poll[p].finished \in Nat
    BY <1>0, PollFields
  <2> QED BY <1>0, <2>1, <2>2
<1>7. faults' \in 0 .. MaxFaults
  <2>1. faults' = faults \/ (faults < MaxFaults /\ faults' = faults + 1)
    BY DEF PollStep, Deliver, Walk, WalkFails, Compare, Store, Record, PollFails
  <2> QED BY <1>0, <2>1, PollAssumption
<1>8. metrics' \in Seq([reading : 0 .. Wrap - 1, total : Nat, after : Nat,
                        delta : 0 .. Wrap - 1])
  <2> DEFINE R == [reading : 0 .. Wrap - 1, total : Nat, after : Nat,
                 delta : 0 .. Wrap - 1]
  <2>1. metrics \in Seq(R)
    BY DEF TypeInv, TypeOK
  <2>2. CASE Store(p)
    <3> DEFINE m == [reading |-> poll[p].reading, total |-> poll[p].total,
                     after |-> poll[p].after, delta |-> poll[p].delta]
    <3>1. /\ poll[p].total \in Nat /\ poll[p].after \in Nat /\ poll[p].delta \in 0 .. Wrap - 1
          /\ poll[p].reading = poll[p].total % Wrap
      BY <1>0, <2>2, PollFields DEF Store, TypeInv, InWork
    <3>2. poll[p].reading \in 0 .. Wrap - 1
      BY <3>1, PollAssumption
    <3>3. m \in R
      BY <3>1, <3>2
    <3>4. metrics' = Append(metrics, m)
      BY <2>2 DEF Store
    <3> HIDE DEF m, R
    <3>5. metrics' \in Seq(R)
      BY <2>1, <3>3, <3>4
    <3> QED BY <3>5 DEF R
  <2>3. CASE ~ Store(p)
    <3>1. metrics' = metrics
      BY <2>3 DEF PollStep, Deliver, Walk, WalkFails, Compare, Record, PollFails
    <3> QED BY <2>1, <3>1
  <2> QED BY <2>2, <2>3
<1> QED BY <1>1, <1>3, <1>4, <1>5, <1>6, <1>7, <1>8
        DEF Keeps, TypeInv, TypeOK

LEMMA NextType == TypeInv /\ [PollNext]_pollVars => TypeInv'
<1> SUFFICES ASSUME TypeInv, [PollNext]_pollVars PROVE TypeInv'
  OBVIOUS
<1>1. ASSUME NEW c \in Configs, SetEnabled(c) PROVE TypeInv'
  BY <1>1 DEF SetEnabled, TypeInv, TypeOK, InWork
<1>2. CASE Pass
  <2>1. clock' \in 0 .. MaxTime /\ bytes' \in Nat
    BY <1>2, PollAssumption DEF Pass, TypeInv, TypeOK
  <2>2. UNCHANGED <<enabled, lastRun, tick, sent, queue, poll, metrics, faults>>
    BY <1>2 DEF Pass
  <2> QED BY <2>1, <2>2 DEF TypeInv, TypeOK, InWork
<1>3. CASE UNCHANGED pollVars
  BY <1>3 DEF pollVars, TypeInv, TypeOK, InWork
<1> QED BY <1>1, <1>2, <1>3, TickType, PollType DEF PollNext

\* The variables keep their types, for any number of configs, ticks, polls
\* and faults.
THEOREM PollTypeCorrect == PollSpec => []TypeOK
<1>1. TypeInv => TypeOK
  BY DEF TypeInv
<1> QED BY <1>1, InitType, NextType, PTL DEF PollSpec
-----------------------------------------------------------------------------
\* Two readings that are less than a wrap apart give what lies between them.
LEMMA Unwrapped ==
  ASSUME NEW a \in Nat, NEW b \in Nat, b <= a, a - b < Wrap
  PROVE  Delta(a % Wrap, b % Wrap) = a - b
<1> DEFINE r == a % Wrap
           s == b % Wrap
<1>1. PICK q \in Int, p \in Int :
        /\ a = Wrap * q + r /\ r \in Int /\ 0 <= r /\ r < Wrap
        /\ b = Wrap * p + s /\ s \in Int /\ 0 <= s /\ s < Wrap
        /\ Wrap \in Nat \ {0}
  <2>1. /\ a = Wrap * (a \div Wrap) + (a % Wrap) /\ a \div Wrap \in Int
        /\ 0 <= a % Wrap /\ a % Wrap < Wrap /\ a % Wrap \in Int
    BY PollAssumption
  <2>2. /\ b = Wrap * (b \div Wrap) + (b % Wrap) /\ b \div Wrap \in Int
        /\ 0 <= b % Wrap /\ b % Wrap < Wrap /\ b % Wrap \in Int
    BY PollAssumption
  <2> QED BY <2>1, <2>2, PollAssumption
<1> HIDE DEF r, s
<1>2. p = q \/ p + 1 = q
  <2>1. ASSUME p >= q + 1 PROVE FALSE
    <3>1. Wrap * p >= Wrap * (q + 1) /\ Wrap * (q + 1) = Wrap * q + Wrap
      BY <1>1, <2>1
    <3> QED BY <1>1, <3>1
  <2>2. ASSUME q >= p + 2 PROVE FALSE
    <3>1. Wrap * q >= Wrap * (p + 2) /\ Wrap * (p + 2) = Wrap * p + 2 * Wrap
      BY <1>1, <2>2
    <3> QED BY <1>1, <3>1
  <2> QED BY <2>1, <2>2
<1>3. Delta(r, s) = a - b
  <2>1. CASE p = q
    BY <1>1, <2>1 DEF Delta
  <2>2. CASE p + 1 = q
    <3>1. Wrap * q = Wrap * p + Wrap
      BY <1>1, <2>2
    <3> QED BY <1>1, <3>1 DEF Delta
  <2> QED BY <1>2, <2>1, <2>2
<1> QED BY <1>3 DEF r, s


\* What has been read is no more than there is now.
Stored == \A i \in DOMAIN metrics :
  /\ metrics[i].total \in Nat /\ metrics[i].total <= bytes
  /\ metrics[i].reading = metrics[i].total % Wrap

\* The traffic since the newest row.
Since(p) == poll[p].total - metrics[Len(metrics)].total

\* A poll has read no less than is in the rows that it found; if there is none
\* newer, its traffic is that since the last of them.
ReadNow == \A p \in Pollers : poll[p].at \in {"compare", "store"} =>
  /\ poll[p].total <= bytes /\ poll[p].after <= Len(metrics)
  /\ \A i \in 1 .. poll[p].after : metrics[i].total <= poll[p].total
  /\ poll[p].at = "store" /\ poll[p].after = Len(metrics) /\ metrics # <<>>
       => (Since(p) < Wrap => poll[p].delta = Since(p))

DeltaInv == DeltaTrue /\ Stored /\ ReadNow

LEMMA CompareDelta ==
  ASSUME TypeInv, DeltaInv, NEW p \in Pollers, Compare(p)
  PROVE  DeltaInv'
<1>1. /\ poll'[p].at = "store" /\ poll'[p].total = poll[p].total
      /\ poll'[p].after = poll[p].after /\ poll'[p].delta = Traffic(p)
      /\ Keeps(p) /\ UNCHANGED <<bytes, metrics>> /\ poll[p].at = "compare"
  BY CompareMoves DEF Compare
<1>2. /\ poll[p].total \in Nat /\ poll[p].reading = poll[p].total % Wrap
      /\ poll[p].total <= bytes /\ poll[p].after <= Len(metrics)
      /\ \A i \in 1 .. poll[p].after : metrics[i].total <= poll[p].total
  <2>1. poll[p] \in Poll
    BY DEF TypeInv, TypeOK
  <2> QED BY <1>1, <2>1, PollFields DEF DeltaInv, ReadNow, TypeInv, InWork
<1>3. ASSUME poll[p].after = Len(metrics), metrics # <<>>, Since(p) < Wrap
      PROVE  Traffic(p) = Since(p)
  <2> DEFINE R == [reading : 0 .. Wrap - 1, total : Nat, after : Nat,
                   delta : 0 .. Wrap - 1]
  <2>1. metrics \in Seq(R)
    BY DEF TypeInv, TypeOK
  <2> HIDE DEF R
  <2>2. Len(metrics) \in DOMAIN metrics /\ Len(metrics) \in 1 .. Len(metrics)
    BY <1>3, <2>1
  <2>3. PICK a \in Nat, b \in Nat :
          a = poll[p].total /\ b = metrics[Len(metrics)].total
    BY <1>2, <2>2 DEF DeltaInv, Stored
  <2>4. b <= a /\ a - b < Wrap
    BY <1>2, <1>3, <2>2, <2>3 DEF Since
  <2>5. Delta(a % Wrap, b % Wrap) = a - b
    BY <2>4, Unwrapped
  <2>6. metrics[Len(metrics)].reading = b % Wrap
    BY <2>2, <2>3 DEF DeltaInv, Stored
  <2> QED BY <1>2, <1>3, <2>3, <2>5, <2>6 DEF Traffic, Since
<1>4. Since(p)' = Since(p)
  BY <1>1 DEF Since
<1>5. \A q \in Pollers : q # p => poll'[q] = poll[q] /\ Since(q)' = Since(q)
  BY <1>1 DEF Keeps, Since
<1>6. ReadNow'
  BY <1>1, <1>2, <1>3, <1>4, <1>5 DEF ReadNow, DeltaInv
<1> QED BY <1>1, <1>6 DEF DeltaInv, DeltaTrue, Stored

LEMMA StoreDelta ==
  ASSUME TypeInv, DeltaInv, NEW p \in Pollers, Store(p)
  PROVE  DeltaInv'
<1> DEFINE R == [reading : 0 .. Wrap - 1, total : Nat, after : Nat,
                 delta : 0 .. Wrap - 1]
           m == [reading |-> poll[p].reading, total |-> poll[p].total,
                 after |-> poll[p].after, delta |-> poll[p].delta]
<1>0. metrics \in Seq(R)
  BY DEF TypeInv, TypeOK
<1> HIDE DEF R
<1>1. /\ poll'[p].at = "record" /\ metrics' = Append(metrics, m)
      /\ poll[p].at = "store" /\ Keeps(p) /\ bytes' = bytes
  BY StoreMoves DEF Store
<1>2. /\ m.reading = poll[p].reading /\ m.total = poll[p].total
      /\ m.after = poll[p].after /\ m.delta = poll[p].delta
  OBVIOUS
<1> HIDE DEF m
<1>3. /\ poll[p].total \in Nat /\ poll[p].reading = poll[p].total % Wrap
      /\ poll[p].total <= bytes
  <2>1. poll[p] \in Poll
    BY DEF TypeInv, TypeOK
  <2> QED BY <1>1, <2>1, PollFields DEF DeltaInv, ReadNow, TypeInv, InWork
<1>4. PICK n \in Nat : n = Len(metrics)
  BY <1>0
<1>5. /\ Len(metrics') = n + 1 /\ DOMAIN metrics' = 1 .. n + 1
      /\ DOMAIN metrics = 1 .. n /\ metrics'[n + 1] = m
      /\ \A i \in 1 .. n : metrics'[i] = metrics[i]
  BY <1>0, <1>1, <1>4
<1>6. Stored'
  BY <1>1, <1>2, <1>3, <1>5 DEF DeltaInv, Stored
<1>7. DeltaTrue'
  <2> DEFINE d(i) == metrics'[i].total - metrics'[i - 1].total
  <2> SUFFICES ASSUME NEW i \in 2 .. n + 1, metrics'[i].after = i - 1,
                      d(i) < Wrap
               PROVE  metrics'[i].delta = d(i)
    BY <1>5 DEF DeltaTrue
  <2>1. CASE i <= n
    <3>1. i \in 1 .. n /\ i - 1 \in 1 .. n /\ i \in 2 .. Len(metrics)
      BY <1>4, <2>1
    <3> QED BY <1>5, <3>1 DEF DeltaInv, DeltaTrue
  <2>2. CASE i = n + 1
    <3>1. i - 1 = n /\ n \in 1 .. n /\ metrics # <<>>
      BY <1>4, <2>2
    <3>2. poll[p].after = Len(metrics) /\ d(i) = Since(p)
      BY <1>2, <1>4, <1>5, <2>2, <3>1 DEF Since
    <3>3. poll[p].delta = Since(p)
      BY <1>1, <3>1, <3>2 DEF DeltaInv, ReadNow
    <3> QED BY <1>2, <1>5, <2>2, <3>2, <3>3
  <2> QED BY <2>1, <2>2
<1>8. ReadNow'
  <2> SUFFICES ASSUME NEW q \in Pollers, poll'[q].at \in {"compare", "store"}
               PROVE  /\ poll'[q].total <= bytes' /\ poll'[q].after <= n
                      /\ \A i \in 1 .. poll'[q].after :
                           metrics'[i].total <= poll'[q].total
    <3>1. \A q \in Pollers : poll'[q].after <= n
                               => poll'[q].after # Len(metrics')
                                  /\ poll'[q].after <= Len(metrics')
      <4>1. \A q \in Pollers : poll'[q].after \in Nat
        <5>1. poll' \in [Pollers -> Poll]
          BY <1>1 DEF Keeps
        <5> QED BY <5>1, PollFields
      <4> QED BY <1>4, <1>5, <4>1
    <3> QED BY <3>1 DEF ReadNow
  <2>1. q # p /\ poll'[q] = poll[q]
    BY <1>1 DEF Keeps
  <2>2. poll[q].after \in Nat
    <3>1. poll[q] \in Poll
      BY DEF TypeInv, TypeOK
    <3> QED BY <3>1, PollFields
  <2>3. /\ poll[q].total <= bytes /\ poll[q].after <= n
        /\ \A i \in 1 .. poll[q].after : metrics[i].total <= poll[q].total
    BY <1>4, <2>1 DEF DeltaInv, ReadNow
  <2> QED BY <1>1, <1>4, <1>5, <2>1, <2>2, <2>3
<1> QED BY <1>6, <1>7, <1>8 DEF DeltaInv

LEMMA PollDelta ==
  ASSUME TypeInv, DeltaInv, NEW p \in Pollers, PollStep(p) \/ PollFails(p)
  PROVE  DeltaInv'
<1>1. CASE Walk(p)
  <2>1. /\ poll'[p].at = "compare" /\ poll'[p].total = bytes
        /\ poll'[p].after = Len(metrics) /\ Keeps(p)
        /\ UNCHANGED <<bytes, metrics>>
    BY <1>1, WalkMoves DEF Walk
  <2>2. /\ Len(metrics) \in Nat /\ bytes \in Nat
        /\ \A i \in 1 .. Len(metrics) : metrics[i].total <= bytes
    <3> DEFINE R == [reading : 0 .. Wrap - 1, total : Nat, after : Nat,
                     delta : 0 .. Wrap - 1]
    <3>1. metrics \in Seq(R) /\ bytes \in Nat
      BY DEF TypeInv, TypeOK
    <3> HIDE DEF R
    <3>2. Len(metrics) \in Nat /\ DOMAIN metrics = 1 .. Len(metrics)
      BY <3>1
    <3> QED BY <3>1, <3>2 DEF DeltaInv, Stored
  <2>3. \A q \in Pollers : q # p => poll'[q] = poll[q] /\ Since(q)' = Since(q)
    BY <2>1 DEF Keeps, Since
  <2>4. ReadNow'
    BY <2>1, <2>2, <2>3 DEF ReadNow, DeltaInv
  <2> QED BY <2>1, <2>4 DEF DeltaInv, DeltaTrue, Stored
<1>2. CASE Deliver(p) \/ WalkFails(p) \/ Record(p) \/ PollFails(p)
  <2>1. /\ poll'[p].at \notin {"compare", "store"} /\ Keeps(p)
        /\ UNCHANGED <<bytes, metrics>>
    <3>1. UNCHANGED <<bytes, metrics>>
      BY <1>2 DEF Deliver, WalkFails, Record, PollFails
    <3> QED BY <1>2, <3>1, DeliverMoves, WalkFailsMoves, EndMoves
  <2>2. \A q \in Pollers : q # p => poll'[q] = poll[q] /\ Since(q)' = Since(q)
    BY <2>1 DEF Keeps, Since
  <2>3. ReadNow'
    BY <2>1, <2>2 DEF ReadNow, DeltaInv
  <2> QED BY <2>1, <2>3 DEF DeltaInv, DeltaTrue, Stored
<1> QED BY <1>1, <1>2, CompareDelta, StoreDelta DEF PollStep

LEMMA NextDelta == TypeInv /\ DeltaInv /\ [PollNext]_pollVars => DeltaInv'
<1> SUFFICES ASSUME TypeInv, DeltaInv, [PollNext]_pollVars PROVE DeltaInv'
  OBVIOUS
<1>1. ASSUME UNCHANGED <<bytes, poll, metrics>> PROVE DeltaInv'
  BY <1>1 DEF DeltaInv, DeltaTrue, Stored, ReadNow, Since
<1>2. ASSUME NEW t \in Tickers, TickStep(t) \/ TickFails(t) \/ TickCrashes(t)
      PROVE  DeltaInv'
  BY <1>1, <1>2 DEF TickStep, StartTick, Mark, EndTick, Dispatch, TickFails,
                    TickCrashes
<1>3. ASSUME NEW c \in Configs, SetEnabled(c) PROVE DeltaInv'
  BY <1>1, <1>3 DEF SetEnabled
<1>4. CASE UNCHANGED pollVars
  BY <1>1, <1>4 DEF pollVars
<1>5. CASE Pass
  <2>1. /\ UNCHANGED <<poll, metrics>> /\ bytes \in Nat
        /\ bytes' = bytes \/ bytes' = bytes + 1
    BY <1>5 DEF Pass, TypeInv, TypeOK
  <2>2. Stored'
    BY <2>1 DEF DeltaInv, Stored
  <2>3. \A q \in Pollers : poll[q].total \in Nat /\ Since(q)' = Since(q)
    <3>1. \A q \in Pollers : poll[q] \in Poll
      BY DEF TypeInv, TypeOK
    <3> QED BY <2>1, <3>1, PollFields DEF Since
  <2>4. ReadNow'
    BY <2>1, <2>3 DEF ReadNow, DeltaInv
  <2> QED BY <2>1, <2>2, <2>4 DEF DeltaInv, DeltaTrue
<1> QED BY <1>2, <1>3, <1>4, <1>5, PollDelta DEF PollNext

\* The traffic stored with a reading is what the device received since the
\* reading of the row before, if that row was there when the reading was taken
\* and the counter has not wrapped more than once since: whatever else polls
\* the device, fails, is interrupted or repeated (_store_to_target_table).
THEOREM TrafficTrue == PollSpec => []DeltaTrue
<1>1. PollInit => DeltaInv
  <2> SUFFICES ASSUME PollInit PROVE DeltaInv
    OBVIOUS
  <2>1. /\ metrics = <<>> /\ \A p \in Pollers : poll[p].at = "idle"
    BY DEF PollInit, NoPoll
  <2> QED BY <2>1 DEF DeltaInv, DeltaTrue, Stored, ReadNow
<1>2. DeltaInv => DeltaTrue
  BY DEF DeltaInv
<1> QED BY <1>1, <1>2, InitType, NextType, NextDelta, PTL DEF PollSpec
=============================================================================
