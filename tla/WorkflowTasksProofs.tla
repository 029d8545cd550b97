------------------------- MODULE WorkflowTasksProofs -------------------------
(***************************************************************************)
(* Proofs about WorkflowTasks: what stays in the rows of a workflow is the *)
(* workflow's own result, for any workflows, processes, chunks, lost       *)
(* processes and redeliveries.  The heart of it is a count: of a chord no  *)
(* more messages are on their way than chunks are left of it, and the      *)
(* callback is on its way only when no chunk is and nothing has answered,  *)
(* unless a process is lost that has not acknowledged what was counted.    *)
(* And no row stays running: a run that will close it is on its way.       *)
(***************************************************************************)
EXTENDS WorkflowTasks, FiniteSetTheorems, FunctionTheorems, SequenceTheorems,
        TLAPS

USE TasksAssumption

Messages ==
  [task : {"run", "scan", "sync"}, id : Workflows, chord : Nat]

Stages(task) ==
  CASE task = "run"  -> {"create", "start", "nodes", "wait", "finish",
                         "except", "return"}
    [] task = "scan" -> {"scan", "return"}
    [] task = "sync" -> {"sync", "synced", "return"}
    [] OTHER         -> {}
AllStages == UNION {Stages(t) : t \in {"run", "scan", "sync"}}

\* A process that has a message is at a stage of its task.
Process ==
  {p \in [at : AllStages, msg : Messages, chord : Nat] :
     p.at \in Stages(p.msg.task)}

ChordRow ==
  [by : Workflows, size : Nat \ {0}, left : Nat, answer : {None, "ok", "error"},
   taken : BOOLEAN, again : BOOLEAN]
ResultRow ==
  [status : {"running", "success", "failed"},
   result : {None, "workflow", "discovery"}]

TypeInv ==
  /\ queue \in Seq(Messages)
  /\ slot \in [Slots -> {Idle} \cup Process]
  /\ rows \in [Workflows -> Seq(ResultRow)]
  /\ chords \in Seq(ChordRow)
  /\ faults \in Nat
-----------------------------------------------------------------------------
\* The messages of a chord, in the queue q and in the processes sl that have
\* not done them yet.
Of(m, c)      == m.task # "run" /\ m.chord = c
Places(q, c)  == {i \in DOMAIN q : Of(q[i], c)}
Held(sl, c)   == {s \in Slots : /\ sl[s] # Idle /\ sl[s].at # "return"
                                /\ Of(sl[s].msg, c)}

Answered(chord) == IF chord.answer = None THEN 0 ELSE 1
Room(chord)     == IF chord.left = 0 THEN 1 ELSE chord.left

\* The chords of which nothing was delivered again after it was counted.
Counted == {c \in DOMAIN chords : ~ chords[c].again}

\* A message of a chord names the workflow that has sent it.
Fits(m) ==
  m.task # "run" =>
    m.chord \in DOMAIN chords /\ chords[m.chord].by = m.id

\* It is the callback when no chunk is left.
Sorted(m) ==
  m.task # "run" /\ m.chord \in Counted =>
    (m.task = "sync" <=> chords[m.chord].left = 0)

\* No more messages of a chord are on their way than it has chunks left, an
\* error among the answers taking the place of one.
Bounded(c) ==
  /\ IsFiniteSet(Held(slot, c))
  /\ Cardinality(Places(queue, c)) + Cardinality(Held(slot, c))
       + Answered(chords[c]) <= Room(chords[c])

ChordInv ==
  /\ \A i \in DOMAIN queue : Fits(queue[i]) /\ Sorted(queue[i])
  /\ \A s \in Slots : slot[s] # Idle =>
       Fits(slot[s].msg) /\ (At(s, "return") \/ Sorted(slot[s].msg))
  /\ \A s \in Slots : At(s, "wait") =>
       slot[s].chord \in DOMAIN chords /\ chords[slot[s].chord].by = Id(s)
  /\ \A c \in Counted : Bounded(c)
  /\ \A c \in DOMAIN chords : chords[c].taken => chords[c].answer # None

\* A workflow that has been answered once by all its discoveries: its result
\* is in its rows, or it is still to put it there.
AllTaken(w) ==
  \A c \in DOMAIN chords :
    chords[c].by = w => chords[c].taken /\ ~ chords[c].again
NoneLeft(w) ==
  \A i \in DOMAIN rows[w] : rows[w][i] # Row("success", "discovery")
Pending(w) ==
  \/ \E i \in DOMAIN queue : queue[i].task = "run" /\ queue[i].id = w
  \/ \E s \in Slots : IsRun(s) /\ Id(s) = w /\ ~ At(s, "return")

ResultInv ==
  \A w \in Workflows \ lost : AllTaken(w) => NoneLeft(w) \/ Pending(w)

TasksInv == TypeInv /\ ChordInv /\ ResultInv
-----------------------------------------------------------------------------
\* A process has a message unless it is idle.
LEMMA Busy ==
  ASSUME TypeInv, NEW s \in Slots
  PROVE  /\ At(s, "idle") <=> slot[s] = Idle
         /\ slot[s] # Idle =>
              /\ slot[s] \in Process /\ slot[s].msg \in Messages
              /\ slot[s].at \in Stages(slot[s].msg.task)
              /\ Id(s) \in Workflows
<1>1. slot[s] \in {Idle} \cup Process
  BY DEF TypeInv
<1>2. Idle.at = "idle"
  BY DEF Idle
<1>3. ASSUME slot[s] \in Process
      PROVE  slot[s].at # "idle" /\ slot[s].msg \in Messages
             /\ slot[s].at \in Stages(slot[s].msg.task) /\ Id(s) \in Workflows
  BY <1>3 DEF Process, AllStages, Stages, Messages, Id
<1> QED
  BY <1>1, <1>2, <1>3 DEF At

\* The places of a chord's messages in a queue can be counted.
LEMMA PlacesFinite ==
  ASSUME NEW q \in Seq(Messages), NEW c
  PROVE  IsFiniteSet(Places(q, c)) /\ Cardinality(Places(q, c)) \in Nat
<1>1. IsFiniteSet(1 .. Len(q))
  BY FS_Interval
<1>2. Places(q, c) \in SUBSET (1 .. Len(q))
  BY DEF Places
<1>3. IsFiniteSet(Places(q, c))
  BY <1>1, <1>2, FS_Subset
<1> QED
  BY <1>3, FS_CardinalityType

\* The head of the queue takes its place with it.
LEMMA PlacesTail ==
  ASSUME NEW q \in Seq(Messages), q # <<>>, NEW c
  PROVE  Cardinality(Places(Tail(q), c)) <=
           Cardinality(Places(q, c)) - (IF Of(Head(q), c) THEN 1 ELSE 0)
<1> DEFINE rest == Places(q, c) \ {1}
           f == [i \in Places(Tail(q), c) |-> i + 1]
<1>1. 1 \in Places(q, c) <=> Of(Head(q), c)
  BY DEF Places
<1>2. /\ IsFiniteSet(rest)
      /\ Cardinality(rest) =
           Cardinality(Places(q, c)) - (IF Of(Head(q), c) THEN 1 ELSE 0)
  BY <1>1, PlacesFinite, FS_RemoveElement
<1>3. \A i \in DOMAIN Tail(q) :
        i \in Nat /\ i >= 1 /\ i + 1 \in DOMAIN q /\ Tail(q)[i] = q[i + 1]
  OBVIOUS
<1>4. f \in Injection(Places(Tail(q), c), rest)
  <2>1. \A i \in Places(Tail(q), c) : i \in Nat /\ i + 1 \in rest
    BY <1>3 DEF Places
  <2> QED BY <2>1 DEF Injection, IsInjective
<1>5. Cardinality(Places(Tail(q), c)) <= Cardinality(rest)
  BY <1>2, <1>4, FS_Injection
<1> QED BY <1>2, <1>5

\* A message that is sent comes after the others.
LEMMA Appended ==
  ASSUME NEW q \in Seq(Messages), NEW m \in Messages
  PROVE  LET n == Len(q) + 1
         IN  /\ Append(q, m) \in Seq(Messages)
             /\ DOMAIN Append(q, m) = DOMAIN q \cup {n} /\ n \notin DOMAIN q
             /\ Append(q, m)[n] = m
             /\ \A i \in DOMAIN q : Append(q, m)[i] = q[i]
             /\ \A i \in DOMAIN Append(q, m) :
                  \/ Append(q, m)[i] = m
                  \/ i \in DOMAIN q /\ Append(q, m)[i] = q[i]
<1> DEFINE n == Len(q) + 1
<1>1. /\ Append(q, m) \in Seq(Messages)
      /\ DOMAIN Append(q, m) = DOMAIN q \cup {n} /\ n \notin DOMAIN q
      /\ Append(q, m)[n] = m
      /\ \A i \in DOMAIN q : Append(q, m)[i] = q[i]
  OBVIOUS
<1> QED BY ONLY <1>1

LEMMA PlacesAppend ==
  ASSUME NEW q \in Seq(Messages), NEW m \in Messages, NEW c
  PROVE  Cardinality(Places(Append(q, m), c)) =
           Cardinality(Places(q, c)) + (IF Of(m, c) THEN 1 ELSE 0)
<1> DEFINE n == Len(q) + 1
<1>1. /\ DOMAIN Append(q, m) = DOMAIN q \cup {n} /\ n \notin DOMAIN q
      /\ Append(q, m)[n] = m
      /\ \A i \in DOMAIN q : Append(q, m)[i] = q[i]
  BY Appended
<1>2. CASE Of(m, c)
  <2>1. Places(Append(q, m), c) = Places(q, c) \cup {n} /\ n \notin Places(q, c)
    BY <1>1, <1>2 DEF Places
  <2> QED BY <1>2, <2>1, PlacesFinite, FS_AddElement
<1>3. CASE ~ Of(m, c)
  <2>1. Places(Append(q, m), c) = Places(q, c)
    BY <1>1, <1>3 DEF Places
  <2> QED BY <1>3, <2>1, PlacesFinite
<1> QED BY <1>2, <1>3

\* The same message n times: it takes n places where its chord has none, and
\* none of another chord.
Copies(m, n) == [i \in 1 .. n |-> m]

LEMMA Concatenated ==
  ASSUME NEW q \in Seq(Messages), NEW n \in Nat \ {0}, NEW m \in Messages
  PROVE  LET all == q \o Copies(m, n)
         IN  /\ all \in Seq(Messages)
             /\ DOMAIN all = DOMAIN q \cup (Len(q) + 1 .. Len(q) + n)
             /\ \A i \in DOMAIN q : i \notin Len(q) + 1 .. Len(q) + n
             /\ \A i \in DOMAIN q : all[i] = q[i]
             /\ \A i \in Len(q) + 1 .. Len(q) + n : all[i] = m
<1>1. Copies(m, n) \in Seq(Messages) /\ Len(Copies(m, n)) = n
      /\ \A i \in 1 .. n : Copies(m, n)[i] = m
  BY DEF Copies
<1> QED BY <1>1

LEMMA PlacesConcat ==
  ASSUME NEW q \in Seq(Messages), NEW n \in Nat \ {0}, NEW m \in Messages,
         NEW c
  PROVE  /\ ~ Of(m, c) =>
              Places(q \o Copies(m, n), c) = Places(q, c)
         /\ Of(m, c) /\ Places(q, c) = {} =>
              Cardinality(Places(q \o Copies(m, n), c)) = n
<1> DEFINE all == q \o Copies(m, n)
<1>1. /\ DOMAIN all = DOMAIN q \cup (Len(q) + 1 .. Len(q) + n)
      /\ \A i \in DOMAIN q : i \notin Len(q) + 1 .. Len(q) + n
      /\ \A i \in DOMAIN q : all[i] = q[i]
      /\ \A i \in Len(q) + 1 .. Len(q) + n : all[i] = m
  BY Concatenated
<1> HIDE DEF all
<1>2. ~ Of(m, c) => Places(all, c) = Places(q, c)
  BY <1>1 DEF Places
<1>3. ASSUME Of(m, c), Places(q, c) = {}
      PROVE  Cardinality(Places(all, c)) = n
  <2>1. Places(all, c) = Len(q) + 1 .. Len(q) + n
    BY <1>1, <1>3 DEF Places
  <2>2. Cardinality(Len(q) + 1 .. Len(q) + n) = n
    BY FS_Interval
  <2> QED BY <2>1, <2>2
<1> QED BY <1>2, <1>3 DEF all

\* What a process takes, keeps or acknowledges, and the messages held.
LEMMA HeldTake ==
  ASSUME TypeInv, NEW s \in Slots, slot[s] = Idle,
         NEW p \in Process, slot' = [slot EXCEPT ![s] = p],
         p.at # "return", NEW c, IsFiniteSet(Held(slot, c))
  PROVE  /\ IsFiniteSet(Held(slot', c))
         /\ Cardinality(Held(slot', c)) =
              Cardinality(Held(slot, c)) + (IF Of(p.msg, c) THEN 1 ELSE 0)
         /\ Cardinality(Held(slot, c)) \in Nat
<1>1. p # Idle
  BY DEF Idle, Process, AllStages, Stages
<1>2. s \notin Held(slot, c)
  BY DEF Held
<1>3. Held(slot', c) =
        IF Of(p.msg, c) THEN Held(slot, c) \cup {s} ELSE Held(slot, c)
  BY <1>1, <1>2 DEF Held, TypeInv
<1> QED
  BY <1>2, <1>3, FS_AddElement, FS_CardinalityType

\* A process that has done its message, or is rid of it.
Releases(s) ==
  /\ slot' \in [Slots -> {Idle} \cup Process]
  /\ \A r \in Slots \ {s} : slot'[r] = slot[r]
  /\ \/ slot'[s] = Idle
     \/ slot'[s].at = "return" /\ slot'[s].msg = slot[s].msg

LEMMA HeldEnd ==
  ASSUME TypeInv, NEW s \in Slots, slot[s] # Idle, Releases(s),
         NEW c, IsFiniteSet(Held(slot, c))
  PROVE  /\ IsFiniteSet(Held(slot', c))
         /\ Held(slot', c) = Held(slot, c) \ {s}
         /\ Cardinality(Held(slot', c)) =
              Cardinality(Held(slot, c))
                - (IF ~ At(s, "return") /\ Of(slot[s].msg, c) THEN 1 ELSE 0)
         /\ Cardinality(Held(slot, c)) \in Nat
<1>1. Held(slot', c) = Held(slot, c) \ {s}
  BY DEF Releases, Held
<1>2. s \in Held(slot, c) <=> ~ At(s, "return") /\ Of(slot[s].msg, c)
  BY DEF Held, At
<1> QED
  BY <1>1, <1>2, FS_RemoveElement, FS_CardinalityType

\* A process that goes on with its message.
Continues(s) ==
  /\ slot' \in [Slots -> {Idle} \cup Process]
  /\ \A r \in Slots \ {s} : slot'[r] = slot[r]
  /\ slot'[s] # Idle /\ slot'[s].msg = slot[s].msg

LEMMA HeldSame ==
  ASSUME TypeInv, NEW s \in Slots, slot[s] # Idle, Continues(s),
         slot[s].msg.task = "run" \/ {slot[s].at, slot'[s].at} \cap {"return"} = {},
         NEW c
  PROVE  Held(slot', c) = Held(slot, c)
BY DEF Continues, Held, Of

\* A process that goes to another stage of its task.
LEMMA GoesOn ==
  ASSUME TypeInv, NEW s \in Slots, slot[s] # Idle,
         NEW at \in Stages(slot[s].msg.task), Goes(s, at)
  PROVE  /\ Continues(s)
         /\ slot'[s].at = at
         /\ slot'[s].chord = slot[s].chord
         /\ slot' = [slot EXCEPT ![s] = slot'[s]]
<1> DEFINE p == [slot[s] EXCEPT !.at = at]
<1>1. slot[s] \in Process /\ slot[s].msg \in Messages
  BY Busy
<1>2. at \in AllStages
  <2>1. slot[s].msg.task \in {"run", "scan", "sync"}
    BY <1>1 DEF Messages
  <2> QED BY <2>1 DEF AllStages
<1>3. p \in Process /\ p.at = at /\ p.msg = slot[s].msg
      /\ p.chord = slot[s].chord
  BY <1>1, <1>2 DEF Process
<1>4. p # Idle
  BY <1>3 DEF Idle, Stages
<1>5. slot' = [slot EXCEPT ![s] = p]
  BY DEF Goes, TypeInv
<1> HIDE DEF p
<1>6. slot'[s] = p /\ \A r \in Slots \ {s} : slot'[r] = slot[r]
  BY <1>5 DEF TypeInv
<1>7. slot' \in [Slots -> {Idle} \cup Process]
  BY <1>3, <1>5 DEF TypeInv
<1> QED BY <1>3, <1>4, <1>5, <1>6, <1>7 DEF Continues

\* The stage of a process tells its task, until it returns.
LEMMA Staged ==
  ASSUME TypeInv, NEW s \in Slots
  PROVE  /\ At(s, "return") => slot[s] # Idle
         /\ slot[s].at \in Stages("run") /\ ~ At(s, "return") =>
              slot[s] # Idle /\ slot[s].msg.task = "run"
         /\ At(s, "scan") => slot[s] # Idle /\ slot[s].msg.task = "scan"
         /\ slot[s].at \in Stages("sync") /\ ~ At(s, "return") =>
              slot[s] # Idle /\ slot[s].msg.task = "sync"
<1>1. Idle.at = "idle"
  BY DEF Idle
<1>2. slot[s] # Idle => slot[s].msg.task \in {"run", "scan", "sync"}
  BY Busy DEF Messages
<1>3. slot[s] # Idle => slot[s].at \in Stages(slot[s].msg.task)
  BY Busy
<1> QED BY <1>1, <1>2, <1>3 DEF Stages, At

LEMMA UpdateRows ==
  ASSUME TypeInv, NEW w \in Workflows,
         NEW status \in {"running", "success", "failed"},
         NEW result \in {None, "workflow", "discovery"},
         UpdateExecution(w, status, result)
  PROVE  /\ rows' \in [Workflows -> Seq(ResultRow)]
         /\ \A v \in Workflows \ {w} : rows'[v] = rows[v]
         /\ DOMAIN rows'[w] = DOMAIN rows[w]
         /\ \A i \in DOMAIN rows'[w] :
              /\ i \in DOMAIN rows[w]
              /\ rows'[w][i] =
                   Row(status, IF result = None THEN rows[w][i].result
                               ELSE result)
<1> DEFINE new == [i \in DOMAIN rows[w] |->
                     Row(status, IF result = None THEN rows[w][i].result
                                 ELSE result)]
<1>1. rows' = [rows EXCEPT ![w] = new]
  BY DEF UpdateExecution
<1>2. rows[w] \in Seq(ResultRow)
  BY DEF TypeInv
<1>3. \A i \in DOMAIN rows[w] :
        Row(status, IF result = None THEN rows[w][i].result ELSE result)
          \in ResultRow
  <2>1. \A i \in DOMAIN rows[w] : rows[w][i] \in ResultRow
    BY <1>2
  <2>2. \A i \in DOMAIN rows[w] :
          rows[w][i].result \in {None, "workflow", "discovery"}
    BY <2>1 DEF ResultRow
  <2> QED BY <2>2 DEF Row, ResultRow
<1>4. new \in Seq(ResultRow)
  BY <1>2, <1>3
<1> HIDE DEF new
<1>5. rows' \in [Workflows -> Seq(ResultRow)] /\ rows'[w] = new
      /\ \A v \in Workflows \ {w} : rows'[v] = rows[v]
  BY <1>1, <1>4 DEF TypeInv
<1> QED BY <1>5 DEF new

LEMMA EndTypes ==
  ASSUME TypeInv, NEW s \in Slots, slot[s] # Idle,
         Acknowledges(s) \/ Goes(s, "return")
  PROVE  /\ Releases(s)
         /\ Acknowledges(s) => slot'[s] = Idle
         /\ Goes(s, "return") => slot'[s].msg = slot[s].msg
<1>1. CASE Acknowledges(s)
  <2>1. slot' = [slot EXCEPT ![s] = Idle]
    BY <1>1 DEF Acknowledges
  <2>2. slot'[s] = Idle
    BY <2>1 DEF TypeInv
  <2>3. Goes(s, "return") => FALSE
    BY <2>2 DEF Goes, TypeInv, Idle
  <2> QED BY <2>1, <2>2, <2>3 DEF Releases, TypeInv
<1>2. CASE Goes(s, "return")
  <2>1. "return" \in Stages(slot[s].msg.task)
    BY Busy DEF Stages, Messages
  <2>2. Continues(s) /\ slot'[s].at = "return"
    BY <1>2, <2>1, GoesOn
  <2>3. slot'[s] # Idle
    BY <2>2 DEF Continues
  <2> QED BY <2>2, <2>3 DEF Releases, Continues, Acknowledges, TypeInv
<1> QED BY <1>1, <1>2

\* The messages of workflows, chunks and callbacks.
LEMMA MessageTypes ==
  ASSUME NEW w \in Workflows, NEW c \in Nat
  PROVE  Run(w) \in Messages /\ Scan(w, c) \in Messages
         /\ Sync(w, c) \in Messages
BY DEF Run, Scan, Sync, Messages

\* The first stage of a message.
LEMMA TakeTypes ==
  ASSUME TypeInv, NEW s \in Slots, Take(s)
  PROVE  /\ Head(queue) \in Messages /\ Tail(queue) \in Seq(Messages)
         /\ slot[s] = Idle
         /\ slot'[s] \in Process /\ slot'[s].msg = Head(queue)
         /\ slot'[s].at = (IF Head(queue).task = "run" THEN "create"
                           ELSE Head(queue).task)
         /\ slot' = [slot EXCEPT ![s] = slot'[s]]
<1>1. Head(queue) \in Messages /\ Tail(queue) \in Seq(Messages)
  BY DEF TypeInv, Take
<1>2. slot[s] = Idle
  BY Busy DEF Take
<1> DEFINE at == IF Head(queue).task = "run" THEN "create"
                 ELSE Head(queue).task
           p  == [at |-> at, msg |-> Head(queue), chord |-> 0]
<1>3. slot' = [slot EXCEPT ![s] = p]
  BY DEF Take
<1>4. p \in Process /\ p.at = at /\ p.msg = Head(queue)
  BY <1>1 DEF Process, Messages, AllStages, Stages
<1> HIDE DEF p
<1>5. slot'[s] = p
  BY <1>3 DEF TypeInv
<1> QED BY <1>1, <1>2, <1>3, <1>4, <1>5

\* A chord of which one field has changed.
LEMMA ChordTypes ==
  ASSUME TypeInv, NEW c \in DOMAIN chords, NEW r \in ChordRow,
         chords' = [chords EXCEPT ![c] = r]
  PROVE  /\ chords' \in Seq(ChordRow) /\ DOMAIN chords' = DOMAIN chords
         /\ chords'[c] = r
         /\ \A d \in DOMAIN chords \ {c} : chords'[d] = chords[d]
BY DEF TypeInv

\* The tasks are sent in some order.
LEMMA FirstQueue ==
  ASSUME TasksInit PROVE queue \in Seq({Run(w) : w \in Workflows})
<1> DEFINE runs == {Run(w) : w \in Workflows}
           f == [w \in Workflows |-> Run(w)]
<1>1. IsFiniteSet(runs)
  <2>1. f \in Surjection(Workflows, runs)
    BY DEF Surjection
  <2> QED BY <2>1, FS_Surjection, TasksAssumption
<1>2. queue = SetToSeq(runs)
  BY DEF TasksInit
<1> HIDE DEF runs
<1>3. /\ Cardinality(runs) \in Nat
      /\ \E g \in [1 .. Cardinality(runs) -> runs] : IsInjective(g)
  BY <1>1, FS_CardinalityType
  DEF ExistsBijection, Bijection, Injection, IsInjective
<1>4. SetToSeq(runs) \in [1 .. Cardinality(runs) -> runs]
  BY <1>3 DEF SetToSeq
<1>5. queue \in Seq(runs)
  BY <1>2, <1>3, <1>4
<1> QED BY <1>5 DEF runs

LEMMA FirstTypes == TasksInit => TypeInv
<1> SUFFICES ASSUME TasksInit PROVE TypeInv
  OBVIOUS
<1>1. queue \in Seq(Messages)
  <2>1. {Run(w) : w \in Workflows} \subseteq Messages
    BY DEF Run, Messages
  <2> QED BY <2>1, FirstQueue
<1> QED BY <1>1, TasksAssumption DEF TasksInit, TypeInv

\* What each step does to the types.
LEMMA TakeTyped ==
  ASSUME TypeInv, NEW s \in Slots, Take(s) PROVE TypeInv'
<1>1. slot' \in [Slots -> {Idle} \cup Process]
  BY TakeTypes DEF TypeInv
<1>2. queue' \in Seq(Messages)
  BY TakeTypes DEF Take
<1> QED BY <1>1, <1>2 DEF Take, TypeInv

\* The steps that go to another stage and change rows at most.
Stays(s) ==
  \/ CreateExecution(s) \/ StartExecution(s) \/ EndNodes(s) \/ GiveUp(s)
  \/ FinishExecution(s) \/ FailExecution(s)
  \/ At(s, "sync") /\ AggregateAndSync(s)
  \/ Fault /\ UNCHANGED rows
       /\ \/ At(s, "finish") /\ Goes(s, "except")
             /\ UNCHANGED <<queue, chords, lost>>
          \/ At(s, "sync") /\ Goes(s, "synced")
             /\ UNCHANGED <<queue, chords, lost>>

\* The steps that end a task and tell no other one.
Ends(s) ==
  \/ Return(s)
  \/ Fault /\ slot[s].at \in {"create", "start", "except"}
       /\ Acknowledges(s) /\ lost' = lost \cup {Id(s)}
       /\ UNCHANGED <<queue, chords, rows>>
  \/ Kill(s)

LEMMA StaysOn ==
  ASSUME TypeInv, NEW s \in Slots, Stays(s)
  PROVE  /\ slot[s] # Idle /\ Continues(s)
         /\ ~ At(s, "wait")' /\ slot'[s].at # "idle"
         /\ slot[s].msg.task = "run" \/ slot'[s].at # "return"
         /\ UNCHANGED <<queue, chords, lost>>
         /\ slot[s].at = "return" => FALSE
         /\ faults' \in Nat
<1> DEFINE ats == Stages("run") \cup Stages("sync")
<1>1. /\ slot[s].at \in ats
      /\ UNCHANGED <<queue, chords, lost>>
      /\ slot[s].at # "return"
      /\ faults' \in {faults, faults + 1}
      /\ \E at \in ats :
           /\ Goes(s, at) /\ at # "wait" /\ at # "idle"
           /\ slot[s].at \in Stages("run") => at \in Stages("run")
           /\ slot[s].at \in Stages("sync") =>
                at \in Stages("sync") /\ at # "return"
  BY DEF Stays, CreateExecution, StartExecution, EndNodes, GiveUp,
         FinishExecution, FailExecution, AggregateAndSync, Fault, At, Stages
<1>2. slot[s] # Idle
      /\ (slot[s].at \in Stages("run") => slot[s].msg.task = "run")
      /\ (slot[s].at \in Stages("sync") => slot[s].msg.task = "sync")
  BY <1>1, Staged DEF At
<1>3. PICK at \in Stages(slot[s].msg.task) :
        /\ Goes(s, at) /\ at # "wait" /\ at # "idle"
        /\ slot[s].msg.task = "run" \/ at # "return"
  BY <1>1, <1>2
<1>4. Continues(s) /\ slot'[s].at = at
  BY <1>2, <1>3, GoesOn
<1> QED BY <1>1, <1>2, <1>3, <1>4 DEF At, TypeInv

LEMMA StaysTyped ==
  ASSUME TypeInv, NEW s \in Slots, Stays(s) PROVE TypeInv'
<1>1. Id(s) \in Workflows
  BY StaysOn, Busy
<1>2. rows' \in [Workflows -> Seq(ResultRow)]
  <2>1. CASE CreateExecution(s)
    <3>1. rows[Id(s)] \in Seq(ResultRow)
      BY <1>1 DEF TypeInv
    <3>2. Append(rows[Id(s)], Row("running", None)) \in Seq(ResultRow)
      BY <3>1 DEF Row, ResultRow
    <3> QED BY <1>1, <2>1, <3>2 DEF CreateExecution, TypeInv
  <2>2. CASE UpdateExecution(Id(s), "running", None)
    BY <1>1, <2>2, UpdateRows
  <2>3. CASE UpdateExecution(Id(s), "success", "workflow")
    BY <1>1, <2>3, UpdateRows
  <2>4. CASE UpdateExecution(Id(s), "failed", None)
    BY <1>1, <2>4, UpdateRows
  <2>5. CASE UpdateExecution(Id(s), "success", "discovery")
    BY <1>1, <2>5, UpdateRows
  <2>6. CASE UNCHANGED rows
    BY <2>6 DEF TypeInv
  <2> QED
    BY <2>1, <2>2, <2>3, <2>4, <2>5, <2>6
    DEF Stays, StartExecution, EndNodes, GiveUp, FinishExecution,
        FailExecution, AggregateAndSync, At
<1> QED BY <1>2, StaysOn DEF TypeInv, Continues

LEMMA EndsOn ==
  ASSUME TypeInv, NEW s \in Slots, Ends(s)
  PROVE  /\ slot[s] # Idle /\ Acknowledges(s)
         /\ UNCHANGED <<queue, chords, rows>>
         /\ lost \subseteq lost'
         /\ Id(s) \in lost' \/ At(s, "return")
         /\ faults' \in Nat
<1>1. /\ Acknowledges(s) /\ UNCHANGED <<queue, chords, rows>>
      /\ lost \subseteq lost'
      /\ Id(s) \in lost' \/ At(s, "return")
      /\ faults' \in {faults, faults + 1}
  BY DEF Ends, Return, Kill, Fault
<1>2. slot[s] # Idle
  BY Staged, Busy DEF Ends, Return, Kill, IsRun, At, Stages
<1> QED BY <1>1, <1>2 DEF TypeInv

LEMMA EndsTyped ==
  ASSUME TypeInv, NEW s \in Slots, Ends(s) PROVE TypeInv'
BY EndsOn, EndTypes DEF TypeInv, Releases

\* A discovery is sent: n chunks of a new chord.
Sends(s, n) ==
  LET c == Len(chords) + 1
  IN  /\ At(s, "nodes")
      /\ chords' = Append(chords,
           [by |-> Id(s), size |-> n, left |-> n, answer |-> None,
            taken |-> FALSE, again |-> FALSE])
      /\ queue' = queue \o Copies(Scan(Id(s), c), n)
      /\ slot' = [slot EXCEPT ![s].at = "wait", ![s].chord = c]
      /\ UNCHANGED <<rows, lost, faults>>

LEMMA SendsOn ==
  ASSUME TypeInv, NEW s \in Slots, NEW n \in Chunks, Sends(s, n)
  PROVE  LET c == Len(chords) + 1
         IN  /\ slot[s] # Idle /\ Continues(s) /\ slot[s].msg.task = "run"
             /\ slot'[s].at = "wait" /\ slot'[s].chord = c
             /\ n \in Nat \ {0} /\ c \in Nat /\ c \notin DOMAIN chords
             /\ Scan(Id(s), c) \in Messages
             /\ chords' \in Seq(ChordRow) /\ queue' \in Seq(Messages)
             /\ DOMAIN chords' = DOMAIN chords \cup {c}
             /\ \A d \in DOMAIN chords : chords'[d] = chords[d]
             /\ chords'[c] = [by |-> Id(s), size |-> n, left |-> n,
                              answer |-> None, taken |-> FALSE, again |-> FALSE]
             /\ ~ At(s, "return")
<1> DEFINE c == Len(chords) + 1
           p == [slot[s] EXCEPT !.at = "wait", !.chord = c]
           r == [by |-> Id(s), size |-> n, left |-> n, answer |-> None,
                 taken |-> FALSE, again |-> FALSE]
<1>1. /\ slot[s] # Idle /\ slot[s].msg.task = "run"
      /\ n \in Nat \ {0} /\ c \in Nat
  BY Staged, TasksAssumption DEF Sends, At, Stages, TypeInv
<1>2. Id(s) \in Workflows /\ slot[s] \in Process
  BY <1>1, Busy
<1>3. p \in Process /\ p.at = "wait" /\ p.msg = slot[s].msg /\ p.chord = c
  <2>1. "wait" \in AllStages /\ "wait" \in Stages(slot[s].msg.task)
    BY <1>1 DEF AllStages, Stages
  <2> QED BY <1>1, <1>2, <2>1 DEF Process
<1>4. slot' = [slot EXCEPT ![s] = p]
  BY DEF Sends, TypeInv
<1>5. p # Idle
  BY <1>3 DEF Idle
<1>6. Continues(s) /\ slot'[s] = p
  <2> HIDE DEF p
  <2> QED BY <1>3, <1>4, <1>5 DEF Continues, TypeInv
<1>7. r \in ChordRow
  BY <1>1, <1>2 DEF ChordRow
<1>8. chords' = Append(chords, r)
  BY DEF Sends
<1>9. /\ chords' \in Seq(ChordRow) /\ c \notin DOMAIN chords
      /\ DOMAIN chords' = DOMAIN chords \cup {c} /\ chords'[c] = r
      /\ \A d \in DOMAIN chords : chords'[d] = chords[d]
  <2> HIDE DEF r
  <2> QED BY <1>7, <1>8 DEF TypeInv
<1>10. Scan(Id(s), c) \in Messages
  BY <1>1, <1>2, MessageTypes
<1>11. queue' \in Seq(Messages)
  BY <1>1, <1>10, Concatenated DEF Sends, TypeInv
<1>12. ~ At(s, "return")
  BY DEF Sends, At
<1> QED BY <1>1, <1>3, <1>6, <1>9, <1>10, <1>11, <1>12

LEMMA SendsTyped ==
  ASSUME TypeInv, NEW s \in Slots, NEW n \in Chunks, Sends(s, n)
  PROVE  TypeInv'
BY SendsOn DEF Sends, Continues, TypeInv

\* A task of a chord knows its chord.
LEMMA OfChord ==
  ASSUME TypeInv, ChordInv, NEW s \in Slots, slot[s] # Idle,
         slot[s].msg.task # "run"
  PROVE  LET c == slot[s].msg.chord
         IN  /\ c \in DOMAIN chords /\ chords[c] \in ChordRow
             /\ chords[c].by = Id(s)
             /\ ~ At(s, "return") /\ c \in Counted =>
                  (slot[s].msg.task = "sync" <=> chords[c].left = 0)
             /\ Of(slot[s].msg, c)
<1>1. Fits(slot[s].msg) /\ (At(s, "return") \/ Sorted(slot[s].msg))
  BY DEF ChordInv
<1>2. slot[s].msg.chord \in DOMAIN chords
  BY <1>1 DEF Fits
<1>3. chords[slot[s].msg.chord] \in ChordRow
  BY <1>2 DEF TypeInv
<1> QED BY <1>1, <1>2, <1>3 DEF Fits, Sorted, Of, Id

\* A chord is answered, by its callback or with an error.
Answers(s) ==
  \E answer \in {"ok", "error"} :
    /\ slot[s].at \in {"scan", "sync", "synced"}
    /\ chords' = [chords EXCEPT ![slot[s].msg.chord].answer = answer]
    /\ Goes(s, "return")
    /\ UNCHANGED <<queue, rows, lost>>
    /\ faults' \in {faults, faults + 1}

LEMMA AnswersOn ==
  ASSUME TypeInv, ChordInv, NEW s \in Slots, Answers(s)
  PROVE  LET c == slot[s].msg.chord
         IN  /\ slot[s] # Idle /\ slot[s].msg.task # "run"
             /\ ~ At(s, "return") /\ Releases(s) /\ slot'[s].msg = slot[s].msg
             /\ c \in DOMAIN chords
             /\ chords' \in Seq(ChordRow) /\ DOMAIN chords' = DOMAIN chords
             /\ \A d \in DOMAIN chords \ {c} : chords'[d] = chords[d]
             /\ chords'[c].by = chords[c].by
             /\ chords'[c].left = chords[c].left
             /\ chords'[c].taken = chords[c].taken
             /\ chords'[c].again = chords[c].again
             /\ chords'[c].answer # None
<1> DEFINE c == slot[s].msg.chord
<1>1. slot[s] # Idle /\ slot[s].msg.task # "run"
  BY Staged DEF Answers, At, Stages
<1>2. c \in DOMAIN chords /\ chords[c] \in ChordRow
  BY <1>1, OfChord
<1>3. PICK answer \in {"ok", "error"} :
        chords' = [chords EXCEPT ![c].answer = answer]
  BY DEF Answers
<1> DEFINE r == [chords[c] EXCEPT !.answer = answer]
<1>4. r \in ChordRow /\ r.by = chords[c].by /\ r.left = chords[c].left
      /\ r.taken = chords[c].taken /\ r.answer # None
      /\ r.again = chords[c].again
  BY <1>2 DEF ChordRow, None
<1>5. chords' = [chords EXCEPT ![c] = r]
  BY <1>2, <1>3 DEF TypeInv
<1> HIDE DEF r, c
<1>6. /\ chords' \in Seq(ChordRow) /\ DOMAIN chords' = DOMAIN chords
      /\ chords'[c] = r
      /\ \A d \in DOMAIN chords \ {c} : chords'[d] = chords[d]
  BY <1>2, <1>4, <1>5, ChordTypes
<1>7. Releases(s) /\ slot'[s].msg = slot[s].msg
  BY <1>1, EndTypes DEF Answers
<1>8. ~ At(s, "return")
  BY DEF Answers, At
<1> QED BY <1>1, <1>2, <1>4, <1>6, <1>7, <1>8 DEF c

LEMMA AnswersTyped ==
  ASSUME TypeInv, ChordInv, NEW s \in Slots, Answers(s) PROVE TypeInv'
<1>1. UNCHANGED <<queue, rows, lost>> /\ faults' \in {faults, faults + 1}
  BY DEF Answers
<1>2. chords' \in Seq(ChordRow) /\ slot' \in [Slots -> {Idle} \cup Process]
  BY AnswersOn DEF Releases
<1> QED BY <1>1, <1>2 DEF TypeInv

\* A chunk is done.
LEMMA ChunkOn ==
  ASSUME TypeInv, ChordInv, NEW s \in Slots, ScanChunk(s)
  PROVE  LET c == slot[s].msg.chord
         IN  /\ slot[s] # Idle /\ slot[s].msg.task = "scan"
             /\ ~ At(s, "return") /\ Releases(s) /\ slot'[s].msg = slot[s].msg
             /\ c \in DOMAIN chords /\ c \in Nat
             /\ chords' \in Seq(ChordRow) /\ DOMAIN chords' = DOMAIN chords
             /\ \A d \in DOMAIN chords \ {c} : chords'[d] = chords[d]
             /\ chords'[c].by = chords[c].by
             /\ chords'[c].taken = chords[c].taken
             /\ chords'[c].again = chords[c].again
             /\ chords'[c].answer = chords[c].answer
             /\ chords[c].by = Id(s)
             /\ Sync(Id(s), c) \in Messages
             /\ queue' \in {queue, Append(queue, Sync(Id(s), c))}
             /\ c \in Counted =>
                  /\ chords[c].left \in Nat \ {0}
                  /\ chords'[c].left = chords[c].left - 1
                  /\ queue' = (IF chords[c].left = 1
                               THEN Append(queue, Sync(Id(s), c)) ELSE queue)
<1> DEFINE c == slot[s].msg.chord
           k == IF chords[c].left = 0
                THEN chords[c].size - 1 ELSE chords[c].left - 1
           r == [chords[c] EXCEPT !.left = k]
<1>1. slot[s] # Idle /\ slot[s].msg.task = "scan" /\ ~ At(s, "return")
  BY Staged DEF ScanChunk, At
<1>2. c \in DOMAIN chords /\ chords[c] \in ChordRow /\ chords[c].by = Id(s)
      /\ (c \in Counted => chords[c].left # 0)
  BY <1>1, OfChord
<1>3. c \in Nat /\ Id(s) \in Workflows
  BY <1>1, Busy DEF Messages
<1>4. /\ chords[c].left \in Nat /\ k \in Nat
      /\ chords[c].left # 0 => k = chords[c].left - 1
  BY <1>2 DEF ChordRow
<1>5. Sync(Id(s), c) \in Messages
  BY <1>3, MessageTypes
<1>6. Releases(s) /\ slot'[s].msg = slot[s].msg
  BY <1>1, EndTypes DEF ScanChunk
<1>7. CASE /\ chords' = [chords EXCEPT ![c].left = k]
           /\ queue' = IF k = 0 THEN Append(queue, Sync(Id(s), c)) ELSE queue
  <2>1. r \in ChordRow /\ r.by = chords[c].by /\ r.left = k
        /\ r.taken = chords[c].taken /\ r.answer = chords[c].answer
        /\ r.again = chords[c].again
    BY <1>2, <1>4 DEF ChordRow
  <2>2. chords' = [chords EXCEPT ![c] = r]
    BY <1>2, <1>7 DEF TypeInv
  <2>3. /\ queue' \in {queue, Append(queue, Sync(Id(s), c))}
        /\ chords[c].left # 0 =>
             queue' = IF chords[c].left = 1
                      THEN Append(queue, Sync(Id(s), c)) ELSE queue
    <3> HIDE DEF c, k
    <3> QED BY <1>4, <1>7
  <2> HIDE DEF r, c, k
  <2>4. /\ chords' \in Seq(ChordRow) /\ DOMAIN chords' = DOMAIN chords
        /\ chords'[c] = r
        /\ \A d \in DOMAIN chords \ {c} : chords'[d] = chords[d]
    BY <1>2, <2>1, <2>2, ChordTypes
  <2> QED
    BY <1>1, <1>2, <1>3, <1>4, <1>5, <1>6, <2>1, <2>3, <2>4 DEF c
<1>8. CASE chords[c].again /\ UNCHANGED <<queue, chords>>
  <2>1. c \notin Counted
    BY <1>8 DEF Counted
  <2>2. chords' \in Seq(ChordRow)
    BY <1>8 DEF TypeInv
  <2> QED BY <1>1, <1>2, <1>3, <1>5, <1>6, <1>8, <2>1, <2>2
<1> QED BY <1>7, <1>8 DEF ScanChunk

LEMMA ChunkTyped ==
  ASSUME TypeInv, ChordInv, NEW s \in Slots, ScanChunk(s) PROVE TypeInv'
<1> DEFINE m == Sync(Id(s), slot[s].msg.chord)
<1>1. /\ m \in Messages /\ queue' \in {queue, Append(queue, m)}
      /\ chords' \in Seq(ChordRow) /\ slot' \in [Slots -> {Idle} \cup Process]
  BY ChunkOn DEF Releases
<1> HIDE DEF m
<1>2. queue' \in Seq(Messages)
  <2>1. queue \in Seq(Messages)
    BY DEF TypeInv
  <2>2. Append(queue, m) \in Seq(Messages)
    BY <1>1, <2>1, Appended
  <2> QED BY <1>1, <2>1, <2>2
<1> QED BY <1>1, <1>2 DEF ScanChunk, TypeInv

\* The workflow takes the answer.
LEMMA ReadyOn ==
  ASSUME TypeInv, ChordInv, NEW s \in Slots, ChordReady(s)
  PROVE  LET c == slot[s].chord
         IN  /\ slot[s] # Idle /\ slot[s].msg.task = "run" /\ Continues(s)
             /\ slot'[s].at = "nodes"
             /\ c \in DOMAIN chords /\ chords[c].by = Id(s)
             /\ chords' \in Seq(ChordRow) /\ DOMAIN chords' = DOMAIN chords
             /\ \A d \in DOMAIN chords \ {c} : chords'[d] = chords[d]
             /\ chords'[c].by = chords[c].by
             /\ chords'[c].left = chords[c].left
             /\ chords'[c].answer = chords[c].answer
             /\ chords'[c].again = chords[c].again
             /\ chords'[c].answer # None
             /\ ~ At(s, "return")
<1> DEFINE c == slot[s].chord
           r == [chords[c] EXCEPT !.taken = TRUE]
<1>1. slot[s] # Idle /\ slot[s].msg.task = "run" /\ ~ At(s, "return")
  BY Staged DEF ChordReady, At, Stages
<1>2. c \in DOMAIN chords /\ chords[c].by = Id(s)
  BY DEF ChordInv, ChordReady
<1>3. chords[c] \in ChordRow /\ chords[c].answer # None
  BY <1>2 DEF TypeInv, ChordReady
<1>4. r \in ChordRow /\ r.by = chords[c].by /\ r.left = chords[c].left
      /\ r.answer = chords[c].answer /\ r.again = chords[c].again
  BY <1>3 DEF ChordRow
<1>5. chords' = [chords EXCEPT ![c] = r]
  BY <1>2 DEF TypeInv, ChordReady
<1>6. Continues(s) /\ slot'[s].at = "nodes"
  <2>1. "nodes" \in Stages(slot[s].msg.task) /\ Goes(s, "nodes")
    BY <1>1 DEF ChordReady, Stages
  <2> QED BY <1>1, <2>1, GoesOn
<1> HIDE DEF r, c
<1>7. /\ chords' \in Seq(ChordRow) /\ DOMAIN chords' = DOMAIN chords
      /\ chords'[c] = r
      /\ \A d \in DOMAIN chords \ {c} : chords'[d] = chords[d]
  BY <1>2, <1>4, <1>5, ChordTypes
<1> QED BY <1>1, <1>2, <1>3, <1>4, <1>6, <1>7 DEF c

LEMMA ReadyTyped ==
  ASSUME TypeInv, ChordInv, NEW s \in Slots, ChordReady(s) PROVE TypeInv'
BY ReadyOn DEF ChordReady, Continues, TypeInv

LEMMA CrashOn ==
  ASSUME TypeInv, ChordInv, NEW s \in Slots, Crash(s)
  PROVE  /\ slot[s] # Idle /\ slot[s].msg \in Messages
         /\ queue' = Append(queue, slot[s].msg) /\ Acknowledges(s)
         /\ slot'[s] = Idle /\ Releases(s)
         /\ DOMAIN chords' = DOMAIN chords
         /\ \A d \in DOMAIN chords :
              /\ chords'[d].by = chords[d].by
              /\ chords'[d].answer = chords[d].answer
              /\ chords'[d].taken = chords[d].taken
              /\ chords[d].again => chords'[d].again
              /\ ~ chords'[d].again =>
                   /\ chords'[d] = chords[d]
                   /\ At(s, "return") => ~ Of(slot[s].msg, d)
         /\ UNCHANGED <<rows, lost>> /\ TypeInv'
<1> DEFINE c == slot[s].msg.chord
<1>1. slot[s] # Idle /\ slot[s].msg \in Messages
  BY Busy DEF Crash
<1>2. Releases(s) /\ slot'[s] = Idle
  BY <1>1, EndTypes DEF Crash
<1>3. IsRun(s) <=> slot[s].msg.task = "run"
  BY <1>1, Busy DEF IsRun, At
<1>4. /\ chords' \in Seq(ChordRow) /\ DOMAIN chords' = DOMAIN chords
      /\ \A d \in DOMAIN chords :
           /\ chords'[d].by = chords[d].by
           /\ chords'[d].answer = chords[d].answer
           /\ chords'[d].taken = chords[d].taken
           /\ chords[d].again => chords'[d].again
           /\ ~ chords'[d].again =>
                /\ chords'[d] = chords[d]
                /\ At(s, "return") => ~ Of(slot[s].msg, d)
  <2>1. CASE At(s, "return") /\ ~ IsRun(s)
    <3> DEFINE r == [chords[c] EXCEPT !.again = TRUE]
    <3>1. c \in DOMAIN chords /\ chords[c] \in ChordRow
      BY <1>1, <1>3, <2>1, OfChord
    <3>2. r \in ChordRow /\ r.by = chords[c].by /\ r.taken = chords[c].taken
          /\ r.answer = chords[c].answer /\ r.again
      BY <3>1 DEF ChordRow
    <3>3. chords' = [chords EXCEPT ![c] = r]
      BY <2>1, <3>1 DEF Crash, TypeInv
    <3>4. \A d : d # c => ~ Of(slot[s].msg, d)
      BY DEF Of
    <3> HIDE DEF r, c
    <3>5. /\ chords' \in Seq(ChordRow) /\ DOMAIN chords' = DOMAIN chords
          /\ chords'[c] = r
          /\ \A d \in DOMAIN chords \ {c} : chords'[d] = chords[d]
      BY <3>1, <3>2, <3>3, ChordTypes
    <3>6. /\ chords'[c].by = chords[c].by /\ chords'[c].taken = chords[c].taken
          /\ chords'[c].answer = chords[c].answer /\ chords'[c].again
      BY <3>2, <3>5
    <3> QED BY <3>4, <3>5, <3>6
  <2>2. CASE ~ (At(s, "return") /\ ~ IsRun(s))
    <3>1. chords' = chords
      BY <2>2 DEF Crash
    <3>2. At(s, "return") => \A d : ~ Of(slot[s].msg, d)
      BY <1>3, <2>2 DEF Of
    <3> QED BY <3>1, <3>2 DEF TypeInv
  <2> QED BY <2>1, <2>2
<1>5. queue' \in Seq(Messages) /\ faults' \in Nat
  BY <1>1 DEF Crash, Fault, TypeInv
<1> QED BY <1>1, <1>2, <1>4, <1>5 DEF Crash, Releases, TypeInv
-----------------------------------------------------------------------------
\* What keeps the count of the messages of the chords, step by step.
LEMMA FirstChords == TasksInit => ChordInv
<1> SUFFICES ASSUME TasksInit PROVE ChordInv
  OBVIOUS
<1>1. \A i \in DOMAIN queue : Fits(queue[i]) /\ Sorted(queue[i])
  <2> DEFINE runs == {Run(w) : w \in Workflows}
  <2>1. \A m \in runs : Fits(m) /\ Sorted(m)
    BY DEF Run, Fits, Sorted
  <2>2. queue \in Seq(runs)
    BY FirstQueue
  <2> HIDE DEF runs
  <2> QED BY <2>1, <2>2
<1>2. \A s \in Slots : slot[s] = Idle /\ ~ At(s, "wait")
  BY DEF TasksInit, Idle, At
<1>3. DOMAIN chords = {}
  BY DEF TasksInit
<1> QED BY <1>1, <1>2, <1>3 DEF ChordInv, Counted

LEMMA BoundedParts ==
  ASSUME TypeInv, ChordInv, NEW c \in Counted
  PROVE  /\ c \in DOMAIN chords /\ IsFiniteSet(Held(slot, c))
         /\ Cardinality(Held(slot, c)) \in Nat
         /\ Cardinality(Places(queue, c)) \in Nat
         /\ chords[c].left \in Nat
         /\ Cardinality(Places(queue, c)) + Cardinality(Held(slot, c))
               + Answered(chords[c]) <= Room(chords[c])
<1>1. Bounded(c)
  BY DEF ChordInv
<1>2. c \in DOMAIN chords /\ chords[c] \in ChordRow
  BY DEF TypeInv, Counted
<1> QED BY <1>1, <1>2, PlacesFinite, FS_CardinalityType
        DEF Bounded, TypeInv, ChordRow

LEMMA TakeChords ==
  ASSUME TypeInv, ChordInv, NEW s \in Slots, Take(s) PROVE ChordInv'
<1>1. /\ queue \in Seq(Messages) /\ queue # <<>> /\ queue' = Tail(queue)
      /\ chords' = chords
  BY DEF TypeInv, Take
<1>2. /\ Counted' = Counted
      /\ \A m : (Fits(m)' <=> Fits(m)) /\ (Sorted(m)' <=> Sorted(m))
  BY <1>1 DEF Fits, Sorted, Counted
<1>3. PICK p \in Process :
        /\ slot' = [slot EXCEPT ![s] = p] /\ p.msg = Head(queue)
        /\ p.at \notin {"wait", "return"}
  BY TakeTypes DEF Messages
<1>4. \A i \in DOMAIN queue' : Fits(queue'[i]) /\ Sorted(queue'[i])
  <2>1. \A i \in DOMAIN queue' : \E j \in DOMAIN queue : queue'[i] = queue[j]
    BY <1>1
  <2> QED BY <2>1 DEF ChordInv
<1>5. \A r \in Slots : slot'[r] # Idle =>
        Fits(slot'[r].msg) /\ (slot'[r].at = "return" \/ Sorted(slot'[r].msg))
  <2>1. Fits(Head(queue)) /\ Sorted(Head(queue))
    BY <1>1 DEF ChordInv
  <2> QED BY <1>3, <2>1 DEF ChordInv, TypeInv, At
<1>6. \A r \in Slots : slot'[r].at = "wait" => slot'[r] = slot[r]
  BY <1>3 DEF TypeInv
<1>7. \A c \in Counted : Bounded(c)'
  <2> SUFFICES ASSUME NEW c \in Counted PROVE Bounded(c)'
    OBVIOUS
  <2>1. slot[s] = Idle
    BY TakeTypes
  <2>2. /\ IsFiniteSet(Held(slot', c))
        /\ Cardinality(Held(slot', c)) =
             Cardinality(Held(slot, c))
               + (IF Of(Head(queue), c) THEN 1 ELSE 0)
    BY <1>3, <2>1, BoundedParts, HeldTake
  <2>3. /\ Cardinality(Places(queue', c)) <=
             Cardinality(Places(queue, c))
               - (IF Of(Head(queue), c) THEN 1 ELSE 0)
        /\ Cardinality(Places(queue', c)) \in Nat
    <3>1. queue' \in Seq(Messages)
      BY <1>1
    <3> QED BY <1>1, <3>1, PlacesTail, PlacesFinite
  <2> QED
    BY <1>1, <2>2, <2>3, BoundedParts DEF Bounded, Answered, Room
<1> QED
  BY <1>1, <1>2, <1>4, <1>5, <1>6, <1>7 DEF ChordInv, At, Id

\* Steps that send nothing and leave the fields the count is about.
LEMMA ContinuesChords ==
  ASSUME TypeInv, ChordInv, NEW s \in Slots, slot[s] # Idle, Continues(s),
         slot'[s].at = "wait" => /\ slot'[s].chord \in DOMAIN chords
                                 /\ chords[slot'[s].chord].by = Id(s),
         ~ At(s, "return"),
         slot[s].msg.task = "run" \/ slot'[s].at # "return",
         queue' = queue, DOMAIN chords' = DOMAIN chords,
         \A c \in DOMAIN chords :
           /\ chords'[c].by = chords[c].by
           /\ chords'[c].left = chords[c].left
           /\ chords'[c].answer = chords[c].answer
           /\ chords'[c].again = chords[c].again
           /\ chords'[c].taken => chords[c].taken \/ chords[c].answer # None
  PROVE  ChordInv'
<1>1. /\ Counted' = Counted
      /\ \A m : (Fits(m)' <=> Fits(m)) /\ (Sorted(m)' <=> Sorted(m))
  BY DEF Fits, Sorted, Counted
<1>2. \A r \in Slots : slot'[r] # Idle =>
        Fits(slot'[r].msg) /\ (slot'[r].at = "return" \/ Sorted(slot'[r].msg))
  BY DEF ChordInv, Continues, At
<1>3. \A r \in Slots : slot'[r].at = "wait" =>
        slot'[r].chord \in DOMAIN chords /\ chords[slot'[r].chord].by = Id(r)'
  BY DEF ChordInv, Continues, At, Id
<1>4. \A c \in Counted : Bounded(c)'
  <2> SUFFICES ASSUME NEW c \in Counted PROVE Bounded(c)'
    OBVIOUS
  <2>1. Held(slot', c) = Held(slot, c)
    BY HeldSame DEF At
  <2>2. Bounded(c) /\ c \in DOMAIN chords
    BY DEF ChordInv, Counted
  <2> QED BY <2>1, <2>2 DEF Bounded, Answered, Room
<1> QED BY <1>1, <1>2, <1>3, <1>4 DEF ChordInv, At

\* The processes but s keep what they have when s is done.
LEMMA EndKeeps ==
  ASSUME TypeInv, NEW s \in Slots, slot[s] # Idle, Releases(s)
  PROVE  \A r \in Slots : slot'[r] # Idle =>
           /\ slot[r] # Idle /\ slot'[r].msg = slot[r].msg
           /\ At(r, "return")' \/ (r # s /\ slot'[r] = slot[r])
BY DEF Releases, At

LEMMA EndWaits ==
  ASSUME TypeInv, ChordInv, NEW s \in Slots, slot[s] # Idle, Releases(s),
         DOMAIN chords \subseteq DOMAIN chords',
         \A c \in DOMAIN chords : chords'[c].by = chords[c].by
  PROVE  \A r \in Slots : At(r, "wait")' =>
           /\ slot'[r].chord \in DOMAIN chords'
           /\ chords'[slot'[r].chord].by = Id(r)'
<1>1. \A r \in Slots : At(r, "wait")' => slot'[r] = slot[r]
  BY EndKeeps DEF At, Idle
<1> QED BY <1>1 DEF ChordInv, At, Id

LEMMA EndsChords ==
  ASSUME TypeInv, ChordInv, NEW s \in Slots, Ends(s) PROVE ChordInv'
<1>1. /\ slot[s] # Idle /\ Releases(s)
      /\ queue' = queue /\ chords' = chords
  BY EndsOn, EndTypes
<1>2. /\ Counted' = Counted
      /\ \A m : (Fits(m)' <=> Fits(m)) /\ (Sorted(m)' <=> Sorted(m))
  BY <1>1 DEF Fits, Sorted, Counted
<1>3. \A r \in Slots : slot'[r] # Idle =>
        Fits(slot'[r].msg) /\ (At(r, "return")' \/ Sorted(slot'[r].msg))
  BY <1>1, EndKeeps DEF ChordInv, At
<1>4. \A c \in Counted : Bounded(c)'
  <2> SUFFICES ASSUME NEW c \in Counted PROVE Bounded(c)'
    OBVIOUS
  <2>1. /\ IsFiniteSet(Held(slot', c))
        /\ Cardinality(Held(slot', c)) \in Nat
        /\ Cardinality(Held(slot', c)) <= Cardinality(Held(slot, c))
    BY <1>1, BoundedParts, HeldEnd, FS_CardinalityType
  <2> QED BY <1>1, <2>1, BoundedParts DEF Bounded, Answered, Room
<1>5. \A r \in Slots : At(r, "wait")' =>
        /\ slot'[r].chord \in DOMAIN chords'
        /\ chords'[slot'[r].chord].by = Id(r)'
  BY <1>1, EndWaits
<1> QED BY <1>1, <1>2, <1>3, <1>4, <1>5 DEF ChordInv

LEMMA CrashChords ==
  ASSUME TypeInv, ChordInv, NEW s \in Slots, Crash(s) PROVE ChordInv'
<1> DEFINE m == slot[s].msg
<1>1. /\ slot[s] # Idle /\ m \in Messages /\ Releases(s)
      /\ queue' = Append(queue, m)
      /\ DOMAIN chords' = DOMAIN chords
      /\ \A d \in DOMAIN chords :
           /\ chords'[d].by = chords[d].by
           /\ chords'[d].answer = chords[d].answer
           /\ chords'[d].taken = chords[d].taken
           /\ chords[d].again => chords'[d].again
           /\ ~ chords'[d].again =>
                chords'[d] = chords[d] /\ (At(s, "return") => ~ Of(m, d))
  BY CrashOn
<1>2. /\ Counted' \subseteq Counted
      /\ \A n : (Fits(n) => Fits(n)') /\ (Sorted(n) => Sorted(n)')
  BY <1>1 DEF Fits, Sorted, Counted
<1>3. \A r \in Slots : \A n : slot'[r] # Idle /\ n = slot'[r].msg =>
        Fits(n)' /\ (At(r, "return")' \/ Sorted(n)')
  <2>1. \A r \in Slots : slot'[r] # Idle =>
          Fits(slot[r].msg) /\ (At(r, "return")' \/ Sorted(slot[r].msg))
    BY <1>1, EndKeeps DEF ChordInv, At
  <2> QED BY <1>1, <1>2, <2>1, EndKeeps
<1>4. \A n : \A i \in DOMAIN queue' : n = queue'[i] => Fits(n)' /\ Sorted(n)'
  <2>1. \A n : n = m => Fits(n)' /\ Sorted(n)'
    <3>1. Fits(m) /\ (At(s, "return") \/ Sorted(m))
      BY <1>1 DEF ChordInv
    <3>2. ASSUME At(s, "return") PROVE \A n : n = m => Sorted(n)'
      <4>1. \A d \in Counted' : ~ Of(m, d)
        BY <1>1, <3>2 DEF Counted
      <4> QED BY <4>1 DEF Sorted, Of
    <3> QED BY <1>2, <3>1, <3>2
  <2> HIDE DEF m
  <2>2. queue \in Seq(Messages) /\ m \in Messages
    BY <1>1 DEF TypeInv
  <2>3. \A i \in DOMAIN Append(queue, m) :
          \/ Append(queue, m)[i] = m
          \/ i \in DOMAIN queue /\ Append(queue, m)[i] = queue[i]
    BY <2>2, Appended
  <2> QED BY <1>1, <1>2, <2>1, <2>3 DEF ChordInv
<1>5. \A c \in Counted' : Bounded(c)'
  <2> SUFFICES ASSUME NEW c \in Counted' PROVE Bounded(c)'
    OBVIOUS
  <2>4. c \in Counted /\ chords'[c] = chords[c]
        /\ (At(s, "return") => ~ Of(m, c))
    BY <1>1, <1>2 DEF Counted
  <2>1. /\ IsFiniteSet(Held(slot', c))
        /\ Cardinality(Held(slot', c)) =
             Cardinality(Held(slot, c)) - (IF Of(m, c) THEN 1 ELSE 0)
    BY <1>1, <2>4, BoundedParts, HeldEnd
  <2>2. Cardinality(Places(queue', c)) =
          Cardinality(Places(queue, c)) + (IF Of(m, c) THEN 1 ELSE 0)
    BY <1>1, PlacesAppend DEF TypeInv
  <2> HIDE DEF m
  <2> QED BY <1>1, <2>1, <2>2, <2>4, BoundedParts DEF Bounded, Answered, Room
<1>6. \A r \in Slots : At(r, "wait")' =>
        /\ slot'[r].chord \in DOMAIN chords'
        /\ chords'[slot'[r].chord].by = Id(r)'
  BY <1>1, EndWaits
<1>7. \A c \in DOMAIN chords' : chords'[c].taken => chords'[c].answer # None
  BY <1>1 DEF ChordInv
<1> QED BY <1>3, <1>4, <1>5, <1>6, <1>7 DEF ChordInv

LEMMA AnswersChords ==
  ASSUME TypeInv, ChordInv, NEW s \in Slots, Answers(s) PROVE ChordInv'
<1> DEFINE c == slot[s].msg.chord
<1>1. /\ slot[s] # Idle /\ Releases(s) /\ ~ At(s, "return") /\ queue' = queue
      /\ c \in DOMAIN chords /\ DOMAIN chords' = DOMAIN chords
      /\ \A d \in DOMAIN chords \ {c} : chords'[d] = chords[d]
      /\ chords'[c].by = chords[c].by /\ chords'[c].left = chords[c].left
      /\ chords'[c].answer # None /\ chords'[c].again = chords[c].again
  BY AnswersOn DEF Answers
<1>2. Of(slot[s].msg, c) /\ \A d : d # c => ~ Of(slot[s].msg, d)
  BY AnswersOn DEF Of
<1> HIDE DEF c
<1>3. \A d \in DOMAIN chords : /\ chords'[d].by = chords[d].by
                               /\ chords'[d].left = chords[d].left
                               /\ chords'[d].again = chords[d].again
  BY <1>1
<1>4. /\ Counted' = Counted
      /\ \A m : (Fits(m)' <=> Fits(m)) /\ (Sorted(m)' <=> Sorted(m))
  BY <1>1, <1>3 DEF Fits, Sorted, Counted
<1>5. \A r \in Slots : slot'[r] # Idle =>
        Fits(slot'[r].msg) /\ (At(r, "return")' \/ Sorted(slot'[r].msg))
  BY <1>1, EndKeeps DEF ChordInv, At
<1>6. \A d \in Counted : Bounded(d)'
  <2> SUFFICES ASSUME NEW d \in Counted PROVE Bounded(d)'
    OBVIOUS
  <2>1. /\ IsFiniteSet(Held(slot', d))
        /\ Cardinality(Held(slot', d)) =
             Cardinality(Held(slot, d)) - (IF Of(slot[s].msg, d) THEN 1 ELSE 0)
    BY <1>1, BoundedParts, HeldEnd
  <2>2. CASE d = c
    <3>1. /\ Cardinality(Held(slot', d)) = Cardinality(Held(slot, d)) - 1
          /\ Answered(chords'[d]) = 1 /\ Room(chords'[d]) = Room(chords[d])
          /\ Answered(chords[d]) \in Nat
      BY <1>1, <1>2, <2>1, <2>2 DEF Answered, Room
    <3>2. Room(chords[d]) \in Nat
      BY BoundedParts DEF Room
    <3> QED BY <1>1, <2>1, <3>1, <3>2, BoundedParts DEF Bounded
  <2>3. CASE d # c
    <3>1. Cardinality(Held(slot', d)) = Cardinality(Held(slot, d))
      BY <1>2, <2>1, <2>3, BoundedParts
    <3> QED BY <1>1, <2>1, <2>3, <3>1, BoundedParts DEF Bounded
  <2> QED BY <2>2, <2>3
<1>7. \A r \in Slots : At(r, "wait")' =>
        /\ slot'[r].chord \in DOMAIN chords'
        /\ chords'[slot'[r].chord].by = Id(r)'
  BY <1>1, <1>3, EndWaits
<1>8. \A d \in DOMAIN chords : chords'[d].taken => chords'[d].answer # None
  BY <1>1 DEF ChordInv
<1> QED BY <1>1, <1>4, <1>5, <1>6, <1>7, <1>8 DEF ChordInv

\* The last chunk: its message was the only one of its chord, and nothing
\* has answered.
LEMMA LastChunk ==
  ASSUME TypeInv, ChordInv, NEW s \in Slots, ScanChunk(s),
         slot[s].msg.chord \in Counted, chords[slot[s].msg.chord].left = 1
  PROVE  LET c == slot[s].msg.chord
         IN  /\ Places(queue, c) = {} /\ Held(slot, c) = {s}
             /\ chords[c].answer = None
<1> DEFINE c == slot[s].msg.chord
<1>1. slot[s] # Idle /\ Of(slot[s].msg, c) /\ c \in Counted
      /\ slot[s].at # "return"
  BY ChunkOn, OfChord DEF At
<1>2. s \in Held(slot, c)
  BY <1>1 DEF Held
<1> HIDE DEF c
<1>3. /\ IsFiniteSet(Held(slot, c)) /\ Cardinality(Held(slot, c)) \in Nat
      /\ Cardinality(Places(queue, c)) \in Nat
      /\ Cardinality(Places(queue, c)) + Cardinality(Held(slot, c))
           + Answered(chords[c]) <= 1
  BY <1>1, BoundedParts DEF Room, c
<1>4. Cardinality(Held(slot, c)) # 0
  BY <1>2, <1>3, FS_EmptySet
<1>5. Answered(chords[c]) = 0 /\ Cardinality(Places(queue, c)) = 0
      /\ Cardinality(Held(slot, c)) = 1
  BY <1>3, <1>4 DEF Answered
<1>6. Places(queue, c) = {}
  BY <1>5, PlacesFinite, FS_EmptySet DEF TypeInv
<1>7. Held(slot, c) = {s}
  BY <1>2, <1>3, <1>5, FS_Singleton
<1> QED BY <1>5, <1>6, <1>7 DEF Answered, c

LEMMA ChunkChords ==
  ASSUME TypeInv, ChordInv, NEW s \in Slots, ScanChunk(s) PROVE ChordInv'
<1> DEFINE c == slot[s].msg.chord
           m == Sync(Id(s), c)
           last == c \in Counted /\ chords[c].left = 1
<1>1. /\ slot[s] # Idle /\ Releases(s) /\ ~ At(s, "return")
      /\ c \in DOMAIN chords /\ DOMAIN chords' = DOMAIN chords
      /\ \A d \in DOMAIN chords \ {c} : chords'[d] = chords[d]
      /\ chords'[c].by = chords[c].by /\ chords[c].by = Id(s)
      /\ chords'[c].taken = chords[c].taken
      /\ chords'[c].again = chords[c].again
      /\ chords'[c].answer = chords[c].answer
      /\ m \in Messages /\ queue \in Seq(Messages)
      /\ queue' \in {queue, Append(queue, m)}
      /\ c \in Counted =>
           /\ chords[c].left \in Nat \ {0}
           /\ chords'[c].left = chords[c].left - 1
           /\ queue' = (IF chords[c].left = 1 THEN Append(queue, m) ELSE queue)
  BY ChunkOn DEF TypeInv
<1>2. Of(slot[s].msg, c) /\ \A d : d # c => ~ Of(slot[s].msg, d)
  BY ChunkOn DEF Of
<1>3. Of(m, c) /\ (\A d : d # c => ~ Of(m, d))
      /\ m.task = "sync" /\ m.id = Id(s) /\ m.chord = c
  BY DEF Of, Sync
<1>4. last =>
        Places(queue, c) = {} /\ Held(slot, c) = {s} /\ chords[c].answer = None
  BY LastChunk
<1> HIDE DEF c, m
<1>5. \A d \in DOMAIN chords : /\ chords'[d].by = chords[d].by
                               /\ chords'[d].again = chords[d].again
                               /\ chords'[d].taken = chords[d].taken
                               /\ chords'[d].answer = chords[d].answer
  BY <1>1
<1>6. Counted' = Counted /\ \A n : Fits(n) => Fits(n)'
  BY <1>1, <1>5 DEF Counted, Fits
<1>7. \A n : Sorted(n) /\ (last => ~ Of(n, c)) => Sorted(n)'
  <2> SUFFICES ASSUME NEW n, Sorted(n), n.task # "run", n.chord \in Counted,
                      last => n.chord # c
               PROVE  n.task = "sync" <=> chords'[n.chord].left = 0
    BY <1>6 DEF Sorted, Of
  <2>1. n.task = "sync" <=> chords[n.chord].left = 0
    BY DEF Sorted
  <2>2. CASE n.chord = c
    BY <1>1, <2>1, <2>2
  <2>3. CASE n.chord # c
    BY <1>1, <2>1, <2>3 DEF Counted
  <2> QED BY <2>2, <2>3
<1>8. \A n : n = m /\ (c \in Counted => last) => Fits(n)' /\ Sorted(n)'
  BY <1>1, <1>3, <1>6 DEF Fits, Sorted
<1>9. \A n : \A i \in DOMAIN queue : n = queue[i] => Fits(n)' /\ Sorted(n)'
  <2>1. \A i \in DOMAIN queue : Fits(queue[i]) /\ Sorted(queue[i])
    BY DEF ChordInv
  <2>2. last => \A i \in DOMAIN queue : ~ Of(queue[i], c)
    BY <1>4 DEF Places
  <2> QED BY <1>6, <1>7, <2>1, <2>2
<1>10. \A n : \A i \in DOMAIN queue' : n = queue'[i] => Fits(n)' /\ Sorted(n)'
  <2>1. CASE queue' = Append(queue, m) /\ (c \in Counted => last)
    <3>1. \A i \in DOMAIN Append(queue, m) :
            \/ Append(queue, m)[i] = m
            \/ i \in DOMAIN queue /\ Append(queue, m)[i] = queue[i]
      <4>1. queue \in Seq(Messages) /\ m \in Messages
        BY <1>1
      <4> QED BY <4>1, Appended
    <3> QED BY <1>8, <1>9, <2>1, <3>1
  <2>2. CASE queue' = queue
    BY <1>9, <2>2
  <2> QED BY <1>1, <2>1, <2>2
<1>11. \A r \in Slots : \A n : slot'[r] # Idle /\ n = slot'[r].msg =>
         Fits(n)' /\ (At(r, "return")' \/ Sorted(n)')
  <2> SUFFICES ASSUME NEW r \in Slots, slot'[r] # Idle
               PROVE  \A n : n = slot'[r].msg =>
                        Fits(n)' /\ (At(r, "return")' \/ Sorted(n)')
    OBVIOUS
  <2>1. slot[r] # Idle /\ slot'[r].msg = slot[r].msg
        /\ (At(r, "return")' \/ (r # s /\ slot'[r] = slot[r]))
    BY <1>1, EndKeeps
  <2>2. Fits(slot[r].msg) /\ (At(r, "return") \/ Sorted(slot[r].msg))
    BY <2>1 DEF ChordInv
  <2>3. last /\ r # s /\ ~ At(r, "return") => ~ Of(slot[r].msg, c)
    BY <1>4, <2>1 DEF Held, At
  <2> QED BY <1>6, <1>7, <2>1, <2>2, <2>3 DEF At
<1>12. \A d \in Counted : Bounded(d)'
  <2> SUFFICES ASSUME NEW d \in Counted PROVE Bounded(d)'
    OBVIOUS
  <2>1. /\ IsFiniteSet(Held(slot', d))
        /\ Cardinality(Held(slot', d)) =
             Cardinality(Held(slot, d)) - (IF Of(slot[s].msg, d) THEN 1 ELSE 0)
    BY <1>1, BoundedParts, HeldEnd
  <2>2. CASE d # c
    <3>1. Cardinality(Held(slot', d)) = Cardinality(Held(slot, d))
      BY <1>2, <2>1, <2>2, BoundedParts
    <3>2. Cardinality(Places(queue', d)) = Cardinality(Places(queue, d))
      <4>1. m \in Messages /\ queue \in Seq(Messages) /\ ~ Of(m, d)
        BY <1>1, <1>3, <2>2
      <4>2. Cardinality(Places(Append(queue, m), d)) =
              Cardinality(Places(queue, d))
        BY <4>1, PlacesAppend, BoundedParts
      <4> QED BY <1>1, <4>2
    <3>3. chords'[d] = chords[d]
      BY <1>1, <2>2 DEF Counted
    <3> QED BY <2>1, <3>1, <3>2, <3>3, BoundedParts DEF Bounded
  <2>3. CASE d = c /\ chords[c].left # 1
    <3>1. Cardinality(Held(slot', d)) = Cardinality(Held(slot, d)) - 1
          /\ queue' = queue /\ Answered(chords'[d]) = Answered(chords[d])
          /\ Room(chords'[d]) = Room(chords[d]) - 1
          /\ Answered(chords[d]) \in Nat /\ Room(chords[d]) \in Nat
      BY <1>1, <1>2, <2>1, <2>3 DEF Answered, Room
    <3> QED BY <1>1, <2>1, <3>1, BoundedParts DEF Bounded
  <2>4. CASE d = c /\ chords[c].left = 1
    <3>1. Held(slot', d) = {}
      BY <1>1, <1>4, <2>4, BoundedParts, HeldEnd
    <3>2. Cardinality(Held(slot', d)) = 0 /\ Cardinality(Places(queue, d)) = 0
      BY <1>4, <2>4, <3>1, FS_EmptySet
    <3>3. Cardinality(Places(queue', d)) = 1
      <4>1. m \in Messages /\ queue \in Seq(Messages) /\ Of(m, d)
            /\ queue' = Append(queue, m)
        BY <1>1, <1>3, <2>4
      <4>2. Cardinality(Places(Append(queue, m), d)) = 1
        BY <3>2, <4>1, PlacesAppend
      <4> QED BY <4>1, <4>2
    <3>4. Answered(chords'[d]) = 0 /\ Room(chords'[d]) = 1
      BY <1>1, <1>4, <2>4 DEF Answered, Room
    <3> QED BY <1>1, <2>1, <3>2, <3>3, <3>4 DEF Bounded
  <2> QED BY <2>2, <2>3, <2>4
<1>13. \A r \in Slots : At(r, "wait")' =>
         /\ slot'[r].chord \in DOMAIN chords'
         /\ chords'[slot'[r].chord].by = Id(r)'
  BY <1>1, <1>5, EndWaits
<1>14. \A d \in DOMAIN chords : chords'[d].taken => chords'[d].answer # None
  BY <1>1, <1>5 DEF ChordInv
<1> QED BY <1>1, <1>6, <1>10, <1>11, <1>12, <1>13, <1>14 DEF ChordInv

LEMMA SendsChords ==
  ASSUME TypeInv, ChordInv, NEW s \in Slots, NEW n \in Chunks, Sends(s, n)
  PROVE  ChordInv'
<1> DEFINE c == Len(chords) + 1
           m == Scan(Id(s), c)
<1>1. /\ slot[s] # Idle /\ Continues(s) /\ slot[s].msg.task = "run"
      /\ slot'[s].at = "wait" /\ slot'[s].chord = c
      /\ n \in Nat \ {0} /\ c \notin DOMAIN chords
      /\ m \in Messages /\ queue \in Seq(Messages)
      /\ DOMAIN chords' = DOMAIN chords \cup {c}
      /\ \A d \in DOMAIN chords : chords'[d] = chords[d]
      /\ chords'[c] = [by |-> Id(s), size |-> n, left |-> n, answer |-> None,
                       taken |-> FALSE, again |-> FALSE]
      /\ queue' = queue \o Copies(m, n) /\ ~ At(s, "return")
  BY SendsOn DEF Sends, TypeInv
<1>2. Of(m, c) /\ (\A d : d # c => ~ Of(m, d)) /\ m.task = "scan"
      /\ m.id = Id(s) /\ m.chord = c
  BY DEF Of, Scan
<1> HIDE DEF c, m
<1>3. /\ Counted' = Counted \cup {c}
      /\ \A k : Fits(k) => Fits(k)' /\ (Sorted(k) => Sorted(k)')
  <2>1. Counted' = Counted \cup {c}
    BY <1>1 DEF Counted
  <2>2. \A k : Fits(k) /\ k.task # "run" =>
          k.chord \in DOMAIN chords /\ k.chord # c
          /\ chords'[k.chord] = chords[k.chord]
    BY <1>1 DEF Fits
  <2> QED BY <1>1, <2>1, <2>2 DEF Fits, Sorted
<1>4. \A k : k = m => Fits(k)' /\ Sorted(k)'
  BY <1>1, <1>2 DEF Fits, Sorted
<1>5. \A k : Fits(k) => ~ Of(k, c)
  BY <1>1 DEF Fits, Of
<1>6. \A k : \A i \in DOMAIN queue' : k = queue'[i] => Fits(k)' /\ Sorted(k)'
  <2>1. \A i \in DOMAIN queue' :
          queue'[i] = m \/ \E j \in DOMAIN queue : queue'[i] = queue[j]
    <3>1. queue \in Seq(Messages) /\ m \in Messages /\ n \in Nat \ {0}
      BY <1>1
    <3> DEFINE all == queue \o Copies(m, n)
    <3>2. /\ DOMAIN all = DOMAIN queue \cup (Len(queue) + 1 .. Len(queue) + n)
          /\ \A i \in DOMAIN queue : all[i] = queue[i]
          /\ \A i \in Len(queue) + 1 .. Len(queue) + n : all[i] = m
      BY <3>1, Concatenated
    <3> HIDE DEF all
    <3>3. queue' = all
      BY <1>1 DEF all
    <3> QED BY <3>2, <3>3
  <2> QED BY <1>3, <1>4, <2>1 DEF ChordInv
<1>7. \A r \in Slots : \A k : slot'[r] # Idle /\ k = slot'[r].msg =>
        Fits(k)' /\ (At(r, "return")' \/ Sorted(k)')
  <2>1. \A r \in Slots : slot'[r] # Idle =>
          /\ slot'[r].msg = slot[r].msg /\ slot[r] # Idle
          /\ At(r, "return") => At(r, "return")'
    BY <1>1 DEF Continues, At
  <2> QED BY <1>3, <2>1 DEF ChordInv
<1>8. \A r \in Slots : At(r, "wait")' =>
        slot'[r].chord \in DOMAIN chords' /\ chords'[slot'[r].chord].by = Id(r)'
  <2> SUFFICES ASSUME NEW r \in Slots, At(r, "wait")'
               PROVE  /\ slot'[r].chord \in DOMAIN chords'
                      /\ chords'[slot'[r].chord].by = Id(r)'
    OBVIOUS
  <2>1. CASE r = s
    BY <1>1, <2>1 DEF Continues, Id
  <2>2. CASE r # s
    BY <1>1, <2>2 DEF Continues, ChordInv, At, Id
  <2> QED BY <2>1, <2>2
<1>9. \A d \in Counted : Bounded(d)'
  <2> SUFFICES ASSUME NEW d \in Counted PROVE Bounded(d)'
    OBVIOUS
  <2>1. Held(slot', d) = Held(slot, d) /\ d \in DOMAIN chords
    BY <1>1, HeldSame DEF Counted
  <2>2. /\ ~ Of(m, d)
        /\ queue \in Seq(Messages) /\ m \in Messages /\ n \in Nat \ {0}
    BY <1>1, <1>2, <2>1
  <2>3. Places(queue \o Copies(m, n), d) = Places(queue, d)
    BY <2>2, PlacesConcat
  <2> QED BY <1>1, <2>1, <2>3 DEF ChordInv, Bounded
<1>10. \A k : k = c => Bounded(k)'
  <2> SUFFICES ASSUME NEW k, k = c PROVE Bounded(k)'
    OBVIOUS
  <2>1. Places(queue, k) = {} /\ Held(slot, k) = {}
    BY <1>5 DEF ChordInv, Places, Held
  <2>2. Held(slot', k) = {}
    BY <1>1, <2>1, HeldSame
  <2>3. /\ Of(m, k) /\ queue \in Seq(Messages)
        /\ m \in Messages /\ n \in Nat \ {0}
    BY <1>1, <1>2
  <2>4. Cardinality(Places(queue \o Copies(m, n), k)) = n
    BY <2>1, <2>3, PlacesConcat
  <2>5. Answered(chords'[k]) = 0 /\ Room(chords'[k]) = n
    BY <1>1 DEF Answered, Room
  <2> QED BY <1>1, <2>2, <2>4, <2>5, FS_EmptySet DEF Bounded
<1>11. \A d \in DOMAIN chords' : chords'[d].taken => chords'[d].answer # None
  BY <1>1 DEF ChordInv
<1> QED BY <1>1, <1>3, <1>6, <1>7, <1>8, <1>9, <1>10, <1>11 DEF ChordInv
-----------------------------------------------------------------------------
\* What keeps the results of the workflows that were answered.
LEMMA FirstResults == TasksInit => ResultInv
BY DEF TasksInit, ResultInv, NoneLeft

\* The chords of a workflow, as long as they keep their senders.
LEMMA TakenBefore ==
  ASSUME DOMAIN chords \subseteq DOMAIN chords',
         \A c \in DOMAIN chords :
           /\ chords'[c].by = chords[c].by
           /\ chords'[c].taken => chords[c].taken
           /\ chords[c].again => chords'[c].again,
         NEW w, AllTaken(w)'
  PROVE  AllTaken(w)
BY DEF AllTaken

\* A step of s leaves the other processes and what is queued: what is pending
\* but for s stays so.
Alone(s) ==
  /\ slot[s] # Idle
  /\ \A r \in Slots \ {s} : slot'[r] = slot[r]
  /\ \A i \in DOMAIN queue : \E j \in DOMAIN queue' : queue'[j] = queue[i]

LEMMA PendingStays ==
  ASSUME NEW s \in Slots, Alone(s), NEW w, Pending(w),
         w # Id(s) \/ ~ IsRun(s) \/ At(s, "return")
  PROVE  Pending(w)'
<1>1. CASE \E i \in DOMAIN queue : queue[i].task = "run" /\ queue[i].id = w
  BY <1>1 DEF Pending, Alone
<1>2. CASE \E r \in Slots : IsRun(r) /\ Id(r) = w /\ ~ At(r, "return")
  <2>1. PICK r \in Slots : IsRun(r) /\ Id(r) = w /\ ~ At(r, "return")
    BY <1>2
  <2>2. (IsRun(r) /\ Id(r) = w /\ ~ At(r, "return"))'
    BY <2>1 DEF Alone, IsRun, Id, At
  <2> QED BY <2>2 DEF Pending
<1> QED BY <1>1, <1>2 DEF Pending

\* A process that goes on with a run, but for its return, keeps it pending.
LEMMA RunPends ==
  ASSUME NEW s \in Slots, NEW v, v = Id(s), slot'[s].msg = slot[s].msg,
         slot[s].msg.task = "run", slot'[s].at \notin {"idle", "return"}
  PROVE  Pending(v)'
<1>1. (IsRun(s) /\ Id(s) = v /\ ~ At(s, "return"))'
  BY DEF IsRun, Id, At
<1> QED BY <1>1 DEF Pending

\* A step of s: what it does to its own workflow v is all there is to see.
LEMMA OwnResults ==
  ASSUME ResultInv, NEW s \in Slots, Alone(s), NEW v, v = Id(s),
         lost \subseteq lost',
         \A w \in Workflows \ {v} :
           rows'[w] = rows[w] /\ (AllTaken(w)' => AllTaken(w)),
         v \notin lost' /\ AllTaken(v)' => NoneLeft(v)' \/ Pending(v)'
  PROVE  ResultInv'
<1> SUFFICES ASSUME NEW w \in Workflows, w \notin lost', AllTaken(w)'
             PROVE  NoneLeft(w)' \/ Pending(w)'
  BY DEF ResultInv
<1>1. CASE w = v
  BY <1>1
<1>2. CASE w # v
  <2>1. AllTaken(w) /\ w \notin lost /\ rows'[w] = rows[w]
    BY <1>2
  <2>2. NoneLeft(w) \/ Pending(w)
    BY <2>1 DEF ResultInv
  <2>3. NoneLeft(w) => NoneLeft(w)'
    BY <2>1 DEF NoneLeft
  <2>4. Pending(w) => Pending(w)'
    BY <1>2, PendingStays
  <2> QED BY <2>2, <2>3, <2>4
<1> QED BY <1>1, <1>2

\* A task that is not a run, or has ended its own, changes no result.
LEMMA NoResults ==
  ASSUME TypeInv, ResultInv, NEW s \in Slots, Alone(s), lost \subseteq lost',
         rows' = rows, \A w : AllTaken(w)' => AllTaken(w),
         ~ IsRun(s) \/ At(s, "return") \/ Id(s) \in lost'
  PROVE  ResultInv'
<1> PICK v : v = Id(s)
  OBVIOUS
<1>1. v \in Workflows
  BY Busy DEF Alone
<1>2. ASSUME v \notin lost', AllTaken(v)' PROVE NoneLeft(v)' \/ Pending(v)'
  <2>1. NoneLeft(v) \/ Pending(v)
    BY <1>1, <1>2 DEF ResultInv
  <2>2. NoneLeft(v) => NoneLeft(v)'
    BY DEF NoneLeft
  <2>3. Pending(v) => Pending(v)'
    BY <1>2, PendingStays
  <2> QED BY <2>1, <2>2, <2>3
<1> QED BY <1>2, OwnResults

LEMMA TakePends ==
  ASSUME TypeInv, NEW s \in Slots, Take(s), NEW w, Pending(w)
  PROVE  Pending(w)'
<1>1. queue \in Seq(Messages) /\ queue # <<>> /\ queue' = Tail(queue)
  BY DEF Take, TypeInv
<1>2. PICK p \in Process :
        /\ slot' = [slot EXCEPT ![s] = p] /\ p.msg = Head(queue)
        /\ p.msg.task = "run" => p.at = "create"
  BY TakeTypes
<1>3. slot[s] = Idle /\ slot'[s] = p /\ \A r \in Slots \ {s} : slot'[r] = slot[r]
  BY <1>2, TakeTypes DEF TypeInv
<1>4. CASE Head(queue).task = "run" /\ Head(queue).id = w
  <2>1. (IsRun(s) /\ Id(s) = w /\ ~ At(s, "return"))'
    BY <1>2, <1>3, <1>4 DEF IsRun, Id, At
  <2> QED BY <2>1 DEF Pending
<1>5. ASSUME NEW i \in DOMAIN queue, queue[i].task = "run", queue[i].id = w,
             i # 1
      PROVE  Pending(w)'
  <2>1. i - 1 \in DOMAIN queue' /\ queue'[i - 1] = queue[i]
    BY <1>1, <1>5
  <2> QED BY <1>5, <2>1 DEF Pending
<1>6. ASSUME NEW r \in Slots, IsRun(r), Id(r) = w, ~ At(r, "return")
      PROVE  Pending(w)'
  <2>1. r # s
    BY <1>3, <1>6 DEF IsRun, Idle
  <2>2. (IsRun(r) /\ Id(r) = w /\ ~ At(r, "return"))'
    BY <1>3, <1>6, <2>1 DEF IsRun, Id, At
  <2> QED BY <2>2 DEF Pending
<1>7. queue[1] = Head(queue)
  BY <1>1
<1> QED BY <1>4, <1>5, <1>6, <1>7 DEF Pending

LEMMA TakeResults ==
  ASSUME TypeInv, ResultInv, NEW s \in Slots, Take(s) PROVE ResultInv'
<1>1. UNCHANGED <<rows, chords, lost>>
  BY DEF Take
<1> QED BY <1>1, TakePends DEF ResultInv, AllTaken, NoneLeft

LEMMA StaysResults ==
  ASSUME TypeInv, ChordInv, ResultInv, NEW s \in Slots, Stays(s)
  PROVE  ResultInv'
<1>1. /\ slot[s] # Idle /\ Continues(s) /\ slot'[s].at # "idle"
      /\ UNCHANGED <<queue, chords, lost>>
  BY StaysOn
<1>2. Alone(s) /\ Id(s) \in Workflows /\ slot'[s].msg = slot[s].msg
  BY <1>1, Busy DEF Alone, Continues
<1> PICK v : v = Id(s)
  OBVIOUS
<1>3. \A w : AllTaken(w)' <=> AllTaken(w)
  BY <1>1 DEF AllTaken
<1>4. \A w \in Workflows \ {v} : rows'[w] = rows[w]
  <2>1. CASE \E status \in {"running", "success", "failed"},
                result \in {None, "workflow", "discovery"} :
               UpdateExecution(v, status, result)
    BY <1>2, <2>1, UpdateRows
  <2>2. CASE CreateExecution(s) \/ UNCHANGED rows
    BY <2>2 DEF CreateExecution, TypeInv
  <2> QED
    BY <2>1, <2>2 DEF Stays, StartExecution, EndNodes, GiveUp,
       FinishExecution, FailExecution, AggregateAndSync, At
<1>5. AllTaken(v)' => NoneLeft(v)' \/ Pending(v)'
  <2>1. CASE FinishExecution(s)
    <3>1. UpdateExecution(v, "success", "workflow")
      BY <2>1 DEF FinishExecution
    <3>2. \A i \in DOMAIN rows'[v] : rows'[v][i] = Row("success", "workflow")
      BY <1>2, <3>1, UpdateRows DEF None
    <3> QED BY <3>2 DEF NoneLeft, Row
  <2>2. CASE FailExecution(s)
    <3>1. UpdateExecution(v, "failed", None)
      BY <2>2 DEF FailExecution
    <3>2. \A i \in DOMAIN rows'[v] :
            rows'[v][i] = Row("failed", rows[v][i].result)
      BY <1>2, <3>1, UpdateRows
    <3>3. \A r : Row("failed", r) # Row("success", "discovery")
      <4>1. \A r : Row("failed", r).status = "failed"
        BY DEF Row
      <4>2. Row("success", "discovery").status = "success"
        BY DEF Row
      <4> QED BY <4>1, <4>2
    <3>4. \A i \in DOMAIN rows'[v] : rows'[v][i] # Row("success", "discovery")
      BY <3>2, <3>3
    <3> QED BY <3>4 DEF NoneLeft
  <2>3. CASE At(s, "sync")
    <3>1. slot[s].msg.task = "sync" /\ slot[s] # Idle /\ ~ At(s, "return")
      BY <2>3, Staged DEF At, Stages
    <3>2. PICK c \in DOMAIN chords :
            /\ chords[c].by = v /\ s \in Held(slot, c)
            /\ c \in Counted => chords[c].left = 0
      BY <3>1, OfChord DEF Held, At
    <3>3. CASE c \in Counted
      <4>1. Cardinality(Held(slot, c)) # 0
        BY <3>2, <3>3, BoundedParts, FS_EmptySet
      <4>2. chords[c].answer = None
        BY <3>2, <3>3, <4>1, BoundedParts DEF Answered, Room
      <4> QED BY <1>3, <3>2, <4>2 DEF AllTaken, ChordInv
    <3>4. CASE c \notin Counted
      BY <1>3, <3>2, <3>4 DEF AllTaken, Counted
    <3> QED BY <3>3, <3>4
  <2>4. CASE /\ slot[s].at \in Stages("run")
             /\ slot'[s].at # "return"
    <3>1. slot[s].msg.task = "run"
      BY <2>4, StaysOn, Staged DEF At
    <3> QED BY <1>1, <1>2, <2>4, <3>1, RunPends
  <2> QED
  <3>1. CASE \E at \in {"start", "nodes", "finish", "except"} :
               Goes(s, at) /\ slot[s].at \in Stages("run")
    BY <2>4, <3>1 DEF Goes, TypeInv
  <3> QED
    BY <2>1, <2>2, <2>3, <3>1 DEF Stays, CreateExecution, StartExecution,
       EndNodes, GiveUp, At, Stages
<1> QED BY <1>1, <1>2, <1>3, <1>4, <1>5, OwnResults

LEMMA EndsResults ==
  ASSUME TypeInv, ResultInv, NEW s \in Slots, Ends(s) PROVE ResultInv'
<1>1. /\ Alone(s) /\ lost \subseteq lost' /\ rows' = rows
      /\ At(s, "return") \/ Id(s) \in lost'
  BY EndsOn DEF Alone, Acknowledges, TypeInv
<1>2. \A w : AllTaken(w)' => AllTaken(w)
  BY EndsOn DEF AllTaken
<1> QED BY <1>1, <1>2, NoResults

LEMMA AnswersResults ==
  ASSUME TypeInv, ChordInv, ResultInv, NEW s \in Slots, Answers(s)
  PROVE  ResultInv'
<1>1. Alone(s) /\ lost' = lost /\ rows' = rows /\ ~ IsRun(s)
  BY AnswersOn DEF Answers, Alone, Releases, IsRun
<1>2. \A w : AllTaken(w)' => AllTaken(w)
  BY AnswersOn DEF AllTaken
<1> QED BY <1>1, <1>2, NoResults

\* What is queued stays queued when more is sent.
LEMMA ChunkQueue ==
  ASSUME TypeInv, ChordInv, NEW s \in Slots, ScanChunk(s)
  PROVE  \A i \in DOMAIN queue : \E j \in DOMAIN queue' : queue'[j] = queue[i]
<1> DEFINE m == Sync(Id(s), slot[s].msg.chord)
<1>1. /\ queue \in Seq(Messages) /\ m \in Messages
      /\ queue' = Append(queue, m) \/ queue' = queue
  BY ChunkOn DEF TypeInv
<1> HIDE DEF m
<1> QED BY <1>1, Appended

LEMMA SendsQueue ==
  ASSUME TypeInv, NEW s \in Slots, NEW n \in Chunks, Sends(s, n)
  PROVE  \A i \in DOMAIN queue : \E j \in DOMAIN queue' : queue'[j] = queue[i]
<1> DEFINE m == Scan(Id(s), Len(chords) + 1)
<1>1. /\ queue \in Seq(Messages) /\ m \in Messages /\ n \in Nat \ {0}
      /\ queue' = queue \o Copies(m, n)
  BY SendsOn DEF Sends, TypeInv
<1> HIDE DEF m
<1> DEFINE more == Copies(m, n)
<1>2. more \in Seq(Messages)
  BY <1>1 DEF Copies
<1>3. queue' = queue \o more
  BY <1>1
<1> HIDE DEF more
<1> QED BY <1>1, <1>2, <1>3

LEMMA ChunkResults ==
  ASSUME TypeInv, ChordInv, ResultInv, NEW s \in Slots, ScanChunk(s)
  PROVE  ResultInv'
<1>1. \A i \in DOMAIN queue : \E j \in DOMAIN queue' : queue'[j] = queue[i]
  BY ChunkQueue
<1>2. Alone(s) /\ lost' = lost /\ rows' = rows /\ ~ IsRun(s)
  BY <1>1, ChunkOn DEF ScanChunk, Alone, Releases, IsRun
<1>3. \A w : AllTaken(w)' => AllTaken(w)
  BY ChunkOn DEF AllTaken
<1> QED BY <1>2, <1>3, NoResults

LEMMA SendsResults ==
  ASSUME TypeInv, ChordInv, ResultInv, NEW s \in Slots, NEW n \in Chunks,
         Sends(s, n)
  PROVE  ResultInv'
<1> PICK v : v = Id(s)
  OBVIOUS
<1>1. \A i \in DOMAIN queue : \E j \in DOMAIN queue' : queue'[j] = queue[i]
  BY SendsQueue
<1>2. Alone(s) /\ lost' = lost /\ rows' = rows
  BY <1>1, SendsOn DEF Sends, Alone, Continues
<1>3. \A w : AllTaken(w)' => AllTaken(w)
  BY SendsOn DEF AllTaken
<1>4. ~ AllTaken(v)'
  <2>1. \E c \in DOMAIN chords' : chords'[c].by = v /\ ~ chords'[c].taken
    <3> DEFINE c == Len(chords) + 1
    <3>1. /\ DOMAIN chords' = DOMAIN chords \cup {c}
          /\ chords'[c] = [by |-> Id(s), size |-> n, left |-> n, answer |-> None,
                           taken |-> FALSE, again |-> FALSE]
      BY SendsOn
    <3> HIDE DEF c
    <3>2. chords'[c].by = v /\ ~ chords'[c].taken
      BY <3>1
    <3> QED BY <3>1, <3>2
  <2> QED BY <2>1 DEF AllTaken
<1> QED BY <1>2, <1>3, <1>4, OwnResults

LEMMA ReadyResults ==
  ASSUME TypeInv, ChordInv, ResultInv, NEW s \in Slots, ChordReady(s)
  PROVE  ResultInv'
<1> PICK v : v = Id(s)
  OBVIOUS
<1>1. Alone(s) /\ lost' = lost /\ rows' = rows
  BY ReadyOn DEF ChordReady, Alone, Continues
<1>2. \A w : w # v /\ AllTaken(w)' => AllTaken(w)
  BY ReadyOn DEF AllTaken
<1>3. Pending(v)'
  BY ReadyOn, RunPends DEF Continues
<1> QED BY <1>1, <1>2, <1>3, OwnResults

LEMMA CrashResults ==
  ASSUME TypeInv, ChordInv, ResultInv, NEW s \in Slots, Crash(s)
  PROVE  ResultInv'
<1> PICK v : v = Id(s)
  OBVIOUS
<1>1. /\ queue \in Seq(Messages) /\ slot[s].msg \in Messages
      /\ queue' = Append(queue, slot[s].msg)
      /\ rows' = rows /\ lost' = lost
  BY CrashOn DEF TypeInv
<1>2. \A i \in DOMAIN queue : \E j \in DOMAIN queue' : queue'[j] = queue[i]
  BY <1>1, Appended
<1>3. Alone(s)
  BY <1>2, CrashOn DEF Alone, Releases
<1>4. \A w : AllTaken(w)' => AllTaken(w)
  BY CrashOn DEF AllTaken
<1>5. CASE IsRun(s)
  <2>1. \E j \in DOMAIN queue' : queue'[j] = slot[s].msg
    BY <1>1, Appended
  <2>2. Pending(v)'
    BY <1>5, <2>1 DEF Pending, IsRun, Id
  <2> QED BY <1>1, <1>3, <1>4, <2>2, OwnResults
<1>6. CASE ~ IsRun(s)
  BY <1>1, <1>3, <1>4, <1>6, NoResults
<1> QED BY <1>5, <1>6
-----------------------------------------------------------------------------
LEMMA TasksInvInit == TasksInit => TasksInv
BY FirstTypes, FirstChords, FirstResults DEF TasksInv

\* Every step is one of these.
LEMMA StepKinds ==
  ASSUME TasksNext
  PROVE  \E s \in Slots :
           \/ Take(s) \/ Stays(s) \/ Ends(s) \/ Answers(s) \/ ScanChunk(s)
           \/ ChordReady(s) \/ Crash(s) \/ \E n \in Chunks : Sends(s, n)
<1>1. PICK s \in Slots :
        Work(s) \/ Raise(s) \/ ChordFails(s) \/ Kill(s) \/ Crash(s)
  BY DEF TasksNext
<1>2. CASE AggregateAndSync(s)
  <2>1. At(s, "sync") \/ Answers(s)
    BY <1>2 DEF AggregateAndSync, Answers, At
  <2> QED BY <1>2, <2>1 DEF Stays
<1>3. CASE Dispatch(s)
  <2>1. \E n \in Chunks : Sends(s, n)
    BY <1>3 DEF Dispatch, Sends, Copies
  <2> QED BY <2>1
<1>4. CASE Raise(s)
  <2>1. Stays(s) \/ Ends(s)
    BY <1>4 DEF Raise, Stays, Ends
  <2> QED BY <2>1
<1>5. CASE ChordFails(s)
  <2>1. Answers(s)
    BY <1>5 DEF ChordFails, Answers, Fault
  <2> QED BY <2>1
<1> QED BY <1>1, <1>2, <1>3, <1>4, <1>5 DEF Work, Stays, Ends

LEMMA TasksInvNext ==
  ASSUME TasksInv, [TasksNext]_tasksVars PROVE TasksInv'
<1>1. CASE TasksNext
  <2>1. PICK s \in Slots :
          \/ Take(s) \/ Stays(s) \/ Ends(s) \/ Answers(s) \/ ScanChunk(s)
          \/ ChordReady(s) \/ Crash(s) \/ \E n \in Chunks : Sends(s, n)
    BY <1>1, StepKinds
  <2>2. CASE Take(s)
    BY <2>2, TakeTyped, TakeChords, TakeResults DEF TasksInv
  <2>3. CASE Stays(s)
    <3>1. ChordInv'
      <4>1. /\ slot[s] # Idle /\ Continues(s) /\ slot'[s].at # "wait"
            /\ ~ At(s, "return") /\ UNCHANGED <<queue, chords>>
            /\ slot[s].msg.task = "run" \/ slot'[s].at # "return"
        BY <2>3, StaysOn DEF TasksInv, At
      <4> QED BY <4>1, ContinuesChords DEF TasksInv
    <3> QED BY <2>3, <3>1, StaysTyped, StaysResults DEF TasksInv
  <2>4. CASE Ends(s)
    BY <2>4, EndsTyped, EndsChords, EndsResults DEF TasksInv
  <2>5. CASE Answers(s)
    BY <2>5, AnswersTyped, AnswersChords, AnswersResults DEF TasksInv
  <2>6. CASE ScanChunk(s)
    BY <2>6, ChunkTyped, ChunkChords, ChunkResults DEF TasksInv
  <2>7. CASE ChordReady(s)
    <3>1. ChordInv'
      <4>1. \A c \in DOMAIN chords :
              /\ chords'[c].by = chords[c].by
              /\ chords'[c].left = chords[c].left
              /\ chords'[c].answer = chords[c].answer
              /\ chords'[c].again = chords[c].again
              /\ chords'[c].taken => chords[c].taken \/ chords[c].answer # None
        BY <2>7, ReadyOn DEF TasksInv
      <4>2. /\ slot[s] # Idle /\ Continues(s) /\ slot'[s].at = "nodes"
            /\ ~ At(s, "return")
            /\ DOMAIN chords' = DOMAIN chords /\ queue' = queue
        BY <2>7, ReadyOn DEF TasksInv, ChordReady
      <4> QED BY <4>1, <4>2, ContinuesChords DEF TasksInv
    <3> QED BY <2>7, <3>1, ReadyTyped, ReadyResults DEF TasksInv
  <2>8. CASE Crash(s)
    BY <2>8, CrashOn, CrashChords, CrashResults DEF TasksInv
  <2>9. CASE \E n \in Chunks : Sends(s, n)
    BY <2>9, SendsTyped, SendsChords, SendsResults DEF TasksInv
  <2> QED
    BY <2>1, <2>2, <2>3, <2>4, <2>5, <2>6, <2>7, <2>8, <2>9
<1>2. CASE UNCHANGED tasksVars
  <2>1. TypeInv'
    BY <1>2 DEF TasksInv, tasksVars, TypeInv
  <2>2. ChordInv'
    BY <1>2
    DEF TasksInv, tasksVars, ChordInv, Fits, Sorted, Counted, At, Id, Bounded
  <2>3. ResultInv'
    BY <1>2 DEF TasksInv, tasksVars, ResultInv, AllTaken, NoneLeft, Pending,
                IsRun, Id, At
  <2> QED BY <2>1, <2>2, <2>3 DEF TasksInv
<1> QED BY <1>1, <1>2

THEOREM TasksTypes == TasksSpec => []TypeInv
<1>1. TasksInv => TypeInv
  BY DEF TasksInv
<1> QED BY <1>1, TasksInvInit, TasksInvNext, PTL DEF TasksSpec

\* A callback is on its way only when all chunks are done and nothing has
\* answered, as long as no process is lost after its message was counted or
\* answered: the messages of a chord are counted in ChordInv.
THEOREM ChordsCounted == TasksSpec => []ChordInv
<1>1. TasksInv => ChordInv
  BY DEF TasksInv
<1> QED BY <1>1, TasksInvInit, TasksInvNext, PTL DEF TasksSpec

\* Whatever processes are lost, statements fail and tasks are delivered again:
\* when all is done, a discovery's result stays only with a workflow that has
\* not taken its answer, or that was cut off, or that has a chord of which a
\* message was delivered again after it was counted or answered
\* (celery_aggregate_and_sync and run_workflow write the same rows).
THEOREM ResultStays == TasksSpec => []WorkflowsResultStays
<1>1. TasksInv => WorkflowsResultStays
  <2> SUFFICES ASSUME TasksInv, AtRest, NEW w \in Workflows \ lost,
                      NEW i \in DOMAIN rows[w],
                      rows[w][i] = Row("success", "discovery")
               PROVE  \E c \in DOMAIN chords :
                        /\ chords[c].by = w
                        /\ chords[c].again \/ ~ chords[c].taken
    BY DEF WorkflowsResultStays
  <2>1. ~ Pending(w)
    BY DEF AtRest, Pending, IsRun, At
  <2>2. ~ NoneLeft(w)
    BY DEF NoneLeft
  <2> QED BY <2>1, <2>2 DEF TasksInv, ResultInv, AllTaken
<1> QED BY <1>1, TasksInvInit, TasksInvNext, PTL DEF TasksSpec
-----------------------------------------------------------------------------
\* A run that has begun has a row.
Listed == \A s \in Slots : IsRun(s) /\ ~ At(s, "create") => rows[Id(s)] # <<>>

\* The rows of a workflow have their final status, or a run of it will give
\* it to them.
Closed(w) ==
  /\ rows[w] # <<>>
  /\ \A i \in DOMAIN rows[w] : rows[w][i].status \in {"success", "failed"}
RowsInv == Listed /\ \A w \in Workflows \ lost : Closed(w) \/ Pending(w)

\* When nothing is left to do every workflow that was not cut off has a row,
\* and none of its rows stays running.
RowsClosed == AtRest => \A w \in Workflows \ lost : Closed(w)

\* Every workflow's message is in the queue at first.
LEMMA FirstPending ==
  ASSUME TasksInit, NEW w \in Workflows
  PROVE  \E i \in DOMAIN queue : queue[i] = Run(w)
<1> DEFINE runs == {Run(v) : v \in Workflows}
           f == [v \in Workflows |-> Run(v)]
<1>1. IsFiniteSet(runs)
  <2>1. f \in Surjection(Workflows, runs)
    BY DEF Surjection
  <2> QED BY <2>1, FS_Surjection, TasksAssumption
<1>2. queue = SetToSeq(runs) /\ Run(w) \in runs
  BY DEF TasksInit
<1> HIDE DEF runs
<1>3. /\ Cardinality(runs) \in Nat
      /\ ExistsBijection(1 .. Cardinality(runs), runs)
  BY <1>1, FS_CardinalityType
<1>4. \E g \in [1 .. Cardinality(runs) -> runs] : IsInjective(g)
  BY <1>3 DEF ExistsBijection, Bijection, Injection, IsInjective
<1>5. /\ SetToSeq(runs) \in [1 .. Cardinality(runs) -> runs]
      /\ IsInjective(SetToSeq(runs))
  BY <1>4 DEF SetToSeq
<1> DEFINE q == SetToSeq(runs)
<1>6. q \in Injection(1 .. Cardinality(runs), runs)
  BY <1>5 DEF Injection, IsInjective
<1>7. q \in Surjection(1 .. Cardinality(runs), runs)
  <2>1. /\ IsFiniteSet(1 .. Cardinality(runs))
        /\ Cardinality(1 .. Cardinality(runs)) = Cardinality(runs)
    BY <1>3, FS_Interval
  <2> HIDE DEF q
  <2> QED BY <1>1, <1>6, <2>1, FS_Injection
<1>8. \E i \in 1 .. Cardinality(runs) : q[i] = Run(w)
  BY <1>2, <1>7 DEF Surjection
<1>9. DOMAIN q = 1 .. Cardinality(runs)
  BY <1>5
<1> QED BY <1>2, <1>8, <1>9

LEMMA FirstRows == TasksInit => RowsInv
<1> SUFFICES ASSUME TasksInit PROVE RowsInv
  OBVIOUS
<1>1. Listed
  BY DEF TasksInit, Listed, IsRun, Idle
<1>2. \A w \in Workflows : Pending(w)
  <2>1. \A w \in Workflows : Run(w).task = "run" /\ Run(w).id = w
    BY DEF Run
  <2> QED BY <2>1, FirstPending DEF Pending
<1> QED BY <1>1, <1>2 DEF RowsInv

\* A step of s that takes no row away, and lists its own run.
LEMMA ListedStays ==
  ASSUME TypeInv, Listed, NEW s \in Slots,
         \A r \in Slots \ {s} : slot'[r] = slot[r],
         \A w \in Workflows : rows[w] # <<>> => rows'[w] # <<>>,
         (IsRun(s) /\ ~ At(s, "create") => rows[Id(s)] # <<>>)'
  PROVE  Listed'
<1> SUFFICES ASSUME NEW r \in Slots, (IsRun(r) /\ ~ At(r, "create"))'
             PROVE  (rows[Id(r)] # <<>>)'
  BY DEF Listed
<1>1. CASE r = s
  BY <1>1
<1>2. CASE r # s
  <2>1. IsRun(r) /\ ~ At(r, "create") /\ Id(r)' = Id(r)
    BY <1>2 DEF IsRun, At, Id
  <2>2. Id(r) \in Workflows
    <3>1. slot[r] # Idle
      BY <2>1 DEF IsRun, Idle
    <3> QED BY <3>1, Busy
  <2> QED BY <2>1, <2>2 DEF Listed
<1> QED BY <1>1, <1>2

\* What a step of s does to its own workflow v is all there is to see.
LEMMA OwnRows ==
  ASSUME RowsInv, NEW s \in Slots, Alone(s), NEW v, v = Id(s),
         lost \subseteq lost', Listed',
         \A w \in Workflows \ {v} : rows'[w] = rows[w],
         v \notin lost' => Closed(v)' \/ Pending(v)'
  PROVE  RowsInv'
<1>1. ASSUME NEW w \in Workflows \ lost' PROVE Closed(w)' \/ Pending(w)'
  <2>1. CASE w = v
    BY <1>1, <2>1
  <2>2. CASE w # v
    <3>1. Closed(w) \/ Pending(w)
      BY <1>1 DEF RowsInv
    <3>2. Closed(w) => Closed(w)'
      BY <1>1, <2>2 DEF Closed
    <3>3. Pending(w) => Pending(w)'
      BY <2>2, PendingStays
    <3> QED BY <3>1, <3>2, <3>3
  <2> QED BY <2>1, <2>2
<1> QED BY <1>1 DEF RowsInv

\* A task that is not a run, or has ended its own, writes nothing.
LEMMA NoRows ==
  ASSUME TypeInv, RowsInv, NEW s \in Slots, Alone(s), lost \subseteq lost',
         rows' = rows, (~ IsRun(s))',
         ~ IsRun(s) \/ At(s, "return") \/ Id(s) \in lost'
  PROVE  RowsInv'
<1> PICK v : v = Id(s)
  OBVIOUS
<1>1. v \in Workflows
  BY Busy DEF Alone
<1>2. ASSUME v \notin lost' PROVE Closed(v)' \/ Pending(v)'
  <2>1. Closed(v) \/ Pending(v)
    BY <1>1, <1>2 DEF RowsInv
  <2>2. Closed(v) => Closed(v)'
    BY DEF Closed
  <2>3. Pending(v) => Pending(v)'
    BY <1>2, PendingStays
  <2> QED BY <2>1, <2>2, <2>3
<1>3. Listed'
  BY ListedStays DEF RowsInv, Alone
<1> QED BY <1>2, <1>3, OwnRows

LEMMA TakeRows ==
  ASSUME TypeInv, RowsInv, NEW s \in Slots, Take(s) PROVE RowsInv'
<1>1. UNCHANGED <<rows, lost>>
  BY DEF Take
<1>2. PICK p \in Process :
        /\ slot' = [slot EXCEPT ![s] = p] /\ p.msg = Head(queue)
        /\ p.msg.task = "run" => p.at = "create"
  BY TakeTypes
<1>3. slot'[s] = p /\ \A r \in Slots \ {s} : slot'[r] = slot[r]
  BY <1>2 DEF TypeInv
<1>4. Listed'
  <2>1. (IsRun(s) => At(s, "create"))'
    BY <1>2, <1>3 DEF IsRun, At
  <2> QED BY <1>1, <1>3, <2>1, ListedStays DEF RowsInv
<1>5. \A w : Pending(w) => Pending(w)'
  BY TakePends
<1> QED BY <1>1, <1>4, <1>5 DEF RowsInv, Closed

LEMMA EndsRows ==
  ASSUME TypeInv, RowsInv, NEW s \in Slots, Ends(s) PROVE RowsInv'
<1>1. /\ Alone(s) /\ lost \subseteq lost' /\ rows' = rows /\ slot'[s] = Idle
      /\ At(s, "return") \/ Id(s) \in lost'
  BY EndsOn DEF Alone, Acknowledges, TypeInv
<1>2. (~ IsRun(s))'
  BY <1>1 DEF IsRun, Idle
<1> QED BY <1>1, <1>2, NoRows

LEMMA AnswersRows ==
  ASSUME TypeInv, ChordInv, RowsInv, NEW s \in Slots, Answers(s) \/ ScanChunk(s)
  PROVE  RowsInv'
<1>1. CASE Answers(s)
  <2>1. /\ Alone(s) /\ lost' = lost /\ rows' = rows /\ ~ IsRun(s)
        /\ (~ IsRun(s))'
    BY <1>1, AnswersOn DEF Answers, Alone, Releases, IsRun
  <2> QED BY <2>1, NoRows
<1>2. CASE ScanChunk(s)
  <2>1. \A i \in DOMAIN queue : \E j \in DOMAIN queue' : queue'[j] = queue[i]
    BY <1>2, ChunkQueue
  <2>2. Alone(s) /\ lost' = lost /\ rows' = rows /\ ~ IsRun(s)
    BY <1>2, <2>1, ChunkOn DEF ScanChunk, Alone, Releases, IsRun
  <2>3. (~ IsRun(s))'
    BY <1>2, ChunkOn DEF IsRun
  <2> QED BY <2>2, <2>3, NoRows
<1> QED BY <1>1, <1>2

\* A run that waits, or goes on after it has.
LEMMA WaitsRows ==
  ASSUME TypeInv, ChordInv, RowsInv, NEW s \in Slots,
         ChordReady(s) \/ \E n \in Chunks : Sends(s, n)
  PROVE  RowsInv'
<1> PICK v : v = Id(s)
  OBVIOUS
<1>1. CASE ChordReady(s)
  <2>1. /\ Alone(s) /\ lost' = lost /\ rows' = rows
        /\ slot'[s].msg = slot[s].msg /\ Pending(v)'
    BY <1>1, ReadyOn, RunPends DEF ChordReady, Alone, Continues
  <2>2. IsRun(s) /\ ~ At(s, "create")
    BY <1>1, ReadyOn DEF ChordReady, IsRun, At, Alone, Continues
  <2>3. Listed'
    BY <2>1, <2>2, ListedStays DEF RowsInv, Listed, Id, Alone
  <2> QED BY <2>1, <2>3, OwnRows
<1>2. ASSUME NEW n \in Chunks, Sends(s, n) PROVE RowsInv'
  <2>1. \A i \in DOMAIN queue : \E j \in DOMAIN queue' : queue'[j] = queue[i]
    BY <1>2, SendsQueue
  <2>2. /\ Alone(s) /\ lost' = lost /\ rows' = rows
        /\ slot'[s].msg = slot[s].msg /\ Pending(v)'
    BY <1>2, <2>1, SendsOn, RunPends DEF Sends, Alone, Continues
  <2>3. IsRun(s) /\ ~ At(s, "create")
    BY <1>2, SendsOn DEF Sends, IsRun, At
  <2>4. Listed'
    BY <2>2, <2>3, ListedStays DEF RowsInv, Listed, Id, Alone
  <2> QED BY <2>2, <2>4, OwnRows
<1> QED BY <1>1, <1>2

LEMMA CrashRows ==
  ASSUME TypeInv, ChordInv, RowsInv, NEW s \in Slots, Crash(s) PROVE RowsInv'
<1> PICK v : v = Id(s)
  OBVIOUS
<1>1. /\ queue \in Seq(Messages) /\ slot[s].msg \in Messages
      /\ queue' = Append(queue, slot[s].msg)
      /\ rows' = rows /\ lost' = lost
  BY CrashOn DEF TypeInv
<1>2. \A i \in DOMAIN queue : \E j \in DOMAIN queue' : queue'[j] = queue[i]
  BY <1>1, Appended
<1>3. Alone(s) /\ slot'[s] = Idle /\ (~ IsRun(s))'
  BY <1>2, CrashOn DEF Alone, Releases, IsRun, Idle
<1>4. CASE IsRun(s)
  <2>1. \E j \in DOMAIN queue' : queue'[j] = slot[s].msg
    BY <1>1, Appended
  <2>2. Pending(v)'
    BY <1>4, <2>1 DEF Pending, IsRun, Id
  <2>3. Listed'
    BY <1>1, <1>3, ListedStays DEF RowsInv, Alone
  <2> QED BY <1>1, <1>3, <2>2, <2>3, OwnRows
<1>5. CASE ~ IsRun(s)
  BY <1>1, <1>3, <1>5, NoRows
<1> QED BY <1>4, <1>5

LEMMA RowStatus == \A status, result : Row(status, result).status = status
BY DEF Row

\* A run writes its rows: all of them get their final status before it returns.
LEMMA StaysRows ==
  ASSUME TypeInv, RowsInv, NEW s \in Slots, Stays(s)
  PROVE  RowsInv'
<1>1. /\ slot[s] # Idle /\ Continues(s) /\ slot'[s].at # "idle"
      /\ UNCHANGED <<queue, chords, lost>>
  BY StaysOn
<1>2. Alone(s) /\ Id(s) \in Workflows /\ slot'[s].msg = slot[s].msg
  BY <1>1, Busy DEF Alone, Continues
<1> PICK v : v = Id(s)
  OBVIOUS
<1>3. rows[v] \in Seq(ResultRow)
  BY <1>2 DEF TypeInv
<1>4. /\ \A w \in Workflows \ {v} : rows'[w] = rows[w]
      /\ rows[v] # <<>> => rows'[v] # <<>>
      /\ CreateExecution(s) => rows'[v] # <<>>
  <2>1. CASE CreateExecution(s)
    <3>1. rows' = [rows EXCEPT ![v] = Append(rows[v], Row("running", None))]
      BY <2>1 DEF CreateExecution, TypeInv
    <3>2. Append(rows[v], Row("running", None)) # <<>>
      BY <1>3
    <3> QED BY <1>2, <3>1, <3>2 DEF TypeInv
  <2>2. CASE \E status \in {"running", "success", "failed"},
                result \in {None, "workflow", "discovery"} :
               UpdateExecution(v, status, result)
    <3>1. /\ rows' \in [Workflows -> Seq(ResultRow)]
          /\ \A w \in Workflows \ {v} : rows'[w] = rows[w]
          /\ DOMAIN rows'[v] = DOMAIN rows[v]
      BY <1>2, <2>2, UpdateRows
    <3>2. rows'[v] \in Seq(ResultRow)
      BY <1>2, <3>1
    <3>3. rows[v] # <<>> => rows'[v] # <<>>
      BY <1>3, <3>1, <3>2
    <3>4. CreateExecution(s) => rows'[v] # <<>>
      <4>1. CreateExecution(s) => rows'[v] = Append(rows[v], Row("running", None))
        BY <1>2 DEF CreateExecution, TypeInv
      <4>2. Append(rows[v], Row("running", None)) # <<>>
        BY <1>3
      <4> QED BY <4>1, <4>2
    <3> QED BY <3>1, <3>3, <3>4
  <2>3. CASE UNCHANGED rows /\ ~ CreateExecution(s)
    BY <2>3
  <2> QED
    BY <2>1, <2>2, <2>3 DEF Stays, StartExecution, EndNodes, GiveUp,
       FinishExecution, FailExecution, AggregateAndSync, At
<1>5. Listed'
  <2>1. (IsRun(s) /\ ~ At(s, "create") => rows[Id(s)] # <<>>)'
    <3>1. CASE CreateExecution(s)
      BY <1>2, <1>4, <3>1 DEF Id
    <3>2. CASE ~ CreateExecution(s) /\ slot[s].msg.task = "run"
      <4>1. IsRun(s) /\ ~ At(s, "create")
        BY <1>1, <3>2, Busy DEF Stays, StartExecution, EndNodes, GiveUp, Idle,
           FinishExecution, FailExecution, AggregateAndSync, At, IsRun
      <4> QED BY <1>2, <1>4, <4>1 DEF RowsInv, Listed, Id
    <3>3. CASE slot[s].msg.task # "run"
      BY <1>2, <3>3 DEF IsRun
    <3> QED BY <3>1, <3>2, <3>3
  <2>2. \A w \in Workflows : rows[w] # <<>> => rows'[w] # <<>>
    BY <1>4
  <2> QED BY <1>2, <2>1, <2>2, ListedStays DEF RowsInv, Alone
<1>6. ASSUME v \notin lost' PROVE Closed(v)' \/ Pending(v)'
  <2>1. CASE FinishExecution(s) \/ FailExecution(s)
    <3>1. IsRun(s) /\ ~ At(s, "create")
      BY <2>1, Staged DEF FinishExecution, FailExecution, At, Stages, IsRun
    <3>2. rows'[v] # <<>>
      BY <1>4, <3>1 DEF RowsInv, Listed
    <3>3. \E status \in {"success", "failed"}, result \in {None, "workflow"} :
            UpdateExecution(v, status, result)
      BY <2>1 DEF FinishExecution, FailExecution
    <3>4. PICK status \in {"success", "failed"}, result \in {None, "workflow"} :
            UpdateExecution(v, status, result)
      BY <3>3
    <3>5. \A i \in DOMAIN rows'[v] :
            \E kept : rows'[v][i] = Row(status, kept)
      BY <1>2, <3>4, UpdateRows
    <3>6. \A i \in DOMAIN rows'[v] : rows'[v][i].status = status
      BY <3>5, RowStatus
    <3> QED BY <3>2, <3>6 DEF Closed
  <2>2. CASE At(s, "sync")
    <3>1. ~ IsRun(s)
      BY <2>2, Staged DEF IsRun, At, Stages
    <3>2. CASE Pending(v)
      BY <1>2, <3>1, <3>2, PendingStays
    <3>3. CASE Closed(v)
      <4>1. rows'[v] # <<>>
        BY <1>4, <3>3 DEF Closed
      <4>2. CASE UpdateExecution(v, "success", "discovery")
        <5>1. \A i \in DOMAIN rows'[v] :
                \E kept : rows'[v][i] = Row("success", kept)
          BY <1>2, <4>2, UpdateRows
        <5>2. \A i \in DOMAIN rows'[v] : rows'[v][i].status = "success"
          BY <5>1, RowStatus
        <5> QED BY <4>1, <5>2 DEF Closed
      <4>3. CASE UNCHANGED rows
        BY <3>3, <4>3 DEF Closed
      <4> QED
        BY <2>2, <4>2, <4>3 DEF Stays, CreateExecution, StartExecution, GiveUp,
           EndNodes, FinishExecution, FailExecution, AggregateAndSync, At
    <3> QED BY <1>1, <1>2, <1>6, <3>2, <3>3 DEF RowsInv
  <2>3. CASE slot[s].at \in Stages("run") /\ slot'[s].at # "return"
    <3>1. slot[s].msg.task = "run"
      BY <2>3, StaysOn, Staged DEF At
    <3> QED BY <1>1, <1>2, <2>3, <3>1, RunPends
  <2> QED
  <3>1. CASE \E at \in {"start", "nodes", "finish", "except"} :
               Goes(s, at) /\ slot[s].at \in Stages("run")
    BY <2>3, <3>1 DEF Goes, TypeInv
  <3> QED
    BY <2>1, <2>2, <3>1 DEF Stays, CreateExecution, StartExecution,
       EndNodes, GiveUp, At, Stages
<1> QED BY <1>1, <1>2, <1>4, <1>5, <1>6, OwnRows

LEMMA RowsNext ==
  ASSUME TasksInv, RowsInv, [TasksNext]_tasksVars PROVE RowsInv'
<1>1. CASE TasksNext
  <2>1. PICK s \in Slots :
          \/ Take(s) \/ Stays(s) \/ Ends(s) \/ Answers(s) \/ ScanChunk(s)
          \/ ChordReady(s) \/ Crash(s) \/ \E n \in Chunks : Sends(s, n)
    BY <1>1, StepKinds
  <2> QED
    BY <2>1, TakeRows, StaysRows, EndsRows, AnswersRows, WaitsRows, CrashRows
    DEF TasksInv
<1>2. CASE UNCHANGED tasksVars
  BY <1>2 DEF tasksVars, RowsInv, Listed, Closed, Pending, IsRun, Id, At
<1> QED BY <1>1, <1>2

\* However many processes are lost, tasks killed and delivered again: when
\* nothing is left to do every workflow has a row of run_workflow, and none of
\* its rows stays running, those of its earlier deliveries included, unless an
\* error has ended it outside of its try or a limit has killed it.
THEOREM RowsAreClosed == TasksSpec => []RowsClosed
<1>1. TasksInit => TasksInv /\ RowsInv
  BY TasksInvInit, FirstRows
<1>2. TasksInv /\ RowsInv /\ [TasksNext]_tasksVars => TasksInv' /\ RowsInv'
  BY TasksInvNext, RowsNext
<1>3. RowsInv => RowsClosed
  BY DEF RowsInv, RowsClosed, AtRest, Pending, IsRun, At
<1> QED BY <1>1, <1>2, <1>3, PTL DEF TasksSpec
=============================================================================
