---------------------------- MODULE ConsoleProofs ----------------------------
(***************************************************************************)
(* Proofs about Console, for every set of pages whose forms are guarded    *)
(* and that read back what they write, but for what they are said to       *)
(* forget.                                                                 *)
(*                                                                         *)
(* A form is applied once because a run of it that is not old holds the    *)
(* flag that disables its control: of the runs that clear a flag at their  *)
(* end there is one at a time, and the flag is TRUE until then.            *)
(*                                                                         *)
(* A user who waits for each answer sees what the server has because all   *)
(* that the page must show is shown or about to be: a run in flight loads  *)
(* it, holds the copy it will show, or calls the handler that loads it.    *)
(*                                                                         *)
(* No control stays disabled because each flag that is TRUE is claimed by  *)
(* a run in flight, which clears it at its end or passes it on.            *)
(***************************************************************************)
EXTENDS Console, FiniteSetTheorems, SequenceTheorems, TLAPS

IsForm(run) == page[run.h].form
\* The run of a form that is open, and one that clears its flag at its end.
Live(run)  == IsForm(run) /\ ~run.old
Holds(run) == IsForm(run) /\ (run.old => ~page[run.h].modal)
BusyFlag(run) == page[run.h].busy

\* The request that applies the form has been sent and is over.
Written(run) ==
  \E j \in 1 .. run.at :
    /\ page[run.h].steps[j].kind = "save"
    /\ j = run.at => run.answer # None

\* No flag of a form is cleared by a handler that waits for others.
Owing == \A i \in DOMAIN runs : \A h \in DOMAIN page :
  page[h].form => page[h].busy \notin runs[i].owes

LiveIsOpen == \A i \in DOMAIN runs : Live(runs[i]) => runs[i].h = form

HoldsOwnFlag ==
  /\ \A i \in DOMAIN runs : Holds(runs[i]) => BusyFlag(runs[i]) \in flags
  /\ \A i, j \in DOMAIN runs :
       Holds(runs[i]) /\ Holds(runs[j]) /\ BusyFlag(runs[i]) = BusyFlag(runs[j])
         => i = j

AppliedOnce ==
  form # "" =>
    /\ sub.applied <= sub.told + 1
    /\ (\A i \in DOMAIN runs : Live(runs[i]) => ~Written(runs[i]))
         => sub.applied <= sub.told

\* The inductive invariant.
ConsoleInv == TypeOK /\ Owing /\ LiveIsOpen /\ HoldsOwnFlag /\ AppliedOnce

-----------------------------------------------------------------------------
\* SetToSeq lists the members of a finite set, each one once.
LEMMA ListOfSet ==
  ASSUME NEW S, IsFiniteSet(S)
  PROVE  /\ SetToSeq(S) \in Seq(S)
         /\ \A i, j \in DOMAIN SetToSeq(S) :
              SetToSeq(S)[i] = SetToSeq(S)[j] => i = j
<1>1. /\ Cardinality(S) \in Nat
      /\ \E f \in [1 .. Cardinality(S) -> S] : IsInjective(f)
  BY FS_CardinalityType DEF ExistsBijection, Bijection, Injection, IsInjective
<1>2. /\ SetToSeq(S) \in [1 .. Cardinality(S) -> S]
      /\ IsInjective(SetToSeq(S))
  BY <1>1 DEF SetToSeq
<1> QED
  BY <1>1, <1>2 DEF IsInjective

\* RemoveAt moves the elements after the removed one down by one.
LEMMA Removed ==
  ASSUME NEW S, NEW s \in Seq(S), NEW i \in DOMAIN s
  PROVE  /\ RemoveAt(s, i) \in Seq(S)
         /\ DOMAIN RemoveAt(s, i) = 1 .. Len(s) - 1
         /\ \A j \in 1 .. Len(s) - 1 :
              RemoveAt(s, i)[j] = IF j < i THEN s[j] ELSE s[j + 1]
<1> DEFINE front == SubSeq(s, 1, i - 1)
           back  == SubSeq(s, i + 1, Len(s))
<1>1. /\ front \in Seq(S) /\ Len(front) = i - 1
      /\ \A j \in 1 .. i - 1 : front[j] = s[j]
  OBVIOUS
<1>2. /\ back \in Seq(S) /\ Len(back) = Len(s) - i
      /\ \A j \in 1 .. Len(s) - i : back[j] = s[i + j]
  OBVIOUS
<1>3. RemoveAt(s, i) = front \o back
  BY DEF RemoveAt
<1>4. Len(s) \in Nat /\ i \in 1 .. Len(s)
  OBVIOUS
<1> HIDE DEF front, back
<1>5. /\ front \o back \in Seq(S)
      /\ Len(front \o back) = Len(front) + Len(back)
      /\ \A j \in 1 .. Len(front) + Len(back) : (front \o back)[j] =
           IF j <= Len(front) THEN front[j] ELSE back[j - Len(front)]
  <2>1. front \in Seq(S) /\ back \in Seq(S)
    BY <1>1, <1>2
  <2> QED BY <2>1, ConcatProperties, Zenon
<1>6. Len(front) + Len(back) = Len(s) - 1
  BY <1>1, <1>2, <1>4
<1>7. DOMAIN (front \o back) = 1 .. Len(s) - 1
  BY <1>5, <1>6, LenProperties
<1>8. ASSUME NEW j \in 1 .. Len(s) - 1
      PROVE  (front \o back)[j] = IF j < i THEN s[j] ELSE s[j + 1]
  <2>1. (front \o back)[j] =
          IF j <= Len(front) THEN front[j] ELSE back[j - Len(front)]
    BY <1>5, <1>6
  <2>2. CASE j < i
    BY <2>1, <2>2, <1>1, <1>4
  <2>3. CASE ~(j < i)
    <3>1. j - Len(front) \in 1 .. Len(s) - i /\ ~(j <= Len(front))
      BY <2>3, <1>1, <1>4
    <3>2. back[j - Len(front)] = s[i + (j - Len(front))]
      BY <3>1, <1>2
    <3>3. i + (j - Len(front)) = j + 1
      BY <1>1, <1>4
    <3> QED BY <2>1, <2>3, <3>1, <3>2, <3>3
  <2> QED BY <2>2, <2>3
<1> QED BY <1>3, <1>5, <1>7, <1>8
-----------------------------------------------------------------------------
\* A step never leaves the page.
LEMMA SamePage ==
  ASSUME open' = open
  PROVE  /\ page' = page /\ Resources' = Resources /\ Flags' = Flags
         /\ Runs' = Runs /\ Details' = Details /\ Selections' = Selections
         /\ Copied' = Copied
  BY DEF page, Resources, Flags, Runs, Details, Selections, Copied

\* What the assumption says of the open page.
LEMMA OpenPage ==
  ASSUME TypeOK
  PROVE  IsPage(page) /\ HasGuardedForms(page)
  BY PagesAssumption DEF TypeOK, page

\* A run awaits a step of its handler, whose resources are the page's.
LEMMA StepFacts ==
  ASSUME TypeOK, NEW i \in DOMAIN runs
  PROVE  /\ runs[i] \in Runs /\ runs[i].h \in DOMAIN page
         /\ page[runs[i].h].steps \in Seq(Steps)
         /\ runs[i].at \in 1 .. Len(page[runs[i].h].steps)
         /\ StepOf(runs[i]) \in Steps
         /\ StepOf(runs[i]).rs \subseteq Resources
         /\ Locals(runs[i].h) \subseteq Resources
<1> DEFINE h == runs[i].h
<1>1. runs[i] \in Runs /\ h \in DOMAIN page
  <2>1. runs \in Seq(Runs)
    BY DEF TypeOK
  <2>2. runs[i] \in Runs
    BY <2>1
  <2> QED BY <2>2 DEF Runs
<1>2. /\ page[h].steps \in Seq(Steps)
      /\ \A k \in DOMAIN page[h].steps :
           page[h].steps[k].local \subseteq page[h].steps[k].rs
  BY <1>1, OpenPage DEF IsPage
<1>3. runs[i].at \in DOMAIN page[h].steps
  BY DEF TypeOK
<1>4. runs[i].at \in 1 .. Len(page[h].steps) /\ StepOf(runs[i]) \in Steps
  BY <1>2, <1>3 DEF StepOf
<1>5. \A k \in DOMAIN page[h].steps : page[h].steps[k].rs \subseteq Resources
  <2>1. Resources = UNION {(UNION {t.rs : t \in Range(g.steps)})
                             \cup {c.copy : c \in g.copies} : g \in Range(page)}
    BY DEF TypeOK, Resources, ResourcesIn, page
  <2>2. page[h] \in Range(page)
    BY <1>1 DEF Range
  <2>3. UNION {t.rs : t \in Range(page[h].steps)} \subseteq Resources
    BY <2>1, <2>2
  <2> QED BY <2>3 DEF Range
<1>6. Locals(h) \subseteq Resources
  BY <1>2, <1>5 DEF Locals, Range
<1> QED BY <1>1, <1>2, <1>3, <1>4, <1>5, <1>6 DEF StepOf

\* Handlers that are started have one run each, which awaits its first step.
LEMMA NewRunsFacts ==
  ASSUME IsPage(page), NEW hs \in SUBSET DOMAIN page,
         \A h \in hs : page[h].steps # <<>>,
         NEW arg \in Items \cup {None}, NEW owes \in SUBSET Flags
  PROVE  /\ NewRuns(hs, arg, owes) \in Seq(Runs)
         /\ \A i \in DOMAIN NewRuns(hs, arg, owes) :
              \E h \in hs : NewRuns(hs, arg, owes)[i] = NewRun(h, arg, owes)
         /\ \A i, j \in DOMAIN NewRuns(hs, arg, owes) :
              NewRuns(hs, arg, owes)[i].h = NewRuns(hs, arg, owes)[j].h => i = j
<1> DEFINE S == {NewRun(h, arg, owes) : h \in hs}
           f == [h \in hs |-> NewRun(h, arg, owes)]
<1>1. IsFiniteSet(hs)
  BY FS_Subset DEF IsPage
<1>2. f \in Surjection(hs, S)
  BY DEF Surjection
<1>3. IsFiniteSet(S)
  BY <1>1, <1>2, FS_Surjection
<1>4. S \subseteq Runs
  <2>1. ASSUME NEW h \in hs PROVE NewRun(h, arg, owes) \in Runs
    BY DEF NewRun, Runs
  <2> QED BY <2>1
<1>5. /\ SetToSeq(S) \in Seq(S)
      /\ \A i, j \in DOMAIN SetToSeq(S) :
           SetToSeq(S)[i] = SetToSeq(S)[j] => i = j
  BY <1>3, ListOfSet
<1>6. \A i \in DOMAIN SetToSeq(S) : SetToSeq(S)[i] \in S
  <2> HIDE DEF S
  <2> QED BY <1>5
<1>7. \A r1, r2 \in S : r1.h = r2.h => r1 = r2
  <2>1. \A h \in hs : NewRun(h, arg, owes).h = h
    BY DEF NewRun
  <2> QED BY <2>1
<1>8. SetToSeq(S) \in Seq(Runs)
  BY <1>4, <1>5, SeqMonotonic
<1>9. NewRuns(hs, arg, owes) = SetToSeq(S)
  BY DEF NewRuns
<1> HIDE DEF S
<1>10. \A i, j \in DOMAIN SetToSeq(S) :
         SetToSeq(S)[i].h = SetToSeq(S)[j].h => i = j
  BY <1>5, <1>6, <1>7
<1>11. \A r \in S : \E h \in hs : r = NewRun(h, arg, owes)
  BY DEF S
<1> QED BY <1>6, <1>8, <1>9, <1>10, <1>11
-----------------------------------------------------------------------------
\* A function with the domain of a sequence is a sequence.
LEMMA Mapped ==
  ASSUME NEW S, NEW T, NEW s \in Seq(S), NEW f \in [DOMAIN s -> T]
  PROVE  f \in Seq(T) /\ DOMAIN f = DOMAIN s
  OBVIOUS

\* What the server's change leaves of the runs.
LEMMA OutdateFacts ==
  ASSUME TypeOK, NEW rs
  PROVE  /\ Outdate(rs, runs) \in Seq(Runs)
         /\ DOMAIN Outdate(rs, runs) = DOMAIN runs
         /\ \A j \in DOMAIN runs :
              Outdate(rs, runs)[j] = [runs[j] EXCEPT !.got = @ \ rs]
<1>1. \A j \in DOMAIN runs : [runs[j] EXCEPT !.got = @ \ rs] \in Runs
  BY StepFacts DEF Runs
<1>2. Outdate(rs, runs) \in [DOMAIN runs -> Runs]
  BY <1>1 DEF Outdate
<1>3. runs \in Seq(Runs)
  BY DEF TypeOK
<1> QED BY <1>2, <1>3, Mapped DEF Outdate

\* The runs of a form that is closed.
LEMMA AgedFacts ==
  ASSUME TypeOK, NEW rns \in Seq(Runs)
  PROVE  /\ Aged(rns) \in Seq(Runs)
         /\ DOMAIN Aged(rns) = DOMAIN rns
         /\ \A j \in DOMAIN rns : Aged(rns)[j] = [rns[j] EXCEPT !.old = TRUE]
<1>1. \A j \in DOMAIN rns : rns[j] \in Runs
  OBVIOUS
<1>2. \A r \in Runs : [r EXCEPT !.old = TRUE] \in Runs
  BY DEF Runs
<1>3. Aged(rns) \in [DOMAIN rns -> Runs]
  BY <1>1, <1>2 DEF Aged
<1> QED BY <1>3, Mapped DEF Aged

\* What a step that changes only what the runs await keeps.
SameRun(r, s) == r.h = s.h /\ r.owes = s.owes /\ r.old = s.old
LEMMA Answered ==
  ASSUME ConsoleInv, UNCHANGED <<open, form, flags>>,
         DOMAIN runs' = DOMAIN runs,
         \A j \in DOMAIN runs : SameRun(runs'[j], runs[j])
  PROVE  Owing' /\ LiveIsOpen' /\ HoldsOwnFlag'
<1>1. page' = page
  BY SamePage
<1>2. \A j \in DOMAIN runs :
        /\ Live(runs[j])' <=> Live(runs[j])
        /\ Holds(runs[j])' <=> Holds(runs[j])
        /\ BusyFlag(runs[j])' = BusyFlag(runs[j])
  BY <1>1 DEF Live, Holds, IsForm, BusyFlag, SameRun
<1>3. Owing'
  BY <1>1 DEF ConsoleInv, Owing, SameRun
<1>4. LiveIsOpen'
  BY <1>2 DEF ConsoleInv, LiveIsOpen, SameRun
<1>5. HoldsOwnFlag'
  BY <1>2 DEF ConsoleInv, HoldsOwnFlag
<1> QED BY <1>3, <1>4, <1>5

\* A form that was not written before the step is not counted by it.
LEMMA NotCounted ==
  ASSUME ConsoleInv, UNCHANGED <<open, form, sub>>,
         DOMAIN runs' = DOMAIN runs,
         \A j \in DOMAIN runs : SameRun(runs'[j], runs[j]),
         \A j \in DOMAIN runs : Written(runs[j]) => Written(runs[j])'
  PROVE  AppliedOnce'
<1>1. page' = page
  BY SamePage
<1>2. \A j \in DOMAIN runs : Live(runs[j])' <=> Live(runs[j])
  BY <1>1 DEF Live, IsForm, SameRun
<1> QED BY <1>2 DEF ConsoleInv, AppliedOnce

\* One run is replaced.
LEMMA PutFacts ==
  ASSUME TypeOK, NEW i \in DOMAIN runs, NEW r \in Runs
  PROVE  /\ Put(i, r) \in Seq(Runs) /\ DOMAIN Put(i, r) = DOMAIN runs
         /\ \A j \in DOMAIN runs : Put(i, r)[j] = IF j = i THEN r ELSE runs[j]
<1>1. runs \in Seq(Runs)
  BY DEF TypeOK
<1>2. Put(i, r) \in [DOMAIN runs -> Runs]
  BY <1>1 DEF Put
<1> QED BY <1>1, <1>2, Mapped DEF Put

\* The answer to one run, or its next await.
LEMMA PutKeeps ==
  ASSUME ConsoleInv, NEW i \in DOMAIN runs, NEW r \in Runs,
         SameRun(r, runs[i]), r.at \in DOMAIN page[runs[i].h].steps,
         Written(runs[i]) => Written(r),
         runs' = Put(i, r), UNCHANGED <<open, form, flags, sub>>
  PROVE  /\ Owing' /\ LiveIsOpen' /\ HoldsOwnFlag' /\ AppliedOnce'
         /\ runs' \in Seq(Runs')
         /\ \A j \in DOMAIN runs' : runs'[j].at \in DOMAIN page'[runs'[j].h].steps
<1>1. TypeOK
  BY DEF ConsoleInv
<1>2. page' = page /\ Runs' = Runs
  BY SamePage
<1>3. /\ runs' \in Seq(Runs) /\ DOMAIN runs' = DOMAIN runs
      /\ \A j \in DOMAIN runs : runs'[j] = IF j = i THEN r ELSE runs[j]
  BY <1>1, PutFacts
<1>4. \A j \in DOMAIN runs : SameRun(runs'[j], runs[j])
  BY <1>3 DEF SameRun
<1>5. Owing' /\ LiveIsOpen' /\ HoldsOwnFlag'
  BY <1>3, <1>4, Answered
<1>6. \A j \in DOMAIN runs : Written(runs[j]) => Written(runs[j])'
  BY <1>2, <1>3 DEF Written
<1>7. AppliedOnce'
  BY <1>3, <1>4, <1>6, NotCounted
<1>8. \A j \in DOMAIN runs' : runs'[j].at \in DOMAIN page'[runs'[j].h].steps
  BY <1>1, <1>2, <1>3 DEF TypeOK, SameRun
<1> QED BY <1>2, <1>3, <1>5, <1>7, <1>8

\* Spending of a bounded count keeps it within its bound.
LEMMA SpendType ==
  ASSUME TypeOK, NEW what \in {"acts", "faults", "changes"}, NEW max,
         <<what, max>> \in {<<"acts", MaxActs>>, <<"faults", MaxFaults>>,
                            <<"changes", MaxChanges>>},
         Spend(what, max)
  PROVE  count' \in [acts : 0 .. MaxActs, faults : 0 .. MaxFaults,
                     changes : 0 .. MaxChanges]
<1> DEFINE C == [acts : 0 .. MaxActs, faults : 0 .. MaxFaults,
                 changes : 0 .. MaxChanges]
<1>1. count \in C /\ count[what] < max /\ count' = [count EXCEPT ![what] = @ + 1]
  BY DEF TypeOK, Spend
<1>2. CASE what = "acts" /\ max = MaxActs
  <2>1. count.acts + 1 \in 0 .. MaxActs
    BY <1>1, <1>2, BoundsAssumption
  <2>2. count' = [count EXCEPT !.acts = count.acts + 1]
    BY <1>1, <1>2
  <2> QED BY <1>1, <2>1, <2>2
<1>3. CASE what = "faults" /\ max = MaxFaults
  <2>1. count.faults + 1 \in 0 .. MaxFaults
    BY <1>1, <1>3, BoundsAssumption
  <2>2. count' = [count EXCEPT !.faults = count.faults + 1]
    BY <1>1, <1>3
  <2> QED BY <1>1, <2>1, <2>2
<1>4. CASE what = "changes" /\ max = MaxChanges
  <2>1. count.changes + 1 \in 0 .. MaxChanges
    BY <1>1, <1>4, BoundsAssumption
  <2>2. count' = [count EXCEPT !.changes = count.changes + 1]
    BY <1>1, <1>4
  <2> QED BY <1>1, <2>1, <2>2
<1> QED BY <1>2, <1>3, <1>4

\* What is not shown any more is still a part of what is shown.
LEMMA WithoutType ==
  ASSUME TypeOK, NEW rs
  PROVE  Without(rs) \in [Resources -> BOOLEAN]
  BY DEF TypeOK, Without

\* The rest of a step that answers one run.
LEMMA AnswerKeeps ==
  ASSUME ConsoleInv, NEW i \in DOMAIN runs, NEW r \in Runs,
         SameRun(r, runs[i]), r.at \in DOMAIN page[runs[i].h].steps,
         Written(runs[i]) => Written(r),
         runs' = Put(i, r), UNCHANGED <<open, form, flags, sub, sel>>,
         shown' \in [Resources -> BOOLEAN], calm' \in BOOLEAN,
         forgotten' \subseteq ForgottenIn[open],
         count' \in [acts : 0 .. MaxActs, faults : 0 .. MaxFaults,
                     changes : 0 .. MaxChanges]
  PROVE  ConsoleInv'
<1>1. TypeOK
  BY DEF ConsoleInv
<1>2. /\ Owing' /\ LiveIsOpen' /\ HoldsOwnFlag' /\ AppliedOnce'
      /\ runs' \in Seq(Runs')
      /\ \A j \in DOMAIN runs' : runs'[j].at \in DOMAIN page'[runs'[j].h].steps
  BY PutKeeps
<1>3. TypeOK'
  BY <1>1, <1>2, SamePage DEF TypeOK
<1> QED BY <1>2, <1>3 DEF ConsoleInv

\* An answer of any kind keeps what the run has written.
LEMMA AnswerFacts ==
  ASSUME TypeOK, NEW i \in DOMAIN runs, NEW got \in SUBSET Resources,
         NEW answer \in {"ok", "empty", "failed"}
  PROVE  LET r == [runs[i] EXCEPT !.answer = answer, !.got = got]
         IN /\ r \in Runs /\ SameRun(r, runs[i])
            /\ r.at \in DOMAIN page[runs[i].h].steps
            /\ Written(runs[i]) => Written(r)
<1> DEFINE r == [runs[i] EXCEPT !.answer = answer, !.got = got]
<1>1. /\ r \in Runs /\ SameRun(r, runs[i]) /\ r.at = runs[i].at
      /\ r.h = runs[i].h /\ r.answer # None
  BY StepFacts DEF Runs, SameRun, None
<1>2. r.at \in DOMAIN page[runs[i].h].steps
  BY <1>1 DEF TypeOK
<1> HIDE DEF r
<1>3. Written(runs[i]) => Written(r)
  BY <1>1 DEF Written
<1> QED BY <1>1, <1>2, <1>3 DEF r

\* The answer to a load keeps the invariant.
LEMMA ServeLoadKeeps ==
  ASSUME ConsoleInv, NEW i \in DOMAIN runs, ServeLoad(i)
  PROVE  ConsoleInv'
<1> DEFINE r == [runs[i] EXCEPT !.answer = "ok", !.got = StepOf(runs[i]).rs]
<1>1. TypeOK
  BY DEF ConsoleInv
<1>2. /\ r \in Runs /\ SameRun(r, runs[i])
      /\ r.at \in DOMAIN page[runs[i].h].steps
      /\ Written(runs[i]) => Written(r)
  BY <1>1, StepFacts, AnswerFacts
<1>3. runs' = Put(i, r) /\ UNCHANGED <<open, forgotten, shown, flags, sel, form, sub, calm, count>>
  BY DEF ServeLoad
<1> HIDE DEF r
<1> QED BY <1>1, <1>2, <1>3, AnswerKeeps DEF TypeOK

\* So does the answer to loads that fail one by one.
LEMMA ServeEachKeeps ==
  ASSUME ConsoleInv, NEW i \in DOMAIN runs, ServeEach(i)
  PROVE  ConsoleInv'
<1>1. TypeOK
  BY DEF ConsoleInv
<1>2. PICK rs \in SUBSET StepOf(runs[i]).rs :
        /\ runs' = Put(i, [runs[i] EXCEPT !.answer = "ok", !.got = rs])
        /\ IF rs = StepOf(runs[i]).rs THEN UNCHANGED <<calm, count>>
           ELSE Spend("faults", MaxFaults) /\ calm' = FALSE
  BY DEF ServeEach
<1> DEFINE r == [runs[i] EXCEPT !.answer = "ok", !.got = rs]
<1>3. /\ r \in Runs /\ SameRun(r, runs[i])
      /\ r.at \in DOMAIN page[runs[i].h].steps
      /\ Written(runs[i]) => Written(r)
  BY <1>1, StepFacts, AnswerFacts
<1>4. runs' = Put(i, r) /\ UNCHANGED <<open, forgotten, shown, flags, sel, form, sub>>
  BY <1>2 DEF ServeEach
<1>5. /\ calm' \in BOOLEAN
      /\ count' \in [acts : 0 .. MaxActs, faults : 0 .. MaxFaults,
                     changes : 0 .. MaxChanges]
  <2>1. CASE rs = StepOf(runs[i]).rs
    BY <1>1, <1>2, <2>1 DEF TypeOK
  <2>2. CASE rs # StepOf(runs[i]).rs
    <3>1. Spend("faults", MaxFaults) /\ calm' = FALSE
      BY <1>2, <2>2
    <3>2. count' \in [acts : 0 .. MaxActs, faults : 0 .. MaxFaults,
                      changes : 0 .. MaxChanges]
      BY <1>1, <3>1, SpendType
    <3> QED BY <3>1, <3>2
  <2> QED BY <2>1, <2>2
<1> HIDE DEF r
<1> QED BY <1>1, <1>3, <1>4, <1>5, AnswerKeeps DEF TypeOK

\* So does an error of the server.
LEMMA RefuseKeeps ==
  ASSUME ConsoleInv, NEW i \in DOMAIN runs, Refuse(i)
  PROVE  ConsoleInv'
<1>1. TypeOK
  BY DEF ConsoleInv
<1>2. PICK answer \in {"failed", "empty"} :
        runs' = Put(i, [runs[i] EXCEPT !.answer = answer])
  BY DEF Refuse
<1> DEFINE r == [runs[i] EXCEPT !.answer = answer, !.got = runs[i].got]
<1>3. /\ r \in Runs /\ SameRun(r, runs[i])
      /\ r.at \in DOMAIN page[runs[i].h].steps
      /\ Written(runs[i]) => Written(r)
  <2>1. runs[i].got \in SUBSET Resources
    BY <1>1, StepFacts DEF Runs
  <2> QED BY <1>1, <2>1, AnswerFacts
<1>4. r = [runs[i] EXCEPT !.answer = answer]
  BY <1>1, StepFacts DEF Runs
<1>5. /\ runs' = Put(i, r) /\ calm' \in BOOLEAN
      /\ Spend("faults", MaxFaults) /\ UNCHANGED <<open, forgotten, shown, flags, sel, form, sub>>
  BY <1>2, <1>4 DEF Refuse
<1>6. count' \in [acts : 0 .. MaxActs, faults : 0 .. MaxFaults,
                  changes : 0 .. MaxChanges]
  BY <1>1, <1>5, SpendType
<1> HIDE DEF r
<1> QED BY <1>1, <1>3, <1>5, <1>6, AnswerKeeps DEF TypeOK

\* So does a request that is lost.
LEMMA LoseKeeps ==
  ASSUME ConsoleInv, NEW i \in DOMAIN runs, Lose(i)
  PROVE  ConsoleInv'
<1> DEFINE r == [runs[i] EXCEPT !.answer = "failed", !.got = {}]
<1>1. TypeOK
  BY DEF ConsoleInv
<1>2. /\ r \in Runs /\ SameRun(r, runs[i])
      /\ r.at \in DOMAIN page[runs[i].h].steps
      /\ Written(runs[i]) => Written(r)
  BY <1>1, AnswerFacts
<1>3. /\ runs' = Put(i, r) /\ calm' \in BOOLEAN
      /\ Spend("faults", MaxFaults) /\ UNCHANGED <<open, forgotten, shown, flags, sel, form, sub>>
  BY DEF Lose
<1>4. count' \in [acts : 0 .. MaxActs, faults : 0 .. MaxFaults,
                  changes : 0 .. MaxChanges]
  BY <1>1, <1>3, SpendType
<1> HIDE DEF r
<1> QED BY <1>1, <1>2, <1>3, <1>4, AnswerKeeps DEF TypeOK

\* What a run shows stays within what the page shows.
LEMMA ShownType ==
  ASSUME TypeOK, NEW run
  PROVE  Shown(run) \in [Resources -> BOOLEAN]
  BY DEF TypeOK, Shown

\* So does the next await of a handler.
LEMMA ContinueKeeps ==
  ASSUME ConsoleInv, NEW i \in DOMAIN runs, Continue(i)
  PROVE  ConsoleInv'
<1> DEFINE r == [runs[i] EXCEPT !.at = @ + 1, !.answer = None,
                   !.got = @ \cap Locals(runs[i].h)]
<1>1. TypeOK
  BY DEF ConsoleInv
<1>2. /\ runs[i].at \in 1 .. Len(page[runs[i].h].steps)
      /\ runs[i].at # Len(page[runs[i].h].steps)
      /\ Len(page[runs[i].h].steps) \in Nat
      /\ DOMAIN page[runs[i].h].steps = 1 .. Len(page[runs[i].h].steps)
  BY <1>1, StepFacts, LenProperties DEF Continue, LastStep
<1>3. /\ r \in Runs /\ SameRun(r, runs[i])
      /\ r.at = runs[i].at + 1 /\ r.h = runs[i].h
  <2>1. runs[i] \in Runs
    BY <1>1, StepFacts
  <2>2. /\ runs[i].at + 1 \in Nat
        /\ runs[i].got \cap Locals(runs[i].h) \in SUBSET Resources
    BY <1>2, <2>1 DEF Runs
  <2>3. r \in Runs
    BY <2>1, <2>2 DEF Runs
  <2>4. SameRun(r, runs[i]) /\ r.at = runs[i].at + 1 /\ r.h = runs[i].h
    BY <2>1 DEF Runs, SameRun
  <2> QED BY <2>3, <2>4
<1>4. runs' = Put(i, r) /\ shown' = Shown(runs[i]) /\ forgotten' \subseteq forgotten
      /\ UNCHANGED <<open, flags, sel, form, sub, calm, count>>
  BY DEF Continue, Recalled
<1> HIDE DEF r
<1>5. r.at \in DOMAIN page[runs[i].h].steps
  BY <1>2, <1>3
<1>6. Written(runs[i]) => Written(r)
  <2>1. SUFFICES ASSUME NEW j \in 1 .. runs[i].at,
                        page[runs[i].h].steps[j].kind = "save"
                 PROVE  Written(r)
    BY DEF Written
  <2>2. j \in 1 .. r.at /\ j # r.at
    BY <1>2, <1>3
  <2> QED BY <2>1, <2>2, <1>3 DEF Written
<1> QED BY <1>1, <1>3, <1>4, <1>5, <1>6, ShownType, AnswerKeeps DEF TypeOK

\* The server changes a resource: what the runs hold of it is old.
LEMMA ChangeKeeps ==
  ASSUME ConsoleInv, NEW res \in Resources, Change(res)
  PROVE  ConsoleInv'
<1>1. TypeOK
  BY DEF ConsoleInv
<1>2. /\ runs' = Outdate({res}, runs) /\ calm' = FALSE
      /\ \E rs : shown' = Without(rs)
      /\ Spend("changes", MaxChanges) /\ UNCHANGED <<open, forgotten, flags, sel, form, sub>>
  BY DEF Change
<1>3. /\ runs' \in Seq(Runs) /\ DOMAIN runs' = DOMAIN runs
      /\ \A j \in DOMAIN runs : runs'[j] = [runs[j] EXCEPT !.got = @ \ {res}]
  BY <1>1, <1>2, OutdateFacts
<1>4. \A j \in DOMAIN runs :
        /\ SameRun(runs'[j], runs[j])
        /\ runs'[j].at = runs[j].at /\ runs'[j].answer = runs[j].answer
  BY <1>1, <1>3, StepFacts DEF Runs, SameRun
<1>5. page' = page /\ Runs' = Runs /\ Resources' = Resources /\ Flags' = Flags
  BY <1>2, SamePage
<1>6. Owing' /\ LiveIsOpen' /\ HoldsOwnFlag'
  BY <1>2, <1>3, <1>4, Answered
<1>7. \A j \in DOMAIN runs : Written(runs[j]) => Written(runs[j])'
  BY <1>4, <1>5 DEF Written, SameRun
<1>8. AppliedOnce'
  BY <1>2, <1>3, <1>4, <1>7, NotCounted
<1>9. /\ count' \in [acts : 0 .. MaxActs, faults : 0 .. MaxFaults,
                     changes : 0 .. MaxChanges]
      /\ shown' \in [Resources -> BOOLEAN]
  BY <1>1, <1>2, SpendType, WithoutType
<1>10. TypeOK'
  BY <1>1, <1>2, <1>3, <1>4, <1>5, <1>9 DEF TypeOK, SameRun
<1> QED BY <1>6, <1>8, <1>10 DEF ConsoleInv

\* Of the runs of the open form there is one, and it has not written before.
LEMMA OneLive ==
  ASSUME ConsoleInv, NEW i \in DOMAIN runs, NEW j \in DOMAIN runs,
         Live(runs[i]), Live(runs[j])
  PROVE  i = j
<1>1. runs[i].h = form /\ runs[j].h = form
  BY DEF ConsoleInv, LiveIsOpen
<1>2. Holds(runs[i]) /\ Holds(runs[j])
  BY DEF Live, Holds
<1> QED BY <1>1, <1>2 DEF ConsoleInv, HoldsOwnFlag, BusyFlag

\* A write that is applied counts when it is the first of the open form:
\* its one run had not written before.
LEMMA ServeSaveKeeps ==
  ASSUME ConsoleInv, NEW i \in DOMAIN runs, ServeSave(i)
  PROVE  ConsoleInv'
<1> DEFINE now == {s \in Locals(runs[i].h) : shown[s] \/ s \in runs[i].got}
           r   == [runs[i] EXCEPT !.answer = "ok", !.got = now]
           rs  == StepOf(runs[i]).rs
<1>1. TypeOK
  BY DEF ConsoleInv
<1>2. /\ runs' = [Outdate(rs, runs) EXCEPT ![i] = r]
      /\ shown' = Without(rs)
      /\ sub' = IF page[runs[i].h].form /\ ~runs[i].old /\ FirstSave(runs[i])
                THEN [sub EXCEPT !.applied = @ + 1] ELSE sub
      /\ UNCHANGED <<open, flags, sel, form, calm, count>>
      /\ runs[i].answer = None /\ StepOf(runs[i]).kind = "save"
  BY DEF ServeSave
<1>3. /\ r \in Runs /\ SameRun(r, runs[i])
      /\ r.at = runs[i].at /\ r.h = runs[i].h /\ r.answer = "ok"
      /\ r.at \in DOMAIN page[runs[i].h].steps
  <2>1. runs[i] \in Runs /\ now \in SUBSET Resources
    BY <1>1, StepFacts
  <2>2. r.at = runs[i].at
    BY <2>1 DEF Runs
  <2> QED BY <1>1, <2>1, <2>2 DEF Runs, SameRun, TypeOK
<1> HIDE DEF r, rs
<1>4. /\ Outdate(rs, runs) \in Seq(Runs)
      /\ DOMAIN Outdate(rs, runs) = DOMAIN runs
      /\ \A j \in DOMAIN runs :
           Outdate(rs, runs)[j] = [runs[j] EXCEPT !.got = @ \ rs]
  BY <1>1, OutdateFacts
<1>5. /\ runs' \in Seq(Runs) /\ DOMAIN runs' = DOMAIN runs
      /\ \A j \in DOMAIN runs :
           runs'[j] = IF j = i THEN r ELSE [runs[j] EXCEPT !.got = @ \ rs]
  <2>1. DOMAIN runs' = DOMAIN runs
    BY <1>2, <1>4
  <2>2. \A j \in DOMAIN runs :
           runs'[j] = IF j = i THEN r ELSE [runs[j] EXCEPT !.got = @ \ rs]
    BY <1>2, <1>4
  <2>3. ASSUME NEW j \in DOMAIN runs PROVE runs'[j] \in Runs
    <3>1. Outdate(rs, runs)[j] \in Runs
      BY <1>4
    <3>2. [runs[j] EXCEPT !.got = @ \ rs] \in Runs
      BY <1>4, <3>1
    <3> QED BY <1>3, <2>2, <3>2
  <2>4. runs' \in [DOMAIN runs -> Runs]
    BY <1>2, <2>1, <2>3
  <2>5. runs \in Seq(Runs)
    BY <1>1 DEF TypeOK
  <2> QED BY <2>1, <2>2, <2>4, <2>5, Mapped
<1>6. \A j \in DOMAIN runs :
        /\ SameRun(runs'[j], runs[j]) /\ runs'[j].at = runs[j].at
        /\ j # i => runs'[j].answer = runs[j].answer
  BY <1>1, <1>3, <1>5, StepFacts DEF Runs, SameRun
<1>7. page' = page /\ Runs' = Runs /\ Resources' = Resources /\ Flags' = Flags
      /\ forgotten' \subseteq ForgottenIn[open]
  <2>1. forgotten' = forgotten \cup (rs \cap page[runs[i].h].forgets)
    BY DEF ServeSave, rs
  <2>2. page[runs[i].h].forgets \subseteq ForgottenIn[open]
    BY <1>1, StepFacts DEF TypeOK, ForgottenIn, page
  <2> QED BY <1>1, <1>2, <2>1, <2>2, SamePage DEF TypeOK
<1>8. Owing' /\ LiveIsOpen' /\ HoldsOwnFlag'
  BY <1>2, <1>5, <1>6, Answered
<1>9. \A j \in DOMAIN runs : Written(runs[j]) => Written(runs[j])'
  <2>1. runs'[i].answer # None
    BY <1>3, <1>5 DEF None
  <2> QED BY <2>1, <1>6, <1>7 DEF Written, SameRun
<1>10. /\ sub' \in [applied : Nat, told : Nat]
       /\ sub.applied \in Nat /\ sub.told \in Nat
  <2>0. sub \in [applied : Nat, told : Nat]
    BY <1>1 DEF TypeOK
  <2>1. sub.applied \in Nat /\ sub.told \in Nat /\ sub.applied + 1 \in Nat
    BY <2>0
  <2>2. sub' = sub \/ sub' = [sub EXCEPT !.applied = sub.applied + 1]
    BY <1>2
  <2> QED BY <2>0, <2>1, <2>2
<1>11. AppliedOnce'
  <2>1. CASE sub' = sub
    BY <1>2, <1>5, <1>6, <1>9, <2>1, NotCounted
  <2>2. CASE sub' # sub
    <3>1. /\ Live(runs[i]) /\ FirstSave(runs[i])
          /\ sub' = [sub EXCEPT !.applied = @ + 1]
      BY <1>2, <2>2 DEF Live, IsForm
    <3>2. ~Written(runs[i])
      BY <1>1, <1>2, <3>1, StepFacts DEF Written, FirstSave
    <3>3. \A j \in DOMAIN runs : Live(runs[j]) => ~Written(runs[j])
      BY <3>1, <3>2, OneLive
    <3>4. form # "" => sub.applied <= sub.told
      BY <3>3 DEF ConsoleInv, AppliedOnce
    <3>5. sub'.applied = sub.applied + 1 /\ sub'.told = sub.told
      <4>1. sub \in [applied : Nat, told : Nat]
        BY <1>1 DEF TypeOK
      <4> QED BY <3>1, <4>1
    <3>6. form # "" => sub'.applied <= sub'.told + 1
      <4>1. SUFFICES ASSUME form # "" PROVE sub'.applied <= sub'.told + 1
        OBVIOUS
      <4>2. sub.applied <= sub.told
        BY <3>4, <4>1
      <4>3. sub.applied + 1 <= sub.told + 1
        BY <1>10, <4>2
      <4> QED BY <3>5, <4>3
    <3>7. Live(runs[i])' /\ Written(runs[i])'
      <4>1. Live(runs[i])'
        BY <1>6, <1>7, <3>1 DEF Live, IsForm, SameRun
      <4>2. runs'[i].answer # None /\ runs'[i].at = runs[i].at /\ runs'[i].h = runs[i].h
        BY <1>3, <1>5 DEF None
      <4>3. runs[i].at \in 1 .. runs[i].at
        BY <1>1, StepFacts
      <4> QED BY <4>1, <4>2, <4>3, <1>2, <1>7 DEF Written, StepOf
    <3> QED BY <1>2, <1>5, <3>6, <3>7 DEF AppliedOnce
  <2> QED BY <2>1, <2>2
<1>12. TypeOK'
  <2>1. shown' \in [Resources -> BOOLEAN]
    BY <1>1, <1>2, WithoutType
  <2>2. \A j \in DOMAIN runs' : runs'[j].at \in DOMAIN page[runs'[j].h].steps
    BY <1>1, <1>5, <1>6 DEF TypeOK, SameRun
  <2> QED BY <1>1, <1>2, <1>5, <1>7, <1>10, <2>1, <2>2 DEF TypeOK
<1> QED BY <1>8, <1>11, <1>12 DEF ConsoleInv
-----------------------------------------------------------------------------
\* The invariant as a property of any runs, flags and form of the page, for
\* the steps that start and end runs.
Parts(rns, fl, fm) ==
  /\ rns \in Seq(Runs)
  /\ \A i \in DOMAIN rns : rns[i].at \in DOMAIN page[rns[i].h].steps
  /\ \A i \in DOMAIN rns : \A h \in DOMAIN page :
       page[h].form => page[h].busy \notin rns[i].owes
  /\ \A i \in DOMAIN rns : Live(rns[i]) => rns[i].h = fm
  /\ \A i \in DOMAIN rns : Holds(rns[i]) => BusyFlag(rns[i]) \in fl
  /\ \A i, j \in DOMAIN rns :
       Holds(rns[i]) /\ Holds(rns[j]) /\ BusyFlag(rns[i]) = BusyFlag(rns[j])
         => i = j
Unwritten(rns) == \A i \in DOMAIN rns : Live(rns[i]) => ~Written(rns[i])

\* The invariant is one of the runs, the flags and the form there are.
LEMMA PartsNow ==
  ASSUME ConsoleInv
  PROVE  Parts(runs, flags, form)
  BY DEF ConsoleInv, TypeOK, Owing, LiveIsOpen, HoldsOwnFlag, Parts

\* A step keeps the invariant when the next runs, flags and form have it.
LEMMA PartsNext ==
  ASSUME open' = open, TypeOK, Parts(runs', flags', form'),
         flags' \subseteq Flags, form' \in DOMAIN page \cup {""},
         shown' \in [Resources -> BOOLEAN], sel' \in Items \cup {None},
         sub' \in [applied : Nat, told : Nat], calm' \in BOOLEAN,
         forgotten' \subseteq ForgottenIn[open],
         count' \in [acts : 0 .. MaxActs, faults : 0 .. MaxFaults,
                     changes : 0 .. MaxChanges],
         form' # "" => /\ sub'.applied <= sub'.told + 1
                       /\ Unwritten(runs') => sub'.applied <= sub'.told
  PROVE  ConsoleInv'
<1>1. page' = page /\ Runs' = Runs /\ Resources' = Resources /\ Flags' = Flags
  BY SamePage
<1>2. TypeOK'
  BY <1>1 DEF TypeOK, Parts
<1>3. Owing'
  BY <1>1 DEF Owing, Parts
<1>4. /\ \A r : Live(r)' <=> page[r'.h].form /\ ~r'.old
  BY <1>1 DEF Live, IsForm
<1>5. \A j \in DOMAIN runs' :
        /\ Live(runs[j])' <=> Live(runs'[j])
        /\ Holds(runs[j])' <=> Holds(runs'[j])
        /\ BusyFlag(runs[j])' = BusyFlag(runs'[j])
        /\ Written(runs[j])' <=> Written(runs'[j])
  BY <1>1 DEF Live, Holds, IsForm, BusyFlag, Written
<1>6. LiveIsOpen'
  BY <1>5 DEF LiveIsOpen, Parts
<1>7. HoldsOwnFlag'
  BY <1>5 DEF HoldsOwnFlag, Parts
<1>8. AppliedOnce'
  BY <1>5 DEF AppliedOnce, Unwritten
<1> QED BY <1>2, <1>3, <1>6, <1>7, <1>8 DEF ConsoleInv

\* The elements of two sequences, one after the other.
LEMMA Appended ==
  ASSUME NEW S, NEW s \in Seq(S), NEW t \in Seq(S)
  PROVE  /\ s \o t \in Seq(S) /\ Len(s \o t) = Len(s) + Len(t)
         /\ \A k \in 1 .. Len(s) + Len(t) : (s \o t)[k] =
              IF k <= Len(s) THEN s[k] ELSE t[k - Len(s)]
  BY ConcatProperties, Zenon

\* Runs of handlers that are no forms, or of the open form whose flag was
\* FALSE, are added at the end.
LEMMA AppendParts ==
  ASSUME TypeOK, NEW rns, NEW fl, NEW fm, Parts(rns, fl, fm),
         NEW new \in Seq(Runs), NEW fl2, fl \subseteq fl2,
         \A k \in DOMAIN new :
           /\ new[k].at \in DOMAIN page[new[k].h].steps
           /\ \A h \in DOMAIN page : page[h].form => page[h].busy \notin new[k].owes
           /\ IsForm(new[k]) => /\ new[k].h = fm
                                /\ BusyFlag(new[k]) \in fl2 \ fl,
         \A k, l \in DOMAIN new : new[k].h = new[l].h => k = l
  PROVE  /\ Parts(rns \o new, fl2, fm)
         /\ Unwritten(rns \o new) => Unwritten(rns)
<1> DEFINE all == rns \o new
<1>1. rns \in Seq(Runs)
  BY DEF Parts
<1>2. /\ all \in Seq(Runs) /\ Len(all) = Len(rns) + Len(new)
      /\ \A k \in 1 .. Len(rns) + Len(new) : all[k] =
           IF k <= Len(rns) THEN rns[k] ELSE new[k - Len(rns)]
  BY <1>1, Appended
<1>3. /\ Len(rns) \in Nat /\ Len(new) \in Nat /\ DOMAIN rns = 1 .. Len(rns)
      /\ DOMAIN new = 1 .. Len(new) /\ DOMAIN all = 1 .. Len(rns) + Len(new)
  BY <1>1, <1>2, LenProperties
<1>4. \A k \in DOMAIN all :
        \/ k \in DOMAIN rns /\ all[k] = rns[k]
        \/ k - Len(rns) \in DOMAIN new /\ all[k] = new[k - Len(rns)]
  BY <1>2, <1>3
<1>5. \A k \in DOMAIN rns : k \in DOMAIN all /\ all[k] = rns[k]
  BY <1>2, <1>3
<1>6. \A k, l \in DOMAIN all : k - Len(rns) = l - Len(rns) => k = l
  BY <1>3
<1> HIDE DEF all
<1>7. \A k \in DOMAIN all : all[k].at \in DOMAIN page[all[k].h].steps
  BY <1>4 DEF Parts
<1>8. \A k \in DOMAIN all : \A h \in DOMAIN page :
        page[h].form => page[h].busy \notin all[k].owes
  BY <1>4 DEF Parts
<1>9. \A k \in DOMAIN all : Live(all[k]) => all[k].h = fm
  BY <1>4 DEF Parts, Live
<1>10. \A k \in DOMAIN all : Holds(all[k]) => BusyFlag(all[k]) \in fl2
  BY <1>4 DEF Parts, Holds
<1>11. ASSUME NEW k \in DOMAIN all, NEW l \in DOMAIN all,
              Holds(all[k]), Holds(all[l]), BusyFlag(all[k]) = BusyFlag(all[l])
       PROVE  k = l
  <2>1. CASE k \in DOMAIN rns /\ all[k] = rns[k] /\ l \in DOMAIN rns /\ all[l] = rns[l]
    BY <2>1, <1>11 DEF Parts
  <2>2. CASE /\ k - Len(rns) \in DOMAIN new /\ all[k] = new[k - Len(rns)]
             /\ l - Len(rns) \in DOMAIN new /\ all[l] = new[l - Len(rns)]
    <3>1. all[k].h = fm /\ all[l].h = fm
      BY <2>2, <1>11 DEF Holds
    <3> QED BY <3>1, <2>2, <1>6
  <2>3. CASE /\ k \in DOMAIN rns /\ all[k] = rns[k]
             /\ l - Len(rns) \in DOMAIN new /\ all[l] = new[l - Len(rns)]
    <3>1. BusyFlag(all[k]) \in fl /\ BusyFlag(all[l]) \notin fl
      BY <2>3, <1>11 DEF Parts, Holds
    <3> QED BY <3>1, <1>11
  <2>4. CASE /\ k - Len(rns) \in DOMAIN new /\ all[k] = new[k - Len(rns)]
             /\ l \in DOMAIN rns /\ all[l] = rns[l]
    <3>1. BusyFlag(all[l]) \in fl /\ BusyFlag(all[k]) \notin fl
      BY <2>4, <1>11 DEF Parts, Holds
    <3> QED BY <3>1, <1>11
  <2> QED BY <1>4, <2>1, <2>2, <2>3, <2>4
<1>12. Unwritten(all) => Unwritten(rns)
  BY <1>5 DEF Unwritten
<1>13. Parts(all, fl2, fm)
  BY <1>2, <1>7, <1>8, <1>9, <1>10, <1>11 DEF Parts
<1> QED BY <1>12, <1>13 DEF all

\* A run is over and flags are cleared that no other run of a form holds.
LEMMA RemoveParts ==
  ASSUME TypeOK, NEW rns, NEW fl, NEW fm, Parts(rns, fl, fm),
         NEW i \in DOMAIN rns, NEW freed,
         \A j \in DOMAIN rns \ {i} : Holds(rns[j]) => BusyFlag(rns[j]) \notin freed
  PROVE  /\ Parts(RemoveAt(rns, i), fl \ freed, fm)
         /\ ~Live(rns[i]) /\ Unwritten(RemoveAt(rns, i)) => Unwritten(rns)
<1> DEFINE rest == RemoveAt(rns, i)
           at(j) == IF j < i THEN j ELSE j + 1
<1>1. rns \in Seq(Runs)
  BY DEF Parts
<1>2. /\ rest \in Seq(Runs) /\ DOMAIN rest = 1 .. Len(rns) - 1
      /\ \A j \in 1 .. Len(rns) - 1 :
           rest[j] = IF j < i THEN rns[j] ELSE rns[j + 1]
  BY <1>1, Removed
<1>3. Len(rns) \in Nat /\ DOMAIN rns = 1 .. Len(rns) /\ i \in 1 .. Len(rns)
  BY <1>1, LenProperties
<1>4. /\ \A j \in DOMAIN rest : at(j) \in DOMAIN rns \ {i} /\ rest[j] = rns[at(j)]
      /\ \A j, k \in DOMAIN rest : at(j) = at(k) => j = k
  BY <1>2, <1>3
<1>5. \A k \in DOMAIN rns \ {i} : \E j \in DOMAIN rest : rest[j] = rns[k]
  <2>1. SUFFICES ASSUME NEW k \in DOMAIN rns \ {i}
                 PROVE  \E j \in DOMAIN rest : rest[j] = rns[k]
    OBVIOUS
  <2>2. CASE k < i
    <3>1. k \in DOMAIN rest /\ rest[k] = rns[k]
      BY <2>2, <1>2, <1>3
    <3> QED BY <3>1
  <2>3. CASE ~(k < i)
    <3>1. k - 1 \in DOMAIN rest /\ ~(k - 1 < i) /\ (k - 1) + 1 = k
      BY <2>3, <1>2, <1>3
    <3>2. rest[k - 1] = rns[k]
      BY <3>1, <1>2
    <3> QED BY <3>1, <3>2
  <2> QED BY <2>2, <2>3
<1> HIDE DEF rest, at
<1>6. Parts(rest, fl \ freed, fm)
  BY <1>2, <1>4 DEF Parts
<1>7. ~Live(rns[i]) /\ Unwritten(rest) => Unwritten(rns)
  BY <1>5 DEF Unwritten
<1> QED BY <1>6, <1>7 DEF rest

\* The form is closed: what it has sent is old, and holds its flag only when
\* the flag is not the modal's.
LEMMA AgedParts ==
  ASSUME TypeOK, NEW rns, NEW fl, NEW fm, Parts(rns, fl, fm), NEW freed,
         \A j \in DOMAIN rns : Holds(rns[j]) /\ ~page[rns[j].h].modal
           => BusyFlag(rns[j]) \notin freed
  PROVE  Parts(Aged(rns), fl \ freed, "")
<1>1. rns \in Seq(Runs)
  BY DEF Parts
<1>2. /\ Aged(rns) \in Seq(Runs) /\ DOMAIN Aged(rns) = DOMAIN rns
      /\ \A j \in DOMAIN rns : Aged(rns)[j] = [rns[j] EXCEPT !.old = TRUE]
  BY <1>1, AgedFacts
<1>3. \A j \in DOMAIN rns :
        /\ Aged(rns)[j].h = rns[j].h /\ Aged(rns)[j].at = rns[j].at
        /\ Aged(rns)[j].owes = rns[j].owes /\ Aged(rns)[j].old = TRUE
  <2>1. \A j \in DOMAIN rns : rns[j] \in Runs
    BY <1>1
  <2> QED BY <1>2, <2>1 DEF Runs
<1>4. \A j \in DOMAIN rns :
        /\ ~Live(Aged(rns)[j]) /\ BusyFlag(Aged(rns)[j]) = BusyFlag(rns[j])
        /\ Holds(Aged(rns)[j]) => Holds(rns[j]) /\ ~page[rns[j].h].modal
  BY <1>3 DEF Live, Holds, IsForm, BusyFlag
<1> QED BY <1>2, <1>3, <1>4 DEF Parts
-----------------------------------------------------------------------------
\* The handlers that start on their own are no forms.
LEMMA StartedFacts ==
  ASSUME TypeOK, NEW h \in Started(page)
  PROVE  h \in DOMAIN page /\ ~page[h].form /\ page[h].steps # <<>>
<1>1. IsPage(page) /\ HasGuardedForms(page)
  BY OpenPage
<1>2. \A k \in DOMAIN page : page[k].then \subseteq DOMAIN page
  BY <1>1 DEF IsPage
<1>3. h \in DOMAIN page
  BY <1>2 DEF Started
<1> QED BY <1>1, <1>3 DEF IsPage, HasGuardedForms

\* A form and the handlers that use its flag.
LEMMA GuardedForm ==
  ASSUME TypeOK, NEW h \in DOMAIN page, page[h].form
  PROVE  /\ page[h].steps # <<>> /\ page[h].busy # ""
         /\ page[h].busy \in page[h].disabled /\ ~page[h].once
         /\ \A k \in DOMAIN page : page[k].busy = page[h].busy =>
              /\ page[k].form /\ ~page[k].awaits
              /\ page[k].modal \/ page[h].modal => k = h
  BY OpenPage DEF HasGuardedForms

\* The flags that handlers set are flags of the page, those of forms among them.
LEMMA FlagsFacts ==
  ASSUME TypeOK, NEW hs \in SUBSET DOMAIN page
  PROVE  /\ FlagsOf(hs) \subseteq Flags /\ BusyOf(hs) \subseteq Flags
         /\ \A h \in hs : page[h].form => page[h].busy \in BusyOf(hs)
  BY GuardedForm DEF Flags, FlagsOf, BusyOf

\* The runs of handlers that start: each form among them is the open one and
\* its flag was FALSE.
LEMMA StartParts ==
  ASSUME TypeOK, NEW rns, NEW fl, NEW fm, Parts(rns, fl, fm),
         NEW hs \in SUBSET DOMAIN page,
         \A h \in hs : /\ page[h].steps # <<>>
                       /\ page[h].form => h = fm /\ page[h].busy \notin fl,
         NEW arg \in Items \cup {None}, NEW owes \in SUBSET Flags,
         \A h \in DOMAIN page : page[h].form => page[h].busy \notin owes
  PROVE  /\ Parts(rns \o NewRuns(hs, arg, owes), fl \cup BusyOf(hs), fm)
         /\ Unwritten(rns \o NewRuns(hs, arg, owes)) => Unwritten(rns)
<1> DEFINE new == NewRuns(hs, arg, owes)
<1>1. /\ new \in Seq(Runs)
      /\ \A i \in DOMAIN new : \E h \in hs : new[i] = NewRun(h, arg, owes)
      /\ \A i, j \in DOMAIN new : new[i].h = new[j].h => i = j
  BY OpenPage, NewRunsFacts
<1>2. \A h \in hs : 1 \in DOMAIN page[h].steps
  <2>1. \A h \in hs : page[h].steps \in Seq(Steps) /\ page[h].steps # <<>>
    BY OpenPage DEF IsPage
  <2> QED BY <2>1, EmptySeq, LenProperties
<1>3. \A h \in hs : LET r == NewRun(h, arg, owes)
                    IN r.h = h /\ r.at = 1 /\ r.owes = owes
  BY DEF NewRun
<1> HIDE DEF new
<1>4. ASSUME NEW k \in DOMAIN new
      PROVE  /\ new[k].at \in DOMAIN page[new[k].h].steps
             /\ \A h \in DOMAIN page : page[h].form => page[h].busy \notin new[k].owes
             /\ IsForm(new[k]) => /\ new[k].h = fm
                                  /\ BusyFlag(new[k]) \in (fl \cup BusyOf(hs)) \ fl
  <2>1. PICK h \in hs : new[k] = NewRun(h, arg, owes)
    BY <1>1
  <2>2. new[k].h = h /\ new[k].at = 1 /\ new[k].owes = owes
    BY <2>1, <1>3
  <2> QED BY <2>2, <1>2, FlagsFacts DEF IsForm, BusyFlag
<1> QED BY <1>1, <1>4, AppendParts DEF new

\* Handlers that start keep the invariant.
LEMMA StartKeeps ==
  ASSUME ConsoleInv, NEW hs \in SUBSET DOMAIN page,
         \A h \in hs : /\ page[h].steps # <<>>
                       /\ page[h].form => h = form /\ page[h].busy \notin flags,
         NEW item \in Items \cup {None}, Start(hs, item),
         UNCHANGED <<open, form, sub>>, forgotten' \subseteq ForgottenIn[open],
         shown' \in [Resources -> BOOLEAN], sel' \in Items \cup {None},
         count' \in [acts : 0 .. MaxActs, faults : 0 .. MaxFaults,
                     changes : 0 .. MaxChanges]
  PROVE  ConsoleInv'
<1>1. TypeOK /\ Parts(runs, flags, form)
  BY PartsNow DEF ConsoleInv
<1>2. /\ runs' = runs \o NewRuns(hs, item, {}) /\ flags' = flags \cup BusyOf(hs)
      /\ calm' = (calm /\ runs = <<>>)
  BY DEF Start
<1>3. /\ Parts(runs', flags', form)
      /\ Unwritten(runs') => Unwritten(runs)
  <2>1. {} \in SUBSET Flags /\ \A h \in DOMAIN page : page[h].form => page[h].busy \notin {}
    OBVIOUS
  <2>2. /\ Parts(runs \o NewRuns(hs, item, {}), flags \cup BusyOf(hs), form)
        /\ Unwritten(runs \o NewRuns(hs, item, {})) => Unwritten(runs)
    <3>1. /\ hs \in SUBSET DOMAIN page /\ item \in Items \cup {None}
          /\ \A h \in hs : /\ page[h].steps # <<>>
                           /\ page[h].form => h = form /\ page[h].busy \notin flags
      OBVIOUS
    <3> QED BY <1>1, <2>1, <3>1, StartParts, SMTT(60)
  <2> QED BY <1>2, <2>2
<1>4. form # "" => /\ sub.applied <= sub.told + 1
                   /\ Unwritten(runs') => sub.applied <= sub.told
  BY <1>3 DEF ConsoleInv, AppliedOnce, Unwritten
<1>5. flags' \subseteq Flags /\ calm' \in BOOLEAN
  BY <1>1, <1>2, FlagsFacts DEF TypeOK
<1>6. form \in DOMAIN page \cup {""} /\ sub \in [applied : Nat, told : Nat]
  BY <1>1 DEF TypeOK
<1> QED BY <1>1, <1>3, <1>4, <1>5, <1>6, PartsNext

\* A click starts a form only when its flag is FALSE.
LEMMA ClickKeeps ==
  ASSUME ConsoleInv, NEW h \in DOMAIN page, Click(h)
  PROVE  ConsoleInv'
<1> DEFINE hs == IF page[h].steps = <<>> THEN page[h].then ELSE {h}
<1>1. TypeOK
  BY DEF ConsoleInv
<1>2. /\ Start(hs, sel) /\ Spend("acts", MaxActs)
      /\ UNCHANGED <<open, forgotten, shown, sel, form, sub>>
      /\ page[h].disabled \cap flags = {} /\ (page[h].form => form = h)
  BY DEF Click
<1>3. /\ hs \subseteq DOMAIN page
      /\ \A k \in hs : /\ page[k].steps # <<>>
                       /\ page[k].form => k = form /\ page[k].busy \notin flags
  <2>1. CASE page[h].steps = <<>>
    <3>1. page[h].then \subseteq Started(page)
      BY DEF Started
    <3> QED BY <1>1, <2>1, <3>1, StartedFacts
  <2>2. CASE page[h].steps # <<>>
    BY <1>1, <1>2, <2>2, GuardedForm
  <2> QED BY <2>1, <2>2
<1>4. count' \in [acts : 0 .. MaxActs, faults : 0 .. MaxFaults,
                  changes : 0 .. MaxChanges]
  BY <1>1, <1>2, SpendType
<1> HIDE DEF hs
<1> QED BY <1>1, <1>2, <1>3, <1>4, StartKeeps DEF TypeOK

\* A timer starts no form.
LEMMA TickKeeps ==
  ASSUME ConsoleInv, NEW h \in DOMAIN page, Tick(h)
  PROVE  ConsoleInv'
<1>1. TypeOK
  BY DEF ConsoleInv
<1>2. h \in Started(page)
  BY DEF Tick, Polls, Started
<1>3. Start({h}, sel) /\ UNCHANGED <<open, forgotten, shown, sel, form, sub, count>>
  BY DEF Tick
<1> QED BY <1>1, <1>2, <1>3, StartedFacts, StartKeeps DEF TypeOK

\* A selection starts no form.
LEMMA SelectKeeps ==
  ASSUME ConsoleInv, NEW item \in Items, Select(item)
  PROVE  ConsoleInv'
<1>1. TypeOK
  BY DEF ConsoleInv
<1>2. Selections \subseteq Started(page)
  BY <1>1 DEF TypeOK, Selections, SelectionsIn, Started, page
<1>3. /\ Start(Selections, item) /\ Spend("acts", MaxActs)
      /\ forgotten' \subseteq forgotten /\ sel' = item /\ UNCHANGED <<open, form, sub>>
  BY DEF Select
<1>4. /\ shown' \in [Resources -> BOOLEAN] /\ forgotten' \subseteq ForgottenIn[open]
      /\ count' \in [acts : 0 .. MaxActs, faults : 0 .. MaxFaults,
                     changes : 0 .. MaxChanges]
  <2>1. shown' = [r \in Resources |->
                    IF r \in Copied
                      THEN \E c \in Copies : c.copy = r /\ shown[c.list]
                      ELSE shown[r] /\ r \notin Details]
    BY DEF Select
  <2>2. \A r \in Resources : shown[r] \in BOOLEAN
    BY <1>1 DEF TypeOK
  <2>3. \A r \in Resources : shown'[r] \in BOOLEAN
    BY <2>1, <2>2
  <2>4. shown' \in [Resources -> BOOLEAN]
    BY <2>1, <2>3, Zenon
  <2>5. forgotten \subseteq ForgottenIn[open]
    BY <1>1 DEF TypeOK
  <2>6. count' \in [acts : 0 .. MaxActs, faults : 0 .. MaxFaults,
                    changes : 0 .. MaxChanges]
    BY <1>1, <1>3, SpendType
  <2> QED BY <1>3, <2>4, <2>5, <2>6
<1> QED BY <1>1, <1>2, <1>3, <1>4, StartedFacts, StartKeeps

\* It ends without a run.
LEMMA DeselectKeeps ==
  ASSUME ConsoleInv, Deselect
  PROVE  ConsoleInv'
<1>1. TypeOK /\ Parts(runs, flags, form)
  BY PartsNow DEF ConsoleInv
<1>2. /\ sel' = None /\ shown' = Without(OfItem)
      /\ UNCHANGED <<open, forgotten, flags, runs, form, sub, calm, count>>
  BY DEF Deselect
<1>3. shown' \in [Resources -> BOOLEAN]
  BY <1>1, <1>2, WithoutType
<1>4. form # "" => /\ sub.applied <= sub.told + 1
                   /\ Unwritten(runs) => sub.applied <= sub.told
  BY DEF ConsoleInv, AppliedOnce, Unwritten
<1> QED BY <1>1, <1>2, <1>3, <1>4, PartsNext DEF TypeOK

\* A form that is opened has no live run: what ran before is old.
LEMMA OpenFormKeeps ==
  ASSUME ConsoleInv, NEW h \in DOMAIN page, OpenForm(h)
  PROVE  ConsoleInv'
<1>1. TypeOK /\ Parts(runs, flags, form)
  BY PartsNow DEF ConsoleInv
<1>2. /\ form = "" /\ form' = h /\ sub' = [applied |-> 0, told |-> 0]
      /\ UNCHANGED <<open, forgotten, shown, flags, runs, sel, calm, count>>
  BY DEF OpenForm
<1>3. \A i \in DOMAIN runs : ~Live(runs[i])
  <2>1. "" \notin DOMAIN page
    BY <1>1, OpenPage DEF IsPage
  <2> QED BY <2>1, <1>1, <1>2, StepFacts DEF Parts
<1>4. Parts(runs', flags', form')
  BY <1>1, <1>2, <1>3 DEF Parts
<1>5. /\ sub' \in [applied : Nat, told : Nat]
      /\ sub'.applied <= sub'.told + 1 /\ sub'.applied <= sub'.told
  <2>1. sub' = [applied |-> 0, told |-> 0]
    BY <1>2
  <2> QED BY <2>1
<1> QED BY <1>1, <1>2, <1>4, <1>5, PartsNext DEF TypeOK

\* What is left of the flag of a modal that is closed is no other form's.
LEMMA ModalFlag ==
  ASSUME TypeOK, NEW k, NEW h \in DOMAIN page, page[h].form, ~page[h].modal
  PROVE  page[h].busy \notin FlagOf(k)
  BY GuardedForm DEF FlagOf

\* A form that is closed leaves its runs old.
LEMMA CloseFormKeeps ==
  ASSUME ConsoleInv, CloseForm
  PROVE  ConsoleInv'
<1>1. TypeOK /\ Parts(runs, flags, form)
  BY PartsNow DEF ConsoleInv
<1>2. /\ form' = "" /\ runs' = Aged(runs) /\ flags' = flags \ FlagOf(form)
      /\ UNCHANGED <<open, forgotten, shown, sel, sub, calm, count>>
  BY DEF CloseForm
<1>3. \A j \in DOMAIN runs : Holds(runs[j]) /\ ~page[runs[j].h].modal
        => BusyFlag(runs[j]) \notin FlagOf(form)
  BY <1>1, StepFacts, ModalFlag DEF Holds, IsForm, BusyFlag
<1>4. Parts(runs', flags', form')
  BY <1>1, <1>2, <1>3, AgedParts
<1>5. flags' \subseteq Flags
  BY <1>1, <1>2 DEF TypeOK
<1> QED BY <1>1, <1>2, <1>4, <1>5, PartsNext DEF TypeOK
-----------------------------------------------------------------------------
\* The flags that are cleared at the end of a run, and those it passes on.
OwnFlag(run) == IF page[run.h].modal /\ run.old THEN {} ELSE {page[run.h].busy} \ {""}

\* Of the runs of forms that go on none loses its flag: the one that ends is
\* the only one that has it, and what it owes is no form's.
LEMMA OwnFlagFree ==
  ASSUME TypeOK, Parts(runs, flags, form), NEW i \in DOMAIN runs,
         NEW j \in DOMAIN runs \ {i}, Holds(runs[j])
  PROVE  BusyFlag(runs[j]) \notin runs[i].owes \cup OwnFlag(runs[i])
<1>1. /\ runs[j].h \in DOMAIN page /\ page[runs[j].h].form
      /\ runs[i].h \in DOMAIN page
  BY StepFacts DEF Holds, IsForm
<1>2. BusyFlag(runs[j]) \notin runs[i].owes
  BY <1>1 DEF Parts, BusyFlag
<1>3. ASSUME BusyFlag(runs[j]) \in OwnFlag(runs[i])
      PROVE  FALSE
  <2>1. /\ BusyFlag(runs[i]) = BusyFlag(runs[j])
        /\ ~(page[runs[i].h].modal /\ runs[i].old)
    BY <1>3 DEF OwnFlag, BusyFlag
  <2>2. Holds(runs[i])
    BY <1>1, <2>1, GuardedForm DEF Holds, IsForm, BusyFlag
  <2> QED BY <2>1, <2>2 DEF Parts
<1> QED BY <1>2, <1>3

\* What the handlers that are awaited owe is no form's either.
LEMMA OwedFacts ==
  ASSUME TypeOK, Parts(runs, flags, form), NEW i \in DOMAIN runs
  PROVE  /\ runs[i].owes \cup OwnFlag(runs[i]) \in SUBSET Flags
         /\ page[runs[i].h].awaits => \A h \in DOMAIN page :
              page[h].form => page[h].busy \notin runs[i].owes \cup OwnFlag(runs[i])
<1>1. runs[i] \in Runs /\ runs[i].h \in DOMAIN page
  BY StepFacts
<1>2. runs[i].owes \subseteq Flags
  BY <1>1 DEF Runs
<1>3. OwnFlag(runs[i]) \subseteq Flags
  BY <1>1 DEF OwnFlag, Flags
<1>4. ASSUME page[runs[i].h].awaits, NEW h \in DOMAIN page, page[h].form
      PROVE  page[h].busy \notin runs[i].owes \cup OwnFlag(runs[i])
  <2>1. page[h].busy \notin runs[i].owes
    BY <1>4 DEF Parts
  <2>2. page[h].busy # page[runs[i].h].busy
    BY <1>1, <1>4, GuardedForm
  <2> QED BY <2>1, <2>2 DEF OwnFlag
<1> QED BY <1>2, <1>3, <1>4

\* The end of a run that leaves the form as it is.
LEMMA LeaveParts ==
  ASSUME ConsoleInv, NEW i \in DOMAIN runs, NEW next \in SUBSET Started(page),
         NEW waits, waits => page[runs[i].h].awaits, NEW keeps,
         Leave(i, next, waits, keeps, FALSE)
  PROVE  /\ Parts(runs', flags', form) /\ flags' \subseteq Flags
         /\ ~Live(runs[i]) /\ Unwritten(runs') => Unwritten(runs)
<1> DEFINE owed  == runs[i].owes \cup OwnFlag(runs[i])
           rest  == RemoveAt(runs, i)
           freed == (IF keeps THEN runs[i].owes ELSE owed)
                      \ UNION {rest[j].owes : j \in DOMAIN rest}
           gone  == (IF waits THEN {} ELSE freed) \cup {}
           owes  == IF waits THEN owed ELSE {}
<1>1. TypeOK /\ Parts(runs, flags, form)
  BY PartsNow DEF ConsoleInv
<1>2. /\ runs' = rest \o NewRuns(next, runs[i].arg, owes)
      /\ flags' = (flags \ gone) \cup BusyOf(next)
  BY DEF Leave, OwnFlag
<1>3. gone \subseteq owed
  OBVIOUS
<1>4. owes \in SUBSET Flags
  BY <1>1, OwedFacts
<1>5. \A h \in DOMAIN page : page[h].form => page[h].busy \notin owes
  BY <1>1, OwedFacts
<1>6. \A j \in DOMAIN runs \ {i} : Holds(runs[j]) => BusyFlag(runs[j]) \notin gone
  BY <1>1, <1>3, OwnFlagFree
<1> HIDE DEF gone, owes, rest, owed, freed
<1>7. /\ Parts(rest, flags \ gone, form)
      /\ ~Live(runs[i]) /\ Unwritten(rest) => Unwritten(runs)
  BY <1>1, <1>6, RemoveParts DEF rest
<1>8. /\ next \in SUBSET DOMAIN page
      /\ \A h \in next : ~page[h].form /\ page[h].steps # <<>>
  BY <1>1, StartedFacts
<1>9. runs[i].arg \in Items \cup {None}
  BY <1>1, StepFacts DEF Runs
<1>10. /\ Parts(rest \o NewRuns(next, runs[i].arg, owes),
                (flags \ gone) \cup BusyOf(next), form)
       /\ Unwritten(rest \o NewRuns(next, runs[i].arg, owes)) => Unwritten(rest)
  BY <1>1, <1>4, <1>5, <1>7, <1>8, <1>9, StartParts
<1>11. flags' \subseteq Flags
  BY <1>1, <1>2, <1>8, FlagsFacts DEF TypeOK
<1> QED BY <1>2, <1>7, <1>10, <1>11

\* The end of the run that closes its form.
LEMMA LeaveCloses ==
  ASSUME ConsoleInv, NEW i \in DOMAIN runs, NEW next \in SUBSET Started(page),
         NEW waits, waits => page[runs[i].h].awaits, NEW keeps,
         Leave(i, next, waits, keeps, TRUE)
  PROVE  Parts(runs', flags', "") /\ flags' \subseteq Flags
<1> DEFINE owed  == runs[i].owes \cup OwnFlag(runs[i])
           rest  == RemoveAt(runs, i)
           freed == (IF keeps THEN runs[i].owes ELSE owed)
                      \ UNION {rest[j].owes : j \in DOMAIN rest}
           gone  == (IF waits THEN {} ELSE freed)
           modal == FlagOf(runs[i].h)
           owes  == IF waits THEN owed ELSE {}
<1>1. TypeOK /\ Parts(runs, flags, form)
  BY PartsNow DEF ConsoleInv
<1>2. /\ runs' = Aged(rest) \o NewRuns(next, runs[i].arg, owes)
      /\ flags' = (flags \ (gone \cup modal)) \cup BusyOf(next)
  BY DEF Leave, OwnFlag
<1>3. gone \subseteq owed
  OBVIOUS
<1>4. owes \in SUBSET Flags
  BY <1>1, OwedFacts
<1>5. \A h \in DOMAIN page : page[h].form => page[h].busy \notin owes
  BY <1>1, OwedFacts
<1>6. \A j \in DOMAIN runs \ {i} : Holds(runs[j]) => BusyFlag(runs[j]) \notin gone
  BY <1>1, <1>3, OwnFlagFree
<1> HIDE DEF gone, owes, rest, owed, freed, modal
<1>7. Parts(rest, flags \ gone, form)
  BY <1>1, <1>6, RemoveParts DEF rest
<1>8. \A j \in DOMAIN rest : Holds(rest[j]) /\ ~page[rest[j].h].modal
        => BusyFlag(rest[j]) \notin modal
  <2>1. \A j \in DOMAIN rest : rest[j].h \in DOMAIN page
    <3>1. rest \in Seq(Runs)
      BY <1>7 DEF Parts
    <3>2. \A j \in DOMAIN rest : rest[j] \in Runs
      BY <3>1
    <3> QED BY <3>2 DEF Runs
  <2> QED BY <1>1, <2>1, ModalFlag DEF modal, Holds, IsForm, BusyFlag
<1>9. Parts(Aged(rest), (flags \ gone) \ modal, "")
  BY <1>1, <1>7, <1>8, AgedParts
<1>10. /\ next \in SUBSET DOMAIN page
       /\ \A h \in next : ~page[h].form /\ page[h].steps # <<>>
  BY <1>1, StartedFacts
<1>11. runs[i].arg \in Items \cup {None}
  BY <1>1, StepFacts DEF Runs
<1>12. Parts(Aged(rest) \o NewRuns(next, runs[i].arg, owes),
             ((flags \ gone) \ modal) \cup BusyOf(next), "")
  BY <1>1, <1>4, <1>5, <1>9, <1>10, <1>11, StartParts
<1>13. (flags \ gone) \ modal = flags \ (gone \cup modal)
  OBVIOUS
<1>14. flags' \subseteq Flags
  BY <1>1, <1>2, <1>10, FlagsFacts DEF TypeOK
<1> QED BY <1>2, <1>12, <1>13, <1>14

\* A handler that ends well closes its form, or was not the open form's.
LEMMA FinishKeeps ==
  ASSUME ConsoleInv, NEW i \in DOMAIN runs, Finish(i)
  PROVE  ConsoleInv'
<1> DEFINE h == runs[i].h
<1>1. TypeOK /\ Parts(runs, flags, form)
  BY PartsNow DEF ConsoleInv
<1>2. /\ shown' = Shown(runs[i]) /\ forgotten' \subseteq forgotten
      /\ Leave(i, page[h].then, page[h].awaits, FALSE, form = h)
      /\ form' = (IF form = h THEN "" ELSE form)
      /\ sel' = (IF page[h].deselects THEN None ELSE sel)
      /\ UNCHANGED <<open, sub, calm, count>>
  BY DEF Finish, Recalled
<1>3. h \in DOMAIN page /\ page[h].then \in SUBSET Started(page)
  BY <1>1, StepFacts DEF Started
<1>4. /\ Parts(runs', flags', form') /\ flags' \subseteq Flags
      /\ form' # "" => ~Live(runs[i]) /\ (Unwritten(runs') => Unwritten(runs))
  <2>1. CASE form = h
    <3>1. Leave(i, page[h].then, page[h].awaits, FALSE, TRUE)
      BY <1>2, <2>1
    <3>2. Parts(runs', flags', "") /\ flags' \subseteq Flags
      BY <1>3, <3>1, LeaveCloses
    <3> QED BY <1>2, <2>1, <3>2
  <2>2. CASE form # h
    <3>1. Leave(i, page[h].then, page[h].awaits, FALSE, FALSE)
      BY <1>2, <2>2
    <3>2. /\ Parts(runs', flags', form) /\ flags' \subseteq Flags
          /\ ~Live(runs[i]) /\ Unwritten(runs') => Unwritten(runs)
      BY <1>3, <3>1, LeaveParts
    <3>3. ~Live(runs[i])
      BY <1>1, <2>2 DEF Parts
    <3> QED BY <1>2, <2>2, <3>2, <3>3
  <2> QED BY <2>1, <2>2
<1>5. shown' \in [Resources -> BOOLEAN] /\ sel' \in Items \cup {None}
  BY <1>1, <1>2, ShownType DEF TypeOK
<1>6. form' # "" => /\ sub'.applied <= sub'.told + 1
                    /\ Unwritten(runs') => sub'.applied <= sub'.told
  <2>1. SUFFICES ASSUME form' # ""
                 PROVE  /\ sub.applied <= sub.told + 1
                        /\ Unwritten(runs) => sub.applied <= sub.told
    BY <1>2, <1>4
  <2>2. form # ""
    BY <1>2, <2>1
  <2> QED BY <2>2 DEF ConsoleInv, AppliedOnce, Unwritten
<1>7. form' \in DOMAIN page \cup {""}
  BY <1>1, <1>2 DEF TypeOK
<1> QED BY <1>1, <1>2, <1>4, <1>5, <1>6, <1>7, PartsNext DEF TypeOK

\* An error that is shown allows one more write.
LEMMA FailKeeps ==
  ASSUME ConsoleInv, NEW i \in DOMAIN runs, Fail(i)
  PROVE  ConsoleInv'
<1> DEFINE h == runs[i].h
<1>1. TypeOK /\ Parts(runs, flags, form)
  BY PartsNow DEF ConsoleInv
<1>2. /\ Leave(i, {}, FALSE, page[h].keeps, FALSE)
      /\ sub' = IF Live(runs[i]) THEN [sub EXCEPT !.told = @ + 1] ELSE sub
      /\ UNCHANGED <<open, forgotten, sel, form, calm, count>>
  BY DEF Fail, Live, IsForm
<1>3. /\ Parts(runs', flags', form) /\ flags' \subseteq Flags
      /\ ~Live(runs[i]) /\ Unwritten(runs') => Unwritten(runs)
  BY <1>2, LeaveParts
<1>4. shown' \in [Resources -> BOOLEAN]
  BY <1>1, WithoutType DEF Fail
<1>5. /\ sub \in [applied : Nat, told : Nat]
      /\ form # "" => sub.applied <= sub.told + 1
      /\ form # "" /\ Unwritten(runs) => sub.applied <= sub.told
  BY <1>1 DEF ConsoleInv, TypeOK, AppliedOnce, Unwritten
<1>6. sub.applied \in Nat /\ sub.told \in Nat /\ sub.told + 1 \in Nat
  <2>1. sub \in [applied : Nat, told : Nat]
    BY <1>5
  <2> QED BY <2>1
<1>7. /\ sub' \in [applied : Nat, told : Nat]
      /\ form # "" => /\ sub'.applied <= sub'.told + 1
                      /\ Unwritten(runs') => sub'.applied <= sub'.told
  <2>1. CASE Live(runs[i])
    <3>1. sub' = [sub EXCEPT !.told = sub.told + 1]
      BY <1>2, <2>1
    <3>2. sub'.applied = sub.applied /\ sub'.told = sub.told + 1
      BY <1>5, <3>1
    <3>3. sub' \in [applied : Nat, told : Nat]
      BY <1>5, <1>6, <3>1
    <3>4. sub.applied <= sub.told + 1 => sub.applied <= (sub.told + 1) + 1
      BY <1>6
    <3> QED BY <1>5, <3>2, <3>3, <3>4
  <2>2. CASE ~Live(runs[i])
    <3>1. sub' = sub
      BY <1>2, <2>2
    <3> QED BY <1>3, <1>5, <2>2, <3>1
  <2> QED BY <2>1, <2>2
<1>8. form' = form /\ form \in DOMAIN page \cup {""}
  BY <1>1, <1>2 DEF TypeOK
<1> QED BY <1>1, <1>2, <1>3, <1>4, <1>7, <1>8, PartsNext DEF TypeOK

-----------------------------------------------------------------------------
\* The handlers that load the page are no forms.
LEMMA InitKeeps ==
  ASSUME ConsoleInit
  PROVE  ConsoleInv
<1> DEFINE hs == {h \in DOMAIN page : page[h].mount}
           C  == [acts : 0 .. MaxActs, faults : 0 .. MaxFaults,
                  changes : 0 .. MaxChanges]
<1>1. /\ open \in DOMAIN Pages /\ sel = None /\ form = ""
      /\ sub = [applied |-> 0, told |-> 0] /\ calm = TRUE
      /\ count = [acts |-> 0, faults |-> 0, changes |-> 0]
      /\ shown = [r \in Resources |-> FALSE] /\ forgotten = {}
      /\ runs = NewRuns(hs, None, {}) /\ flags = FlagsOf(hs)
  BY DEF ConsoleInit
<1>2. IsPage(page) /\ HasGuardedForms(page)
  BY <1>1, PagesAssumption DEF page
<1>3. hs \subseteq Started(page)
  BY DEF Started
<1>4. \A h \in hs : /\ h \in DOMAIN page /\ page[h].steps \in Seq(Steps)
                    /\ page[h].steps # <<>> /\ ~page[h].form
  BY <1>2, <1>3 DEF IsPage, HasGuardedForms
<1> HIDE DEF hs
<1>5. /\ runs \in Seq(Runs)
      /\ \A i \in DOMAIN runs : \E h \in hs : runs[i] = NewRun(h, None, {})
  <2>1. hs \in SUBSET DOMAIN page /\ None \in Items \cup {None} /\ {} \in SUBSET Flags
    BY <1>4
  <2>2. \A h \in hs : page[h].steps # <<>>
    BY <1>4
  <2>3. /\ NewRuns(hs, None, {}) \in Seq(Runs)
        /\ \A i \in DOMAIN NewRuns(hs, None, {}) :
             \E h \in hs : NewRuns(hs, None, {})[i] = NewRun(h, None, {})
    BY <1>2, <2>1, <2>2, NewRunsFacts
  <2> QED BY <1>1, <2>3
<1>6. ASSUME NEW i \in DOMAIN runs
      PROVE  /\ runs[i].at \in DOMAIN page[runs[i].h].steps
             /\ runs[i].owes = {} /\ ~page[runs[i].h].form
  <2>1. PICK h \in hs : runs[i] = NewRun(h, None, {})
    BY <1>5
  <2>2. runs[i].h = h /\ runs[i].at = 1 /\ runs[i].owes = {}
    BY <2>1 DEF NewRun
  <2>3. 1 \in DOMAIN page[h].steps
    BY <1>4, EmptySeq, LenProperties
  <2> QED BY <1>4, <2>2, <2>3
<1>7. \A i \in DOMAIN runs : ~Live(runs[i]) /\ ~Holds(runs[i])
  BY <1>6 DEF Live, Holds, IsForm
<1>8. Owing /\ LiveIsOpen /\ HoldsOwnFlag /\ AppliedOnce
  BY <1>1, <1>6, <1>7 DEF Owing, LiveIsOpen, HoldsOwnFlag, AppliedOnce
<1>9. flags \subseteq Flags
  BY <1>1 DEF FlagsOf, Flags, hs
<1>10. sub \in [applied : Nat, told : Nat]
  BY <1>1
<1>11. count \in C
  <2>1. 0 \in 0 .. MaxActs /\ 0 \in 0 .. MaxFaults /\ 0 \in 0 .. MaxChanges
    BY BoundsAssumption
  <2>2. count = [acts |-> 0, faults |-> 0, changes |-> 0]
    BY <1>1
  <2> QED BY <2>1, <2>2
<1>12. TypeOK
  BY <1>1, <1>5, <1>6, <1>9, <1>10, <1>11 DEF TypeOK
<1> QED BY <1>8, <1>12 DEF ConsoleInv

\* Every step keeps the invariant.
LEMMA StepKeeps ==
  ASSUME ConsoleInv, [ConsoleNext]_consoleVars
  PROVE  ConsoleInv'
<1>1. CASE UNCHANGED consoleVars
  <2>1. /\ TypeOK /\ Parts(runs, flags, form)
        /\ UNCHANGED <<open, forgotten, shown, flags, runs, sel, form, sub, calm, count>>
    BY <1>1, PartsNow DEF ConsoleInv, consoleVars
  <2>2. form # "" => /\ sub.applied <= sub.told + 1
                     /\ Unwritten(runs) => sub.applied <= sub.told
    BY DEF ConsoleInv, AppliedOnce, Unwritten
  <2> QED BY <2>1, <2>2, PartsNext DEF TypeOK
<1>2. ASSUME NEW h \in DOMAIN page, Click(h) \/ Tick(h) \/ OpenForm(h)
      PROVE  ConsoleInv'
  BY <1>2, ClickKeeps, TickKeeps, OpenFormKeeps
<1>3. ASSUME NEW item \in Items, Select(item) PROVE ConsoleInv'
  BY <1>3, SelectKeeps
<1>4. CASE CloseForm \/ Deselect
  BY <1>4, CloseFormKeeps, DeselectKeeps
<1>5. ASSUME NEW i \in DOMAIN runs, Serve(i) \/ Refuse(i) \/ Lose(i) \/ Resume(i)
      PROVE  ConsoleInv'
  <2>1. CASE Serve(i)
    BY <2>1, ServeLoadKeeps, ServeEachKeeps, ServeSaveKeeps DEF Serve
  <2>2. CASE Resume(i)
    BY <2>2, ContinueKeeps, FinishKeeps, FailKeeps DEF Resume
  <2> QED BY <1>5, <2>1, <2>2, RefuseKeeps, LoseKeeps
<1>6. ASSUME NEW r \in Resources, Change(r) PROVE ConsoleInv'
  BY <1>6, ChangeKeeps
<1> QED BY <1>1, <1>2, <1>3, <1>4, <1>5, <1>6 DEF ConsoleNext

\* The invariant holds of every state of a page, whatever is clicked, lost or
\* answered late.
THEOREM Invariance == ConsoleSpec => []ConsoleInv
<1>1. ConsoleInit => ConsoleInv
  BY InitKeeps
<1>2. ConsoleInv /\ [ConsoleNext]_consoleVars => ConsoleInv'
  BY StepKeeps
<1> QED BY <1>1, <1>2, PTL DEF ConsoleSpec

\* The runs, the flags and the form are always those of the open page.
THEOREM TypeCorrect == ConsoleSpec => []TypeOK
<1>1. ConsoleInv => TypeOK
  BY DEF ConsoleInv
<1> QED BY <1>1, Invariance, PTL

\* On every page whose forms are guarded by their flag an open form is applied
\* once, and once more for each error it has shown, for any number of clicks,
\* faults, changes by others and runs in flight.
THEOREM FormsAppliedOnce == ConsoleSpec => []SubmittedOnce
<1>1. ConsoleInv => SubmittedOnce
  BY DEF ConsoleInv, AppliedOnce, SubmittedOnce
<1> QED BY <1>1, Invariance, PTL
-----------------------------------------------------------------------------
\* A user who waits for each answer: what the page must show is shown, or one
\* of the runs in flight is about to show it.
Needed(item) ==
  Kept \ (IF item = None THEN (Details \ Filtered) \cup Copied ELSE {})
Writes(h) ==
  \E i \in DOMAIN page[h].steps :
    page[h].steps[i].kind = "save" /\ page[h].steps[i].rs # {}

\* Of the steps of h from the one at `at` on, one loads r; or r is in the copy
\* that is in `got` and is shown after the writes that follow.
LoadedFrom(h, at, r) ==
  \E q \in at .. Len(page[h].steps) :
    page[h].steps[q].kind # "save" /\ r \in page[h].steps[q].rs
CopiedFrom(h, at, got, r) ==
  /\ r \in got
  /\ \E q \in at .. Len(page[h].steps) :
       /\ r \in page[h].steps[q].local
       /\ \A j \in at .. q : page[h].steps[j].kind = "save"
\* What is left of r when the run of h is over.
Passed(h, r) ==
  \/ \E k \in page[h].then : r \in Reads(k)
  \/ page[h].deselects /\ r \in OfItem
Coming(run, r) ==
  \/ LoadedFrom(run.h, run.at, r)
  \/ CopiedFrom(run.h, run.at, run.got, r)
  \/ Passed(run.h, r)

\* A run that is about the selection, or about nothing the page must show, and
\* whose answer holds what the server has.
Sound(run, sh, item) ==
  /\ run.answer \in {None, "ok"}
  /\ run.arg # item => item = None /\ Filtered = {}
  /\ run.answer = "ok" =>
       IF StepOf(run).kind = "save"
       THEN \A r \in StepOf(run).local : sh[r] => r \in run.got
       ELSE run.got = StepOf(run).rs

\* Of the item all is shown or on its way that is not among the forgotten.
Quiet(rns, sh, item, old) ==
  /\ \A i \in DOMAIN rns : Sound(rns[i], sh, item)
  /\ \A i, j \in DOMAIN rns : Writes(rns[i].h) => i = j
  /\ \A r \in Needed(item) \ old :
       sh[r] \/ \E i \in DOMAIN rns : Coming(rns[i], r)

CalmInv == calm => Quiet(runs, shown, sel, forgotten)

\* What the assumption on the pages says of a handler of the open page.
LEMMA ReadBack ==
  ASSUME TypeOK, NEW h \in DOMAIN page
  PROVE  /\ \A i \in DOMAIN page[h].steps : page[h].steps[i].kind = "save" =>
              /\ \A r \in (page[h].steps[i].rs \cap Kept) \ page[h].forgets :
                   ShownAgain(open, h, i, r)
              /\ h \in Started(page) => page[h].steps[i].rs = {}
         /\ page[h].deselects => Filtered = {}
<1>1. open \in DOMAIN Pages /\ page = Pages[open]
  BY DEF TypeOK, page
<1>2. FilteredIn[open] = Filtered /\ KeptIn[open] = Kept
  BY DEF Filtered, Kept
<1>3. LET steps == Pages[open][h].steps IN
      /\ \A i \in {j \in DOMAIN steps : steps[j].kind = "save"} :
           /\ \A r \in (steps[i].rs \cap KeptIn[open]) \ Pages[open][h].forgets :
                ShownAgain(open, h, i, r)
           /\ h \in Started(Pages[open]) => steps[i].rs = {}
      /\ Pages[open][h].deselects => FilteredIn[open] = {}
  BY <1>1, ReadBackAssumption
<1> QED BY <1>1, <1>2, <1>3

\* The handlers that start on their own write nothing.
LEMMA StartedReads ==
  ASSUME TypeOK, NEW h \in Started(page)
  PROVE  ~Writes(h)
  BY StartedFacts, ReadBack DEF Writes

\* A handler loads what one of its steps loads.
LEMMA ReadsFacts ==
  ASSUME TypeOK, NEW h \in DOMAIN page
  PROVE  /\ \A r \in Reads(h) : LoadedFrom(h, 1, r)
         /\ Reads(h) \subseteq Resources
<1>1. open \in DOMAIN Pages /\ page = Pages[open]
  BY DEF TypeOK, page
<1>2. Reads(h) = UNION {s.rs : s \in {t \in Range(page[h].steps) : t.kind # "save"}}
  BY <1>1 DEF Reads, ReadsIn, LoadsOf
<1>3. /\ page[h].steps \in Seq(Steps)
      /\ DOMAIN page[h].steps = 1 .. Len(page[h].steps)
  BY OpenPage, LenProperties DEF IsPage
<1>4. ASSUME NEW r \in Reads(h)
      PROVE  \E q \in 1 .. Len(page[h].steps) :
               page[h].steps[q].kind # "save" /\ r \in page[h].steps[q].rs
  BY <1>2, <1>3 DEF Range
<1>5. UNION {t.rs : t \in Range(page[h].steps)} \subseteq Resources
  <2>1. Resources = UNION {(UNION {t.rs : t \in Range(g.steps)})
                             \cup {c.copy : c \in g.copies} : g \in Range(page)}
    BY <1>1 DEF Resources, ResourcesIn, page
  <2>2. page[h] \in Range(page)
    BY <1>1 DEF Range
  <2> QED BY <2>1, <2>2
<1>6. Reads(h) \subseteq Resources
  BY <1>2, <1>5
<1> QED BY <1>4, <1>6 DEF LoadedFrom

\* What is kept is a copy, or loaded by a selection or when the page opens.
LEMMA KeptFacts ==
  ASSUME TypeOK
  PROVE  /\ Selections \subseteq Started(page)
         /\ \A r \in Details : \E h \in Selections : r \in Reads(h)
         /\ \A r \in Filtered : \E h \in Selections : page[h].mount /\ r \in Reads(h)
         /\ \A r \in Kept :
              \/ r \in OfItem
              \/ \E h \in DOMAIN page : /\ page[h].mount
                                        /\ \/ r \in Reads(h)
                                           \/ \E k \in page[h].then : r \in Reads(k)
         /\ Kept \subseteq Resources
<1>1. open \in DOMAIN Pages /\ page = Pages[open]
  BY DEF TypeOK, page
<1>2. \A h : Reads(h) = ReadsIn[open][h]
  BY DEF Reads
<1>3. Selections = {h \in DOMAIN page : page[h].selects}
  BY <1>1 DEF Selections, SelectionsIn
<1>10. \A h \in DOMAIN page : Reads(h) = LoadsOf(page[h])
  BY <1>1 DEF Reads, ReadsIn
<1>11. Details = UNION {LoadsOf(h) : h \in {k \in Range(page) : k.selects}}
  BY <1>1 DEF Details, DetailsIn
<1>12. Filtered =
         UNION {LoadsOf(h) : h \in {k \in Range(page) : k.selects /\ k.mount}}
  BY <1>1 DEF Filtered, FilteredIn
<1>4. Details = UNION {Reads(h) : h \in Selections}
  BY <1>3, <1>10, <1>11 DEF Range
<1>5. Filtered = UNION {Reads(h) : h \in {k \in Selections : page[k].mount}}
  BY <1>3, <1>10, <1>12 DEF Range
<1> DEFINE openers == {h \in DOMAIN page : page[h].mount}
           called  == UNION {page[h].then : h \in openers}
<1>6. Kept = OfItem \cup UNION {Reads(h) : h \in openers \cup called}
  BY <1>1, <1>2 DEF Kept, KeptIn, OfItem, Details, Copied
<1>7. called \subseteq DOMAIN page
  BY OpenPage DEF IsPage
<1>8. Selections \subseteq Started(page)
  BY <1>3 DEF Started
<1>9. Kept \subseteq Resources
  <2>1. \A h \in DOMAIN page : Reads(h) \subseteq Resources
    BY ReadsFacts
  <2>2. Copied \subseteq Resources
    <3>1. Copied = UNION {{c.copy : c \in h.copies} : h \in Range(page)}
      BY <1>1 DEF Copied, CopiedIn
    <3>2. Resources = UNION {(UNION {s.rs : s \in Range(h.steps)})
                               \cup {c.copy : c \in h.copies} : h \in Range(page)}
      BY <1>1 DEF Resources, ResourcesIn
    <3>3. ASSUME NEW r \in Copied PROVE r \in Resources
      <4>1. PICK h \in Range(page) : r \in {c.copy : c \in h.copies}
        BY <3>1
      <4>2. r \in (UNION {s.rs : s \in Range(h.steps)}) \cup {c.copy : c \in h.copies}
        BY <4>1
      <4> QED BY <3>2, <4>2
    <3> QED BY <3>3
  <2>3. Details \subseteq Resources
    BY <1>3, <1>4, <2>1
  <2> HIDE DEF called
  <2> QED BY <1>6, <1>7, <2>1, <2>2, <2>3 DEF OfItem
<1> QED BY <1>3, <1>4, <1>5, <1>6, <1>8, <1>9

\* A copy is taken from a list that is needed whatever is selected.
LEMMA CopiesFacts ==
  ASSUME TypeOK, NEW r \in Copied
  PROVE  \E c \in Copies : c.copy = r /\ c.list \in Needed(sel) \ forgotten
<1>1. open \in DOMAIN Pages /\ forgotten \subseteq ForgottenIn[open]
  BY DEF TypeOK
<1>2. PICK c \in Copies : c.copy = r
  BY <1>1 DEF Copied, CopiedIn, Copies, CopyingIn
<1>3. c.list \in KeptIn[open] \ (DetailsIn[open] \cup CopiedIn[open] \cup ForgottenIn[open])
  BY <1>1, CopiesAssumption DEF Copies
<1> QED BY <1>1, <1>2, <1>3 DEF Needed, Kept, Details, Copied

\* What is needed of an item, of another one or of none.
LEMMA NeededFacts ==
  ASSUME TypeOK, NEW item
  PROVE  /\ Needed(item) \subseteq Resources
         /\ Needed(item) \ OfItem \subseteq Needed(sel)
         /\ Needed(None) \subseteq Needed(item)
         /\ Needed(None) \cap Copied = {}
         /\ Filtered = {} => Needed(None) \cap OfItem = {}
  BY KeptFacts DEF Needed, OfItem

\* SetToSeq lists every member.
LEMMA ListAll ==
  ASSUME NEW S, IsFiniteSet(S)
  PROVE  \A x \in S : \E i \in DOMAIN SetToSeq(S) : SetToSeq(S)[i] = x
<1>1. /\ Cardinality(S) \in Nat
      /\ \E f \in [1 .. Cardinality(S) -> S] : IsInjective(f)
  BY FS_CardinalityType DEF ExistsBijection, Bijection, Injection, IsInjective
<1>2. /\ SetToSeq(S) \in [1 .. Cardinality(S) -> S]
      /\ IsInjective(SetToSeq(S))
  BY <1>1 DEF SetToSeq
<1> DEFINE s == SetToSeq(S)
           R == {s[i] : i \in 1 .. Cardinality(S)}
<1> HIDE DEF s
<1>3. ExistsBijection(1 .. Cardinality(S), R)
  <2>1. s \in Bijection(1 .. Cardinality(S), R)
    BY <1>2 DEF s, Bijection, Injection, Surjection, IsInjective
  <2> QED BY <2>1 DEF ExistsBijection
<1>4. /\ IsFiniteSet(1 .. Cardinality(S))
      /\ Cardinality(1 .. Cardinality(S)) = Cardinality(S)
  BY <1>1, FS_Interval
<1>5. Cardinality(R) = Cardinality(S)
  <2> HIDE DEF R
  <2> QED BY <1>3, <1>4, FS_Bijection
<1>6. R \in SUBSET S
  BY <1>2 DEF s
<1>7. S = R
  <2> HIDE DEF R
  <2> QED BY <1>5, <1>6, FS_Subset
<1>8. DOMAIN s = 1 .. Cardinality(S)
  BY <1>2 DEF s
<1> QED BY <1>7, <1>8 DEF s

\* The runs of handlers that start: each will load what its handler reads.
LEMMA FreshRuns ==
  ASSUME TypeOK, NEW hs \in SUBSET DOMAIN page, \A h \in hs : page[h].steps # <<>>,
         NEW arg \in Items \cup {None}, NEW owes \in SUBSET Flags
  PROVE  LET new == NewRuns(hs, arg, owes)
         IN /\ \A i \in DOMAIN new : new[i].h \in hs /\ new[i].arg = arg
                                     /\ new[i].answer = None
            /\ \A i, j \in DOMAIN new : new[i].h = new[j].h => i = j
            /\ \A h \in hs : \E i \in DOMAIN new : new[i].h = h
            /\ \A h \in hs : \A r \in Reads(h) :
                 \E i \in DOMAIN new : Coming(new[i], r)
            /\ \A h \in hs : \A k \in page[h].then : \A r \in Reads(k) :
                 \E i \in DOMAIN new : Coming(new[i], r)
<1> DEFINE new == NewRuns(hs, arg, owes)
           S   == {NewRun(h, arg, owes) : h \in hs}
           f   == [h \in hs |-> NewRun(h, arg, owes)]
<1>1. /\ \A i \in DOMAIN new : \E h \in hs : new[i] = NewRun(h, arg, owes)
      /\ \A i, j \in DOMAIN new : new[i].h = new[j].h => i = j
  BY OpenPage, NewRunsFacts
<1>2. \A h : LET r == NewRun(h, arg, owes)
             IN r.h = h /\ r.at = 1 /\ r.arg = arg /\ r.answer = None
  BY DEF NewRun
<1>3. IsFiniteSet(S)
  <2>1. IsFiniteSet(hs)
    BY OpenPage, FS_Subset DEF IsPage
  <2>2. f \in Surjection(hs, S)
    BY DEF Surjection
  <2> QED BY <2>1, <2>2, FS_Surjection
<1>4. \A x \in S : \E i \in DOMAIN new : new[i] = x
  <2> HIDE DEF S
  <2> QED BY <1>3, ListAll DEF NewRuns, S
<1> HIDE DEF new
<1>5. \A h \in hs : \E i \in DOMAIN new : new[i].h = h /\ new[i].at = 1
  <2>1. SUFFICES ASSUME NEW h \in hs
                 PROVE  \E i \in DOMAIN new : new[i].h = h /\ new[i].at = 1
    OBVIOUS
  <2>2. PICK i \in DOMAIN new : new[i] = NewRun(h, arg, owes)
    BY <1>4
  <2> QED BY <1>2, <2>2
<1>6. ASSUME NEW h \in hs, NEW r \in Reads(h)
      PROVE  \E i \in DOMAIN new : Coming(new[i], r)
  BY <1>5, ReadsFacts DEF Coming
<1>7. ASSUME NEW h \in hs, NEW k \in page[h].then, NEW r \in Reads(k)
      PROVE  \E i \in DOMAIN new : Coming(new[i], r)
  BY <1>5 DEF Coming, Passed
<1>8. \A i \in DOMAIN new : new[i].h \in hs /\ new[i].arg = arg /\ new[i].answer = None
  BY <1>1, <1>2
<1> QED BY <1>1, <1>5, <1>6, <1>7, <1>8 DEF new

\* A page with nothing on its way shows all it needs; then some handlers start,
\* and what they do not load is shown when something is that was needed.
LEMMA QuietStart ==
  ASSUME TypeOK, Quiet(<<>>, shown, sel, forgotten), NEW hs \in SUBSET DOMAIN page,
         \A h \in hs : page[h].steps # <<>>,
         \A h \in hs : Writes(h) => hs = {h},
         NEW item \in Items \cup {None}, NEW sh, NEW old,
         \A r \in Needed(item) \ old :
           \/ \E l \in Needed(sel) \ forgotten : shown[l] => sh[r]
           \/ \E h \in hs : r \in Reads(h)
  PROVE  Quiet(NewRuns(hs, item, {}), sh, item, old)
<1> DEFINE new == NewRuns(hs, item, {})
<1>1. {} \in SUBSET Flags
  OBVIOUS
<1>2. /\ \A i \in DOMAIN new : new[i].h \in hs /\ new[i].arg = item
                               /\ new[i].answer = None
      /\ \A i, j \in DOMAIN new : new[i].h = new[j].h => i = j
      /\ \A h \in hs : \A r \in Reads(h) :
           \E i \in DOMAIN new : Coming(new[i], r)
  BY <1>1, FreshRuns
<1> HIDE DEF new
<1>3. \A i \in DOMAIN new : Sound(new[i], sh, item)
  BY <1>2 DEF Sound, None
<1>4. \A i, j \in DOMAIN new : Writes(new[i].h) => i = j
  BY <1>2
<1>5. \A r \in Needed(sel) \ forgotten : shown[r]
  BY DEF Quiet
<1>6. \A r \in Needed(item) \ old : sh[r] \/ \E i \in DOMAIN new : Coming(new[i], r)
  BY <1>2, <1>5
<1>7. Quiet(new, sh, item, old)
  BY <1>3, <1>4, <1>6 DEF Quiet
<1> QED BY <1>7 DEF new

\* A step starts handlers while nothing is on its way, or ends the calm.
LEMMA StartCalm ==
  ASSUME ConsoleInv, CalmInv, open' = open, NEW hs \in SUBSET DOMAIN page,
         \A h \in hs : page[h].steps # <<>>,
         \A h \in hs : Writes(h) => hs = {h},
         NEW item \in Items \cup {None}, Start(hs, item), sel' = item,
         \A r \in Needed(item) \ forgotten' :
           \/ \E l \in Needed(sel) \ forgotten : shown[l] => shown'[r]
           \/ \E h \in hs : r \in Reads(h)
  PROVE  calm' => Quiet(runs', shown', sel', forgotten')
<1> SUFFICES ASSUME calm' PROVE Quiet(runs', shown', sel', forgotten')
  OBVIOUS
<1>1. calm /\ runs = <<>> /\ runs' = runs \o NewRuns(hs, item, {})
  BY DEF Start
<1>2. TypeOK /\ Quiet(<<>>, shown, sel, forgotten)
  BY <1>1 DEF ConsoleInv, CalmInv
<1>3. NewRuns(hs, item, {}) \in Seq(Runs)
  <2>1. {} \in SUBSET Flags
    OBVIOUS
  <2> QED BY <1>2, <2>1, OpenPage, NewRunsFacts
<1>4. runs' = NewRuns(hs, item, {})
  <2> DEFINE new == NewRuns(hs, item, {})
  <2> HIDE DEF new
  <2>1. <<>> \o new = new
    BY <1>3, ConcatEmptySeq DEF new
  <2> QED BY <1>1, <2>1 DEF new
<1>5. \A t, old : t = shown' /\ old = forgotten' =>
        \A r \in Needed(item) \ old :
          \/ \E l \in Needed(sel) \ forgotten : shown[l] => t[r]
          \/ \E h \in hs : r \in Reads(h)
  OBVIOUS
<1>6. PICK t, old : t = shown' /\ old = forgotten'
  OBVIOUS
<1>7. Quiet(NewRuns(hs, item, {}), t, item, old)
  BY <1>2, <1>5, <1>6, QuietStart
<1> QED BY <1>4, <1>6, <1>7

\* The page of the next state is the same, so calm is quiet there too.
LEMMA CalmNext ==
  ASSUME open' = open, calm' => Quiet(runs', shown', sel', forgotten')
  PROVE  CalmInv'
<1>1. /\ page' = page /\ Kept' = Kept /\ Details' = Details /\ Filtered' = Filtered
      /\ \A h : Reads(h)' = Reads(h)
      /\ Copied' = Copied /\ OfItem' = OfItem
  BY DEF page, Kept, Details, Filtered, Reads, Copied, OfItem
<1> SUFFICES ASSUME calm' PROVE Quiet(runs, shown, sel, forgotten)'
  BY DEF CalmInv
<1>2. \A k : k = sel' => Needed(k) = Needed(sel)'
  BY <1>1 DEF Needed
<1>3. \A i \in DOMAIN runs' : Sound(runs'[i], shown', sel') => Sound(runs[i], shown, sel)'
  BY <1>1 DEF Sound, StepOf
<1>4. \A h : Writes(h)' <=> Writes(h)
  BY <1>1 DEF Writes
<1>5. \A i \in DOMAIN runs' : Writes(runs[i].h)' <=> Writes(runs'[i].h)
  BY <1>1 DEF Writes
<1>6. \A i \in DOMAIN runs' : \A r : Coming(runs[i], r)' <=> Coming(runs'[i], r)
  BY <1>1 DEF Coming, LoadedFrom, CopiedFrom, Passed
<1> QED BY <1>2, <1>3, <1>5, <1>6 DEF Quiet

LEMMA ClickCalm ==
  ASSUME ConsoleInv, CalmInv, NEW h \in DOMAIN page, Click(h)
  PROVE  CalmInv'
<1> DEFINE hs == IF page[h].steps = <<>> THEN page[h].then ELSE {h}
<1>1. TypeOK /\ sel \in Items \cup {None}
  BY DEF ConsoleInv, TypeOK
<1>2. Start(hs, sel) /\ UNCHANGED <<open, shown, sel, form, sub, forgotten>>
  BY DEF Click
<1>3. /\ hs \subseteq DOMAIN page
      /\ \A k \in hs : page[k].steps # <<>> /\ (Writes(k) => hs = {k})
  <2>1. CASE page[h].steps = <<>>
    <3>1. page[h].then \subseteq Started(page)
      BY DEF Started
    <3> QED BY <1>1, <2>1, <3>1, StartedFacts, StartedReads
  <2>2. CASE page[h].steps # <<>>
    BY <2>2
  <2> QED BY <2>1, <2>2
<1> HIDE DEF hs
<1> QED BY <1>1, <1>2, <1>3, StartCalm, CalmNext

LEMMA TickCalm ==
  ASSUME ConsoleInv, CalmInv, NEW h \in DOMAIN page, Tick(h)
  PROVE  CalmInv'
<1>1. TypeOK /\ sel \in Items \cup {None}
  BY DEF ConsoleInv, TypeOK
<1>2. h \in Started(page)
  BY DEF Tick, Polls, Started
<1>3. Start({h}, sel) /\ UNCHANGED <<open, shown, sel, form, sub, forgotten>>
  BY DEF Tick
<1>4. page[h].steps # <<>>
  BY <1>1, <1>2, StartedFacts
<1> QED BY <1>1, <1>3, <1>4, StartCalm, CalmNext

LEMMA SelectCalm ==
  ASSUME ConsoleInv, CalmInv, NEW item \in Items, Select(item)
  PROVE  CalmInv'
<1>1. TypeOK
  BY DEF ConsoleInv
<1>2. /\ Start(Selections, item) /\ forgotten' = forgotten \ OfItem
      /\ sel' = item /\ open' = open
      /\ \A r \in Resources : shown'[r] =
           IF r \in Copied THEN \E c \in Copies : c.copy = r /\ shown[c.list]
                           ELSE shown[r] /\ r \notin Details
  BY DEF Select
<1>3. /\ Selections \in SUBSET DOMAIN page
      /\ \A h \in Selections : page[h].steps # <<>> /\ ~Writes(h)
  BY <1>1, KeptFacts, StartedFacts, StartedReads
<1>4. ASSUME NEW r \in Needed(item) \ forgotten'
      PROVE  \/ \E l \in Needed(sel) \ forgotten : shown[l] => shown'[r]
             \/ \E h \in Selections : r \in Reads(h)
  <2>1. r \in Resources
    BY <1>1, NeededFacts
  <2>2. CASE r \in Copied
    <3>1. PICK c \in Copies : c.copy = r /\ c.list \in Needed(sel) \ forgotten
      BY <1>1, <2>2, CopiesFacts
    <3> QED BY <1>2, <2>1, <2>2, <3>1
  <2>3. CASE r \in Details
    BY <1>1, <2>3, KeptFacts
  <2>4. CASE r \notin OfItem
    <3>1. r \in Needed(sel) \ forgotten
      BY <1>1, <1>2, <2>4, NeededFacts
    <3> QED BY <1>2, <2>1, <2>4, <3>1 DEF OfItem
  <2> QED BY <2>2, <2>3, <2>4 DEF OfItem
<1> QED BY <1>2, <1>3, <1>4, StartCalm, CalmNext

\* What a step changes of its own copy it writes.
LEMMA LocalFacts ==
  ASSUME TypeOK, NEW i \in DOMAIN runs
  PROVE  /\ StepOf(runs[i]).local \subseteq StepOf(runs[i]).rs
         /\ StepOf(runs[i]).local \subseteq Resources
         /\ StepOf(runs[i]).local \subseteq Locals(runs[i].h)
         /\ StepOf(runs[i]).kind = "save" /\ StepOf(runs[i]).rs # {}
              => Writes(runs[i].h)
<1>1. /\ runs[i].h \in DOMAIN page
      /\ runs[i].at \in DOMAIN page[runs[i].h].steps
  BY StepFacts DEF TypeOK
<1>2. StepOf(runs[i]).local \subseteq StepOf(runs[i]).rs
  BY <1>1, OpenPage DEF IsPage, StepOf
<1>3. StepOf(runs[i]).local \subseteq Locals(runs[i].h)
  BY <1>1 DEF StepOf, Locals, Range
<1> QED BY <1>1, <1>2, <1>3, StepFacts DEF Writes, StepOf

\* Runs that differ in what they owe or in their age only.
SameAnswer(r, s) ==
  /\ r.h = s.h /\ r.at = s.at /\ r.arg = s.arg
  /\ r.answer = s.answer /\ r.got = s.got

LEMMA AgedAnswers ==
  ASSUME TypeOK, NEW rns \in Seq(Runs)
  PROVE  /\ DOMAIN Aged(rns) = DOMAIN rns
         /\ \A i \in DOMAIN rns : SameAnswer(Aged(rns)[i], rns[i])
<1>1. /\ DOMAIN Aged(rns) = DOMAIN rns
      /\ \A j \in DOMAIN rns : Aged(rns)[j] = [rns[j] EXCEPT !.old = TRUE]
  BY AgedFacts
<1>2. \A j \in DOMAIN rns : rns[j] \in Runs
  OBVIOUS
<1> QED BY <1>1, <1>2 DEF SameAnswer, Runs

LEMMA SameCalm ==
  ASSUME NEW rns, NEW new, NEW sh, NEW item, NEW old, Quiet(rns, sh, item, old),
         DOMAIN new = DOMAIN rns,
         \A i \in DOMAIN rns : SameAnswer(new[i], rns[i])
  PROVE  Quiet(new, sh, item, old)
<1>1. \A i \in DOMAIN rns : Sound(new[i], sh, item)
  BY DEF Quiet, Sound, SameAnswer, StepOf
<1>2. \A i, j \in DOMAIN rns : Writes(new[i].h) => i = j
  BY DEF Quiet, SameAnswer
<1>3. \A i \in DOMAIN rns : \A r : Coming(rns[i], r) => Coming(new[i], r)
  BY DEF SameAnswer, Coming
<1> QED BY <1>1, <1>2, <1>3 DEF Quiet

\* Nothing is selected any more: what is shown of an item is not needed.
LEMMA DeselectCalm ==
  ASSUME ConsoleInv, CalmInv, Deselect
  PROVE  CalmInv'
<1>1. TypeOK
  BY DEF ConsoleInv
<1>2. /\ sel' = None /\ Filtered = {} /\ shown' = Without(OfItem)
      /\ UNCHANGED <<open, runs, calm, forgotten>>
  BY DEF Deselect
<1> SUFFICES ASSUME calm' PROVE Quiet(runs', shown', sel', forgotten')
  BY <1>2, CalmNext
<1>3. Quiet(runs, shown, sel, forgotten)
  BY <1>2 DEF CalmInv
<1>4. \A r \in Resources : shown'[r] = (shown[r] /\ r \notin OfItem)
  BY <1>2 DEF Without
<1>5. \A r \in Needed(None) : r \in Needed(sel) /\ shown'[r] = shown[r]
  BY <1>1, <1>2, <1>4, NeededFacts DEF TypeOK
<1>6. \A i \in DOMAIN runs : Sound(runs[i], shown', None)
  <2>1. SUFFICES ASSUME NEW i \in DOMAIN runs PROVE Sound(runs[i], shown', None)
    OBVIOUS
  <2>2. /\ StepOf(runs[i]).local \subseteq Resources
        /\ Sound(runs[i], shown, sel)
    BY <1>1, <1>3, StepFacts, LocalFacts DEF Quiet
  <2> QED BY <1>2, <1>4, <2>2 DEF Sound
<1> QED BY <1>2, <1>3, <1>5, <1>6 DEF Quiet

\* A form is opened or closed: its runs go on.
LEMMA FormsCalm ==
  ASSUME ConsoleInv, CalmInv, CloseForm \/ \E h \in DOMAIN page : OpenForm(h)
  PROVE  CalmInv'
<1>1. TypeOK /\ UNCHANGED <<open, shown, sel, calm, forgotten>>
  BY DEF ConsoleInv, CloseForm, OpenForm
<1>2. /\ DOMAIN runs' = DOMAIN runs
      /\ \A i \in DOMAIN runs : SameAnswer(runs'[i], runs[i])
  <2>1. CASE CloseForm
    <3>1. runs' = Aged(runs) /\ runs \in Seq(Runs)
      BY <1>1, <2>1 DEF CloseForm, TypeOK
    <3> QED BY <1>1, <3>1, AgedAnswers
  <2>2. CASE \E h \in DOMAIN page : OpenForm(h)
    BY <2>2 DEF OpenForm, SameAnswer
  <2> QED BY <2>1, <2>2
<1> QED BY <1>1, <1>2, SameCalm, CalmNext DEF CalmInv

\* A fault or a change by others ends the calm, and an error needs one.
LEMMA NotCalm ==
  ASSUME CalmInv,
         \/ \E i \in DOMAIN runs : Refuse(i) \/ Lose(i) \/ Fail(i)
         \/ \E r \in Resources : Change(r)
  PROVE  CalmInv'
<1>1. CASE \/ \E i \in DOMAIN runs : Refuse(i) \/ Lose(i)
           \/ \E r \in Resources : Change(r)
  BY <1>1, CalmNext DEF Refuse, Lose, Change
<1>2. ASSUME NEW i \in DOMAIN runs, Fail(i) PROVE CalmInv'
  BY <1>2, CalmNext DEF Fail, CalmInv, Quiet, Sound, None
<1> QED BY <1>1, <1>2

\* The answer to a load.
LEMMA LoadedCalm ==
  ASSUME ConsoleInv, CalmInv, NEW i \in DOMAIN runs, StepOf(runs[i]).kind # "save",
         runs' = Put(i, [runs[i] EXCEPT !.answer = "ok", !.got = StepOf(runs[i]).rs]),
         UNCHANGED <<open, shown, sel, calm, forgotten>>
  PROVE  CalmInv'
<1> DEFINE run == [runs[i] EXCEPT !.answer = "ok", !.got = StepOf(runs[i]).rs]
<1>1. TypeOK
  BY DEF ConsoleInv
<1> SUFFICES ASSUME calm PROVE Quiet(runs', shown, sel, forgotten)
  BY CalmNext
<1>2. Quiet(runs, shown, sel, forgotten)
  BY DEF CalmInv
<1>3. /\ run \in Runs /\ run.h = runs[i].h /\ run.at = runs[i].at
      /\ run.arg = runs[i].arg /\ run.answer = "ok" /\ run.got = StepOf(runs[i]).rs
  BY <1>1, StepFacts DEF Runs
<1>4. runs' = Put(i, run)
  OBVIOUS
<1> HIDE DEF run
<1>5. /\ DOMAIN runs' = DOMAIN runs
      /\ \A j \in DOMAIN runs : runs'[j] = IF j = i THEN run ELSE runs[j]
  BY <1>1, <1>3, <1>4, PutFacts
<1>6. Sound(run, shown, sel)
  BY <1>2, <1>3 DEF Quiet, Sound, StepOf
<1>7. \A r : Coming(runs[i], r) => Coming(run, r)
  <2>1. \A r : ~CopiedFrom(runs[i].h, runs[i].at, runs[i].got, r)
    BY <1>1, StepFacts DEF CopiedFrom, StepOf
  <2> QED BY <1>3, <2>1 DEF Coming
<1> QED BY <1>2, <1>3, <1>5, <1>6, <1>7 DEF Quiet

LEMMA ServeLoadCalm ==
  ASSUME ConsoleInv, CalmInv, NEW i \in DOMAIN runs, ServeLoad(i)
  PROVE  CalmInv'
  BY LoadedCalm DEF ServeLoad

LEMMA ServeEachCalm ==
  ASSUME ConsoleInv, CalmInv, NEW i \in DOMAIN runs, ServeEach(i)
  PROVE  CalmInv'
<1>1. CASE calm'
  BY <1>1, LoadedCalm DEF ServeEach
<1>2. CASE ~calm'
  BY <1>2, CalmNext DEF ServeEach
<1> QED BY <1>1, <1>2

\* A write: its run is the only one, and it loads again what it changes.
LEMMA ServeSaveCalm ==
  ASSUME ConsoleInv, CalmInv, NEW i \in DOMAIN runs, ServeSave(i)
  PROVE  CalmInv'
<1> DEFINE h   == runs[i].h
           rs  == StepOf(runs[i]).rs
           now == {s \in Locals(h) : shown[s] \/ s \in runs[i].got}
           run == [runs[i] EXCEPT !.answer = "ok", !.got = now]
<1>1. TypeOK
  BY DEF ConsoleInv
<1>2. /\ runs' = [Outdate(rs, runs) EXCEPT ![i] = run]
      /\ shown' = Without(rs) /\ UNCHANGED <<open, sel, calm>>
      /\ forgotten' = forgotten \cup (rs \cap page[h].forgets)
      /\ StepOf(runs[i]).kind = "save"
  BY DEF ServeSave
<1> SUFFICES ASSUME calm PROVE Quiet(runs', shown', sel, forgotten')
  BY <1>2, CalmNext
<1>3. Quiet(runs, shown, sel, forgotten)
  BY DEF CalmInv
<1>4. /\ run.h = h /\ run.at = runs[i].at /\ run.arg = runs[i].arg
      /\ run.answer = "ok" /\ run.got = now
  BY <1>1, StepFacts DEF Runs
<1>5. /\ DOMAIN runs' = DOMAIN runs
      /\ \A j \in DOMAIN runs :
           runs'[j] = IF j = i THEN run ELSE [runs[j] EXCEPT !.got = @ \ rs]
  BY <1>1, <1>2, OutdateFacts
<1>6. \A j \in DOMAIN runs \ {i} : rs = {} /\ SameAnswer(runs'[j], runs[j])
  <2>1. SUFFICES ASSUME NEW j \in DOMAIN runs \ {i}
                 PROVE  rs = {} /\ SameAnswer(runs'[j], runs[j])
    OBVIOUS
  <2>2. rs = {}
    BY <1>1, <1>2, <1>3, LocalFacts DEF Quiet
  <2>3. runs'[j] = [runs[j] EXCEPT !.got = @ \ rs] /\ runs[j] \in Runs
    BY <1>1, <1>5, StepFacts
  <2>4. runs[j].got \ rs = runs[j].got
    BY <2>2
  <2> HIDE DEF rs
  <2> QED BY <2>2, <2>3, <2>4 DEF SameAnswer, Runs
<1>7. \A r \in Resources : shown'[r] = (shown[r] /\ r \notin rs)
  BY <1>2 DEF Without
<1>8. \A j \in DOMAIN runs : Sound(runs'[j], shown', sel)
  <2>1. ASSUME NEW j \in DOMAIN runs \ {i} PROVE Sound(runs'[j], shown', sel)
    <3>1. SameAnswer(runs'[j], runs[j]) /\ Sound(runs[j], shown, sel)
      BY <1>3, <1>6 DEF Quiet
    <3>2. StepOf(runs[j]).local \subseteq Resources
      BY <1>1, LocalFacts
    <3> QED BY <3>1, <3>2, <1>7 DEF Sound, SameAnswer, StepOf
  <2>2. Sound(run, shown', sel)
    <3>1. run.arg # sel => sel = None /\ Filtered = {}
      BY <1>3, <1>4 DEF Quiet, Sound
    <3>2. StepOf(run) = StepOf(runs[i])
      BY <1>4 DEF StepOf
    <3>3. \A r \in StepOf(runs[i]).local : shown'[r] => r \in now
      BY <1>1, <1>7, LocalFacts
    <3> QED BY <1>2, <1>4, <3>1, <3>2, <3>3 DEF Sound
  <2>3. runs'[i] = run
    BY <1>5
  <2> HIDE DEF run
  <2> QED BY <2>1, <2>2, <2>3
<1>9. \A j, k \in DOMAIN runs : Writes(runs'[j].h) => j = k
  BY <1>3, <1>4, <1>5, <1>6 DEF Quiet, SameAnswer
<1>10. \A r : Coming(runs[i], r) => Coming(run, r)
  <2>1. \A r : CopiedFrom(h, runs[i].at, runs[i].got, r)
          => CopiedFrom(h, runs[i].at, now, r)
    <3>1. \A q \in runs[i].at .. Len(page[h].steps) :
            page[h].steps[q].local \subseteq Locals(h)
      BY <1>1, StepFacts, LenProperties DEF Locals, Range
    <3> QED BY <3>1 DEF CopiedFrom
  <2> QED BY <1>4, <2>1 DEF Coming
<1>11. \A r \in (rs \cap Kept) \ forgotten' : shown[r] => Coming(run, r)
  <2>1. SUFFICES ASSUME NEW r \in (rs \cap Kept) \ page[h].forgets, shown[r]
                 PROVE  Coming(run, r)
    BY <1>2
  <2>2. /\ h \in DOMAIN page /\ runs[i].at \in DOMAIN page[h].steps
        /\ runs[i].at \in 1 .. Len(page[h].steps)
    BY <1>1, StepFacts DEF TypeOK
  <2>3. ShownAgain(open, h, runs[i].at, r)
    BY <1>1, <1>2, <2>2, ReadBack DEF StepOf
  <2>4. page = Pages[open] /\ \A k : Reads(k) = ReadsIn[open][k]
    BY DEF page, Reads
  <2>5. \/ LoadedFrom(h, runs[i].at, r)
        \/ \E j \in runs[i].at .. Len(page[h].steps) :
             /\ r \in page[h].steps[j].local
             /\ \A k \in runs[i].at .. j : page[h].steps[k].kind = "save"
        \/ Passed(h, r)
    BY <2>3, <2>4 DEF ShownAgain, LoadedFrom, Passed, OfItem, Details, Copied
  <2>6. ASSUME NEW j \in runs[i].at .. Len(page[h].steps),
               r \in page[h].steps[j].local
        PROVE  r \in now
    BY <1>1, <2>1, <2>6, StepFacts, LenProperties DEF Locals, Range
  <2> QED BY <1>4, <2>5, <2>6 DEF Coming, CopiedFrom
<1>12. \A r \in Needed(sel) \ forgotten' :
         shown'[r] \/ \E j \in DOMAIN runs : Coming(runs'[j], r)
  <2>1. SUFFICES ASSUME NEW r \in Needed(sel) \ forgotten', ~shown'[r]
                 PROVE  \E j \in DOMAIN runs : Coming(runs'[j], r)
    OBVIOUS
  <2>2. r \in Resources /\ r \in Kept
    BY <1>1, NeededFacts DEF Needed
  <2>3. CASE shown[r]
    BY <2>1, <2>2, <2>3, <1>5, <1>7, <1>11
  <2>4. CASE ~shown[r]
    <3>1. PICK j \in DOMAIN runs : Coming(runs[j], r)
      BY <1>2, <1>3, <2>4 DEF Quiet
    <3>2. CASE j = i
      BY <1>5, <1>10, <3>1, <3>2
    <3>3. CASE j # i
      <4>1. SameAnswer(runs'[j], runs[j])
        BY <1>6, <3>3
      <4> QED BY <3>1, <4>1 DEF SameAnswer, Coming
    <3> QED BY <3>2, <3>3
  <2> QED BY <2>3, <2>4
<1> QED BY <1>5, <1>8, <1>9, <1>12 DEF Quiet

\* When a run goes on, what is needed stays shown, and is shown when its step
\* was the one to show it.
LEMMA ShownFacts ==
  ASSUME TypeOK, NEW i \in DOMAIN runs, Sound(runs[i], shown, sel),
         runs[i].answer = "ok", NEW r \in Needed(sel)
  PROVE  /\ shown[r] => Shown(runs[i])[r]
         /\ StepOf(runs[i]).kind # "save" /\ r \in StepOf(runs[i]).rs
              => Shown(runs[i])[r]
         /\ StepOf(runs[i]).kind = "save" /\ r \in StepOf(runs[i]).local
              /\ r \in runs[i].got => Shown(runs[i])[r]
<1>1. r \in Resources
  BY NeededFacts
<1>2. r \in Details => runs[i].arg = sel
  BY NeededFacts DEF Sound, OfItem
<1>3. runs[i].answer # None
  BY DEF None
<1> QED BY <1>1, <1>2, <1>3 DEF Sound, Shown

\* What the page no longer forgets is shown.
LEMMA RecalledFacts ==
  ASSUME TypeOK, NEW i \in DOMAIN runs, Sound(runs[i], shown, sel),
         runs[i].answer = "ok",
         NEW r \in (Needed(sel) \cap forgotten) \ Recalled(runs[i])
  PROVE  Shown(runs[i])[r]
  BY ShownFacts DEF Recalled

\* What the last step has not shown is passed on at the end.
LEMMA PassedFacts ==
  ASSUME TypeOK, NEW i \in DOMAIN runs, Sound(runs[i], shown, sel),
         runs[i].answer = "ok", NEW r \in Needed(sel), Coming(runs[i], r)
  PROVE  /\ LastStep(runs[i]) => Shown(runs[i])[r] \/ Passed(runs[i].h, r)
         /\ ~LastStep(runs[i]) =>
              \/ Shown(runs[i])[r]
              \/ LoadedFrom(runs[i].h, runs[i].at + 1, r)
              \/ CopiedFrom(runs[i].h, runs[i].at + 1,
                            runs[i].got \cap Locals(runs[i].h), r)
              \/ Passed(runs[i].h, r)
<1> DEFINE h == runs[i].h
           at == runs[i].at
           n  == Len(page[h].steps)
<1>1. /\ at \in 1 .. n /\ n \in Nat /\ DOMAIN page[h].steps = 1 .. n
  BY StepFacts, LenProperties
<1>2. \A q \in at .. n : q = at \/ q \in at + 1 .. n
  BY <1>1
<1>3. \A q \in at .. n : at \in at .. q /\ \A j \in at + 1 .. q : j \in at .. q
  BY <1>1
<1>4. at = n => \A q \in at .. n : q = at
  BY <1>1
<1>5. StepOf(runs[i]) = page[h].steps[at] /\ (LastStep(runs[i]) <=> at = n)
  BY DEF StepOf, LastStep
<1> HIDE DEF h, at, n
<1>6. LoadedFrom(h, at, r) => Shown(runs[i])[r] \/ LoadedFrom(h, at + 1, r)
  BY <1>2, <1>5, ShownFacts DEF LoadedFrom, n
<1>7. CopiedFrom(h, at, runs[i].got, r) =>
        Shown(runs[i])[r] \/ CopiedFrom(h, at + 1, runs[i].got \cap Locals(h), r)
  <2>1. SUFFICES ASSUME CopiedFrom(h, at, runs[i].got, r), ~Shown(runs[i])[r]
                 PROVE  CopiedFrom(h, at + 1, runs[i].got \cap Locals(h), r)
    OBVIOUS
  <2>2. PICK q \in at .. n : /\ r \in page[h].steps[q].local
                             /\ \A j \in at .. q : page[h].steps[j].kind = "save"
    BY <2>1 DEF CopiedFrom, n
  <2>3. page[h].steps[at].kind = "save"
    BY <1>3, <2>2
  <2>4. q # at
    BY <1>5, <2>1, <2>2, <2>3, ShownFacts DEF CopiedFrom
  <2>5. q \in at + 1 .. n /\ \A j \in at + 1 .. q : page[h].steps[j].kind = "save"
    BY <1>2, <1>3, <2>2, <2>4
  <2>6. r \in Locals(h)
    <3>1. q \in DOMAIN page[h].steps
      BY <1>1, <2>5 DEF h, at, n
    <3> QED BY <2>2, <3>1 DEF Locals, Range
  <2> QED BY <2>1, <2>2, <2>5, <2>6 DEF CopiedFrom, n
<1>8. at = n => ~LoadedFrom(h, at + 1, r)
                /\ \A got : ~CopiedFrom(h, at + 1, got, r)
  <2>1. at = n => at + 1 .. n = {}
    BY <1>1 DEF h, at, n
  <2> QED BY <2>1 DEF LoadedFrom, CopiedFrom, n
<1> QED BY <1>5, <1>6, <1>7, <1>8 DEF Coming, h, at

\* The other runs have nothing to show from what they have written.
LEMMA OthersKeep ==
  ASSUME TypeOK, Quiet(runs, shown, sel, forgotten), NEW i \in DOMAIN runs,
         NEW j \in DOMAIN runs \ {i}, NEW sh
  PROVE  Sound(runs[j], sh, sel) /\ ~Writes(runs[j].h)
<1>1. ~Writes(runs[j].h) /\ Sound(runs[j], shown, sel)
  BY DEF Quiet
<1>2. StepOf(runs[j]).kind = "save" => StepOf(runs[j]).local = {}
  BY <1>1, LocalFacts
<1> QED BY <1>1, <1>2 DEF Sound

\* The runs that are left when one is over.
LEMMA RestFacts ==
  ASSUME NEW S, NEW s \in Seq(S), NEW i \in DOMAIN s
  PROVE  /\ RemoveAt(s, i) \in Seq(S)
         /\ \A k \in DOMAIN RemoveAt(s, i) :
              \E j \in DOMAIN s \ {i} : RemoveAt(s, i)[k] = s[j]
         /\ \A j \in DOMAIN s \ {i} :
              \E k \in DOMAIN RemoveAt(s, i) : RemoveAt(s, i)[k] = s[j]
<1> DEFINE rest == RemoveAt(s, i)
<1>1. /\ rest \in Seq(S) /\ DOMAIN rest = 1 .. Len(s) - 1
      /\ \A j \in 1 .. Len(s) - 1 : rest[j] = IF j < i THEN s[j] ELSE s[j + 1]
  BY Removed
<1>2. Len(s) \in Nat /\ DOMAIN s = 1 .. Len(s) /\ i \in 1 .. Len(s)
  BY LenProperties
<1> HIDE DEF rest
<1>3. ASSUME NEW k \in DOMAIN rest
      PROVE  \E j \in DOMAIN s \ {i} : rest[k] = s[j]
  <2>1. CASE k < i
    BY <2>1, <1>1, <1>2
  <2>2. CASE ~(k < i)
    <3>1. k + 1 \in DOMAIN s \ {i} /\ rest[k] = s[k + 1]
      BY <2>2, <1>1, <1>2
    <3> QED BY <3>1
  <2> QED BY <2>1, <2>2
<1>4. ASSUME NEW j \in DOMAIN s \ {i}
      PROVE  \E k \in DOMAIN rest : rest[k] = s[j]
  <2>1. CASE j < i
    <3>1. j \in DOMAIN rest /\ rest[j] = s[j]
      BY <2>1, <1>1, <1>2
    <3> QED BY <3>1
  <2>2. CASE ~(j < i)
    <3>1. j - 1 \in DOMAIN rest /\ ~(j - 1 < i) /\ (j - 1) + 1 = j
      BY <2>2, <1>1, <1>2
    <3>2. rest[j - 1] = s[j]
      BY <3>1, <1>1
    <3> QED BY <3>1, <3>2
  <2> QED BY <2>1, <2>2
<1> QED BY <1>1, <1>3, <1>4 DEF rest

\* The sequence has the elements of s and of t.
Joins(all, s, t) ==
  /\ \A k \in DOMAIN all : \/ \E j \in DOMAIN s : all[k] = s[j]
                           \/ \E j \in DOMAIN t : all[k] = t[j]
  /\ \A j \in DOMAIN s : \E k \in DOMAIN all : all[k] = s[j]
  /\ \A j \in DOMAIN t : \E k \in DOMAIN all : all[k] = t[j]

LEMMA JoinedFacts ==
  ASSUME NEW S, NEW s \in Seq(S), NEW t \in Seq(S)
  PROVE  s \o t \in Seq(S) /\ Joins(s \o t, s, t)
<1> DEFINE all == s \o t
<1>1. /\ all \in Seq(S) /\ Len(all) = Len(s) + Len(t)
      /\ \A k \in 1 .. Len(s) + Len(t) : all[k] =
           IF k <= Len(s) THEN s[k] ELSE t[k - Len(s)]
  BY Appended
<1>2. /\ Len(s) \in Nat /\ Len(t) \in Nat /\ DOMAIN s = 1 .. Len(s)
      /\ DOMAIN t = 1 .. Len(t) /\ DOMAIN all = 1 .. Len(s) + Len(t)
  BY <1>1, LenProperties
<1> HIDE DEF all
<1>3. \A k \in DOMAIN all :
        \/ k \in DOMAIN s /\ all[k] = s[k]
        \/ k - Len(s) \in DOMAIN t /\ all[k] = t[k - Len(s)]
  BY <1>1, <1>2
<1>4. \A j \in DOMAIN s : j \in DOMAIN all /\ all[j] = s[j]
  BY <1>1, <1>2
<1>5. ASSUME NEW j \in DOMAIN t
      PROVE  \E k \in DOMAIN all : all[k] = t[j]
  <2>1. /\ Len(s) + j \in DOMAIN all /\ ~(Len(s) + j <= Len(s))
        /\ (Len(s) + j) - Len(s) = j
    BY <1>2
  <2>2. all[Len(s) + j] = t[j]
    BY <1>1, <1>2, <2>1
  <2> QED BY <2>1, <2>2
<1> QED BY <1>1, <1>3, <1>4, <1>5 DEF Joins, all

\* The next await of a run.
LEMMA ContinueCalm ==
  ASSUME ConsoleInv, CalmInv, NEW i \in DOMAIN runs, Continue(i)
  PROVE  CalmInv'
<1> DEFINE run == [runs[i] EXCEPT !.at = @ + 1, !.answer = None,
                     !.got = @ \cap Locals(runs[i].h)]
<1>1. TypeOK
  BY DEF ConsoleInv
<1>2. /\ runs' = Put(i, run) /\ shown' = Shown(runs[i]) /\ UNCHANGED <<open, sel, calm>>
      /\ ~LastStep(runs[i]) /\ runs[i].answer \in {"ok", "empty"}
      /\ forgotten' = Recalled(runs[i])
  BY DEF Continue
<1> SUFFICES ASSUME calm PROVE Quiet(runs', shown', sel, forgotten')
  BY <1>2, CalmNext
<1>3. Quiet(runs, shown, sel, forgotten)
  BY DEF CalmInv
<1>4. Sound(runs[i], shown, sel) /\ runs[i].answer = "ok"
  BY <1>2, <1>3 DEF Quiet, Sound, None
<1>5. /\ run.h = runs[i].h /\ run.at = runs[i].at + 1 /\ run.arg = runs[i].arg
      /\ run.answer = None /\ run.got = runs[i].got \cap Locals(runs[i].h)
  BY <1>1, StepFacts DEF Runs
<1>6. /\ DOMAIN runs' = DOMAIN runs
      /\ \A j \in DOMAIN runs : runs'[j] = IF j = i THEN run ELSE runs[j]
  <2>1. runs \in Seq(Runs)
    BY <1>1 DEF TypeOK
  <2> HIDE DEF run
  <2> QED BY <1>2, <2>1 DEF Put
<1> HIDE DEF run
<1>7. \A j \in DOMAIN runs : Sound(runs'[j], shown', sel)
  <2>1. Sound(run, shown', sel)
    BY <1>4, <1>5 DEF Sound, None
  <2>2. ASSUME NEW j \in DOMAIN runs \ {i} PROVE Sound(runs[j], shown', sel)
    BY <1>1, <1>3, OthersKeep DEF Quiet
  <2> QED BY <1>6, <2>1, <2>2
<1>8. \A j, k \in DOMAIN runs : Writes(runs'[j].h) => j = k
  BY <1>3, <1>5, <1>6 DEF Quiet
<1>9. ASSUME NEW r \in Needed(sel) \ forgotten'
      PROVE  shown'[r] \/ \E j \in DOMAIN runs : Coming(runs'[j], r)
  <2>0. CASE r \in forgotten
    BY <1>1, <1>2, <1>4, <2>0, RecalledFacts
  <2>1. CASE shown[r]
    BY <1>1, <1>2, <1>4, <2>1, ShownFacts
  <2>2. CASE Coming(runs[i], r)
    <3>1. shown'[r] \/ Coming(run, r)
      BY <1>1, <1>2, <1>4, <1>5, <2>2, PassedFacts DEF Coming
    <3> QED BY <1>6, <3>1
  <2>3. ASSUME NEW j \in DOMAIN runs \ {i}, Coming(runs[j], r)
        PROVE  \E k \in DOMAIN runs : Coming(runs'[k], r)
    BY <1>6, <2>3
  <2> QED BY <1>3, <2>0, <2>1, <2>2, <2>3 DEF Quiet
<1> QED BY <1>6, <1>7, <1>8, <1>9 DEF Quiet

\* The end of a run, with the handlers it calls.
LEMMA FinishCalm ==
  ASSUME ConsoleInv, CalmInv, NEW i \in DOMAIN runs, Finish(i)
  PROVE  CalmInv'
<1> DEFINE h     == runs[i].h
           rest  == RemoveAt(runs, i)
           owed  == runs[i].owes \cup OwnFlag(runs[i])
           owes  == IF page[h].awaits THEN owed ELSE {}
           left  == IF form = h THEN Aged(rest) ELSE rest
           new   == NewRuns(page[h].then, runs[i].arg, owes)
<1>1. TypeOK /\ Parts(runs, flags, form)
  BY PartsNow DEF ConsoleInv
<1>2. /\ runs' = left \o new /\ shown' = Shown(runs[i])
      /\ sel' = (IF page[h].deselects THEN None ELSE sel)
      /\ UNCHANGED <<open, calm>>
      /\ LastStep(runs[i]) /\ runs[i].answer \in {"ok", "empty"}
      /\ forgotten' = Recalled(runs[i])
  BY DEF Finish, Leave, OwnFlag
<1> SUFFICES ASSUME calm PROVE Quiet(runs', shown', sel', forgotten')
  BY <1>2, CalmNext
<1>3. Quiet(runs, shown, sel, forgotten)
  BY DEF CalmInv
<1>4. Sound(runs[i], shown, sel) /\ runs[i].answer = "ok"
  BY <1>2, <1>3 DEF Quiet, Sound, None
<1>5. /\ h \in DOMAIN page /\ page[h].then \subseteq Started(page)
      /\ page[h].then \subseteq DOMAIN page /\ runs[i].arg \in Items \cup {None}
      /\ runs \in Seq(Runs)
  BY <1>1, StepFacts, OpenPage DEF Started, IsPage, Runs, TypeOK
<1>6. /\ new \in Seq(Runs)
      /\ \A k \in DOMAIN new : /\ new[k].h \in page[h].then
                               /\ new[k].arg = runs[i].arg /\ new[k].answer = None
      /\ \A g \in page[h].then : \A r \in Reads(g) :
           \E k \in DOMAIN new : Coming(new[k], r)
  <2>1. owes \in SUBSET Flags /\ page[h].then \in SUBSET DOMAIN page
    BY <1>1, <1>5, OwedFacts
  <2>2. \A g \in page[h].then : page[g].steps # <<>>
    BY <1>1, <1>5, StartedFacts
  <2> HIDE DEF owes, h
  <2>3. new \in Seq(Runs)
    BY <1>1, <1>5, <2>1, <2>2, NewRunsFacts, OpenPage
  <2>4. PICK hs, arg, os : hs = page[h].then /\ arg = runs[i].arg /\ os = owes
    OBVIOUS
  <2> DEFINE all == NewRuns(hs, arg, os)
  <2>5. /\ \A k \in DOMAIN all : all[k].h \in hs /\ all[k].arg = arg
                                 /\ all[k].answer = None
        /\ \A g \in hs : \A r \in Reads(g) : \E k \in DOMAIN all : Coming(all[k], r)
    <3>1. /\ hs \in SUBSET DOMAIN page /\ \A g \in hs : page[g].steps # <<>>
          /\ arg \in Items \cup {None} /\ os \in SUBSET Flags
      BY <1>5, <2>1, <2>2, <2>4
    <3>2. /\ \A k \in DOMAIN all : /\ all[k].h \in hs /\ all[k].arg = arg
                                   /\ all[k].answer = None
          /\ \A k, j \in DOMAIN all : all[k].h = all[j].h => k = j
          /\ \A g \in hs : \E k \in DOMAIN all : all[k].h = g
          /\ \A g \in hs : \A r \in Reads(g) :
               \E k \in DOMAIN all : Coming(all[k], r)
          /\ \A g \in hs : \A m \in page[g].then : \A r \in Reads(m) :
               \E k \in DOMAIN all : Coming(all[k], r)
      BY <1>1, <3>1, FreshRuns, Zenon
    <3> QED BY <3>2
  <2> HIDE DEF all
  <2>6. new = all
    BY <2>4 DEF all
  <2> QED BY <2>3, <2>4, <2>5, <2>6
<1>7. /\ rest \in Seq(Runs)
      /\ \A k \in DOMAIN rest : \E j \in DOMAIN runs \ {i} : rest[k] = runs[j]
      /\ \A j \in DOMAIN runs \ {i} : \E k \in DOMAIN rest : rest[k] = runs[j]
  BY <1>5, RestFacts
<1>8. /\ left \in Seq(Runs) /\ DOMAIN left = DOMAIN rest
      /\ \A k \in DOMAIN rest : SameAnswer(left[k], rest[k])
  BY <1>1, <1>7, AgedFacts, AgedAnswers DEF SameAnswer
<1> HIDE DEF new, rest, left, owed, owes
<1>9. runs' \in Seq(Runs) /\ Joins(runs', left, new)
  BY <1>2, <1>6, <1>8, JoinedFacts
<1>10. /\ Needed(sel') \subseteq Needed(sel)
       /\ page[h].deselects => sel' = None /\ Needed(None) \cap OfItem = {}
       /\ sel' # sel => sel' = None /\ Filtered = {}
  BY <1>1, <1>2, <1>5, NeededFacts, ReadBack
<1>11. ASSUME NEW k \in DOMAIN runs'
       PROVE  Sound(runs'[k], shown', sel') /\ ~Writes(runs'[k].h)
  <2>1. ASSUME NEW j \in DOMAIN left, runs'[k] = left[j]
        PROVE  Sound(left[j], shown', sel') /\ ~Writes(left[j].h)
    <3>1. PICK m \in DOMAIN runs \ {i} : SameAnswer(left[j], runs[m])
      BY <1>7, <1>8
    <3>2. Sound(runs[m], shown', sel) /\ ~Writes(runs[m].h)
      BY <1>1, <1>3, OthersKeep DEF Quiet
    <3> QED BY <1>10, <3>1, <3>2 DEF Sound, SameAnswer, StepOf
  <2>2. ASSUME NEW j \in DOMAIN new, runs'[k] = new[j]
        PROVE  Sound(new[j], shown', sel') /\ ~Writes(new[j].h)
    <3>1. ~Writes(new[j].h)
      BY <1>1, <1>5, <1>6, StartedReads
    <3>2. new[j].arg # sel' => sel' = None /\ Filtered = {}
      BY <1>4, <1>6, <1>10 DEF Sound
    <3> QED BY <1>6, <3>1, <3>2 DEF Sound, None
  <2> QED BY <1>9, <2>1, <2>2 DEF Joins
<1>12. ASSUME NEW r \in Needed(sel') \ forgotten'
       PROVE  shown'[r] \/ \E k \in DOMAIN runs' : Coming(runs'[k], r)
  <2>1. r \in Needed(sel)
    BY <1>10
  <2>0. CASE r \in forgotten
    BY <1>1, <1>2, <1>4, <2>0, <2>1, RecalledFacts
  <2>2. CASE shown[r]
    BY <1>1, <1>2, <1>4, <2>1, <2>2, ShownFacts
  <2>3. CASE Coming(runs[i], r)
    <3>1. shown'[r] \/ Passed(h, r)
      BY <1>1, <1>2, <1>4, <2>1, <2>3, PassedFacts
    <3>2. ~(page[h].deselects /\ r \in OfItem)
      BY <1>10
    <3> QED BY <1>6, <1>9, <3>1, <3>2 DEF Passed, Joins
  <2>4. ASSUME NEW j \in DOMAIN runs \ {i}, Coming(runs[j], r)
        PROVE  \E k \in DOMAIN runs' : Coming(runs'[k], r)
    <3>1. PICK m \in DOMAIN left : SameAnswer(left[m], runs[j])
      BY <1>7, <1>8
    <3>2. Coming(left[m], r)
      BY <2>4, <3>1 DEF SameAnswer, Coming
    <3> QED BY <1>9, <3>2 DEF Joins
  <2> QED BY <1>3, <2>0, <2>1, <2>2, <2>3, <2>4 DEF Quiet
<1>13. \A k, l \in DOMAIN runs' : Writes(runs'[k].h) => k = l
  BY <1>11
<1> QED BY <1>11, <1>12, <1>13 DEF Quiet

\* The handlers that load the page load all that it needs.
LEMMA InitCalm ==
  ASSUME ConsoleInit
  PROVE  CalmInv
<1> DEFINE hs == {h \in DOMAIN page : page[h].mount}
<1>1. TypeOK
  BY InitKeeps DEF ConsoleInv
<1>2. /\ sel = None /\ runs = NewRuns(hs, None, {})
      /\ shown = [r \in Resources |-> FALSE]
  BY DEF ConsoleInit
<1>3. hs \subseteq Started(page) /\ hs \in SUBSET DOMAIN page
  BY DEF Started
<1>4. \A r \in Needed(None) : \E h \in hs :
        r \in Reads(h) \/ \E k \in page[h].then : r \in Reads(k)
  <2>1. \A r \in Needed(None) : r \in Kept /\ (r \in OfItem => r \in Filtered)
    BY DEF Needed, OfItem
  <2>2. Selections \subseteq DOMAIN page
    BY <1>1, KeptFacts, StartedFacts
  <2> QED BY <1>1, <2>1, <2>2, KeptFacts
<1> HIDE DEF hs
<1>5. /\ \A i \in DOMAIN runs : runs[i].h \in hs /\ runs[i].arg = None
                                /\ runs[i].answer = None
      /\ \A r \in Needed(None) : \E i \in DOMAIN runs : Coming(runs[i], r)
  <2>1. \A h \in hs : page[h].steps # <<>>
    BY <1>1, <1>3, StartedFacts
  <2>2. None \in Items \cup {None} /\ {} \in SUBSET Flags
    OBVIOUS
  <2> DEFINE new == NewRuns(hs, None, {})
  <2>3. /\ \A i \in DOMAIN new : new[i].h \in hs /\ new[i].arg = None
                                 /\ new[i].answer = None
        /\ \A h \in hs : \A r \in Reads(h) :
             \E i \in DOMAIN new : Coming(new[i], r)
        /\ \A h \in hs : \A k \in page[h].then : \A r \in Reads(k) :
             \E i \in DOMAIN new : Coming(new[i], r)
    BY <1>1, <1>3, <2>1, <2>2, FreshRuns
  <2> HIDE DEF new
  <2>4. \A r \in Needed(None) : \E i \in DOMAIN new : Coming(new[i], r)
    BY <1>4, <2>3
  <2> QED BY <1>2, <2>3, <2>4 DEF new
<1>6. \A i \in DOMAIN runs : Sound(runs[i], shown, sel) /\ ~Writes(runs[i].h)
  BY <1>1, <1>2, <1>3, <1>5, StartedReads DEF Sound, None
<1> QED BY <1>2, <1>5, <1>6 DEF CalmInv, Quiet

\* Every step keeps it.
LEMMA StepCalm ==
  ASSUME ConsoleInv, CalmInv, [ConsoleNext]_consoleVars
  PROVE  CalmInv'
<1>1. CASE UNCHANGED consoleVars
  BY <1>1, CalmNext DEF consoleVars, CalmInv
<1>2. ASSUME NEW h \in DOMAIN page, Click(h) \/ Tick(h) \/ OpenForm(h)
      PROVE  CalmInv'
  BY <1>2, ClickCalm, TickCalm, FormsCalm
<1>3. ASSUME NEW item \in Items, Select(item) PROVE CalmInv'
  BY <1>3, SelectCalm
<1>4. CASE CloseForm \/ Deselect
  BY <1>4, FormsCalm, DeselectCalm
<1>5. ASSUME NEW i \in DOMAIN runs, Serve(i) \/ Refuse(i) \/ Lose(i) \/ Resume(i)
      PROVE  CalmInv'
  <2>1. CASE Serve(i)
    BY <2>1, ServeLoadCalm, ServeEachCalm, ServeSaveCalm DEF Serve
  <2>2. CASE Resume(i)
    BY <2>2, ContinueCalm, FinishCalm, NotCalm DEF Resume
  <2> QED BY <1>5, <2>1, <2>2, NotCalm
<1>6. ASSUME NEW r \in Resources, Change(r) PROVE CalmInv'
  BY <1>6, NotCalm
<1> QED BY <1>1, <1>2, <1>3, <1>4, <1>5, <1>6 DEF ConsoleNext

\* A user who waits for each answer sees what the server has after any sequence
\* of clicks, selections and timers, a copy of the selected item included, but
\* for what a write of the page has changed and none of its loads shows again.
THEOREM SequenceShown == ConsoleSpec => []SequentialShown
<1>1. ConsoleInit => CalmInv
  BY InitCalm
<1>2. ConsoleInv /\ CalmInv /\ [ConsoleNext]_consoleVars => CalmInv'
  BY StepCalm
<1>3. CalmInv => SequentialShown
  <2>1. DOMAIN <<>> = {}
    OBVIOUS
  <2> QED BY <2>1 DEF CalmInv, Quiet, SequentialShown, Needed, Unasked
<1> QED BY <1>1, <1>2, <1>3, Invariance, PTL DEF ConsoleSpec
-----------------------------------------------------------------------------
\* The flags that the end of a run clears or passes on.
Claims(run) == run.owes \cup OwnFlag(run)

\* A flag that is TRUE is claimed by a run in flight, unless an error has left
\* it so.
Held(rns, fl) ==
  \A f \in fl \ Leaking : \E i \in DOMAIN rns : f \in Claims(rns[i])

FlagsHeld == Held(runs, flags)

\* With nothing in flight no control is disabled for good.
Released == runs = <<>> => flags \subseteq Leaking

\* The page of the next state is the same.
LEMMA HeldNext ==
  ASSUME open' = open, Held(runs', flags')
  PROVE  FlagsHeld'
<1>1. page' = page /\ Leaking' = Leaking
  BY DEF page, Leaking
<1>2. \A i \in DOMAIN runs' : Claims(runs[i])' = Claims(runs'[i])
  BY <1>1 DEF Claims, OwnFlag
<1> QED BY <1>1, <1>2 DEF FlagsHeld, Held

\* So it is when the runs go on as they are.
LEMMA HeldOn ==
  ASSUME FlagsHeld, UNCHANGED <<open, flags>>, DOMAIN runs' = DOMAIN runs,
         \A i \in DOMAIN runs : SameRun(runs'[i], runs[i])
  PROVE  FlagsHeld'
<1>1. \A i \in DOMAIN runs : Claims(runs'[i]) = Claims(runs[i])
  BY DEF Claims, OwnFlag, SameRun
<1>2. Held(runs', flags')
  BY <1>1 DEF FlagsHeld, Held
<1> QED BY <1>2, HeldNext

\* Runs that start claim the flags they set, and what they are asked to owe.
LEMMA HeldStart ==
  ASSUME TypeOK, NEW rns \in Seq(Runs), NEW fl, Held(rns, fl),
         NEW hs \in SUBSET DOMAIN page, \A h \in hs : page[h].steps # <<>>,
         NEW arg \in Items \cup {None}, NEW owes \in SUBSET Flags
  PROVE  /\ Held(rns \o NewRuns(hs, arg, owes), fl \cup FlagsOf(hs))
         /\ hs # {} => Held(rns \o NewRuns(hs, arg, owes), fl \cup owes \cup FlagsOf(hs))
<1> DEFINE new == NewRuns(hs, arg, owes)
           all == rns \o new
<1>1. /\ new \in Seq(Runs)
      /\ \A i \in DOMAIN new : \E h \in hs : new[i] = NewRun(h, arg, owes)
  BY OpenPage, NewRunsFacts
<1>2. \A h \in hs : \E i \in DOMAIN new : new[i].h = h
  <2>1. /\ \A i \in DOMAIN new : new[i].h \in hs /\ new[i].arg = arg
                                 /\ new[i].answer = None
        /\ \A i, j \in DOMAIN new : new[i].h = new[j].h => i = j
        /\ \A h \in hs : \E i \in DOMAIN new : new[i].h = h
        /\ \A h \in hs : \A r \in Reads(h) :
             \E i \in DOMAIN new : Coming(new[i], r)
        /\ \A h \in hs : \A k \in page[h].then : \A r \in Reads(k) :
             \E i \in DOMAIN new : Coming(new[i], r)
    BY FreshRuns, Zenon
  <2> QED BY <2>1
<1>3. \A h \in hs : LET r == NewRun(h, arg, owes)
                    IN r.h = h /\ r.owes = owes /\ r.old = FALSE
  BY DEF NewRun
<1> HIDE DEF new
<1>4. Joins(all, rns, new)
  BY <1>1, JoinedFacts
<1> HIDE DEF all
<1>5. \A i \in DOMAIN new : new[i].owes = owes /\ new[i].old = FALSE
  BY <1>1, <1>3
<1>6. \A h \in hs : \E i \in DOMAIN all :
        all[i].h = h /\ all[i].owes = owes /\ all[i].old = FALSE
  <2>1. SUFFICES ASSUME NEW h \in hs
                 PROVE  \E i \in DOMAIN all :
                          all[i].h = h /\ all[i].owes = owes /\ all[i].old = FALSE
    OBVIOUS
  <2>2. PICK j \in DOMAIN new : new[j].h = h
    BY <1>2
  <2>3. PICK i \in DOMAIN all : all[i] = new[j]
    BY <1>4 DEF Joins
  <2> QED BY <1>5, <2>2, <2>3
<1>7. \A f \in FlagsOf(hs) : \E i \in DOMAIN all : f \in Claims(all[i])
  <2>1. SUFFICES ASSUME NEW h \in hs, page[h].busy # ""
                 PROVE  \E i \in DOMAIN all : page[h].busy \in Claims(all[i])
    BY DEF FlagsOf
  <2>2. PICK i \in DOMAIN all : all[i].h = h /\ all[i].old = FALSE
    BY <1>6
  <2>3. OwnFlag(all[i]) = {page[h].busy} \ {""}
    BY <2>2 DEF OwnFlag
  <2> QED BY <2>1, <2>2, <2>3 DEF Claims
<1>8. hs # {} => \A f \in owes : \E i \in DOMAIN all : f \in Claims(all[i])
  BY <1>6 DEF Claims
<1>9. \A f \in fl \ Leaking : \E i \in DOMAIN all : f \in Claims(all[i])
  BY <1>4 DEF Held, Joins
<1> QED BY <1>7, <1>8, <1>9 DEF Held, all, new

\* What starts with fewer flags set claims them too.
LEMMA HeldLess ==
  ASSUME NEW rns, NEW fl, NEW less, Held(rns, fl), less \subseteq fl
  PROVE  Held(rns, less)
  BY DEF Held

\* A form that is closed leaves its runs their flags, but that of a modal,
\* which goes with it.
LEMMA HeldAged ==
  ASSUME TypeOK, NEW rns, NEW fl, NEW set, NEW fm, Parts(rns, set, fm), Held(rns, fl)
  PROVE  Held(Aged(rns), fl \ FlagOf(fm))
<1>1. rns \in Seq(Runs)
  BY DEF Parts
<1>2. /\ DOMAIN Aged(rns) = DOMAIN rns
      /\ \A j \in DOMAIN rns : Aged(rns)[j] = [rns[j] EXCEPT !.old = TRUE]
  BY <1>1, AgedFacts
<1>3. \A j \in DOMAIN rns : rns[j] \in Runs
  BY <1>1
<1>4. \A j \in DOMAIN rns : rns[j].h \in DOMAIN page /\ rns[j].old \in BOOLEAN
  BY <1>3 DEF Runs
<1>5. \A j \in DOMAIN rns : /\ Aged(rns)[j].h = rns[j].h
                            /\ Aged(rns)[j].owes = rns[j].owes
  BY <1>2, <1>3 DEF Runs
<1>6. ASSUME NEW j \in DOMAIN rns, NEW f \in Claims(rns[j]), f \notin FlagOf(fm)
      PROVE  f \in Claims(Aged(rns)[j])
  <2>1. CASE f \in rns[j].owes
    BY <2>1, <1>5 DEF Claims
  <2>2. CASE f \in OwnFlag(rns[j])
    <3>1. f = page[rns[j].h].busy /\ f # "" /\ ~(page[rns[j].h].modal /\ rns[j].old)
      BY <2>2 DEF OwnFlag
    <3>2. ~page[rns[j].h].modal
      <4>1. SUFFICES ASSUME page[rns[j].h].modal PROVE FALSE
        OBVIOUS
      <4>2. Live(rns[j])
        BY <1>4, <3>1, <4>1, OpenPage DEF IsPage, Live, IsForm
      <4>3. rns[j].h = fm
        BY <4>2 DEF Parts
      <4> QED BY <1>4, <1>6, <3>1, <4>1, <4>3 DEF FlagOf
    <3> QED BY <1>5, <3>1, <3>2 DEF Claims, OwnFlag
  <2> QED BY <1>6, <2>1, <2>2 DEF Claims
<1> QED BY <1>2, <1>6 DEF Held

\* The end of a run clears the flags it claims, or others claim them.
LEMMA HeldLeave ==
  ASSUME ConsoleInv, FlagsHeld, NEW i \in DOMAIN runs,
         NEW next \in SUBSET Started(page), NEW waits, NEW keeps, NEW closes,
         waits => next # {},
         keeps => page[runs[i].h].keeps, closes => form = runs[i].h,
         Leave(i, next, waits, keeps, closes)
  PROVE  Held(runs', flags')
<1> DEFINE owed  == runs[i].owes \cup OwnFlag(runs[i])
           rest  == RemoveAt(runs, i)
           freed == (IF keeps THEN runs[i].owes ELSE owed)
                      \ UNION {rest[j].owes : j \in DOMAIN rest}
           gone  == IF waits THEN {} ELSE freed
           owes  == IF waits THEN owed ELSE {}
           modal == IF closes THEN FlagOf(runs[i].h) ELSE {}
           left  == IF closes THEN Aged(rest) ELSE rest
<1>1. TypeOK /\ Parts(runs, flags, form)
  BY PartsNow DEF ConsoleInv
<1>2. /\ runs' = left \o NewRuns(next, runs[i].arg, owes)
      /\ flags' = (flags \ (gone \cup modal)) \cup BusyOf(next)
  BY DEF Leave, OwnFlag
<1>3. runs \in Seq(Runs)
  BY <1>1 DEF TypeOK
<1>4. /\ rest \in Seq(Runs)
      /\ \A j \in DOMAIN runs \ {i} : \E k \in DOMAIN rest : rest[k] = runs[j]
  BY <1>3, RestFacts
<1>5. /\ owes \in SUBSET Flags /\ next \in SUBSET DOMAIN page
      /\ \A h \in next : page[h].steps # <<>>
      /\ runs[i].arg \in Items \cup {None}
  BY <1>1, OwedFacts, StartedFacts, StepFacts DEF Runs
\* The flags that are left and owed by none of the new runs.
<1> DEFINE flgs == flags \ (gone \cup owes)
<1>6. Held(rest, flgs)
  <2>1. SUFFICES ASSUME NEW f \in flags, f \notin gone, f \notin owes, f \notin Leaking
                 PROVE  \E k \in DOMAIN rest : f \in Claims(rest[k])
    BY DEF Held
  <2>2. PICK j \in DOMAIN runs : f \in Claims(runs[j])
    BY <2>1 DEF FlagsHeld, Held
  <2>3. CASE j # i
    BY <1>4, <2>2, <2>3
  <2>4. CASE j = i
    <3>1. f \in owed /\ ~waits /\ f \notin freed
      BY <2>1, <2>2, <2>4 DEF Claims
    <3>2. CASE f \in UNION {rest[k].owes : k \in DOMAIN rest}
      BY <3>2 DEF Claims
    <3>3. CASE f \notin UNION {rest[k].owes : k \in DOMAIN rest}
      <4>1. keeps /\ f \in OwnFlag(runs[i])
        BY <3>1, <3>3
      <4>2. f = page[runs[i].h].busy /\ page[runs[i].h].keeps
        BY <4>1 DEF OwnFlag
      <4>3. f \in Leaking
        BY <1>1, <4>2, StepFacts DEF Leaking
      <4> QED BY <2>1, <4>3
    <3> QED BY <3>2, <3>3
  <2> QED BY <2>3, <2>4
<1>7. Parts(rest, flags \ gone, form)
  <2>1. gone \subseteq owed
    OBVIOUS
  <2>2. \A j \in DOMAIN runs \ {i} : Holds(runs[j]) => BusyFlag(runs[j]) \notin gone
    BY <1>1, <2>1, OwnFlagFree
  <2> HIDE DEF gone
  <2> QED BY <1>1, <2>2, RemoveParts
<1>8. left \in Seq(Runs) /\ Held(left, flgs \ modal)
  <2>1. CASE closes
    <3>1. Aged(rest) \in Seq(Runs)
      BY <1>1, <1>4, AgedFacts
    <3>2. Held(Aged(rest), flgs \ FlagOf(form))
      <4> HIDE DEF flgs, rest, gone
      <4> QED BY <1>1, <1>6, <1>7, HeldAged
    <3> QED BY <2>1, <3>1, <3>2
  <2>2. CASE ~closes
    BY <1>4, <1>6, <2>2, HeldLess
  <2> QED BY <2>1, <2>2
<1> HIDE DEF gone, owes, modal, left, flgs
<1>9. Held(runs', (flgs \ modal) \cup owes \cup FlagsOf(next))
  <2>1. CASE next # {}
    BY <1>1, <1>2, <1>5, <1>8, <2>1, HeldStart
  <2>2. CASE next = {}
    <3>1. owes = {}
      BY <2>2 DEF owes
    <3>2. Held(runs', (flgs \ modal) \cup FlagsOf(next))
      BY <1>1, <1>2, <1>5, <1>8, HeldStart
    <3> QED BY <3>1, <3>2
  <2> QED BY <2>1, <2>2
<1>10. flags' \subseteq (flgs \ modal) \cup owes \cup FlagsOf(next)
  BY <1>2 DEF flgs, BusyOf, FlagsOf
<1> QED BY <1>9, <1>10, HeldLess

LEMMA InitHeld ==
  ASSUME ConsoleInit
  PROVE  FlagsHeld
<1> DEFINE hs  == {h \in DOMAIN page : page[h].mount}
           new == NewRuns(hs, None, {})
<1>1. TypeOK
  BY InitKeeps DEF ConsoleInv
<1>2. runs = new /\ flags = FlagsOf(hs)
  BY DEF ConsoleInit
<1>3. /\ hs \in SUBSET DOMAIN page /\ hs \subseteq Started(page)
      /\ None \in Items \cup {None} /\ {} \in SUBSET Flags
  BY DEF Started
<1> HIDE DEF hs
<1>4. \A h \in hs : page[h].steps # <<>>
  BY <1>1, <1>3, StartedFacts
<1>5. Held(<<>>, {}) /\ <<>> \in Seq(Runs)
  BY DEF Held
<1>6. Held(<<>> \o new, {} \cup FlagsOf(hs))
  BY <1>1, <1>3, <1>4, <1>5, HeldStart
<1>7. new \in Seq(Runs)
  BY <1>1, <1>3, <1>4, OpenPage, NewRunsFacts
<1> HIDE DEF new
<1>8. <<>> \o new = new
  BY <1>7, ConcatEmptySeq
<1>9. {} \cup FlagsOf(hs) = flags
  BY <1>2
<1> QED BY <1>2, <1>6, <1>8, <1>9 DEF FlagsHeld

\* A handler that starts sets the flags that its run claims.
LEMMA StartHeld ==
  ASSUME ConsoleInv, FlagsHeld, NEW hs \in SUBSET DOMAIN page,
         \A h \in hs : page[h].steps # <<>>,
         NEW item \in Items \cup {None}, Start(hs, item), open' = open
  PROVE  FlagsHeld'
<1>1. TypeOK /\ runs \in Seq(Runs) /\ {} \in SUBSET Flags
  BY DEF ConsoleInv, TypeOK
<1>2. Held(runs \o NewRuns(hs, item, {}), flags \cup FlagsOf(hs))
  BY <1>1, HeldStart DEF FlagsHeld
<1>3. /\ runs' = runs \o NewRuns(hs, item, {})
      /\ flags' \subseteq flags \cup FlagsOf(hs)
  BY DEF Start, BusyOf, FlagsOf
<1>4. Held(runs', flags')
  <2>1. Held(runs', flags \cup FlagsOf(hs))
    BY <1>2, <1>3
  <2> QED BY <1>3, <2>1 DEF Held
<1> QED BY <1>4, HeldNext

\* Clicks, timers and selections start handlers that await something.
LEMMA StartsHeld ==
  ASSUME ConsoleInv, FlagsHeld,
         \/ \E h \in DOMAIN page : Click(h) \/ Tick(h)
         \/ \E item \in Items : Select(item)
  PROVE  FlagsHeld'
<1>1. TypeOK /\ sel \in Items \cup {None}
  BY DEF ConsoleInv, TypeOK
<1>2. ASSUME NEW h \in DOMAIN page, Click(h) PROVE FlagsHeld'
  <2> DEFINE hs == IF page[h].steps = <<>> THEN page[h].then ELSE {h}
  <2>1. Start(hs, sel) /\ open' = open
    BY <1>2 DEF Click
  <2>2. hs \in SUBSET DOMAIN page /\ \A k \in hs : page[k].steps # <<>>
    <3>1. CASE page[h].steps = <<>>
      <4>1. page[h].then \subseteq Started(page)
        BY DEF Started
      <4> QED BY <1>1, <3>1, <4>1, StartedFacts
    <3>2. CASE page[h].steps # <<>>
      BY <3>2
    <3> QED BY <3>1, <3>2
  <2> HIDE DEF hs
  <2> QED BY <1>1, <2>1, <2>2, StartHeld
<1>3. ASSUME NEW h \in DOMAIN page, Tick(h) PROVE FlagsHeld'
  <2>1. Start({h}, sel) /\ open' = open /\ h \in Started(page)
    BY <1>3 DEF Tick, Polls, Started
  <2>2. page[h].steps # <<>>
    BY <1>1, <2>1, StartedFacts
  <2> QED BY <1>1, <2>1, <2>2, StartHeld
<1>4. ASSUME NEW item \in Items, Select(item) PROVE FlagsHeld'
  <2>1. Start(Selections, item) /\ open' = open
    BY <1>4 DEF Select
  <2>2. Selections \in SUBSET DOMAIN page /\ \A h \in Selections : page[h].steps # <<>>
    BY <1>1, KeptFacts, StartedFacts
  <2> QED BY <2>1, <2>2, StartHeld
<1> QED BY <1>2, <1>3, <1>4

\* A form that is opened or closed.
LEMMA FormsHeld ==
  ASSUME ConsoleInv, FlagsHeld,
         CloseForm \/ Deselect \/ \E h \in DOMAIN page : OpenForm(h)
  PROVE  FlagsHeld'
<1>1. TypeOK /\ Parts(runs, flags, form)
  BY PartsNow DEF ConsoleInv
<1>2. CASE CloseForm
  <2>1. Held(Aged(runs), flags \ FlagOf(form))
    BY <1>1, HeldAged DEF FlagsHeld
  <2> QED BY <1>2, <2>1, HeldNext DEF CloseForm
<1>3. CASE Deselect \/ \E h \in DOMAIN page : OpenForm(h)
  BY <1>3, HeldOn DEF Deselect, OpenForm, SameRun
<1> QED BY <1>2, <1>3

\* An answer changes what a run holds and not what it claims.
LEMMA AnswersHeld ==
  ASSUME ConsoleInv, FlagsHeld, NEW i \in DOMAIN runs, NEW r \in Runs,
         SameRun(r, runs[i]), runs' = Put(i, r), UNCHANGED <<open, flags>>
  PROVE  FlagsHeld'
<1>1. TypeOK
  BY DEF ConsoleInv
<1>2. /\ DOMAIN runs' = DOMAIN runs
      /\ \A j \in DOMAIN runs : runs'[j] = IF j = i THEN r ELSE runs[j]
  BY <1>1, PutFacts
<1> QED BY <1>2, HeldOn DEF SameRun

\* A server that answers a load, or fails to, and a request that is lost.
LEMMA LoadsHeld ==
  ASSUME ConsoleInv, FlagsHeld, NEW i \in DOMAIN runs,
         ServeLoad(i) \/ ServeEach(i) \/ Refuse(i) \/ Lose(i)
  PROVE  FlagsHeld'
<1>1. TypeOK /\ runs[i] \in Runs /\ StepOf(runs[i]).rs \subseteq Resources
  BY StepFacts DEF ConsoleInv
<1>2. \E got \in SUBSET Resources : \E answer \in {"ok", "empty", "failed"} :
        runs' = Put(i, [runs[i] EXCEPT !.answer = answer, !.got = got])
  <2>1. CASE ServeLoad(i)
    BY <1>1, <2>1 DEF ServeLoad
  <2>2. CASE ServeEach(i)
    BY <1>1, <2>2 DEF ServeEach
  <2>3. CASE Refuse(i)
    <3>1. PICK answer \in {"failed", "empty"} :
            runs' = Put(i, [runs[i] EXCEPT !.answer = answer])
      BY <2>3 DEF Refuse
    <3>2. /\ runs[i].got \in SUBSET Resources
          /\ [runs[i] EXCEPT !.answer = answer]
               = [runs[i] EXCEPT !.answer = answer, !.got = runs[i].got]
      BY <1>1 DEF Runs
    <3> QED BY <3>1, <3>2
  <2>4. CASE Lose(i)
    BY <2>4 DEF Lose
  <2> QED BY <2>1, <2>2, <2>3, <2>4
<1>3. PICK got \in SUBSET Resources : \E answer \in {"ok", "empty", "failed"} :
        runs' = Put(i, [runs[i] EXCEPT !.answer = answer, !.got = got])
  BY <1>2
<1>4. PICK answer \in {"ok", "empty", "failed"} :
        runs' = Put(i, [runs[i] EXCEPT !.answer = answer, !.got = got])
  BY <1>3
<1> DEFINE r == [runs[i] EXCEPT !.answer = answer, !.got = got]
<1>5. r \in Runs /\ SameRun(r, runs[i])
  BY <1>1, AnswerFacts
<1>6. runs' = Put(i, r) /\ UNCHANGED <<open, flags>>
  BY <1>4 DEF ServeLoad, ServeEach, Refuse, Lose
<1> HIDE DEF r
<1> QED BY <1>5, <1>6, AnswersHeld

\* A write that is applied, and a change by somebody else.
LEMMA ChangesHeld ==
  ASSUME ConsoleInv, FlagsHeld,
         \/ \E i \in DOMAIN runs : ServeSave(i)
         \/ \E r \in Resources : Change(r)
  PROVE  FlagsHeld'
<1>1. TypeOK /\ \A j \in DOMAIN runs : runs[j] \in Runs
  BY StepFacts DEF ConsoleInv
<1>2. \A rs : /\ DOMAIN Outdate(rs, runs) = DOMAIN runs
              /\ \A j \in DOMAIN runs : SameRun(Outdate(rs, runs)[j], runs[j])
  BY <1>1 DEF Outdate, SameRun, Runs
<1>3. ASSUME NEW i \in DOMAIN runs, ServeSave(i) PROVE FlagsHeld'
  <2>1. PICK got :
          runs' = [Outdate(StepOf(runs[i]).rs, runs) EXCEPT
                     ![i] = [runs[i] EXCEPT !.answer = "ok", !.got = got]]
    BY <1>3 DEF ServeSave
  <2>2. SameRun([runs[i] EXCEPT !.answer = "ok", !.got = got], runs[i])
    BY <1>1 DEF SameRun, Runs
  <2>3. /\ DOMAIN runs' = DOMAIN runs
        /\ \A j \in DOMAIN runs : SameRun(runs'[j], runs[j])
    BY <1>2, <2>1, <2>2
  <2> QED BY <1>3, <2>3, HeldOn DEF ServeSave
<1>4. ASSUME NEW r \in Resources, Change(r) PROVE FlagsHeld'
  <2>1. runs' = Outdate({r}, runs) /\ UNCHANGED <<open, flags>>
    BY <1>4 DEF Change
  <2> QED BY <1>2, <2>1, HeldOn
<1> QED BY <1>3, <1>4

\* The code that goes on after an answer.
LEMMA ResumesHeld ==
  ASSUME ConsoleInv, FlagsHeld, NEW i \in DOMAIN runs, Resume(i)
  PROVE  FlagsHeld'
<1>1. /\ TypeOK /\ runs[i] \in Runs /\ runs[i].h \in DOMAIN page
      /\ DOMAIN runs = DOMAIN runs
  BY StepFacts DEF ConsoleInv
<1>2. CASE Continue(i)
  <2> DEFINE r == [runs[i] EXCEPT !.at = @ + 1, !.answer = None,
                     !.got = @ \cap Locals(runs[i].h)]
  <2>1. SameRun(r, runs[i])
    BY <1>1 DEF SameRun, Runs
  <2>2. runs' = [runs EXCEPT ![i] = r] /\ UNCHANGED <<open, flags>>
    BY <1>2 DEF Continue, Put
  <2> HIDE DEF r
  <2>3. /\ DOMAIN runs' = DOMAIN runs
        /\ \A j \in DOMAIN runs : SameRun(runs'[j], runs[j])
    BY <2>1, <2>2 DEF SameRun
  <2> QED BY <2>2, <2>3, HeldOn
<1>3. CASE Finish(i)
  <2>1. /\ Leave(i, page[runs[i].h].then, page[runs[i].h].awaits, FALSE,
                 form = runs[i].h)
        /\ open' = open
    BY <1>3 DEF Finish
  <2>2. /\ page[runs[i].h].then \subseteq Started(page)
        /\ page[runs[i].h].awaits => page[runs[i].h].then # {}
    BY <1>1, OpenPage DEF Started, IsPage
  <2>3. Held(runs', flags')
    BY <2>1, <2>2, HeldLeave
  <2> QED BY <2>1, <2>3, HeldNext
<1>4. CASE Fail(i)
  <2>1. Leave(i, {}, FALSE, page[runs[i].h].keeps, FALSE) /\ open' = open
    BY <1>4 DEF Fail
  <2>2. Held(runs', flags')
    BY <2>1, HeldLeave
  <2> QED BY <2>1, <2>2, HeldNext
<1> QED BY <1>2, <1>3, <1>4 DEF Resume

\* Every step keeps it.
LEMMA StepHeld ==
  ASSUME ConsoleInv, FlagsHeld, [ConsoleNext]_consoleVars
  PROVE  FlagsHeld'
<1>1. CASE UNCHANGED consoleVars
  <2>1. UNCHANGED <<open, runs, flags>>
    BY <1>1 DEF consoleVars
  <2> QED BY <2>1, HeldOn DEF SameRun
<1>2. ASSUME NEW h \in DOMAIN page, Click(h) \/ Tick(h) \/ OpenForm(h)
      PROVE  FlagsHeld'
  BY <1>2, StartsHeld, FormsHeld
<1>3. ASSUME NEW item \in Items, Select(item) PROVE FlagsHeld'
  BY <1>3, StartsHeld
<1>4. CASE CloseForm \/ Deselect
  BY <1>4, FormsHeld
<1>5. ASSUME NEW i \in DOMAIN runs, Serve(i) \/ Refuse(i) \/ Lose(i) \/ Resume(i)
      PROVE  FlagsHeld'
  BY <1>5, LoadsHeld, ChangesHeld, ResumesHeld DEF Serve
<1>6. ASSUME NEW r \in Resources, Change(r) PROVE FlagsHeld'
  BY <1>6, ChangesHeld
<1> QED BY <1>1, <1>2, <1>3, <1>4, <1>5, <1>6 DEF ConsoleNext

\* Every flag that is TRUE is claimed by a run in flight: when nothing is in
\* flight no button is disabled, whatever failed, was lost, closed or called
\* from another handler before, but the flags that a catch leaves TRUE.
THEOREM FlagsReleased == ConsoleSpec => []Released
<1>1. ConsoleInit => FlagsHeld
  BY InitHeld
<1>2. ConsoleInv /\ FlagsHeld /\ [ConsoleNext]_consoleVars => FlagsHeld'
  BY StepHeld
<1>3. FlagsHeld => Released
  <2>1. DOMAIN <<>> = {}
    OBVIOUS
  <2> QED BY <2>1 DEF FlagsHeld, Held, Released
<1> QED BY <1>1, <1>2, <1>3, Invariance, PTL DEF ConsoleSpec
=============================================================================
