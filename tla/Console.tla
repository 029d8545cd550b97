------------------------------ MODULE Console ------------------------------
(***************************************************************************)
(* A page of the console in the browser, the requests it has in flight and *)
(* the server that answers them.  The pages are those of ConsolePages.     *)
(*                                                                         *)
(* A handler is an async function: it runs until its first await at once,  *)
(* and goes on when the answer is there.  Nothing keeps the answers in the *)
(* order of the requests.  Of the data only this is kept: whether what the *)
(* page shows of a resource, or what an answer holds of it, is what the    *)
(* server has now.                                                         *)
(***************************************************************************)
EXTENDS Naturals, SequencesExt

CONSTANTS
  Pages,       \* by name, the pages: functions from handlers, see PageParts
  Items,       \* what can be selected in a list
  MaxActs,     \* bound: clicks of the user
  MaxFaults,   \* bound: requests that fail
  MaxChanges,  \* bound: changes on the server that are not the page's
  MaxOverlap   \* bound: runs in flight when a click or a timer starts another

VARIABLES
  open,     \* the name of the page that is open
  shown,    \* by resource or copy: the page shows what the server has
  flags,    \* the flags that are TRUE: loading, saving, ...
  runs,     \* the handlers that await an answer, in the order they started
  sel,      \* the selected item
  form,     \* the open form, named by the handler that submits it
  sub,      \* history: of the open form, how often its first write was
            \* applied and how often an error was shown
  calm,     \* history: no fault, no other writer, nothing overlapped so far
  forgotten,  \* history: what the page has changed and does not load again
  count     \* of clicks, faults and changes

consoleVars ==
  <<open, shown, flags, runs, sel, form, sub, calm, forgotten, count>>

None == "none"
page == Pages[open]

Steps == [kind : {"load", "each", "save"}, rs : SUBSET STRING,
          notices : SUBSET {"error", "denied"}, local : SUBSET STRING]
\* The handlers of page p that start without a control of their own.
Started(p) ==
  {h \in DOMAIN p : p[h].mount \/ p[h].polls \/ p[h].selects}
    \cup UNION {p[h].then : h \in DOMAIN p}

\* A handler with a control may await nothing; one without awaits something.
\* One that waits for others has some to wait for, and a modal is a form's.
IsPage(p) ==
  /\ IsFiniteSet(DOMAIN p) /\ "" \notin DOMAIN p
  /\ \A h \in DOMAIN p :
       /\ p[h].steps \in Seq(Steps)
       /\ \A i \in DOMAIN p[h].steps : p[h].steps[i].local \subseteq p[h].steps[i].rs
       /\ p[h].then \subseteq DOMAIN p /\ (p[h].awaits => p[h].then # {})
       /\ p[h].modal => p[h].form
  /\ \A h \in Started(p) : p[h].steps # <<>>

\* A form is submitted by its own control only, which is disabled by the flag
\* that is TRUE meanwhile; it shares the flag with other forms at most, and
\* not at all when it is in a modal.
HasGuardedForms(p) ==
  \A h \in {k \in DOMAIN p : p[k].form} :
    /\ h \notin Started(p) /\ p[h].steps # <<>>
    /\ p[h].busy # "" /\ p[h].busy \in p[h].disabled /\ ~p[h].once
    /\ \A k \in DOMAIN p : p[k].busy = p[h].busy =>
         /\ p[k].form /\ ~p[k].awaits
         /\ p[k].modal \/ p[h].modal => k = h

ASSUME PagesAssumption ==
  \A name \in DOMAIN Pages : IsPage(Pages[name]) /\ HasGuardedForms(Pages[name])
ASSUME BoundsAssumption ==
  MaxActs \in Nat /\ MaxFaults \in Nat /\ MaxChanges \in Nat

\* Of each page, by its name: what its handlers load, and what it knows of.
LoadsOf(handler) ==
  UNION {s.rs : s \in {t \in Range(handler.steps) : t.kind # "save"}}
ReadsIn == [p \in DOMAIN Pages |->
  [h \in DOMAIN Pages[p] |-> LoadsOf(Pages[p][h])]]
\* The copies of the selected item, and what no handler loads again.
CopyingIn == [p \in DOMAIN Pages |-> UNION {h.copies : h \in Range(Pages[p])}]
CopiedIn == [p \in DOMAIN Pages |->
  UNION {{c.copy : c \in h.copies} : h \in Range(Pages[p])}]
ForgottenIn == [p \in DOMAIN Pages |->
  UNION {Pages[p][h].forgets : h \in DOMAIN Pages[p]}]
ResourcesIn == [p \in DOMAIN Pages |->
  UNION {(UNION {s.rs : s \in Range(h.steps)}) \cup {c.copy : c \in h.copies} :
           h \in Range(Pages[p])}]
SelectionsIn == [p \in DOMAIN Pages |->
  {h \in DOMAIN Pages[p] : Pages[p][h].selects}]
\* What is shown of the selected item, and what is selected from the start.
DetailsIn  == [p \in DOMAIN Pages |->
  UNION {LoadsOf(h) : h \in {k \in Range(Pages[p]) : k.selects}}]
FilteredIn == [p \in DOMAIN Pages |->
  UNION {LoadsOf(h) : h \in {k \in Range(Pages[p]) : k.selects /\ k.mount}}]
\* What is loaded when the page opens or shown of the selected item.
KeptIn == [p \in DOMAIN Pages |->
  LET openers == {h \in DOMAIN Pages[p] : Pages[p][h].mount}
      called  == UNION {Pages[p][h].then : h \in openers}
  IN  DetailsIn[p] \cup CopiedIn[p]
        \cup UNION {ReadsIn[p][h] : h \in openers \cup called}]

\* What h does of r after its write i: it loads it, changes its own copy,
\* calls a handler that loads it, or closes the item it belongs to.
ShownAgain(p, h, i, r) ==
  LET steps == Pages[p][h].steps IN
  \/ \E j \in i .. Len(steps) : steps[j].kind # "save" /\ r \in steps[j].rs
  \/ \E j \in i .. Len(steps) :
       r \in steps[j].local /\ \A k \in i .. j : steps[k].kind = "save"
  \/ \E k \in Pages[p][h].then : r \in ReadsIn[p][k]
  \/ Pages[p][h].deselects /\ r \in DetailsIn[p] \cup CopiedIn[p]

\* What a page writes it reads back or forgets, the handlers without a control
\* of their own write nothing, and a list that is filtered from the start
\* stays so.
ASSUME ReadBackAssumption ==
  \A p \in DOMAIN Pages : \A h \in DOMAIN Pages[p] :
    LET steps == Pages[p][h].steps IN
    /\ \A i \in {j \in DOMAIN steps : steps[j].kind = "save"} :
         /\ \A r \in (steps[i].rs \cap KeptIn[p]) \ Pages[p][h].forgets :
              ShownAgain(p, h, i, r)
         /\ h \in Started(Pages[p]) => steps[i].rs = {}
    /\ Pages[p][h].deselects => FilteredIn[p] = {}

\* A copy is taken of an item in a list that is loaded when the page opens and
\* again after each write.
ASSUME CopiesAssumption ==
  \A p \in DOMAIN Pages : \A c \in CopyingIn[p] :
    c.list \in KeptIn[p] \ (DetailsIn[p] \cup CopiedIn[p] \cup ForgottenIn[p])

Reads(h)   == ReadsIn[open][h]
Resources  == ResourcesIn[open]
Selections == SelectionsIn[open]
Details    == DetailsIn[open]
Filtered   == FilteredIn[open]
Copies     == CopyingIn[open]
Copied     == CopiedIn[open]
OfItem     == Details \cup Copied
Flags      == {page[h].busy : h \in DOMAIN page} \ {""}
Polls      == {h \in DOMAIN page : page[h].polls}

StepOf(run)   == page[run.h].steps[run.at]
\* Mutant: one step too many.
PastSteps(run) == run.at > Len(page[run.h].steps)

LastStep(run)  == run.at = Len(page[run.h].steps)
\* The write by which a form is applied.
FirstSave(run) ==
  /\ StepOf(run).kind = "save"
  /\ \A j \in 1 .. run.at - 1 : page[run.h].steps[j].kind # "save"
Locals(h) == UNION {s.local : s \in Range(page[h].steps)}
-----------------------------------------------------------------------------
\* owes: the flags of the handlers that await this one.
NewRun(h, arg, owes) ==
  [h |-> h, at |-> 1, arg |-> arg, answer |-> None, got |-> {},
   owes |-> owes, old |-> FALSE]
NewRuns(hs, arg, owes) == SetToSeq({NewRun(h, arg, owes) : h \in hs})
FlagsOf(hs) == {page[h].busy : h \in hs} \ {""}
BusyOf(hs)  == FlagsOf({h \in hs : ~page[h].once})

ConsoleInit ==
  /\ open \in DOMAIN Pages
  /\ sel = None /\ form = ""
  /\ sub = [applied |-> 0, told |-> 0] /\ calm = TRUE /\ forgotten = {}
  /\ count = [acts |-> 0, faults |-> 0, changes |-> 0]
  /\ shown = [r \in Resources |-> FALSE]
  /\ LET hs == {h \in DOMAIN page : page[h].mount}
     IN /\ runs = NewRuns(hs, None, {})
        /\ flags = FlagsOf(hs)

Without(rs) == [r \in Resources |-> shown[r] /\ r \notin rs]

Spend(what, max) ==
  /\ count[what] < max
  /\ count' = [count EXCEPT ![what] = @ + 1]

\* Mutant: the handlers see the selection of the last render.
StartStale(hs, item) ==
  /\ runs' = runs \o NewRuns(hs, sel, {})
  /\ flags' = flags \cup BusyOf(hs)
  /\ calm' = (calm /\ runs = <<>>)

Start(hs, item) ==
  /\ runs' = runs \o NewRuns(hs, item, {})
  /\ flags' = flags \cup BusyOf(hs)
  /\ calm' = (calm /\ runs = <<>>)
-----------------------------------------------------------------------------
\* Mutant: the control of a form is not disabled while it is sent.
ClickAgain(h) ==
  /\ ~page[h].internal
  /\ page[h].form => form = h
  /\ page[h].keyed => sel # None
  /\ Len(runs) <= MaxOverlap
  /\ Spend("acts", MaxActs)
  /\ Start(IF page[h].steps = <<>> THEN page[h].then ELSE {h}, sel)
  /\ UNCHANGED <<open, forgotten, shown, sel, form, sub>>

\* A click on an enabled control.
Click(h) ==
  /\ ~page[h].internal
  /\ page[h].disabled \cap flags = {}
  /\ page[h].form => form = h
  /\ page[h].keyed => sel # None
  /\ Len(runs) <= MaxOverlap
  /\ Spend("acts", MaxActs)
  /\ Start(IF page[h].steps = <<>> THEN page[h].then ELSE {h}, sel)
  /\ UNCHANGED <<open, forgotten, shown, sel, form, sub>>

\* Mutant: an error clears the interval.
TickUntilError(h) ==
  /\ h \in Polls /\ count.faults = 0
  /\ page[h].keyed => sel # None
  /\ Len(runs) <= MaxOverlap
  /\ Start({h}, sel)
  /\ UNCHANGED <<open, forgotten, shown, sel, form, sub, count>>

\* The timer of a polling page.
Tick(h) ==
  /\ h \in Polls
  /\ page[h].keyed => sel # None
  /\ Len(runs) <= MaxOverlap
  /\ Start({h}, sel)
  /\ UNCHANGED <<open, forgotten, shown, sel, form, sub, count>>

\* Of the item, its details are loaded and a copy is taken of it in the list.
Select(item) ==
  /\ Selections # {} \/ Copied # {}
  /\ item # sel
  /\ Len(runs) <= MaxOverlap
  /\ Spend("acts", MaxActs)
  /\ sel' = item
  /\ shown' = [r \in Resources |->
                 IF r \in Copied THEN \E c \in Copies : c.copy = r /\ shown[c.list]
                                 ELSE shown[r] /\ r \notin Details]
  /\ forgotten' = forgotten \ OfItem
  /\ Start(Selections, item)
  /\ UNCHANGED <<open, form, sub>>

Deselect ==
  /\ sel # None /\ Filtered = {}
  /\ sel' = None /\ shown' = Without(OfItem)
  /\ UNCHANGED <<open, flags, runs, form, sub, calm, forgotten, count>>

OpenForm(h) ==
  /\ page[h].form /\ form = ""
  /\ page[h].disabled \cap flags \subseteq {page[h].busy}
  /\ page[h].keyed => sel # None
  /\ form' = h
  /\ sub' = [applied |-> 0, told |-> 0]
  /\ UNCHANGED <<open, forgotten, shown, flags, runs, sel, calm, count>>

\* A modal takes its flag with it when it is closed, while the answers to what
\* a closed form has sent still come.
FlagOf(h) == IF h \in DOMAIN page /\ page[h].modal THEN {page[h].busy} ELSE {}
Aged(rns) == [i \in DOMAIN rns |-> [rns[i] EXCEPT !.old = TRUE]]

CloseForm ==
  /\ form # ""
  /\ form' = ""
  /\ runs' = Aged(runs) /\ flags' = flags \ FlagOf(form)
  /\ UNCHANGED <<open, forgotten, shown, sel, sub, calm, count>>
-----------------------------------------------------------------------------
Put(i, run) == [runs EXCEPT ![i] = run]
\* The server has changed rs: no answer on its way holds what it has now.
Outdate(rs, rns) ==
  [i \in DOMAIN rns |-> [rns[i] EXCEPT !.got = @ \ rs]]

\* The server answers a load.
ServeLoad(i) ==
  /\ runs[i].answer = None /\ StepOf(runs[i]).kind = "load"
  /\ runs' = Put(i, [runs[i] EXCEPT !.answer = "ok", !.got = StepOf(runs[i]).rs])
  /\ UNCHANGED <<open, forgotten, shown, flags, sel, form, sub, calm, count>>

\* It answers loads that fail one by one.
ServeEach(i) ==
  /\ runs[i].answer = None /\ StepOf(runs[i]).kind = "each"
  /\ \E rs \in SUBSET StepOf(runs[i]).rs :
       /\ runs' = Put(i, [runs[i] EXCEPT !.answer = "ok", !.got = rs])
       /\ IF rs = StepOf(runs[i]).rs THEN UNCHANGED <<calm, count>>
          ELSE Spend("faults", MaxFaults) /\ calm' = FALSE
  /\ UNCHANGED <<open, forgotten, shown, flags, sel, form, sub>>

\* It applies a write; what the page makes of its own copy after the last one
\* is as good as that copy was before the first.
ServeSave(i) ==
  /\ runs[i].answer = None /\ StepOf(runs[i]).kind = "save"
  /\ LET run  == runs[i]
         step == StepOf(run)
         now  == {r \in Locals(run.h) : shown[r] \/ r \in run.got}
     IN /\ runs' = [Outdate(step.rs, runs) EXCEPT
                      ![i] = [run EXCEPT !.answer = "ok", !.got = now]]
        /\ shown' = Without(step.rs)
        /\ forgotten' = forgotten \cup (step.rs \cap page[run.h].forgets)
        /\ sub' = IF page[run.h].form /\ ~run.old /\ FirstSave(run)
                  THEN [sub EXCEPT !.applied = @ + 1] ELSE sub
  /\ UNCHANGED <<open, flags, sel, form, calm, count>>

\* It answers with an error, 401 or 403, and has done nothing: the await
\* throws, or the code takes the body for data.
Refuse(i) ==
  LET step == StepOf(runs[i])
  IN /\ runs[i].answer = None
     /\ \E a \in {"error", "denied"} :
          /\ step.kind = "each" => a = "denied" /\ a \in step.notices
          /\ runs' = Put(i, [runs[i] EXCEPT
                       !.answer = IF a \in step.notices THEN "failed" ELSE "empty"])
     /\ Spend("faults", MaxFaults) /\ calm' = FALSE
     /\ UNCHANGED <<open, forgotten, shown, flags, sel, form, sub>>

\* The request is lost or aborted after its 8 seconds, before the server has
\* seen it or after.
Lose(i) ==
  /\ runs[i].answer \in {None, "ok"} /\ StepOf(runs[i]).kind # "each"
  /\ runs' = Put(i, [runs[i] EXCEPT !.answer = "failed", !.got = {}])
  /\ Spend("faults", MaxFaults) /\ calm' = FALSE
  /\ UNCHANGED <<open, forgotten, shown, flags, sel, form, sub>>

\* Somebody else changes a resource, or the server does.
Change(r) ==
  /\ r \notin Copied
  /\ Spend("changes", MaxChanges)
  /\ calm' = FALSE
  /\ shown' = Without({r} \cup {c.copy : c \in {d \in Copies : d.list = r}})
  /\ runs' = Outdate({r}, runs)
  /\ UNCHANGED <<open, flags, sel, form, sub, forgotten>>
-----------------------------------------------------------------------------
\* What is shown when the code goes on after the await, also when the body
\* holds no data or those of another item.
Shown(run) ==
  LET step == StepOf(run)
      sets == IF step.kind = "save" THEN step.local ELSE step.rs
  IN [r \in Resources |->
        IF r \in sets THEN r \in run.got /\ (r \in Details => run.arg = sel)
                      ELSE shown[r]]

\* What a load that has come shows the page has not forgotten.
Recalled(run) ==
  forgotten \ (IF StepOf(run).kind = "save" THEN {} ELSE StepOf(run).rs)

\* The end of a run: its flag is cleared, unless it waits for the handlers it
\* has called, and those of the handlers that wait for no other run.
Leave(i, next, waits, keeps, closes) ==
  LET run   == runs[i]
      own   == IF page[run.h].modal /\ run.old THEN {}
               ELSE {page[run.h].busy} \ {""}
      owed  == run.owes \cup own
      rest  == RemoveAt(runs, i)
      freed == (IF keeps THEN run.owes ELSE owed)
                 \ UNION {rest[j].owes : j \in DOMAIN rest}
  IN /\ runs' = (IF closes THEN Aged(rest) ELSE rest)
                  \o NewRuns(next, run.arg, IF waits THEN owed ELSE {})
     /\ flags' = (flags \ ((IF waits THEN {} ELSE freed)
                            \cup (IF closes THEN FlagOf(run.h) ELSE {})))
                   \cup BusyOf(next)

\* The next await.
Continue(i) ==
  /\ runs[i].answer \in {"ok", "empty"} /\ ~LastStep(runs[i])
  /\ shown' = Shown(runs[i]) /\ forgotten' = Recalled(runs[i])
  /\ runs' = Put(i, [runs[i] EXCEPT !.at = @ + 1, !.answer = None,
                       !.got = @ \cap Locals(runs[i].h)])
  /\ UNCHANGED <<open, flags, sel, form, sub, calm, count>>

Finish(i) ==
  /\ runs[i].answer \in {"ok", "empty"} /\ LastStep(runs[i])
  /\ LET h == runs[i].h
     IN /\ shown' = Shown(runs[i]) /\ forgotten' = Recalled(runs[i])
        /\ Leave(i, page[h].then, page[h].awaits, FALSE, form = h)
        /\ form' = IF form = h THEN "" ELSE form
        /\ sel' = IF page[h].deselects THEN None ELSE sel
  /\ UNCHANGED <<open, sub, calm, count>>

\* Mutant: the flag is cleared in the try, not in a finally.
FailLocked(i) ==
  /\ runs[i].answer = "failed"
  /\ Leave(i, {}, FALSE, TRUE, FALSE)
  /\ sub' = IF page[runs[i].h].form /\ ~runs[i].old
            THEN [sub EXCEPT !.told = @ + 1] ELSE sub
  /\ shown' = Without(IF page[runs[i].h].blanks THEN StepOf(runs[i]).rs ELSE {})
  /\ UNCHANGED <<open, forgotten, sel, form, calm, count>>

\* The catch of the handler shows an error.
Fail(i) ==
  /\ runs[i].answer = "failed"
  /\ Leave(i, {}, FALSE, page[runs[i].h].keeps, FALSE)
  /\ sub' = IF page[runs[i].h].form /\ ~runs[i].old
            THEN [sub EXCEPT !.told = @ + 1] ELSE sub
  /\ shown' = Without(IF page[runs[i].h].blanks THEN StepOf(runs[i]).rs ELSE {})
  /\ UNCHANGED <<open, forgotten, sel, form, calm, count>>

Serve(i)  == ServeLoad(i) \/ ServeEach(i) \/ ServeSave(i)
Resume(i) == Continue(i) \/ Finish(i) \/ Fail(i)
-----------------------------------------------------------------------------
ConsoleNext ==
  \/ \E h \in DOMAIN page : Click(h) \/ Tick(h) \/ OpenForm(h)
  \/ \E item \in Items : Select(item)
  \/ CloseForm \/ Deselect
  \/ \E i \in DOMAIN runs : Serve(i) \/ Refuse(i) \/ Lose(i) \/ Resume(i)
  \/ \E r \in Resources : Change(r)

\* A request is answered or aborted after its timeout, so the oldest run goes
\* on; a timer of a page that is open goes off again and again.
Pollers == UNION {{h \in DOMAIN Pages[p] : Pages[p][h].polls} : p \in DOMAIN Pages}
Oldest   == runs # <<>> /\ (Serve(1) \/ Resume(1))
TickOf(h) == h \in DOMAIN page /\ Tick(h)

ConsoleSpec ==
  /\ ConsoleInit /\ [][ConsoleNext]_consoleVars
  /\ WF_consoleVars(Oldest)
  /\ \A h \in Pollers : WF_consoleVars(TickOf(h))
-----------------------------------------------------------------------------
Runs ==
  [h : DOMAIN page, at : Nat, arg : Items \cup {None},
   answer : {None, "ok", "empty", "failed"}, got : SUBSET Resources,
   owes : SUBSET Flags, old : BOOLEAN]

\* Type invariant.
TypeOK ==
  /\ open \in DOMAIN Pages
  /\ shown \in [Resources -> BOOLEAN]
  /\ flags \subseteq Flags
  /\ runs \in Seq(Runs)
  /\ \A i \in DOMAIN runs : runs[i].at \in DOMAIN page[runs[i].h].steps
  /\ sel \in Items \cup {None}
  /\ form \in DOMAIN page \cup {""}
  /\ sub \in [applied : Nat, told : Nat] /\ calm \in BOOLEAN
  /\ forgotten \subseteq ForgottenIn[open]
  /\ count \in [acts : 0 .. MaxActs, faults : 0 .. MaxFaults,
                changes : 0 .. MaxChanges]

\* With nothing selected nothing is shown of it, unless it is a filter.
Kept    == KeptIn[open]
Unasked == IF sel = None THEN (Details \ Filtered) \cup Copied ELSE {}

\* A user who waits for each answer, with nobody else at work and no fault,
\* sees what the server has: every write is followed by the loads of all that
\* it has changed and that is shown, whatever was clicked before.  But for
\* what the page has forgotten to load, until it is loaded or selected again:
\* above all the copy of the selected job, group, role or polling
\* configuration, which stays as it was when the page changes the item.
SequentialShown ==
  calm /\ runs = <<>> =>
    \A r \in Kept \ (Unasked \cup forgotten) : shown[r]

\* While a form stays open it is applied once, and once more for each error it
\* has shown: clicking twice, or a late answer to what an earlier opening of it
\* has sent, does not make two of one.  What is sent after it was closed and
\* opened again counts anew: that the user has two of them then is the code's.
SubmittedOnce == form # "" => sub.applied <= sub.told + 1

\* Flags that an error may leave TRUE for good, see SNMPAlarmsPage.
Leaking == {page[h].busy : h \in {k \in DOMAIN page : page[k].keeps}}
AllFlags == UNION {{Pages[p][h].busy : h \in DOMAIN Pages[p]} : p \in DOMAIN Pages}

\* No button stays disabled and no spinner stays for ever: each flag is FALSE
\* again and again, whatever requests fail, are lost or overlap.
Unlocked == \A f \in AllFlags : []<>(f \notin flags \ Leaking)

\* When the faults and the changes have ended, a page that polls shows what
\* the server has, also after a late answer to an earlier poll.
EventuallyFresh ==
  <>[](\A h \in Polls : \A r \in Reads(h) \ Unasked : shown[r])
=============================================================================
