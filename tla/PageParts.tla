----------------------------- MODULE PageParts -----------------------------
(***************************************************************************)
(* What a page of the console is made of, for the pages of ConsolePages    *)
(* and the machine of Console: a page is a function from the names of its  *)
(* handlers to what they await, step by step, and to what starts and       *)
(* disables them.  The data are left out: of a resource of the server      *)
(* (a list, a record, a setting) only its name is kept.                    *)
(***************************************************************************)
EXTENDS Sequences

\* A step is what one await waits for.  notices: which faults of the server
\* the code tells from a success; a rejected request is always noticed.
Step(kind, rs, notices) ==
  [kind |-> kind, rs |-> rs, notices |-> notices, local |-> {}]

\* fetchApi rejects an HTTP error except 401 and 403, whose body it returns
\* like any other; a bare fetch rejects none of them.
ByFetchApi == {"error"}
ByFetch    == {}
Every      == {"error", "denied"}

Handler(steps) ==
  [steps |-> steps, busy |-> "", keeps |-> FALSE, disabled |-> {},
   then |-> {}, awaits |-> FALSE, blanks |-> FALSE, form |-> FALSE,
   modal |-> FALSE, mount |-> FALSE, polls |-> FALSE, selects |-> FALSE,
   keyed |-> FALSE, deselects |-> FALSE, internal |-> FALSE,
   once |-> FALSE, forgets |-> {}, copies |-> {}]

\* One await: a group of loads that are shown together or not at all, loads
\* of which each that fails is shown as empty, a write.
Load(rs)     == Handler(<<Step("load", rs, ByFetchApi)>>)
LoadEach(rs) == Handler(<<Step("each", rs, ByFetchApi)>>)
Save(rs)     == Handler(<<Step("save", rs, ByFetchApi)>>)
\* A request that changes nothing the page shows: a test, a login.
Ask          == Save({})

\* Awaits one after the other in one try.
Seq2(h1, h2) == [h2 EXCEPT !.steps = h1.steps \o h2.steps]
\* A loop of writes, one for each chosen item; two stand for many.
Batch(h) == Seq2(h, h)

WithNotices(notices, h) ==
  [h EXCEPT !.steps = [i \in DOMAIN h.steps |->
                         [h.steps[i] EXCEPT !.notices = notices]]]
\* The code looks in the answer for what a refusal lacks or has.
Checked(h) == WithNotices(Every, h)
\* A bare fetch, whose status is not looked at.
Unchecked(h) == WithNotices(ByFetch, h)
\* After the last write the page changes its copy of rs itself.
Locally(rs, h) == [h EXCEPT !.steps[Len(h.steps)].local = rs]
\* Nothing loads again what the write changes of rs.
Forgets(rs, h) == [h EXCEPT !.forgets = rs]
\* The selection of an item keeps a copy of it as it is in the list that h has
\* loaded, and no load of the list changes the copy.
CopyOf(copy, list, h) ==
  [h EXCEPT !.copies = {[copy |-> copy, list |-> list]}]

\* A flag that is TRUE while the handler runs; keeps: an error leaves it so.
Busy(flag, h)      == [h EXCEPT !.busy = flag]
KeepsBusy(flag, h) == [h EXCEPT !.busy = flag, !.keeps = TRUE]
\* A flag that is TRUE from the start, and no more after the first run.
Initially(flag, h) == [h EXCEPT !.busy = flag, !.once = TRUE]
\* The control is disabled while one of the flags is TRUE.
Disabled(fs, h) == [h EXCEPT !.disabled = fs]
\* Calls of other handlers at the end of a success.
Then(hs, h)      == [h EXCEPT !.then = hs]
ThenAwait(hs, h) == [h EXCEPT !.then = hs, !.awaits = TRUE]

\* A handler that awaits nothing itself.
Call(hs) == Then(hs, Handler(<<>>))
\* A success closes what is shown of the selected item.
Deselects(h) == [h EXCEPT !.deselects = TRUE]
\* An error empties what the load would have shown.
Blanks(h) == [h EXCEPT !.blanks = TRUE]

\* What starts it besides a control of its own, or instead of one.
OnMount(h)  == [h EXCEPT !.mount = TRUE]
Polled(h)   == [h EXCEPT !.polls = TRUE]
Internal(h) == [h EXCEPT !.internal = TRUE]
\* The load of what is shown of the selected item, or by the chosen filter.
OnSelect(h) == [h EXCEPT !.selects = TRUE]
\* A handler for the selected item.
OfSelected(h) == [h EXCEPT !.keyed = TRUE]

\* While flag is TRUE the page shows nothing but a spinner.
Behind(flag, hs) ==
  [h \in DOMAIN hs |-> [hs[h] EXCEPT !.disabled = @ \cup {flag}]]

\* The submission of a form, which a success closes; in a modal the flag is
\* a new one each time it is opened.
Form(h)      == [h EXCEPT !.form = TRUE]
ModalForm(h) == [h EXCEPT !.form = TRUE, !.modal = TRUE]
=============================================================================
