----------------------------- MODULE NodeFields -----------------------------
(***************************************************************************)
(* The node types of the workflow builder: for each its category, the      *)
(* platforms it is for, the handles its edges attach to and the fields of  *)
(* its form.  Names, icons, help texts and the types of data handles are   *)
(* left out; of a value a field may hold only its class is kept, as far as *)
(* a condition of the code tells it from another: "unset" is undefined,    *)
(* "blank" the empty string, "zero" the number 0, "out" another number     *)
(* outside of the bounds, "off" and "on" those of a checkbox, "set" any    *)
(* other; "other" stands for the options of a select no condition names.   *)
(***************************************************************************)

\* The fields ids, alike: what they hold at first, what the user may enter,
\* and which of that is outside of the bounds.
Fields(ids, default, values, out) ==
  [id \in ids |-> [default |-> default, values |-> values, out |-> out,
                   required |-> FALSE, advanced |-> FALSE,
                   field |-> "", shown |-> {}]]

\* Text areas, selectors and code are texts; a list or an object is picked,
\* since an empty one is no falsy value.
Text(ids)    == Fields(ids, "set",   {"blank", "set"}, {})
Blank(ids)   == Fields(ids, "blank", {"blank", "set"}, {})
Pick(ids)    == Fields(ids, "set",   {"set"}, {})
On(ids)      == Fields(ids, "on",    {"on", "off"}, {})
Off(ids)     == Fields(ids, "off",   {"on", "off"}, {})
Select(id, default, options) == Fields({id}, default, options, {})

\* Numbers: without bounds, with a minimum above 0, and with bounds that 0
\* is within, the default being 0 or not.
Number(ids)     == Fields(ids, "set",  {"zero", "set"}, {})
NumberZero(ids) == Fields(ids, "zero", {"zero", "set"}, {})
Positive(ids)   == Fields(ids, "set",  {"zero", "set", "out"}, {"zero", "out"})
Natural(ids)    == Fields(ids, "set",  {"zero", "set", "out"}, {"out"})
Zero(ids)       == Fields(ids, "zero", {"zero", "set", "out"}, {"out"})

\* The types renderField has no input for: only their label is shown.
NoInput(ids)      == Fields(ids, "set", {}, {})
NoInputBlank(ids) == Fields(ids, "blank", {}, {})

NoDefault(fs) == [id \in DOMAIN fs |-> [fs[id] EXCEPT !.default = "unset"]]
Required(fs)  == [id \in DOMAIN fs |-> [fs[id] EXCEPT !.required = TRUE]]
Advanced(fs)  == [id \in DOMAIN fs |-> [fs[id] EXCEPT !.advanced = TRUE]]

\* showIf.  A condition whose value is an array is never met, since it is
\* compared with ===, and has no value here.
ShowIf(field, values, fs) ==
  [id \in DOMAIN fs |-> [fs[id] EXCEPT !.field = field, !.shown = values]]

\* in, out: the handles for triggers; get, give: those for data.
Node(category, platforms, in, get, out, give, fields) ==
  [category |-> category, platforms |-> platforms, in |-> in, get |-> get,
   out |-> out, give |-> give, fields |-> fields]

AnyPlatform == {"any"}
NoFields == <<>>
Ends == {"success", "failure"}
=============================================================================
