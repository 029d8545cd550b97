--------------------------- MODULE NodeFormProofs ---------------------------
(***************************************************************************)
(* Proofs about NodeForm, for every set of node definitions.               *)
(*                                                                         *)
(* What is saved comes from the form, so an accepted form and the saved    *)
(* parameters agree, a value the form holds is never undefined when the    *)
(* field has a default, and both stay true until the next accepted save.   *)
(*                                                                         *)
(* That a refusal is about a field on the form is a fact of the            *)
(* definitions as much as of the dialog, which checks hidden fields too:   *)
(* the theorem names what the definitions must be like.                    *)
(***************************************************************************)
EXTENDS NodeForm, TLAPS

\* A form covers every key, and holds a value where there is a default.
Complete(form) ==
  /\ DOMAIN form = Keys(node.type)
  /\ \A id \in Stored(node.type) :
        form[id] = "unset" => Default(id) = "unset"

\* The form has passed the dialog's own check.
Accepted(form) ==
  \A id \in Ids(node.type) :
     FieldsOf(node.type)[id].required => ~Falsy(form[id])

\* The inductive invariant of the dialog.
FormInv ==
  /\ node.type \in DOMAIN Definitions
  /\ isOpen => Complete(formData)
  /\ kept # Nothing =>
       /\ Complete(kept) /\ Accepted(kept)
       /\ \A id \in Stored(node.type) \ Own : node.parameters[id] = kept[id]

\* A fresh node has no form, open or kept.
LEMMA InitForm == FormInit => FormInv
  BY DEF FormInit, FormInv, Dropped

\* Opening the dialog gives every key a value where there is one to give.
LEMMA OpenForm ==
  ASSUME FormInv, openEditor
  PROVE  FormInv'
<1>1. node' = node /\ kept' = kept /\ isOpen' /\ formData' = OpenedForm
  BY DEF openEditor
<1>2. Complete(OpenedForm)
  BY DEF Complete, OpenedForm, First, Keys
<1>3. Complete(formData)'
  BY <1>1, <1>2 DEF Complete, Keys, Stored, Ids, FieldsOf, Default
<1> QED
  BY <1>1, <1>3 DEF FormInv, Complete, Accepted, Keys, Stored, Ids, FieldsOf,
     Default, Falsy

\* The user never makes a value undefined.
LEMMA UpdateForm ==
  ASSUME FormInv, NEW key \in Keys(node.type), NEW value \in Offered(key),
         updateField(key, value)
  PROVE  FormInv'
<1>1. /\ node' = node /\ kept' = kept /\ isOpen' = isOpen /\ isOpen
      /\ formData' = [formData EXCEPT ![key] = value]
  BY DEF updateField
<1>2. Complete(formData) /\ node.type \in DOMAIN Definitions
  BY <1>1 DEF FormInv
<1>3. value # "unset"
  <2>1. CASE key \in Ids(node.type) /\ value \in FieldsOf(node.type)[key].values
    BY <2>1, <1>2, DefinitionsAssumption
  <2>2. CASE value \in {"blank", "set"}
    BY <2>2
  <2> QED
    BY <2>1, <2>2 DEF Offered
<1>4. Complete(formData')
  BY <1>1, <1>2, <1>3 DEF Complete
<1>5. Complete(formData)'
  BY <1>1, <1>4 DEF Complete, Keys, Stored, Ids, FieldsOf, Default
<1> QED
  BY <1>1, <1>5 DEF FormInv, Complete, Accepted, Keys, Stored, Ids, FieldsOf,
     Default, Falsy

\* An accepted save keeps the form, and stores its fields but the own ones.
LEMMA SaveForm ==
  ASSUME FormInv, handleEditorSave
  PROVE  FormInv'
<1>1. CASE Invalid # {}
  <2>1. UNCHANGED <<node, isOpen, formData, kept>>
    BY <1>1 DEF handleEditorSave
  <2> QED
    BY <2>1 DEF FormInv, Complete, Accepted, Keys, Stored, Ids, FieldsOf,
       Default, Falsy
<1>2. CASE Invalid = {}
  <2>1. /\ isOpen /\ kept' = formData /\ isOpen' = FALSE
        /\ node' = [node EXCEPT !.label = formData["label"],
                                !.description = formData["description"],
                                !.parameters = SaveData]
    BY <1>2 DEF handleEditorSave
  <2>2. Complete(formData) /\ Accepted(formData)
    BY <1>2, <2>1 DEF FormInv, Invalid, Missing, Accepted
  <2>3. node'.type = node.type
    BY <2>1
  <2>4. (Complete(kept) /\ Accepted(kept))'
    BY <2>1, <2>2, <2>3 DEF Complete, Accepted, Keys, Stored, Ids, FieldsOf,
       Default, Falsy
  <2>5. \A id \in Stored(node.type) \ Own : SaveData[id] = formData[id]
    BY DEF SaveData
  <2> QED
    BY <2>1, <2>3, <2>4, <2>5 DEF FormInv, Stored, Ids, FieldsOf
<1> QED
  BY <1>1, <1>2

\* The invariant of the dialog holds for every set of node definitions.
THEOREM FormConsistent == FormSpec => []FormInv
<1>1. FormInit => FormInv
  BY InitForm
<1>2. FormInv /\ [FormNext]_formVars => FormInv'
  <2> SUFFICES ASSUME FormInv, [FormNext]_formVars PROVE FormInv'
    OBVIOUS
  <2>1. CASE openEditor
    BY <2>1, OpenForm
  <2>2. CASE closeEditor
    BY <2>2 DEF closeEditor, FormInv, Complete, Accepted, Keys, Stored, Ids,
       FieldsOf, Default, Falsy
  <2>3. CASE isOpen /\ \E key \in Keys(node.type) : \E value \in Offered(key) :
                          updateField(key, value)
    BY <2>3, UpdateForm
  <2>4. CASE handleEditorSave
    BY <2>4, SaveForm
  <2>5. CASE reloadWorkflow
    BY <2>5 DEF reloadWorkflow, FormInv, Complete, Accepted, Keys, Stored,
       Ids, FieldsOf, Default, Falsy
  <2>6. CASE UNCHANGED formVars
    BY <2>6 DEF formVars, FormInv, Complete, Accepted, Keys, Stored, Ids,
       FieldsOf, Default, Falsy
  <2> QED
    BY <2>1, <2>2, <2>3, <2>4, <2>5, <2>6 DEF FormNext
<1> QED
  BY <1>1, <1>2, PTL DEF FormSpec

\* What the dialog has accepted (useNodeEditor's validate) has no parameter
\* missing for the workflow validator, whatever the definitions are.
THEOREM AcceptedForGood == FormSpec => []SavedIsAccepted
<1>1. FormInv => SavedIsAccepted
  <2> SUFFICES ASSUME FormInv, kept # Nothing,
                      NEW id \in Issues, id \notin Own
               PROVE  FALSE
    BY DEF SavedIsAccepted
  <2>1. id \in Ids(node.type) /\ FieldsOf(node.type)[id].required
        /\ Falsy(node.parameters[id])
    BY DEF Issues
  <2>2. id \in Stored(node.type) \ Own
    BY <2>1 DEF Stored
  <2>3. node.parameters[id] = kept[id] /\ ~Falsy(kept[id])
    BY <2>1, <2>2 DEF FormInv, Accepted
  <2> QED
    BY <2>1, <2>3
<1> QED
  BY <1>1, FormConsistent, PTL

\* Opened again (useNodeEditor's effect), the dialog shows what was saved and
\* not a default in its place.
THEOREM ReopenedAsSaved == FormSpec => ReopenShowsSaved
<1>1. FormInv /\ openEditor /\ kept # Nothing =>
        \A id \in Stored(node.type) \ Own : formData'[id] = kept[id]
  <2> SUFFICES ASSUME FormInv, openEditor, kept # Nothing,
                      NEW id \in Stored(node.type) \ Own
               PROVE  formData'[id] = kept[id]
    OBVIOUS
  <2>1. formData'[id] = First(SavedValue(id), First(Default(id), OwnValue(id)))
    BY DEF openEditor, OpenedForm, Keys
  <2>2. SavedValue(id) = kept[id] /\ OwnValue(id) = "unset"
    BY DEF FormInv, SavedValue, OwnValue, Own
  <2>3. kept[id] = "unset" => Default(id) = "unset"
    BY DEF FormInv, Complete
  <2> QED
    BY <2>1, <2>2, <2>3 DEF First
<1> QED
  BY <1>1, FormConsistent, PTL DEF ReopenShowsSaved
-----------------------------------------------------------------------------
\* A required field that is shown under a condition only, and one that always
\* has a value: a default, and no input that takes it away.
Hideable(t, id) == FieldsOf(t)[id].required /\ FieldsOf(t)[id].field # ""
Filled(t, id) ==
  /\ id \notin Own /\ ~Falsy(FieldsOf(t)[id].default)
  /\ \A value \in FieldsOf(t)[id].values : ~Falsy(value)

\* What may be hidden has a value, in the form and in what is saved.
FilledInv ==
  /\ node.type \in DOMAIN Definitions
  /\ errors \subseteq Ids(node.type) /\ (errors # {} => isOpen)
  /\ isOpen => DOMAIN formData = Keys(node.type)
  /\ \A id \in Ids(node.type) : Hideable(node.type, id) =>
       /\ isOpen => ~Falsy(formData[id])
       /\ Falsy(node.parameters[id]) => node.parameters[id] = "unset"

\* Each step of the dialog keeps it.
LEMMA FilledStep ==
  ASSUME \A t \in DOMAIN Definitions : \A id \in Ids(t) :
           Hideable(t, id) => Filled(t, id),
         FilledInv, [FormNext]_formVars
  PROVE  FilledInv'
<1>1. node.type \in DOMAIN Definitions /\ Ids(node.type) \subseteq Stored(node.type)
      /\ Stored(node.type) \subseteq Keys(node.type)
  BY DEF FilledInv, Stored, Keys
<1>2. ASSUME NEW id \in Ids(node.type), Hideable(node.type, id)
      PROVE  /\ id \notin Own /\ ~Falsy(Default(id))
             /\ \A value \in FieldsOf(node.type)[id].values : ~Falsy(value)
  BY <1>1, <1>2 DEF Filled, Default
<1> DEFINE form(f) == /\ DOMAIN f = Keys(node.type)
                      /\ \A id \in Ids(node.type) :
                           Hideable(node.type, id) => ~Falsy(f[id])
<1>3. ASSUME node'.type = node.type,
             errors' \subseteq Ids(node.type), errors' # {} => isOpen',
             isOpen' => \A f : f = formData' => form(f),
             \A id \in Ids(node.type) : Hideable(node.type, id) =>
               (Falsy(node'.parameters[id]) => node'.parameters[id] = "unset")
      PROVE  FilledInv'
  BY <1>1, <1>3 DEF FilledInv, Ids, FieldsOf, Keys, Stored, Hideable, Falsy
<1>4. CASE openEditor
  <2>1. node' = node /\ formData' = OpenedForm /\ errors' = {}
    BY <1>4 DEF openEditor
  <2>2. form(OpenedForm)
    <3>1. DOMAIN OpenedForm = Keys(node.type)
      BY DEF OpenedForm
    <3>2. ASSUME NEW id \in Ids(node.type), Hideable(node.type, id)
          PROVE  ~Falsy(OpenedForm[id])
      <4>1. OpenedForm[id] = First(node.parameters[id], First(Default(id), OwnValue(id)))
        BY <1>1 DEF OpenedForm, SavedValue
      <4>2. ~Falsy(Default(id)) /\ Default(id) # "unset"
        BY <1>2, <3>2 DEF Falsy
      <4> QED BY <3>2, <4>1, <4>2 DEF First, FilledInv
    <3> QED BY <3>1, <3>2
  <2> HIDE DEF form
  <2> QED BY <1>3, <2>1, <2>2 DEF FilledInv
<1>5. ASSUME NEW key \in Keys(node.type), NEW value \in Offered(key),
             updateField(key, value)
      PROVE  FilledInv'
  <2>1. /\ node' = node /\ isOpen /\ isOpen' = isOpen /\ errors' = errors \ {key}
        /\ formData' = [formData EXCEPT ![key] = value]
    BY <1>5 DEF updateField
  <2>2. form([formData EXCEPT ![key] = value])
    <3>1. form(formData)
      BY <2>1 DEF FilledInv
    <3>2. ASSUME key \in Ids(node.type), Hideable(node.type, key) PROVE ~Falsy(value)
      <4>1. key \notin Own
        BY <1>2, <3>2
      <4>2. key # Mappings
        BY <1>1, <3>2, DefinitionsAssumption
      <4>3. value \in FieldsOf(node.type)[key].values
        BY <4>1, <4>2 DEF Offered
      <4> QED BY <1>2, <3>2, <4>3
    <3> QED BY <3>1, <3>2
  <2> HIDE DEF form
  <2> QED BY <1>3, <2>1, <2>2 DEF FilledInv
<1>6. CASE handleEditorSave
  <2>1. CASE Invalid # {}
    <3>1. UNCHANGED <<node, isOpen, formData>> /\ errors' = Invalid /\ isOpen
      BY <1>6, <2>1 DEF handleEditorSave
    <3>2. form(formData) /\ Invalid \subseteq Ids(node.type)
      BY <3>1 DEF FilledInv, Invalid
    <3> HIDE DEF form
    <3> QED BY <1>3, <3>1, <3>2 DEF FilledInv
  <2>2. CASE Invalid = {}
    <3>1. /\ isOpen /\ isOpen' = FALSE /\ errors' = {}
          /\ node' = [node EXCEPT !.label = formData["label"],
                                  !.description = formData["description"],
                                  !.parameters = SaveData]
      BY <1>6, <2>2 DEF handleEditorSave
    <3>2. ASSUME NEW id \in Ids(node.type), Hideable(node.type, id)
          PROVE  Falsy(node'.parameters[id]) => node'.parameters[id] = "unset"
      <4>1. SaveData[id] \in {"unset", formData[id]}
        BY <1>1 DEF SaveData
      <4>2. node'.parameters[id] \in {"unset", formData[id], node.parameters[id]}
        BY <3>1, <4>1
      <4> QED BY <3>1, <3>2, <4>2 DEF FilledInv
    <3>3. node'.type = node.type
      BY <3>1
    <3> QED BY <1>3, <3>1, <3>2, <3>3
  <2> QED BY <2>1, <2>2
<1>7. CASE closeEditor
  BY <1>3, <1>7 DEF closeEditor, FilledInv
<1>8. CASE reloadWorkflow
  <2>1. node'.type = node.type /\ node'.parameters = node.parameters
    BY <1>8 DEF reloadWorkflow
  <2> QED BY <1>3, <1>8, <2>1 DEF reloadWorkflow, FilledInv
<1>9. CASE UNCHANGED formVars
  BY <1>3, <1>9 DEF formVars, FilledInv
<1> QED BY <1>4, <1>5, <1>6, <1>7, <1>8, <1>9 DEF FormNext

\* On every set of node definitions in which a required field that a condition
\* may hide always has a value, no save is refused for a field that the form
\* (shouldShowParameter) does not show; one whose condition is met, or that has
\* none, may be missing as it likes.
THEOREM RefusalIsShown ==
  ASSUME \A t \in DOMAIN Definitions : \A id \in Ids(t) :
           Hideable(t, id) => Filled(t, id)
  PROVE  FormSpec => []RequiredIsShown
<1>1. FormInit => FilledInv
  <2> SUFFICES ASSUME FormInit PROVE FilledInv
    OBVIOUS
  <2>1. PICK t \in DOMAIN Definitions : node = Dropped(t)
    BY DEF FormInit
  <2>2. node.type = t /\ node.parameters = [id \in Stored(t) |-> "unset"]
    BY <2>1 DEF Dropped
  <2>3. \A id \in Ids(t) : node.parameters[id] = "unset"
    BY <2>2 DEF Stored
  <2> QED BY <2>2, <2>3 DEF FormInit, FilledInv
<1>2. FilledInv /\ [FormNext]_formVars => FilledInv'
  BY FilledStep
<1>3. FilledInv => RequiredIsShown
  BY DEF FilledInv, RequiredIsShown, Missing, shouldShowParameter, Hideable
<1> QED BY <1>1, <1>2, <1>3, PTL DEF FormSpec
=============================================================================
