------------------------------ MODULE NodeForm ------------------------------
(***************************************************************************)
(* The dialog that edits a node of a workflow (useNodeEditor, NodeEditor,  *)
(* handleEditorSave), from the drop of the node on the canvas (addNode) to *)
(* what the workflow validator says of the parameters it has stored, also  *)
(* when the workflow has been saved and loaded again.                      *)
(*                                                                         *)
(* The form is one flat object: the node's own label and description, the  *)
(* fields of its type and the mappings of its data inputs share its keys.  *)
(***************************************************************************)
EXTENDS Naturals

CONSTANTS
  Definitions,  \* the node definitions, by node type
  MaxEdits      \* bound: how often the user changes a field

VARIABLES
  node,      \* the node on the canvas: its type and its data
  isOpen,
  formData,  \* what the dialog holds, by key; empty when it is closed
  errors,    \* the keys with a message
  kept,      \* history: the form at the last accepted save, or empty
  edits

formVars == <<node, isOpen, formData, errors, kept, edits>>

Own      == {"label", "description"}
Mappings == "_inputMappings"

FieldsOf(type) == Definitions[type].fields
Ids(type)      == DOMAIN FieldsOf(type)
Stored(type)   == Ids(type) \cup {Mappings}
Keys(type)     == Stored(type) \cup Own

\* A form has no way to make a value undefined again, and no field the name
\* of the mappings.
ASSUME DefinitionsAssumption ==
  \A t \in DOMAIN Definitions :
     /\ Mappings \notin Ids(t)
     /\ \A id \in Ids(t) : "unset" \notin FieldsOf(t)[id].values

Classes == {"unset", "blank", "set", "zero", "out", "on", "off", "other"}
             \cup UNION {UNION {FieldsOf(t)[id].values : id \in Ids(t)} :
                           t \in DOMAIN Definitions}

\* What ! says of a value.
Falsy(v) == v \in {"unset", "blank", "zero", "off"}
Nothing  == <<>>
-----------------------------------------------------------------------------
\* addNode: the defaults are written beside the node's parameters, where they
\* are read as its label and description by the fields of these names.
DroppedValue(type, key, own) ==
  IF key \in Ids(type) /\ ~FieldsOf(type)[key].advanced
  THEN FieldsOf(type)[key].default ELSE own

Dropped(type) ==
  [type        |-> type,
   label       |-> DroppedValue(type, "label", "set"),
   description |-> DroppedValue(type, "description", "blank"),
   parameters  |-> [id \in Stored(type) |-> "unset"]]

FormInit ==
  /\ node \in {Dropped(t) : t \in DOMAIN Definitions}
  /\ isOpen = FALSE /\ formData = Nothing /\ errors = {}
  /\ kept = Nothing /\ edits = 0
-----------------------------------------------------------------------------
Default(id) == IF id \in Ids(node.type) THEN FieldsOf(node.type)[id].default
                                        ELSE "unset"

OwnValue(key) ==
  CASE key = "label" -> IF Falsy(node.label) THEN "set" ELSE node.label
    [] key = "description" ->
         IF Falsy(node.description) THEN "blank" ELSE node.description
    [] OTHER -> "unset"

SavedValue(key) == IF key \in Stored(node.type) THEN node.parameters[key]
                                                ELSE "unset"

First(u, v) == IF u # "unset" THEN u ELSE v

\* Mutant: the defaults are spread last.
DefaultsLast ==
  [key \in Keys(node.type) |->
     First(Default(key), First(SavedValue(key), OwnValue(key)))]

\* The node's own data, then the defaults, then what was saved.
OpenedForm ==
  [key \in Keys(node.type) |->
     First(SavedValue(key), First(Default(key), OwnValue(key)))]

openEditor ==
  /\ ~isOpen
  /\ isOpen' = TRUE /\ formData' = OpenedForm /\ errors' = {}
  /\ UNCHANGED <<node, kept, edits>>

\* Escape, the cross, the backdrop and Cancel.
closeEditor ==
  /\ isOpen
  /\ isOpen' = FALSE /\ formData' = Nothing /\ errors' = {}
  /\ UNCHANGED <<node, kept, edits>>

shouldShowParameter(id) ==
  LET f == FieldsOf(node.type)[id] IN
  f.field = "" \/ formData[f.field] \in f.shown

\* What the inputs on the form may set a key to.
Offered(key) ==
  (IF key \in Own THEN {"blank", "set"} ELSE {})
  \cup (IF key = Mappings /\ Definitions[node.type].get # {}
        THEN {"set"} ELSE {})
  \cup (IF key \in Ids(node.type) /\ shouldShowParameter(key)
        THEN FieldsOf(node.type)[key].values ELSE {})

updateField(key, value) ==
  /\ isOpen /\ edits < MaxEdits
  /\ value \in Offered(key) \ {formData[key]}
  /\ formData' = [formData EXCEPT ![key] = value]
  /\ errors' = errors \ {key}
  /\ edits' = edits + 1
  /\ UNCHANGED <<node, isOpen, kept>>

\* Mutant: a required field may be blank, off or 0.
UndefinedOnly(id) == FieldsOf(node.type)[id].required /\ formData[id] = "unset"

Missing(id) == FieldsOf(node.type)[id].required /\ Falsy(formData[id])

\* validate: shown or not, basic or advanced.
Invalid == {id \in Ids(node.type) :
              Missing(id) \/ formData[id] \in FieldsOf(node.type)[id].out}

\* getSaveData takes the label and the description out of the form, and a
\* field of one of these names with them.
SaveData == [id \in Stored(node.type) |-> IF id \in Own THEN "unset"
                                                        ELSE formData[id]]

handleEditorSave ==
  /\ isOpen
  /\ \/ /\ Invalid # {}
        /\ errors' = Invalid
        /\ UNCHANGED <<node, isOpen, formData, kept>>
     \/ /\ Invalid = {}
        /\ node' = [node EXCEPT !.label = formData["label"],
                                !.description = formData["description"],
                                !.parameters = SaveData]
        /\ kept' = formData
        /\ isOpen' = FALSE /\ formData' = Nothing /\ errors' = {}
  /\ UNCHANGED edits

\* Saving the workflow and loading it again: serializeWorkflow keeps the own
\* data and the parameters, deserializeWorkflow has a default for the former.
reloadWorkflow ==
  /\ ~isOpen
  /\ node' = [node EXCEPT !.label = IF Falsy(@) THEN "unset" ELSE @,
                          !.description = IF Falsy(@) THEN "blank" ELSE @]
  /\ UNCHANGED <<isOpen, formData, errors, kept, edits>>

FormNext ==
  \/ openEditor
  \/ closeEditor
  \/ isOpen /\ \E key \in Keys(node.type) : \E value \in Offered(key) :
                  updateField(key, value)
  \/ handleEditorSave
  \/ reloadWorkflow

FormSpec == FormInit /\ [][FormNext]_formVars
-----------------------------------------------------------------------------
\* validateNode: the required parameters, and not the advanced ones.
Issues == {id \in Ids(node.type) :
             /\ FieldsOf(node.type)[id].required
             /\ ~FieldsOf(node.type)[id].advanced
             /\ Falsy(node.parameters[id])}

\* The variables keep their types.
TypeOK ==
  /\ node.type \in DOMAIN Definitions
  /\ node = [type |-> node.type, label |-> node.label,
             description |-> node.description, parameters |-> node.parameters]
  /\ node.parameters \in [Stored(node.type) -> Classes]
  /\ isOpen \in BOOLEAN
  /\ formData \in IF isOpen THEN [Keys(node.type) -> Classes] ELSE {Nothing}
  /\ errors \subseteq Ids(node.type)
  /\ kept \in {Nothing} \cup [Keys(node.type) -> Classes]
  /\ edits \in 0 .. MaxEdits

\* What the dialog has accepted the workflow validator accepts too: it finds
\* no parameter missing, unless a field has the name of the node's own label
\* or description.
SavedIsAccepted == kept # Nothing => Issues \subseteq Own

\* Opened again, the dialog shows every field as it was when it was saved,
\* whatever default it has, also in a workflow loaded from the server, unless
\* a field has the name of the node's own label or description.
ReopenShowsSaved ==
  [][openEditor /\ kept # Nothing =>
       \A id \in Stored(node.type) \ Own : formData'[id] = kept[id]]_formVars

\* A save is never refused for the lack of a field the form does not show:
\* no condition on the other fields hides it.
RequiredIsShown ==
  \A id \in errors : Missing(id) => shouldShowParameter(id)

\* The dialog can be completed: it has an input for what it misses.
Fillable == \A id \in errors : Missing(id) => Offered(id) # {}

\* "Initialize default parameter values": a field that has a default is not
\* missing from a node that was just dropped.
DroppedHasDefaults ==
  \A id \in Issues : Falsy(FieldsOf(node.type)[id].default)
=============================================================================
