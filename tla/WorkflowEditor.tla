---------------------------- MODULE WorkflowEditor ----------------------------
(***************************************************************************)
(* The workflow builder in the browser: the workflow on the canvas, its    *)
(* undo history, the selection, and saving.  An event handler runs to its  *)
(* end and is followed by a render; handlers that wait, are set on a timer *)
(* or listen to the keyboard go on with what they saw in the render they   *)
(* were made in.                                                           *)
(***************************************************************************)
EXTENDS Integers, Sequences, FiniteSets

CONSTANTS
  Nodes,       \* ids a node on the canvas may have
  Looks,       \* everything else about a graph: edges, places, parameters
  Flawed,      \* graphs in which the validation finds issues
  Names,       \* names the workflow may be given
  Saves,       \* saves that may be under way at the same time
  MaxHistory,  \* MAX_HISTORY
  None

ASSUME EditorAssumption == MaxHistory \in Nat /\ MaxHistory > 1

VARIABLES
  graph, name,    \* workflow
  dirty,          \* isDirty
  selected,       \* selectedNodes
  past, future,   \* historyRef
  captured,       \* the workflow that the keyboard listener has closed over
  timer,          \* what handleEditorDelete has put off
  dialog,         \* showSaveDialog
  save,           \* the saves under way
  stored,         \* the workflow in the database
  missed          \* history: a save may not have stored what is shown

history    == <<past, future>>
saving     == <<dialog, save, stored>>
saved      == <<dirty, missed>>
editorVars == <<graph, name, saved, selected, history, captured, timer,
                saving>>
-----------------------------------------------------------------------------
Graph    == [nodes : SUBSET Nodes, look : Looks]
Workflow == [graph : Graph, name : Names]
Save     == [at : {"sent", "answered"}, body : Workflow]
Timer    == [node : Nodes, selected : SUBSET Nodes, graph : Graph]

EditorInit ==
  /\ graph \in Graph /\ name \in Names
  /\ dirty = FALSE /\ selected = {}
  /\ past = <<>> /\ future = <<>>
  /\ captured = [graph |-> graph, name |-> name]
  /\ timer = None
  /\ dialog = FALSE /\ save = [s \in Saves |-> None]
  /\ stored = [graph |-> graph, name |-> name] /\ missed = FALSE

\* The next user event. A timer of 0 ms comes before it.
UserActs == timer = None

Now      == [graph |-> graph, name |-> name]
UnderWay == \E s \in Saves : save[s] # None

\* setIsDirty(true), by a change that a save under way does not have.
Changes == dirty' = TRUE /\ missed' = UnderWay

\* The handlers below make new arrays, so that undo is made anew, and with it
\* the keyboard listener.
GraphBecomes(g) == graph' = g /\ captured' = [graph |-> g, name |-> name]

\* Mutant: one state too many is kept.
LastOfAll(states) == states

\* past.slice(-MAX_HISTORY + 1).
LastOf(states) ==
  IF Len(states) < MaxHistory THEN states
  ELSE SubSeq(states, Len(states) - MaxHistory + 2, Len(states))

SaveToHistory(g) == past' = Append(LastOf(past), g) /\ future' = <<>>
-----------------------------------------------------------------------------
\* onConnect, updateNode, and onEdgesChange with removals; what is changed
\* need not change the look.
ChangeLook ==
  /\ UserActs /\ SaveToHistory(graph)
  /\ \E l \in Looks : GraphBecomes([graph EXCEPT !.look = l])
  /\ Changes
  /\ UNCHANGED <<name, selected, timer, saving>>

AddNode ==
  /\ UserActs /\ SaveToHistory(graph)
  /\ \E n \in Nodes \ graph.nodes :
       GraphBecomes([graph EXCEPT !.nodes = @ \cup {n}])
  /\ Changes
  /\ UNCHANGED <<name, selected, timer, saving>>

\* deleteSelected; the edges of the nodes go with them.
DeleteSelected ==
  /\ UserActs /\ selected # {} /\ SaveToHistory(graph)
  /\ \E l \in Looks :
       GraphBecomes([nodes |-> graph.nodes \ selected, look |-> l])
  /\ selected' = {} /\ Changes
  /\ UNCHANGED <<name, timer, saving>>

\* duplicateSelected: new nodes for those of the selection that exist.
DuplicateSelected ==
  /\ UserActs /\ selected # {} /\ SaveToHistory(graph)
  /\ \E new \in SUBSET (Nodes \ graph.nodes) :
       /\ Cardinality(new) = Cardinality(selected \cap graph.nodes)
       /\ GraphBecomes([graph EXCEPT !.nodes = @ \cup new])
       /\ selected' = new
  /\ Changes
  /\ UNCHANGED <<name, timer, saving>>

\* onNodesChange with selections; ids of nodes that are gone stay selected.
Select ==
  /\ UserActs /\ GraphBecomes(graph)
  /\ \E chosen \in SUBSET graph.nodes :
       selected' = (selected \ graph.nodes) \cup chosen
  /\ UNCHANGED <<name, saved, history, timer, saving>>

\* handleAutoLayout, and onNodesChange with the places of a node that is being
\* dragged.
AutoLayout ==
  /\ UserActs
  /\ \E l \in Looks : GraphBecomes([graph EXCEPT !.look = l])
  /\ Changes
  /\ UNCHANGED <<name, selected, history, timer, saving>>

\* onNodesChange with dragging === false, when the graph is already the new one.
DragEnd ==
  /\ UserActs /\ SaveToHistory(graph) /\ GraphBecomes(graph)
  /\ Changes
  /\ UNCHANGED <<name, selected, timer, saving>>

\* Mutant: the undone state goes to the end.
UndoAppends ==
  /\ UserActs /\ past # <<>>
  /\ GraphBecomes(past[Len(past)])
  /\ past' = SubSeq(past, 1, Len(past) - 1)
  /\ future' = Append(future, graph)
  /\ Changes
  /\ UNCHANGED <<name, selected, timer, saving>>

Undo ==
  /\ UserActs /\ past # <<>>
  /\ GraphBecomes(past[Len(past)])
  /\ past' = SubSeq(past, 1, Len(past) - 1)
  /\ future' = <<graph>> \o future
  /\ Changes
  /\ UNCHANGED <<name, selected, timer, saving>>

Redo ==
  /\ UserActs /\ future # <<>>
  /\ GraphBecomes(Head(future))
  /\ past' = Append(past, graph)
  /\ future' = Tail(future)
  /\ Changes
  /\ UNCHANGED <<name, selected, timer, saving>>

\* The toolbar hands on any name that is not blank, the old one as well;
\* updateWorkflowMeta leaves the nodes and edges, and the listener, as they are.
Rename ==
  /\ UserActs
  /\ name' \in Names
  /\ Changes
  /\ UNCHANGED <<graph, selected, history, captured, timer, saving>>
-----------------------------------------------------------------------------
\* handleEditorDelete: select the node, then delete on a timer, by the
\* deleteSelected of this render.
DeleteInEditor ==
  /\ UserActs
  /\ \E n \in graph.nodes :
       /\ selected' = selected \cup {n}
       /\ timer' = [node |-> n, selected |-> selected, graph |-> graph]
  /\ GraphBecomes(graph)
  /\ UNCHANGED <<name, saved, history, saving>>

TimerRuns ==
  /\ timer # None /\ timer' = None
  /\ \/ /\ timer.selected = {}
        /\ UNCHANGED <<graph, saved, selected, history, captured>>
     \/ /\ timer.selected # {} /\ SaveToHistory(timer.graph)
        /\ \E l \in Looks : GraphBecomes(
             [nodes |-> graph.nodes \ timer.selected, look |-> l])
        /\ selected' = {} /\ Changes
  /\ UNCHANGED <<name, saving>>
-----------------------------------------------------------------------------
\* performSave. A save that starts from unsaved changes while no other is
\* under way starts anew.
Send(s, body) ==
  /\ save' = [save EXCEPT ![s] = [at |-> "sent", body |-> body]]
  /\ missed' = (body # Now \/ (missed /\ (UnderWay \/ ~ dirty)))

\* handleSave: a dialog if the validation has found issues, else performSave.
HandleSave(s, body) ==
  /\ timer = None /\ save[s] = None
  /\ \/ /\ body.graph \in Flawed
        /\ dialog' = TRUE
        /\ UNCHANGED <<save, missed>>
     \/ /\ body.graph \notin Flawed
        /\ Send(s, body)
        /\ UNCHANGED dialog
  /\ UNCHANGED <<graph, name, dirty, selected, history, captured, timer,
                 stored>>

\* The toolbar has the handleSave of the last render; its button is disabled
\* without unsaved changes.
ToolbarSave(s) == dirty /\ HandleSave(s, Now)

\* The keyboard has that of the render in which the listener was set.
KeyboardSave(s) == HandleSave(s, captured)

\* The dialog calls the performSave of the last render.
SaveAnyway(s) ==
  /\ timer = None /\ dialog /\ save[s] = None
  /\ Send(s, Now)
  /\ UNCHANGED <<graph, name, dirty, selected, history, captured, timer,
                 dialog, stored>>

CancelSave ==
  /\ dialog /\ dialog' = FALSE
  /\ UNCHANGED <<graph, name, saved, selected, history, captured, timer,
                 save, stored>>

\* The server stores what it is sent, in any order.
Store(s) ==
  /\ save[s] # None /\ save[s].at = "sent"
  /\ stored' = save[s].body
  /\ save' = [save EXCEPT ![s].at = "answered"]
  /\ UNCHANGED <<graph, name, saved, selected, history, captured, timer,
                 dialog>>

\* Or it refuses it, which fetchApi returns like any answer.
Refuse(s) ==
  /\ save[s] # None /\ save[s].at = "sent"
  /\ save' = [save EXCEPT ![s].at = "answered"]
  /\ missed' = TRUE
  /\ UNCHANGED <<graph, name, dirty, selected, history, captured, timer,
                 dialog, stored>>

\* Mutant: a save that fails cleans up like one that succeeds.
SaveFailsClean(s) ==
  /\ save[s] # None
  /\ save' = [save EXCEPT ![s] = None]
  /\ dirty' = FALSE
  /\ UNCHANGED <<graph, name, missed, selected, history, captured, timer,
                 dialog, stored>>

\* Any other error, before or after the server has stored the workflow.
SaveFails(s) ==
  /\ save[s] # None
  /\ save' = [save EXCEPT ![s] = None]
  /\ UNCHANGED <<graph, name, saved, selected, history, captured, timer,
                 dialog, stored>>

\* performSave goes on: markClean.
SaveReturns(s) ==
  /\ save[s] # None /\ save[s].at = "answered"
  /\ save' = [save EXCEPT ![s] = None]
  /\ dirty' = FALSE /\ dialog' = FALSE
  /\ UNCHANGED <<graph, name, missed, selected, history, captured, timer,
                 stored>>

EditorNext ==
  \/ ChangeLook \/ AddNode \/ DeleteSelected \/ DuplicateSelected \/ Select
  \/ AutoLayout \/ DragEnd \/ Undo \/ Redo \/ Rename
  \/ DeleteInEditor \/ TimerRuns \/ CancelSave
  \/ \E s \in Saves : \/ ToolbarSave(s) \/ KeyboardSave(s) \/ SaveAnyway(s)
                      \/ Store(s) \/ Refuse(s) \/ SaveFails(s) \/ SaveReturns(s)

EditorSpec == EditorInit /\ [][EditorNext]_editorVars
-----------------------------------------------------------------------------
\* The variables keep their types; undo and redo together never hold more
\* than MAX_HISTORY states, although redo adds to the past without a limit.
TypeOK ==
  /\ graph \in Graph /\ name \in Names /\ dirty \in BOOLEAN
  /\ selected \subseteq Nodes
  /\ past \in Seq(Graph) /\ future \in Seq(Graph)
  /\ Len(past) + Len(future) <= MaxHistory
  /\ captured \in Workflow
  /\ timer \in Timer \cup {None}
  /\ dialog \in BOOLEAN /\ save \in [Saves -> Save \cup {None}]
  /\ stored \in Workflow /\ missed \in BOOLEAN

\* past, the graph and future are one timeline, through any mix of edits,
\* undos, redos and put-off deletions.
History == INSTANCE Timeline WITH
  steps <- past \o <<graph>> \o future, here <- Len(past) + 1

ImplementsTimeline == History!TimelineSpec

\* isDirty is "has unsaved changes": without it the workflow that is shown is
\* the one stored, through overlapping saves that fail or are stored in any
\* order. The code breaks this in three ways, and missed tells of them: a change
\* while a save is under way, a save that is refused, and one by the keyboard
\* right after a rename, with the old name. The next change, or the next save of
\* unsaved changes, that no other save crosses makes it good.
CleanIsSaved == ~ dirty /\ ~ missed => stored = Now
=============================================================================
