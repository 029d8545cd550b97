------------------------- MODULE WorkflowEditorProofs -------------------------
(***************************************************************************)
(* Proofs about WorkflowEditor: its types, with the bound on the history,  *)
(* the refinement of Timeline, and what a save stores.                     *)
(***************************************************************************)
EXTENDS WorkflowEditor, SequenceTheorems, TLAPS

\* A deletion that waits for its timer has seen the graph of now.
TimerSeesGraph == timer # None => timer.graph = graph

EditorInv == TypeOK /\ TimerSeesGraph
-----------------------------------------------------------------------------
\* What past.slice(-MAX_HISTORY + 1) returns.
LEMMA LastOfType ==
  ASSUME NEW s \in Seq(Graph)
  PROVE  /\ LastOf(s) \in Seq(Graph)
         /\ Len(LastOf(s)) < MaxHistory
         /\ Len(LastOf(s)) <= Len(s)
<1>1. CASE Len(s) < MaxHistory
  BY <1>1 DEF LastOf
<1>2. CASE ~ (Len(s) < MaxHistory)
  <2>1. Len(s) \in Nat /\ MaxHistory \in Nat /\ MaxHistory > 1
    BY EditorAssumption
  <2> DEFINE m == Len(s) - MaxHistory + 2
             n == Len(s)
  <2>2. m \in 1 .. (Len(s) + 1) /\ n \in m - 1 .. Len(s) /\ n \in Nat
    BY <1>2, <2>1
  <2>3. SubSeq(s, m, n) \in Seq(Graph) /\ Len(SubSeq(s, m, n)) = n - m + 1
    BY <2>1, <2>2, SMT
  <2>4. LastOf(s) = SubSeq(s, m, n)
    BY <1>2 DEF LastOf
  <2>5. n - m + 1 = MaxHistory - 1 /\ MaxHistory - 1 < MaxHistory
          /\ MaxHistory - 1 <= Len(s)
    BY <1>2, <2>1
  <2> HIDE DEF m, n
  <2>6. LastOf(s) \in Seq(Graph) /\ Len(LastOf(s)) = MaxHistory - 1
    BY <2>3, <2>4, <2>5
  <2>7. QED BY <2>1, <2>5, <2>6
<1>3. QED BY <1>1, <1>2

\* saveToHistory.
LEMMA SaveToHistoryType ==
  ASSUME past \in Seq(Graph), NEW g \in Graph, SaveToHistory(g)
  PROVE  /\ past' \in Seq(Graph) /\ future' \in Seq(Graph)
         /\ Len(past') + Len(future') <= MaxHistory
<1>1. /\ LastOf(past) \in Seq(Graph) /\ Len(LastOf(past)) < MaxHistory
  BY LastOfType
<1>2. past' = Append(LastOf(past), g) /\ future' = <<>>
  BY DEF SaveToHistory
<1>3. past' \in Seq(Graph) /\ Len(past') = Len(LastOf(past)) + 1
  BY <1>1, <1>2
<1>4. future' \in Seq(Graph) /\ Len(future') = 0
  BY <1>2
<1>5. Len(LastOf(past)) \in Nat
  BY <1>1
<1>6. QED BY <1>1, <1>3, <1>4, <1>5, EditorAssumption

\* GraphBecomes.
LEMMA GraphBecomesType ==
  ASSUME name \in Names, NEW g \in Graph, GraphBecomes(g)
  PROVE  graph' \in Graph /\ captured' \in Workflow
BY DEF GraphBecomes, Workflow

-----------------------------------------------------------------------------
\* The edits that save the graph and go on with another.
LEMMA EditType ==
  ASSUME EditorInv, NEW g \in Graph, SaveToHistory(graph), GraphBecomes(g)
  PROVE  /\ graph' \in Graph /\ captured' \in Workflow
         /\ past' \in Seq(Graph) /\ future' \in Seq(Graph)
         /\ Len(past') + Len(future') <= MaxHistory
BY SaveToHistoryType, GraphBecomesType DEF EditorInv, TypeOK

LEMMA InitInv == ASSUME EditorInit PROVE EditorInv
<1>1. past \in Seq(Graph) /\ future \in Seq(Graph) /\ Len(past) + Len(future) = 0
  BY DEF EditorInit
<1>2. captured \in Workflow /\ stored \in Workflow
  BY DEF EditorInit, Workflow
<1>3. Len(past) + Len(future) <= MaxHistory
  BY <1>1, EditorAssumption
<1>4. save \in [Saves -> Save \cup {None}]
  BY DEF EditorInit
<1>5. /\ graph \in Graph /\ name \in Names /\ dirty \in BOOLEAN
      /\ selected \subseteq Nodes /\ dialog \in BOOLEAN
      /\ timer = None /\ missed \in BOOLEAN
  BY DEF EditorInit
<1>6. QED
  BY <1>1, <1>2, <1>3, <1>4, <1>5 DEF EditorInv, TypeOK, TimerSeesGraph

\* setIsDirty(true).
LEMMA ChangesType ==
  ASSUME Changes
  PROVE  dirty' \in BOOLEAN /\ missed' \in BOOLEAN
BY DEF Changes, UnderWay

\* Undo and redo move a state from one list to the other.
LEMMA UndoInv == ASSUME EditorInv, Undo PROVE EditorInv'
<1> USE DEF EditorInv, TypeOK
<1>1. past[Len(past)] \in Graph /\ Len(past) \in Nat /\ Len(past) > 0
  BY DEF Undo
<1>2. graph' \in Graph /\ captured' \in Workflow
  BY <1>1, GraphBecomesType DEF Undo
<1>3. past' \in Seq(Graph) /\ Len(past') = Len(past) - 1
  BY <1>1 DEF Undo
<1>4. future' \in Seq(Graph) /\ Len(future') = Len(future) + 1
  BY DEF Undo
<1>5. Len(past') + Len(future') <= MaxHistory
  BY <1>1, <1>3, <1>4, EditorAssumption
<1>6. QED BY <1>2, <1>3, <1>4, <1>5, ChangesType
          DEF Undo, UserActs, saving, TimerSeesGraph

LEMMA RedoInv == ASSUME EditorInv, Redo PROVE EditorInv'
<1> USE DEF EditorInv, TypeOK
<1>1. Head(future) \in Graph /\ Len(future) \in Nat /\ Len(future) > 0
  BY DEF Redo
<1>2. graph' \in Graph /\ captured' \in Workflow
  BY <1>1, GraphBecomesType DEF Redo
<1>3. past' \in Seq(Graph) /\ Len(past') = Len(past) + 1
  BY DEF Redo
<1>4. future' \in Seq(Graph) /\ Len(future') = Len(future) - 1
  BY <1>1 DEF Redo
<1>5. Len(past') + Len(future') <= MaxHistory
  BY <1>1, <1>3, <1>4, EditorAssumption
<1>6. QED BY <1>2, <1>3, <1>4, <1>5, ChangesType
          DEF Redo, UserActs, saving, TimerSeesGraph

\* A save that is sent.
LEMMA SendType ==
  ASSUME EditorInv, NEW s \in Saves, NEW body \in Workflow, Send(s, body)
  PROVE  /\ save' \in [Saves -> Save \cup {None}] /\ missed' \in BOOLEAN
<1>1. [at |-> "sent", body |-> body] \in Save
  BY DEF Save
<1>2. save \in [Saves -> Save \cup {None}]
  BY DEF EditorInv, TypeOK
<1>3. save' = [save EXCEPT ![s] = [at |-> "sent", body |-> body]]
        /\ missed' \in BOOLEAN
  BY DEF Send, UnderWay
<1>4. QED BY <1>1, <1>2, <1>3

LEMMA NowType == ASSUME EditorInv PROVE Now \in Workflow
BY DEF EditorInv, TypeOK, Now, Workflow

LEMMA StepInv == ASSUME EditorInv, [EditorNext]_editorVars PROVE EditorInv'
<1> USE DEF EditorInv, TypeOK, saving, history, saved
<1>1. CASE ChangeLook
  <2>1. PICK l \in Looks : GraphBecomes([graph EXCEPT !.look = l])
    BY <1>1 DEF ChangeLook
  <2>2. [graph EXCEPT !.look = l] \in Graph
    BY DEF Graph
  <2>3. QED BY <1>1, <2>1, <2>2, EditType, ChangesType
            DEF ChangeLook, UserActs, TimerSeesGraph
<1>2. CASE AddNode
  <2>1. PICK n \in Nodes : GraphBecomes([graph EXCEPT !.nodes = @ \cup {n}])
    BY <1>2 DEF AddNode
  <2>2. [graph EXCEPT !.nodes = @ \cup {n}] \in Graph
    BY DEF Graph
  <2>3. QED BY <1>2, <2>1, <2>2, EditType, ChangesType
            DEF AddNode, UserActs, TimerSeesGraph
<1>3. CASE DeleteSelected
  <2>1. PICK l \in Looks :
          GraphBecomes([nodes |-> graph.nodes \ selected, look |-> l])
    BY <1>3 DEF DeleteSelected
  <2>2. [nodes |-> graph.nodes \ selected, look |-> l] \in Graph
    BY DEF Graph
  <2>3. QED BY <1>3, <2>1, <2>2, EditType, ChangesType
              DEF DeleteSelected, UserActs, TimerSeesGraph
<1>4. CASE DuplicateSelected
  <2>1. PICK new \in SUBSET (Nodes \ graph.nodes) :
          /\ GraphBecomes([graph EXCEPT !.nodes = @ \cup new])
          /\ selected' = new
    BY <1>4 DEF DuplicateSelected
  <2>2. [graph EXCEPT !.nodes = @ \cup new] \in Graph
    BY DEF Graph
  <2>3. QED BY <1>4, <2>1, <2>2, EditType, ChangesType
              DEF DuplicateSelected, UserActs, TimerSeesGraph
<1>5. CASE Select
  BY <1>5, GraphBecomesType DEF Select, UserActs, TimerSeesGraph, Graph
<1>6. CASE AutoLayout
  <2>1. PICK l \in Looks : GraphBecomes([graph EXCEPT !.look = l])
    BY <1>6 DEF AutoLayout
  <2>2. [graph EXCEPT !.look = l] \in Graph
    BY DEF Graph
  <2>3. QED BY <1>6, <2>1, <2>2, GraphBecomesType, ChangesType
              DEF AutoLayout, UserActs, TimerSeesGraph
<1>7. CASE DragEnd
  BY <1>7, EditType, ChangesType DEF DragEnd, UserActs, TimerSeesGraph
<1>8. CASE Undo
  BY <1>8, UndoInv
<1>9. CASE Redo
  BY <1>9, RedoInv
<1>10. CASE Rename
  BY <1>10, ChangesType DEF Rename, Workflow, TimerSeesGraph
<1>11. CASE DeleteInEditor
  <2>1. PICK n \in graph.nodes :
          /\ selected' = selected \cup {n}
          /\ timer' = [node |-> n, selected |-> selected, graph |-> graph]
    BY <1>11 DEF DeleteInEditor
  <2>2. n \in Nodes
    BY DEF Graph
  <2>3. graph' = graph /\ captured' \in Workflow
    BY <1>11 DEF DeleteInEditor, GraphBecomes, Workflow
  <2>4. timer' \in Timer /\ timer'.graph = graph
    BY <2>1, <2>2 DEF Timer
  <2>5. QED BY <1>11, <2>1, <2>2, <2>3, <2>4 DEF DeleteInEditor, TimerSeesGraph
<1>12. CASE TimerRuns
  <2>1. CASE /\ timer.selected = {}
             /\ UNCHANGED <<graph, saved, selected, history, captured>>
    BY <1>12, <2>1 DEF TimerRuns, TimerSeesGraph
  <2>2. CASE /\ SaveToHistory(timer.graph)
             /\ \E l \in Looks : GraphBecomes(
                  [nodes |-> graph.nodes \ timer.selected, look |-> l])
             /\ selected' = {} /\ Changes
    <3>1. PICK l \in Looks :
            GraphBecomes([nodes |-> graph.nodes \ timer.selected, look |-> l])
      BY <2>2
    <3>2. [nodes |-> graph.nodes \ timer.selected, look |-> l] \in Graph
      BY DEF Graph
    <3>3. timer.graph = graph
      BY <1>12 DEF TimerRuns, TimerSeesGraph
    <3>4. QED BY <1>12, <2>2, <3>1, <3>2, <3>3, EditType, ChangesType
                DEF TimerRuns, TimerSeesGraph
  <2>3. QED BY <1>12, <2>1, <2>2 DEF TimerRuns
<1>13. CASE CancelSave
  BY <1>13 DEF CancelSave, TimerSeesGraph
<1>14. ASSUME NEW s \in Saves, NEW body \in Workflow, HandleSave(s, body)
       PROVE  EditorInv'
  BY <1>14, SendType DEF HandleSave, TimerSeesGraph
<1>15. ASSUME NEW s \in Saves, ToolbarSave(s) PROVE EditorInv'
  BY <1>14, <1>15, NowType DEF ToolbarSave
<1>16. ASSUME NEW s \in Saves, KeyboardSave(s) PROVE EditorInv'
  BY <1>14, <1>16 DEF KeyboardSave
<1>17. ASSUME NEW s \in Saves, SaveAnyway(s) PROVE EditorInv'
  BY <1>17, NowType, SendType DEF SaveAnyway, TimerSeesGraph
<1>18. ASSUME NEW s \in Saves, Store(s) \/ Refuse(s) PROVE EditorInv'
  <2>1. save[s] \in Save
    BY <1>18 DEF Store, Refuse
  <2>2. [save[s] EXCEPT !.at = "answered"] \in Save /\ save[s].body \in Workflow
    BY <2>1 DEF Save
  <2>3. /\ save' \in [Saves -> Save \cup {None}] /\ stored' \in Workflow
        /\ missed' \in BOOLEAN
    BY <1>18, <2>2 DEF Store, Refuse
  <2>4. QED BY <1>18, <2>3 DEF Store, Refuse, TimerSeesGraph
<1>19. ASSUME NEW s \in Saves, SaveFails(s) \/ SaveReturns(s) PROVE EditorInv'
  BY <1>19 DEF SaveFails, SaveReturns, TimerSeesGraph
<1>20. CASE UNCHANGED editorVars
  BY <1>20 DEF editorVars, TimerSeesGraph
<1>21. QED
  BY <1>1, <1>2, <1>3, <1>4, <1>5, <1>6, <1>7, <1>8, <1>9, <1>10, <1>11,
     <1>12, <1>13, <1>15, <1>16, <1>17, <1>18, <1>19, <1>20 DEF EditorNext

\* The invariant holds for every workflow, history limit and number of saves.
THEOREM EditorInvariant == EditorSpec => []EditorInv
BY InitInv, StepInv, PTL DEF EditorSpec

\* The editor's variables keep their types, and undo and redo together never
\* hold more than MAX_HISTORY states (useWorkflow's saveToHistory, undo, redo).
THEOREM EditorTypeCorrect == EditorSpec => []TypeOK
<1>1. EditorInv => TypeOK
  BY DEF EditorInv
<1>2. QED BY EditorInvariant, <1>1, PTL
-----------------------------------------------------------------------------
\* The states of a history and the graph on the canvas, in their order.
Splice(p, g, f) == p \o <<g>> \o f

\* What one sequence followed by another holds.
LEMMA Concat ==
  ASSUME NEW S, NEW s \in Seq(S), NEW t \in Seq(S)
  PROVE  /\ s \o t \in Seq(S) /\ Len(s \o t) = Len(s) + Len(t)
         /\ Len(s) \in Nat /\ Len(t) \in Nat
         /\ \A i \in 1 .. Len(s) : (s \o t)[i] = s[i]
         /\ \A j \in 1 .. Len(t) : (s \o t)[Len(s) + j] = t[j]
<1>1. Len(s) \in Nat /\ Len(t) \in Nat
  OBVIOUS
<1>2. s \o t \in Seq(S)
  BY ConcatProperties
<1>3. Len(s \o t) = Len(s) + Len(t)
  BY ConcatProperties
<1>4. \A i \in 1 .. Len(s) + Len(t) :
        (s \o t)[i] = IF i <= Len(s) THEN s[i] ELSE t[i - Len(s)]
  BY ConcatProperties
<1>5. ASSUME NEW i \in 1 .. Len(s) PROVE (s \o t)[i] = s[i]
  <2>1. i \in 1 .. Len(s) + Len(t) /\ i <= Len(s)
    BY <1>1
  <2>2. QED BY <1>4, <2>1
<1>6. ASSUME NEW j \in 1 .. Len(t) PROVE (s \o t)[Len(s) + j] = t[j]
  <2> DEFINE i == Len(s) + j
  <2>1. i \in 1 .. Len(s) + Len(t) /\ ~ (i <= Len(s)) /\ i - Len(s) = j
    BY <1>1
  <2> HIDE DEF i
  <2>2. (s \o t)[i] = t[i - Len(s)]
    BY <1>4, <2>1
  <2>3. QED BY <2>1, <2>2 DEF i
<1>7. QED BY <1>1, <1>2, <1>3, <1>5, <1>6

\* Two sequences of graphs, one after the other.
LEMMA ConcatGraphs ==
  \A s, t \in Seq(Graph) :
    /\ s \o t \in Seq(Graph) /\ Len(s \o t) = Len(s) + Len(t)
    /\ Len(s) \in Nat /\ Len(t) \in Nat
    /\ \A i \in 1 .. Len(s) : (s \o t)[i] = s[i]
    /\ \A j \in 1 .. Len(t) : (s \o t)[Len(s) + j] = t[j]
BY Concat

\* t is past, graph and future in their order.
Spliced(t, p, g, f) ==
  /\ t \in Seq(Graph) /\ Len(t) = Len(p) + 1 + Len(f)
  /\ \A i \in 1 .. Len(p) : t[i] = p[i]
  /\ t[Len(p) + 1] = g
  /\ \A j \in 1 .. Len(f) : t[Len(p) + 1 + j] = f[j]

\* What a timeline holds, and where.
LEMMA SpliceType ==
  ASSUME NEW p \in Seq(Graph), NEW g \in Graph, NEW f \in Seq(Graph)
  PROVE  Spliced(Splice(p, g, f), p, g, f)
<1> DEFINE one == <<g>>
           pg == p \o one
           all == pg \o f
<1>1. one \in Seq(Graph) /\ Len(one) = 1 /\ one[1] = g
  OBVIOUS
<1> HIDE DEF one
<1>2. /\ pg \in Seq(Graph) /\ Len(pg) = Len(p) + Len(one)
      /\ Len(p) \in Nat
      /\ \A i \in 1 .. Len(p) : pg[i] = p[i]
      /\ \A j \in 1 .. Len(one) : pg[Len(p) + j] = one[j]
  BY <1>1, ConcatGraphs
<1> HIDE DEF pg
<1>3. /\ all \in Seq(Graph) /\ Len(all) = Len(pg) + Len(f)
      /\ Len(f) \in Nat
      /\ \A i \in 1 .. Len(pg) : all[i] = pg[i]
      /\ \A j \in 1 .. Len(f) : all[Len(pg) + j] = f[j]
  BY <1>2, ConcatGraphs
<1>4. Splice(p, g, f) = all
  BY DEF Splice, all, pg, one
<1> HIDE DEF all
<1>5. Len(pg) = Len(p) + 1 /\ pg[Len(p) + 1] = g
  <2>1. 1 \in 1 .. Len(one)
    BY <1>1
  <2>2. QED BY <1>1, <1>2, <2>1
<1>6. all[Len(p) + 1] = g
  <2>1. Len(p) + 1 \in 1 .. Len(pg)
    BY <1>2, <1>5
  <2>2. QED BY <1>3, <1>5, <2>1
<1>7. ASSUME NEW i \in 1 .. Len(p) PROVE all[i] = p[i]
  <2>1. i \in 1 .. Len(pg)
    BY <1>2, <1>5
  <2>2. QED BY <1>2, <1>3, <2>1
<1>8. ASSUME NEW j \in 1 .. Len(f) PROVE all[Len(p) + 1 + j] = f[j]
  BY <1>3, <1>5
<1>9. Spliced(all, p, g, f)
  BY <1>3, <1>5, <1>6, <1>7, <1>8 DEF Spliced
<1>10. QED BY <1>4, <1>9

\* The same for every history.
LEMMA SpliceParts ==
  \A p, f \in Seq(Graph), g \in Graph : Spliced(Splice(p, g, f), p, g, f)
BY SpliceType

\* What is before the end of the first sequence is not changed by a second.
LEMMA SubSeqBefore ==
  \A s, t \in Seq(Graph) : \A m, n \in 1 .. Len(s) :
    SubSeq(s \o t, m, n) = SubSeq(s, m, n)
BY SubSeqOfConcat1

\* A graph that changes without the history.
LEMMA RetouchSplice ==
  ASSUME NEW p \in Seq(Graph), NEW g \in Graph, NEW f \in Seq(Graph),
         NEW h \in Graph
  PROVE  Splice(p, h, f) = [Splice(p, g, f) EXCEPT ![Len(p) + 1] = h]
<1> DEFINE s == Splice(p, g, f)
           t == Splice(p, h, f)
           n == Len(p) + 1
           e == [s EXCEPT ![n] = h]
<1>1. Len(p) \in Nat /\ Len(f) \in Nat
  OBVIOUS
<1>2. /\ s \in Seq(Graph) /\ Len(s) = Len(p) + 1 + Len(f)
      /\ \A i \in 1 .. Len(p) : s[i] = p[i]
      /\ \A j \in 1 .. Len(f) : s[Len(p) + 1 + j] = f[j]
  <2>1. Spliced(s, p, g, f)
    BY SpliceParts
  <2> HIDE DEF s
  <2>2. QED BY <2>1 DEF Spliced
<1>3. /\ t \in Seq(Graph) /\ Len(t) = Len(p) + 1 + Len(f)
      /\ \A i \in 1 .. Len(p) : t[i] = p[i]
      /\ t[Len(p) + 1] = h
      /\ \A j \in 1 .. Len(f) : t[Len(p) + 1 + j] = f[j]
  <2>1. Spliced(t, p, h, f)
    BY SpliceParts
  <2> HIDE DEF t
  <2>2. QED BY <2>1 DEF Spliced
<1> HIDE DEF s, t
<1>4. n \in 1 .. Len(s)
  BY <1>1, <1>2
<1> HIDE DEF n
<1>5. /\ e \in Seq(Graph) /\ Len(e) = Len(s)
      /\ \A j \in 1 .. Len(s) : e[j] = IF j = n THEN h ELSE s[j]
  BY <1>2, <1>4, ExceptSeq
<1> HIDE DEF e
<1>6. ASSUME NEW i \in 1 .. Len(t) PROVE t[i] = e[i]
  <2>1. i \in 1 .. Len(s)
    BY <1>2, <1>3
  <2>2. CASE i \in 1 .. Len(p)
    <3>1. i # n
      BY <1>1, <2>2 DEF n
    <3>2. t[i] = s[i]
      BY <1>2, <1>3, <2>2
    <3>3. QED BY <1>5, <2>1, <3>1, <3>2
  <2>3. CASE i = n
    <3>1. t[i] = h
      BY <1>3, <2>3 DEF n
    <3>2. QED BY <1>5, <2>1, <2>3, <3>1
  <2>4. CASE i > n
    <3>1. PICK j \in 1 .. Len(f) : i = Len(p) + 1 + j
      <4> DEFINE j == i - (Len(p) + 1)
      <4>1. j \in 1 .. Len(f) /\ i = Len(p) + 1 + j
        BY <1>1, <1>3, <2>4 DEF n
      <4>2. QED BY <4>1
    <3>2. t[i] = s[i]
      BY <1>2, <1>3, <3>1
    <3>3. i # n
      BY <1>1, <2>4 DEF n
    <3>4. QED BY <1>5, <2>1, <3>2, <3>3
  <2>5. i \in 1 .. Len(p) \/ i = n \/ i > n
    BY <1>1, <1>3 DEF n
  <2>6. QED BY <2>2, <2>3, <2>4, <2>5
<1>7. t = e
  BY <1>2, <1>3, <1>5, <1>6, SeqEqual
<1>8. QED BY <1>7 DEF e, s, t, n

\* undo.
LEMMA UndoSplice ==
  ASSUME NEW p \in Seq(Graph), NEW g \in Graph, NEW f \in Seq(Graph), p # <<>>
  PROVE  Splice(SubSeq(p, 1, Len(p) - 1), p[Len(p)], <<g>> \o f)
           = Splice(p, g, f)
<1> DEFINE n == Len(p)
           q == SubSeq(p, 1, n - 1)
           last == <<p[n]>>
           one == <<g>>
<1>1. n \in 1 .. Len(p) /\ 1 \in 1 .. Len(p) /\ n \in 1 .. Len(p)
  OBVIOUS
<1>2. SubSeq(p, 1, n) = q \o last
  BY <1>1, SubSeqRecursiveSecond
<1>3. p = q \o last
  BY <1>2, SubSeqFull
<1>4. one \in Seq(Graph)
  OBVIOUS
<1>5. (p \o one) \o f = p \o (one \o f)
  BY <1>4, ConcatAssociative
<1>6. QED BY <1>3, <1>5 DEF Splice

\* redo.
LEMMA RedoSplice ==
  ASSUME NEW p \in Seq(Graph), NEW g \in Graph, NEW f \in Seq(Graph), f # <<>>
  PROVE  Splice(Append(p, g), Head(f), Tail(f)) = Splice(p, g, f)
<1> DEFINE first == <<Head(f)>>
           rest == Tail(f)
           pg == p \o <<g>>
<1>1. 1 \in 1 .. Len(f) /\ Len(f) \in 1 .. Len(f) /\ f[1] = Head(f)
  OBVIOUS
<1>2. SubSeq(f, 1, Len(f)) = <<f[1]>> \o SubSeq(f, 1 + 1, Len(f))
  BY <1>1, SubSeqRecursiveFirst
<1>3. SubSeq(f, 1, Len(f)) = f /\ rest = SubSeq(f, 2, Len(f))
  BY SubSeqFull, TailIsSubSeq
<1>4. f = first \o rest
  BY <1>1, <1>2, <1>3
<1>5. Append(p, g) = pg
  BY AppendIsConcat
<1>6. pg \in Seq(Graph) /\ first \in Seq(Graph) /\ rest \in Seq(Graph)
  BY HeadTailProperties, ConcatProperties
<1>7. (pg \o first) \o rest = pg \o (first \o rest)
  BY <1>6, ConcatAssociative
<1>8. QED BY <1>4, <1>5, <1>7 DEF Splice

\* The first state that a change keeps.
Oldest(here) == IF here > MaxHistory THEN here - MaxHistory + 1 ELSE 1

\* saveToHistory, and the graph that follows.
LEMMA SaveSplice ==
  ASSUME NEW p \in Seq(Graph), NEW g \in Graph, NEW f \in Seq(Graph),
         NEW h \in Graph
  PROVE  /\ Splice(Append(LastOf(p), g), h, <<>>)
              = Append(SubSeq(Splice(p, g, f), Oldest(Len(p) + 1), Len(p) + 1), h)
         /\ Len(Append(LastOf(p), g)) + 1
              = Len(Splice(Append(LastOf(p), g), h, <<>>))
<1> DEFINE n == Len(p)
           from == Oldest(n + 1)
           one == <<g>>
           pg == p \o one
           L == LastOf(p)
           Lg == Append(L, g)
<1>1. n \in Nat /\ MaxHistory \in Nat /\ MaxHistory > 1
  BY EditorAssumption
<1>2. from \in 1 .. n + 1 /\ (n > 0 => from \in 1 .. n) /\ (n = 0 => from = 1)
  BY <1>1 DEF Oldest
<1>3. one \in Seq(Graph) /\ Len(one) = 1 /\ one[1] = g
  OBVIOUS
<1>4. L \in Seq(Graph) /\ Lg \in Seq(Graph) /\ Lg = L \o one
  BY LastOfType, AppendProperties, AppendIsConcat
<1>5. SubSeq(p, from, n) = L
  <2>1. CASE n < MaxHistory
    <3>1. from = 1 /\ L = p
      BY <1>1, <2>1 DEF LastOf, Oldest
    <3>2. QED BY <3>1, SubSeqFull
  <2>2. CASE ~ (n < MaxHistory)
    <3>1. from = n - MaxHistory + 2 /\ L = SubSeq(p, n - MaxHistory + 2, n)
      BY <1>1, <2>2 DEF LastOf, Oldest
    <3>2. QED BY <3>1
  <2>3. QED BY <2>1, <2>2
<1> HIDE DEF from, L, Lg, one
<1>6. /\ pg \in Seq(Graph) /\ Len(pg) = n + 1
  <2>1. pg \in Seq(Graph) /\ Len(pg) = Len(p) + Len(one)
    BY <1>3, ConcatGraphs
  <2>2. QED BY <1>3, <2>1
<1>7. pg[n + 1] = g
  <2>1. 1 \in 1 .. Len(one)
    BY <1>3
  <2>2. pg[n + 1] = one[1]
    BY <1>3, <2>1, ConcatGraphs
  <2>3. QED BY <1>3, <2>2
<1> HIDE DEF pg
<1>8. SubSeq(pg \o f, from, n + 1) = SubSeq(pg, from, n + 1)
  BY <1>1, <1>2, <1>6, SubSeqOfConcat1
<1>9. SubSeq(pg, from, n + 1) = SubSeq(pg, from, n) \o <<pg[n + 1]>>
  <2>1. from \in 1 .. Len(pg) /\ n + 1 \in from .. Len(pg)
    BY <1>1, <1>2, <1>6
  <2>2. SubSeq(pg, from, n + 1) = SubSeq(pg, from, (n + 1) - 1) \o <<pg[n + 1]>>
    BY <1>6, <2>1, SubSeqRecursiveSecond
  <2>3. (n + 1) - 1 = n
    BY <1>1
  <2>4. QED BY <2>2, <2>3
<1>10. SubSeq(pg, from, n) = SubSeq(p, from, n)
  <2>1. CASE n = 0
    <3>1. from \in Int /\ n \in Int /\ n < from
      BY <1>2, <2>1
    <3>2. QED BY <3>1, SubSeqEmpty
  <2>2. CASE n > 0
    <3>1. from \in 1 .. Len(p) /\ n \in 1 .. Len(p)
      BY <1>1, <1>2, <2>2
    <3>2. SubSeq(p \o one, from, n) = SubSeq(p, from, n)
      BY <1>3, <3>1, SubSeqBefore
    <3>3. QED BY <3>2 DEF pg
  <2>3. n = 0 \/ n > 0
    BY <1>1
  <2>4. QED BY <2>1, <2>2, <2>3
<1>11. SubSeq(pg \o f, from, n + 1) = Lg
  BY <1>4, <1>5, <1>7, <1>8, <1>9, <1>10 DEF one
<1>12. Splice(Lg, h, <<>>) = Append(Lg, h)
  <2>1. Lg \o <<h>> \in Seq(Graph) /\ Append(Lg, h) = Lg \o <<h>>
    BY <1>4, AppendIsConcat, AppendProperties
  <2>2. (Lg \o <<h>>) \o <<>> = Lg \o <<h>>
    BY <2>1, ConcatEmptySeq
  <2>3. QED BY <2>1, <2>2 DEF Splice
<1>13. Splice(p, g, f) = pg \o f
  BY DEF Splice, pg, one
<1>14. Len(Append(Lg, h)) = Len(Lg) + 1
  BY <1>4, AppendProperties
<1> DEFINE S == Splice(p, g, f)
           T == Splice(Lg, h, <<>>)
<1>15. SubSeq(S, from, n + 1) = Lg
  BY <1>11, <1>13
<1>16. T = Append(SubSeq(S, from, n + 1), h)
  BY <1>12, <1>15
<1>17. Len(Lg) + 1 = Len(T)
  BY <1>12, <1>14
<1>18. QED BY <1>16, <1>17 DEF from, L, Lg
-----------------------------------------------------------------------------
\* Undo and redo are moves along the timeline of the editor, edits are changes.
TimelineStep ==
  [History!Change \/ History!Retouch \/ History!Move]_(History!timeline)

LEMMA ChangeStep ==
  ASSUME EditorInv, SaveToHistory(graph), NEW h \in Graph, graph' = h
  PROVE  TimelineStep
<1> DEFINE steps == past \o <<graph>> \o future
           here == Len(past) + 1
           Lg == Append(LastOf(past), graph)
<1>1. past \in Seq(Graph) /\ future \in Seq(Graph) /\ graph \in Graph
  BY DEF EditorInv, TypeOK
<1>2. past' = Lg /\ future' = <<>> /\ graph' = h
  BY DEF SaveToHistory
<1>3. steps = Splice(past, graph, future) /\ steps' = Splice(Lg, h, <<>>)
  BY <1>2 DEF Splice
<1>4. /\ Splice(Lg, h, <<>>)
           = Append(SubSeq(Splice(past, graph, future), Oldest(here), here), h)
      /\ Len(Lg) + 1 = Len(Splice(Lg, h, <<>>))
  BY <1>1, SaveSplice
<1>5. steps' = Append(SubSeq(steps, Oldest(here), here), h)
  BY <1>3, <1>4
<1>6. here' = Len(steps')
  BY <1>2, <1>3, <1>4
<1> HIDE DEF steps, here
<1>7. History!Change
  BY <1>5, <1>6 DEF History!Change, Oldest, steps, here
<1>8. QED BY <1>7 DEF TimelineStep

LEMMA RetouchStep ==
  ASSUME EditorInv, NEW h \in Graph, graph' = h, UNCHANGED history
  PROVE  TimelineStep
<1> DEFINE steps == past \o <<graph>> \o future
           here == Len(past) + 1
<1>1. past \in Seq(Graph) /\ future \in Seq(Graph) /\ graph \in Graph
  BY DEF EditorInv, TypeOK
<1>2. past' = past /\ future' = future /\ graph' = h
  BY DEF history
<1>3. steps = Splice(past, graph, future) /\ steps' = Splice(past, h, future)
  BY <1>2 DEF Splice
<1>4. Splice(past, h, future)
        = [Splice(past, graph, future) EXCEPT ![here] = h]
  BY <1>1, RetouchSplice
<1>5. steps' = [steps EXCEPT ![here] = h] /\ here' = here
  BY <1>2, <1>3, <1>4
<1>6. History!Retouch
  BY <1>5 DEF History!Retouch
<1>7. QED BY <1>6 DEF TimelineStep

LEMMA UndoStep == ASSUME EditorInv, Undo PROVE TimelineStep
<1> DEFINE steps == past \o <<graph>> \o future
           here == Len(past) + 1
<1>1. past \in Seq(Graph) /\ future \in Seq(Graph) /\ graph \in Graph
  BY DEF EditorInv, TypeOK
<1>2. /\ past # <<>> /\ past' = SubSeq(past, 1, Len(past) - 1)
      /\ future' = <<graph>> \o future /\ graph' = past[Len(past)]
  BY DEF Undo, GraphBecomes
<1>3. /\ steps = Splice(past, graph, future)
      /\ steps' = Splice(SubSeq(past, 1, Len(past) - 1), past[Len(past)],
                         <<graph>> \o future)
  BY <1>2 DEF Splice
<1>4. steps' = steps
  BY <1>1, <1>2, <1>3, UndoSplice
<1>5. Len(past) \in Nat /\ Len(past) > 0
  BY <1>1, <1>2
<1>6. Len(past') = Len(past) - 1
  BY <1>1, <1>2, <1>5
<1>7. here' = here - 1 /\ here - 1 \in 1 .. Len(past)
  BY <1>5, <1>6
<1>8. DOMAIN steps = 1 .. Len(past) + 1 + Len(future)
  <2>1. steps \in Seq(Graph) /\ Len(steps) = Len(past) + 1 + Len(future)
    <3>1. Spliced(steps, past, graph, future)
      BY <1>1, <1>3, SpliceParts
    <3> HIDE DEF steps
    <3>2. QED BY <3>1 DEF Spliced
  <2> HIDE DEF steps
  <2>2. QED BY <2>1, LenProperties
<1>9. here - 1 \in DOMAIN steps
  BY <1>1, <1>5, <1>7, <1>8
<1> HIDE DEF steps, here
<1>10. History!Move
  BY <1>4, <1>7, <1>9 DEF History!Move, steps, here
<1>11. QED BY <1>10 DEF TimelineStep

LEMMA RedoStep == ASSUME EditorInv, Redo PROVE TimelineStep
<1> DEFINE steps == past \o <<graph>> \o future
           here == Len(past) + 1
<1>1. past \in Seq(Graph) /\ future \in Seq(Graph) /\ graph \in Graph
  BY DEF EditorInv, TypeOK
<1>2. /\ future # <<>> /\ past' = Append(past, graph)
      /\ future' = Tail(future) /\ graph' = Head(future)
  BY DEF Redo, GraphBecomes
<1>3. /\ steps = Splice(past, graph, future)
      /\ steps' = Splice(Append(past, graph), Head(future), Tail(future))
  BY <1>2 DEF Splice
<1>4. steps' = steps
  BY <1>1, <1>2, <1>3, RedoSplice
<1>5. Len(past) \in Nat /\ Len(future) \in Nat /\ Len(future) > 0
  BY <1>1, <1>2
<1>6. Len(past') = Len(past) + 1
  BY <1>1, <1>2
<1>7. here' = here + 1 /\ here + 1 = Len(past) + 2
  BY <1>5, <1>6
<1>8. DOMAIN steps = 1 .. Len(past) + 1 + Len(future)
  <2>1. steps \in Seq(Graph) /\ Len(steps) = Len(past) + 1 + Len(future)
    <3>1. Spliced(steps, past, graph, future)
      BY <1>1, <1>3, SpliceParts
    <3> HIDE DEF steps
    <3>2. QED BY <3>1 DEF Spliced
  <2> HIDE DEF steps
  <2>2. QED BY <2>1, LenProperties
<1>9. here + 1 \in DOMAIN steps
  BY <1>5, <1>7, <1>8
<1> HIDE DEF steps, here
<1>10. History!Move
  BY <1>4, <1>7, <1>9 DEF History!Move, steps, here
<1>11. QED BY <1>10 DEF TimelineStep

\* What leaves the graph and the history leaves the timeline.
LEMMA StutterStep ==
  ASSUME graph' = graph, UNCHANGED history PROVE TimelineStep
<1>1. past' = past /\ future' = future
  BY DEF history
<1>2. UNCHANGED History!timeline
  BY <1>1 DEF History!timeline
<1>3. QED BY <1>2 DEF TimelineStep

LEMMA EditorStep == ASSUME EditorInv, [EditorNext]_editorVars PROVE TimelineStep
<1>1. graph \in Graph /\ name \in Names /\ timer \in Timer \cup {None}
  BY DEF EditorInv, TypeOK
<1>2. ASSUME ChangeLook PROVE TimelineStep
  <2>1. PICK l \in Looks : GraphBecomes([graph EXCEPT !.look = l])
    BY <1>2 DEF ChangeLook
  <2>2. [graph EXCEPT !.look = l] \in Graph
    BY <1>1 DEF Graph
  <2>3. QED BY <1>2, <2>1, <2>2, ChangeStep DEF ChangeLook, GraphBecomes
<1>3. ASSUME AddNode PROVE TimelineStep
  <2>1. PICK n \in Nodes : GraphBecomes([graph EXCEPT !.nodes = @ \cup {n}])
    BY <1>3 DEF AddNode
  <2>2. [graph EXCEPT !.nodes = @ \cup {n}] \in Graph
    BY <1>1 DEF Graph
  <2>3. QED BY <1>3, <2>1, <2>2, ChangeStep DEF AddNode, GraphBecomes
<1>4. ASSUME DeleteSelected PROVE TimelineStep
  <2>1. PICK l \in Looks :
          GraphBecomes([nodes |-> graph.nodes \ selected, look |-> l])
    BY <1>4 DEF DeleteSelected
  <2>2. [nodes |-> graph.nodes \ selected, look |-> l] \in Graph
    BY <1>1 DEF Graph
  <2>3. QED BY <1>4, <2>1, <2>2, ChangeStep DEF DeleteSelected, GraphBecomes
<1>5. ASSUME DuplicateSelected PROVE TimelineStep
  <2>1. PICK new \in SUBSET (Nodes \ graph.nodes) :
          GraphBecomes([graph EXCEPT !.nodes = @ \cup new])
    BY <1>5 DEF DuplicateSelected
  <2>2. [graph EXCEPT !.nodes = @ \cup new] \in Graph
    BY <1>1 DEF Graph
  <2>3. QED BY <1>5, <2>1, <2>2, ChangeStep DEF DuplicateSelected, GraphBecomes
<1>6. ASSUME Select PROVE TimelineStep
  BY <1>6, StutterStep DEF Select, GraphBecomes
<1>7. ASSUME AutoLayout PROVE TimelineStep
  <2>1. PICK l \in Looks : GraphBecomes([graph EXCEPT !.look = l])
    BY <1>7 DEF AutoLayout
  <2>2. [graph EXCEPT !.look = l] \in Graph
    BY <1>1 DEF Graph
  <2>3. QED BY <1>7, <2>1, <2>2, RetouchStep DEF AutoLayout, GraphBecomes
<1>8. ASSUME DragEnd PROVE TimelineStep
  BY <1>1, <1>8, ChangeStep DEF DragEnd, GraphBecomes
<1>9. ASSUME Rename PROVE TimelineStep
  BY <1>9, StutterStep DEF Rename
<1>10. ASSUME DeleteInEditor PROVE TimelineStep
  BY <1>10, StutterStep DEF DeleteInEditor, GraphBecomes
<1>11. ASSUME TimerRuns PROVE TimelineStep
  <2>1. CASE timer.selected = {}
    <3>1. graph' = graph /\ UNCHANGED history
      BY <1>11, <2>1 DEF TimerRuns
    <3>2. QED BY <3>1, StutterStep
  <2>2. CASE timer.selected # {}
    <3>1. PICK l \in Looks :
            GraphBecomes([nodes |-> graph.nodes \ timer.selected, look |-> l])
      BY <1>11, <2>2 DEF TimerRuns
    <3>2. [nodes |-> graph.nodes \ timer.selected, look |-> l] \in Graph
      BY <1>1 DEF Graph
    <3>3. timer.graph = graph
      BY <1>11 DEF TimerRuns, EditorInv, TimerSeesGraph
    <3>4. SaveToHistory(graph)
      BY <1>11, <2>2, <3>3 DEF TimerRuns
    <3>5. QED BY <3>1, <3>2, <3>4, ChangeStep DEF GraphBecomes
  <2>3. QED BY <2>1, <2>2
<1>12. ASSUME CancelSave PROVE TimelineStep
  BY <1>12, StutterStep DEF CancelSave
<1>13. ASSUME NEW s \in Saves,
              \/ ToolbarSave(s) \/ KeyboardSave(s) \/ SaveAnyway(s)
              \/ Store(s) \/ Refuse(s) \/ SaveFails(s) \/ SaveReturns(s)
       PROVE  TimelineStep
  BY <1>13, StutterStep
     DEF ToolbarSave, KeyboardSave, HandleSave, SaveAnyway, Store, Refuse,
         SaveFails, SaveReturns
<1>14. ASSUME UNCHANGED editorVars PROVE TimelineStep
  BY <1>14, StutterStep DEF editorVars
<1>15. QED
  BY <1>2, <1>3, <1>4, <1>5, <1>6, <1>7, <1>8, UndoStep, RedoStep,
     <1>9, <1>10, <1>11, <1>12, <1>13, <1>14 DEF EditorNext

LEMMA EditorStart == ASSUME EditorInit PROVE History!TimelineInit
<1>1. past = <<>> /\ future = <<>> /\ graph \in Graph
  BY DEF EditorInit
<1> DEFINE one == <<graph>>
<1>2. one \in Seq(Graph)
  BY <1>1
<1>3. <<>> \o one = one /\ one \o <<>> = one
  BY <1>2, ConcatEmptySeq
<1>4. past \o <<graph>> \o future = <<graph>>
  BY <1>1, <1>3
<1>5. Len(past) + 1 = 1
  BY <1>1
<1>6. QED BY <1>1, <1>4, <1>5 DEF History!TimelineInit

\* Whatever is edited, undone, redone, dragged and deleted, past, graph and
\* future are one timeline, with the user at a place in it: undo and redo move
\* without losing a state, and an edit forgets only what was undone and the
\* oldest state (useWorkflow's historyRef).
THEOREM EditorImplementsTimeline == EditorSpec => ImplementsTimeline
<1>1. EditorInv /\ [EditorNext]_editorVars => TimelineStep
  BY EditorStep
<1>2. EditorInit => History!TimelineInit
  BY EditorStart
<1>3. QED
  BY <1>1, <1>2, EditorInvariant, PTL
     DEF EditorSpec, ImplementsTimeline, History!TimelineSpec, TimelineStep
-----------------------------------------------------------------------------
(***************************************************************************)
(* Saving.  As long as nothing was missed, every save under way has the    *)
(* workflow of now for its body, so whichever of them the server stores    *)
(* stores that, and any of them may mark the workflow clean.               *)
(***************************************************************************)
BodiesAreNow ==
  \A s \in Saves : save[s] # None =>
    /\ save[s].body = Now
    /\ save[s].at = "answered" => stored = Now

SaveInv == ~ missed => BodiesAreNow /\ (~ dirty => stored = Now)

LEMMA SaveInit == ASSUME EditorInit PROVE SaveInv
BY DEF EditorInit, SaveInv, BodiesAreNow, Now

\* What changes the workflow marks it dirty, and misses the saves under way.
LEMMA ChangeSaves == ASSUME Changes, UNCHANGED saving PROVE SaveInv'
BY DEF Changes, saving, UnderWay, SaveInv, BodiesAreNow

\* What leaves the workflow and the saves alone.
LEMMA RestSaves ==
  ASSUME SaveInv, UNCHANGED <<graph, name, saved, save, stored>>
  PROVE  SaveInv'
BY DEF saved, SaveInv, BodiesAreNow, Now

\* A save is sent. If nothing is missed then its body is the workflow of now,
\* and either nothing was missed before or no other save is under way.
LEMMA SendSaves ==
  ASSUME EditorInv, SaveInv, NEW s \in Saves, NEW body, Send(s, body),
         save[s] = None, UNCHANGED <<graph, name, dirty, stored>>
  PROVE  SaveInv'
<1>1. \A t \in Saves :
        save'[t] = IF t = s THEN [at |-> "sent", body |-> body] ELSE save[t]
  BY DEF Send, EditorInv, TypeOK
<1>2. Now' = Now
  BY DEF Now
<1>3. SUFFICES ASSUME ~ missed'
               PROVE  BodiesAreNow' /\ (~ dirty' => stored' = Now')
  BY DEF SaveInv
<1>4. body = Now /\ (~ missed \/ (~ UnderWay /\ dirty))
  BY <1>3 DEF Send
<1>5. CASE ~ missed
  BY <1>1, <1>2, <1>4, <1>5 DEF SaveInv, BodiesAreNow
<1>6. CASE ~ UnderWay /\ dirty
  BY <1>1, <1>2, <1>4, <1>6 DEF UnderWay, BodiesAreNow
<1>7. QED BY <1>4, <1>5, <1>6

LEMMA HandlerSaves ==
  ASSUME EditorInv, SaveInv, NEW s \in Saves,
         ToolbarSave(s) \/ KeyboardSave(s) \/ SaveAnyway(s)
  PROVE  SaveInv'
<1>1. /\ save[s] = None /\ UNCHANGED <<graph, name, dirty, stored>>
      /\ \/ UNCHANGED <<save, missed>>
         \/ Send(s, Now) \/ Send(s, captured)
  BY DEF ToolbarSave, KeyboardSave, HandleSave, SaveAnyway
<1>2. CASE UNCHANGED <<save, missed>>
  BY <1>1, <1>2, RestSaves DEF saved
<1>3. CASE Send(s, Now) \/ Send(s, captured)
  BY <1>1, <1>3, SendSaves
<1>4. QED BY <1>1, <1>2, <1>3

LEMMA ServerSaves ==
  ASSUME EditorInv, SaveInv, NEW s \in Saves,
         Store(s) \/ Refuse(s) \/ SaveFails(s) \/ SaveReturns(s)
  PROVE  SaveInv'
<1>1. /\ UNCHANGED <<graph, name>> /\ save[s] # None /\ Now' = Now
      /\ save \in [Saves -> Save \cup {None}]
  BY DEF Store, Refuse, SaveFails, SaveReturns, Now, EditorInv, TypeOK
<1>2. CASE Refuse(s)
  BY <1>2 DEF Refuse, SaveInv
<1>3. SUFFICES ASSUME ~ missed', ~ Refuse(s)
               PROVE  BodiesAreNow' /\ (~ dirty' => stored' = Now')
  BY <1>2 DEF SaveInv
<1>4. ~ missed /\ BodiesAreNow /\ (~ dirty => stored = Now)
  BY <1>3 DEF Store, SaveFails, SaveReturns, SaveInv, saved
<1>5. save[s].body = Now /\ save[s] \in Save
  BY <1>1, <1>4 DEF BodiesAreNow
<1>6. CASE Store(s)
  <2>1. /\ stored' = Now /\ dirty' = dirty
        /\ save' = [save EXCEPT ![s].at = "answered"]
    BY <1>5, <1>6 DEF Store, saved
  <2>2. [save[s] EXCEPT !.at = "answered"].body = Now
    BY <1>5 DEF Save
  <2>3. \A t \in Saves : save'[t] # None => save'[t].body = Now
    BY <1>1, <1>4, <2>1, <2>2 DEF BodiesAreNow
  <2>4. QED BY <1>1, <2>1, <2>3 DEF BodiesAreNow
<1>7. CASE SaveFails(s) \/ SaveReturns(s)
  <2>1. /\ save' = [save EXCEPT ![s] = None] /\ stored' = stored
        /\ dirty' = dirty \/ save[s].at = "answered"
    BY <1>7 DEF SaveFails, SaveReturns, saved
  <2>2. \A t \in Saves : save'[t] = IF t = s THEN None ELSE save[t]
    BY <1>1, <2>1
  <2>3. QED BY <1>1, <1>4, <2>1, <2>2 DEF BodiesAreNow
<1>8. QED BY <1>3, <1>6, <1>7

LEMMA SaveStep ==
  ASSUME EditorInv, SaveInv, [EditorNext]_editorVars
  PROVE  SaveInv'
<1>1. CASE \/ ChangeLook \/ AddNode \/ DeleteSelected \/ DuplicateSelected
           \/ AutoLayout \/ DragEnd \/ Undo \/ Redo \/ Rename
  BY <1>1, ChangeSaves
     DEF ChangeLook, AddNode, DeleteSelected, DuplicateSelected, AutoLayout,
         DragEnd, Undo, Redo, Rename
<1>2. CASE Select \/ DeleteInEditor \/ CancelSave
  BY <1>2, RestSaves DEF Select, DeleteInEditor, CancelSave, GraphBecomes, saving
<1>3. CASE TimerRuns
  <2>1. CASE timer.selected = {}
    BY <1>3, <2>1, RestSaves DEF TimerRuns, saving
  <2>2. CASE timer.selected # {}
    BY <1>3, <2>2, ChangeSaves DEF TimerRuns
  <2>3. QED BY <2>1, <2>2
<1>4. CASE UNCHANGED editorVars
  BY <1>4, RestSaves DEF editorVars, saving
<1>5. QED
  BY <1>1, <1>2, <1>3, <1>4, HandlerSaves, ServerSaves DEF EditorNext

\* Whatever saves overlap, fail or are stored in another order, a workflow
\* that is not marked dirty is the one that is stored, unless one of the three
\* ways in which the code breaks this has been taken (performSave, markClean).
THEOREM CleanStored == EditorSpec => []CleanIsSaved
<1>1. EditorInit => SaveInv
  BY SaveInit
<1>2. EditorInv /\ SaveInv /\ [EditorNext]_editorVars => SaveInv'
  BY SaveStep
<1>3. SaveInv => CleanIsSaved
  BY DEF SaveInv, CleanIsSaved
<1>4. QED BY <1>1, <1>2, <1>3, EditorInvariant, PTL DEF EditorSpec
=============================================================================
