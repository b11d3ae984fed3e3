------------------------------ MODULE UiPipeline ------------------------------
(***************************************************************************)
(* What a window shows: the document of the app's state, cached or made    *)
(* by the model, is laid out and built into an entity tree                 *)
(* (gui-renderer/src/cache.rs, widget_system.rs, uidl_to_ecs.rs).          *)
(***************************************************************************)
EXTENDS UiWindows, WidgetLayout

CONSTANT Canvases        \* pairs of a width and a height

ASSUME PipelineAssumption == Apps \subseteq [CacheKeys -> Widgets] /\ Canvases \subseteq Nat \X Nat

VARIABLES canvas,        \* the size of the app's windows
          shown          \* what was shown last: a document and its tree

pipelineVars == <<windowVars, canvas, shown>>

Blank == [document |-> [kind |-> "spacer", size |-> {}], tree |-> <<>>]

PipelineInit == WindowsInit /\ canvas \in Canvases /\ shown = Blank

Show(document) ==
  /\ shown' = [document |-> document, tree |-> BuildTree(document, canvas[1], canvas[2])]
  /\ UNCHANGED canvas

ShowCached(w, key) == FindCached(w, key) /\ Show(entries[key])

ShowGenerated(w, key) == TakeGenerated(w, key) /\ Show(documents[key])

ShowNothing ==
  /\ \/ \E w \in Windows, key \in CacheKeys : Generate(w, key)
     \/ \E key \in CacheKeys : Forget(key)
     \/ ForgetAll
  /\ UNCHANGED <<canvas, shown>>

PipelineNext ==
  \/ \E w \in Windows, key \in CacheKeys : ShowCached(w, key) \/ ShowGenerated(w, key)
  \/ ShowNothing

PipelineSpec == PipelineInit /\ [][PipelineNext]_pipelineVars

-------------------------------------------------------------------------------
\* Where a click goes

Nodes == DOMAIN shown.tree
WidgetOf(i) == shown.tree[i].widget
BoxOf(i) == shown.tree[i].box
ParentOf(i) == shown.tree[i].parent
ChildrenOf(i) == shown.tree[i].children

\* A box has its edges, and one without a width is an edge.
Covers(box, x, y) ==
  box.x <= x /\ x <= box.x + box.width /\ box.y <= y /\ y <= box.y + box.height

Under(x, y) == {i \in Nodes : IsControl(WidgetOf(i)) /\ Covers(BoxOf(i), x, y)}

\* Fault: the nodes are walked from the first.
HitTestForward(x, y) == IF Under(x, y) = {} THEN {} ELSE {Min(Under(x, y))}

\* hit_test: the last control that contains the point, if there is one.
HitTest(x, y) == IF Under(x, y) = {} THEN {} ELSE {Max(Under(x, y))}

-------------------------------------------------------------------------------

(***************************************************************************)
(* The entity tree is the tree of the document, though it is made of the   *)
(* flat list of layout with a count of children: node 1 is the document,   *)
(* the children of every node are its widget's, in order, no other node    *)
(* has it for a parent, and every node but the first has a parent before   *)
(* it (build_nodes_from_pairs; EcsTree's comment).                         *)
(***************************************************************************)
TreeIsTheDocument ==
  shown # Blank =>
    /\ WidgetOf(1) = shown.document /\ ParentOf(1) = 0
    /\ \A i \in Nodes :
         /\ [j \in DOMAIN ChildrenOf(i) |-> WidgetOf(ChildrenOf(i)[j])] = Children(WidgetOf(i))
         /\ \A j, k \in DOMAIN ChildrenOf(i) : j < k => ChildrenOf(i)[j] < ChildrenOf(i)[k]
         /\ ToSet(ChildrenOf(i)) = {n \in Nodes : ParentOf(n) = i}
    /\ \A i \in Nodes \ {1} : ParentOf(i) \in 1..(i - 1)

Controls == {i \in Nodes : IsControl(WidgetOf(i))}

Inside(x, y, box) == box.x < x /\ x < box.x + box.width /\ box.y < y /\ y < box.y + box.height

Lefts == {BoxOf(i).x + d : i \in Controls, d \in {0, 1}}
Tops == {BoxOf(i).y + d : i \in Controls, d \in {0, 1}}

(***************************************************************************)
(* A click inside the box of a button or input, and not just on its edge,  *)
(* is that control's, however stacks are nested and however little room    *)
(* there is: no control lies over it but those hit_test finds after it.    *)
(* Where boxes begin is enough to click on (hit_test, layout_widget).      *)
(***************************************************************************)
ClicksHitTheirControl ==
  \A i \in Controls, x \in Lefts, y \in Tops :
    Inside(x, y, BoxOf(i)) => HitTest(x, y) = {i}

(***************************************************************************)
(* On a canvas as high as the document's natural height, every widget lies *)
(* within its parent from top to bottom: the two recursions, of heights    *)
(* and of boxes, agree (widget_natural_height, layout_widget).             *)
(***************************************************************************)
NaturalHeightIsEnough ==
  shown # Blank /\ canvas[2] >= NaturalHeight[shown.document] =>
    \A i \in Nodes \ {1} :
      LET outer == BoxOf(ParentOf(i)) IN
      outer.y <= BoxOf(i).y /\ BoxOf(i).y + BoxOf(i).height <= outer.y + outer.height

-------------------------------------------------------------------------------
\* What might be expected, and the code does not do.

(***************************************************************************)
(* No point is in two controls.  Those side by side without a gap share an *)
(* edge, and one without a width may lie over another, as a column's       *)
(* padding moves its children even where it has no room for it.            *)
(***************************************************************************)
NoPointIsInTwoControls ==
  \A x \in Lefts, y \in Tops : Cardinality(Under(x, y)) <= 1

(***************************************************************************)
(* Only controls that can be seen are hit.                                 *)
(***************************************************************************)
OnlyWideControlsAreHit ==
  \A x \in Lefts, y \in Tops : \A i \in HitTest(x, y) : BoxOf(i).width > 0
===============================================================================
