----------------------------- MODULE EventBridge ------------------------------
(***************************************************************************)
(* The event bridge between a GUI and the app behind it                    *)
(* (gui-renderer/src/event_bridge.rs), with the entity tree both sides     *)
(* look things up in (uidl_to_ecs.rs).  The input handler queues events;   *)
(* once per frame they become callbacks by the tree of that moment; the    *)
(* app runs callbacks and queues patches; the renderer drains patches into *)
(* the tree.  The code has the queues and apply_patches; their callers are *)
(* those its comments describe, all on one thread, in any order.           *)
(*                                                                         *)
(* A document is the sequence of its widgets in the order of layout, and a *)
(* tree the same with current texts: build_ecs_tree numbers entities by    *)
(* position.  Boxes are reduced to which of them a point lies in; texts to *)
(* the number of the patch that set them.                                  *)
(***************************************************************************)
EXTENDS Naturals, Sequences, SequencesExt, FiniteSets, FiniteSetsExt

CONSTANTS Documents,   \* sequences of [kind, id, action]: id, action optional
          Points,      \* a point is the set of the positions it lies in
          MaxPatches,  \* bound: patches the app makes
          MaxEvents    \* bound: events and callbacks waiting in the bridge

\* A node has an id or none, an action or none.
ASSUME DocumentsAssumption ==
  \A doc \in Documents :
    /\ doc \in Seq([kind : STRING, id : SUBSET STRING, action : SUBSET STRING])
    /\ \A i \in DOMAIN doc : \A a, b \in doc[i].action : a = b

ASSUME BridgeAssumption == MaxPatches \in Nat /\ MaxEvents \in Nat

VARIABLES inbound, outbound, patches,  \* the bridge's three queues
          tree,       \* the EcsTree on display
          app,        \* what the app takes to be on display
          made,       \* the patches it has made
          dropped     \* history: patches were lost with the last FullReplace

vars == <<inbound, outbound, patches, tree, app, made, dropped>>

\* build_ecs_tree, all texts as of one patch.
Build(doc, n) ==
  [i \in DOMAIN doc |-> [kind |-> doc[i].kind, id |-> doc[i].id,
                         action |-> doc[i].action, text |-> n]]

Init ==
  /\ \E doc \in Documents : tree = Build(doc, 0)
  /\ app = tree
  /\ inbound = <<>> /\ outbound = <<>> /\ patches = <<>>
  /\ made = 0 /\ dropped = FALSE

-------------------------------------------------------------------------------
\* Events and callbacks

Interactive(node) == node.kind \in {"button", "input"}

\* hit_test: the last interactive node at a point, if there is one.
Hit(point) ==
  LET under == {i \in point \cap DOMAIN tree : Interactive(tree[i])}
  IN IF under = {} THEN {} ELSE {Max(under)}

\* What a node's action is called with; of the payload, the widget.
Callbacks(i, meant) ==
  {[action |-> a, widget |-> tree[i].id, meant |-> meant] : a \in tree[i].action}

\* The callback, if any, that pressing or typing at a node makes now.
Meaning(nodes) == {<<a, tree[i].id>> : i \in nodes, a \in UNION {tree[j].action : j \in nodes}}

PushEvent(event) ==
  /\ Len(inbound) + Len(outbound) < MaxEvents
  /\ inbound' = Append(inbound, event)
  /\ UNCHANGED <<outbound, patches, tree, app, made, dropped>>

Click(point) ==
  PushEvent([kind |-> "click", at |-> point, meant |-> Meaning(Hit(point))])

TypeText(i) ==
  /\ i \in DOMAIN tree /\ tree[i].kind = "input"
  /\ PushEvent([kind |-> "text_input", entity |-> i, meant |-> Meaning({i})])

HoverOrKey == PushEvent([kind |-> "other"])

\* The nodes an event is routed to, by the tree as it is now.
Target(event) ==
  CASE event.kind = "click" -> Hit(event.at)
    [] event.kind = "text_input" -> {event.entity} \cap DOMAIN tree
    [] OTHER -> {}

Routed(event) == UNION {Callbacks(i, event.meant) : i \in Target(event)}

ProcessEvents ==
  /\ inbound # <<>>
  /\ outbound' = outbound \o FlattenSeq([i \in DOMAIN inbound |-> SetToSeq(Routed(inbound[i]))])
  /\ inbound' = <<>>
  /\ UNCHANGED <<patches, tree, app, made, dropped>>

DrainOutbound ==
  /\ outbound # <<>>
  /\ outbound' = <<>>
  /\ UNCHANGED <<inbound, patches, tree, app, made, dropped>>

-------------------------------------------------------------------------------
\* Patches

Patched(node, patch) ==
  IF node.id = {patch.widget} /\ node.kind = patch.on
  THEN [node EXCEPT !.text = patch.text]
  ELSE node

\* One turn of apply_patches, for all but FullReplace.  SetVisible changes
\* nothing yet.
Apply(nodes, patch) ==
  IF patch.kind = "set" THEN [i \in DOMAIN nodes |-> Patched(nodes[i], patch)] ELSE nodes

\* What a patch does to the picture the app has.
Draw(nodes, patch) ==
  IF patch.kind = "replace" THEN patch.nodes ELSE Apply(nodes, patch)

PushPatch(patch) ==
  /\ made < MaxPatches
  /\ made' = made + 1
  /\ patches' = Append(patches, patch)
  /\ app' = Draw(app, patch)
  /\ UNCHANGED <<inbound, outbound, tree, dropped>>

\* SetText and SetButtonLabel of a widget the app knows, SetVisible.
Update ==
  \/ \E i \in DOMAIN app, kind \in {"text", "button"} : \E id \in app[i].id :
       PushPatch([kind |-> "set", on |-> kind, widget |-> id, text |-> made + 1])
  \/ PushPatch([kind |-> "visible"])

\* FullReplace carries JSON of the app's making, which parses or does not.
Replace ==
  \E doc \in Documents, parses \in BOOLEAN :
    PushPatch([kind |-> "replace", nodes |-> Build(doc, made + 1), parses |-> parses])

Replacements == {i \in DOMAIN patches : patches[i].kind = "replace"}
FirstReplacements == {i \in Replacements : \A j \in Replacements : i <= j}

\* Fault: one patch is applied in a frame, and all are drained.
RenderFirst ==
  /\ patches # <<>> /\ Replacements = {}
  /\ tree' = Apply(tree, Head(patches))
  /\ patches' = <<>>
  /\ UNCHANGED <<inbound, outbound, app, made, dropped>>

\* Fault: one patch is taken per frame, from the wrong end of the queue.
RenderNewest ==
  /\ patches # <<>> /\ Replacements = {}
  /\ tree' = Apply(tree, Last(patches))
  /\ patches' = Front(patches)
  /\ UNCHANGED <<inbound, outbound, app, made, dropped>>

\* drain_patches and apply_patches: without a FullReplace, all are applied.
Render ==
  /\ patches # <<>> /\ Replacements = {}
  /\ tree' = FoldLeft(Apply, tree, patches)
  /\ patches' = <<>>
  /\ UNCHANGED <<inbound, outbound, app, made, dropped>>

\* Fault: events stay in the bridge when the tree is built anew.
RerenderKeepingEvents ==
  \E i \in FirstReplacements :
    /\ patches[i].parses
    /\ tree' = patches[i].nodes
    /\ dropped' = (i < Len(patches))
    /\ patches' = <<>>
    /\ UNCHANGED <<inbound, outbound, app, made>>

\* apply_patches returns at the first FullReplace; its caller builds the tree
\* anew and clears the bridge.
Rerender ==
  \E i \in FirstReplacements :
    /\ patches[i].parses
    /\ tree' = patches[i].nodes
    /\ dropped' = (i < Len(patches))
    /\ inbound' = <<>> /\ outbound' = <<>> /\ patches' = <<>>
    /\ UNCHANGED <<app, made>>

\* The same when the JSON does not parse: the patches before it are applied, it
\* and those behind it are lost, and nothing is built anew.
RefuseReplacement ==
  \E i \in FirstReplacements :
    /\ ~patches[i].parses
    /\ tree' = FoldLeft(Apply, tree, SubSeq(patches, 1, i - 1))
    /\ patches' = <<>>
    /\ dropped' = TRUE
    /\ UNCHANGED <<inbound, outbound, app, made>>

-------------------------------------------------------------------------------

Next ==
  \/ \E point \in Points : Click(point)
  \/ \E i \in DOMAIN tree : TypeText(i)
  \/ HoverOrKey
  \/ ProcessEvents \/ DrainOutbound
  \/ Update \/ Replace
  \/ Render \/ Rerender \/ RefuseReplacement

Spec == Init /\ [][Next]_vars

-------------------------------------------------------------------------------

Trees == {Build(doc, 0) : doc \in Documents}
AsBuilt(nodes) == [i \in DOMAIN nodes |-> [nodes[i] EXCEPT !.text = 0]]

(***************************************************************************)
(* A tree is a document with texts, of patches that were made; the queues  *)
(* hold what their bounds allow.                                           *)
(***************************************************************************)
TypeOK ==
  /\ AsBuilt(tree) \in Trees /\ AsBuilt(app) \in Trees
  /\ \A i \in DOMAIN tree : tree[i].text \in 0..made
  /\ made \in 0..MaxPatches /\ dropped \in BOOLEAN
  /\ Len(inbound) + Len(outbound) <= MaxEvents /\ Len(patches) <= made
  /\ \A i \in DOMAIN outbound : outbound[i].action \in STRING

(***************************************************************************)
(* A callback calls for the widget that was clicked or typed into when it  *)
(* was, though the tree may be replaced before the event is processed      *)
(* (process_events, and clear on a full re-render).                        *)
(***************************************************************************)
CallbacksAreMeant ==
  \A i \in DOMAIN outbound :
    outbound[i].meant = {<<outbound[i].action, outbound[i].widget>>}

(***************************************************************************)
(* What is on display, with the patches waiting, is what the app takes to  *)
(* be on display, unless patches were lost behind the last FullReplace or  *)
(* with it (drain_patches, apply_patches).                                 *)
(***************************************************************************)
PatchesCatchUp == ~dropped => FoldLeft(Draw, tree, patches) = app

(***************************************************************************)
(* The text of a widget is never set back to an earlier one, as long as    *)
(* the widget stays where it is (drain_patches keeps the order of pushes). *)
(***************************************************************************)
TextsNeverGoBack ==
  [][\A i \in DOMAIN tree \cap DOMAIN tree' :
       tree[i].id = tree'[i].id => tree[i].text <= tree'[i].text]_vars
===============================================================================
