----------------------------- MODULE WidgetLayout -----------------------------
(***************************************************************************)
(* From a document to the boxes of its widgets and to the entity tree      *)
(* (gui-renderer/src/widget_system.rs LayoutEngine, uidl_to_ecs.rs         *)
(* build_ecs_tree).  Lengths are in tenths of a pixel, in which a line of  *)
(* text of n pixels is 14 n high; the width of a column is rounded down.   *)
(* A widget is a record with its kind, its children, and the options its   *)
(* kind has: a gap, a padding or a size, as a set of at most one length.   *)
(***************************************************************************)
EXTENDS Integers, Sequences, SequencesExt, FiniteSetsExt

CONSTANTS Widgets,    \* the widgets of the documents there are, at any depth
          Depth,      \* of a widget: how deep it is nested
          MaxDepth    \* UidlDocument::parse refuses what is nested deeper

Pixel == 10

DefaultFontSize == 14
DefaultButtonHeight == 36 * Pixel
DefaultInputHeight == 32 * Pixel
DefaultPadding == 8 * Pixel
DefaultGap == 8 * Pixel

Kinds == {"text", "button", "input", "spacer", "vstack", "hstack"}
Containers == {"vstack", "hstack"}
Children(widget) == IF widget.kind \in Containers THEN widget.children ELSE <<>>
IsControl(widget) == widget.kind \in {"button", "input"}

\* Options are unsigned, and a stack is nested deeper than its children.
ASSUME WidgetsAssumption ==
  /\ MaxDepth \in Nat /\ Depth \in [Widgets -> 0..MaxDepth]
  /\ \A w \in Widgets :
       /\ w.kind \in Kinds
       /\ w.kind \in {"text", "spacer"} => w.size \subseteq Nat
       /\ w.kind \in Containers => w.gap \subseteq Nat
       /\ w.kind = "vstack" => w.padding \subseteq Nat
       /\ Children(w) \in Seq(Widgets)
       /\ \A i \in DOMAIN Children(w) : Depth[Children(w)[i]] < Depth[w]

Option(set, default) == IF set = {} THEN default ELSE CHOOSE x \in set : TRUE
Gap(widget) == Option(widget.gap, DefaultGap)
Padding(widget) == Option(widget.padding, DefaultPadding)
NotNegative(n) == IF n < 0 THEN 0 ELSE n

\* The sums of the first lengths of a sequence: of none, of one ...
Sums(lengths) ==
  LET sum[n \in 0..Len(lengths)] == IF n = 0 THEN 0 ELSE sum[n - 1] + lengths[n] IN sum

Total(lengths) == Sums(lengths)[Len(lengths)]
Highest(lengths) == Max({0} \cup ToSet(lengths))

\* Fault: the padding is left out.
StackedTight(widget, heights) ==
  Total(heights) + Gap(widget) * NotNegative(Len(heights) - 1)

\* The height of a column: its children, the gaps between, padding around.
Stacked(widget, heights) ==
  Total(heights) + Gap(widget) * NotNegative(Len(heights) - 1) + 2 * Padding(widget)

\* The height of a widget whose children have these heights.
HeightOver(widget, heights) ==
  CASE widget.kind = "text" -> 14 * Option(widget.size, DefaultFontSize)
    [] widget.kind = "button" -> DefaultButtonHeight
    [] widget.kind = "input" -> DefaultInputHeight
    [] widget.kind = "spacer" -> Option(widget.size, DefaultGap)
    [] widget.kind = "vstack" -> Stacked(widget, heights)
    [] widget.kind = "hstack" -> Highest(heights)

NaturalHeight[widget \in Widgets] ==
  HeightOver(widget, [i \in DOMAIN Children(widget) |-> NaturalHeight[Children(widget)[i]]])

ChildHeights(widget) == [i \in DOMAIN Children(widget) |-> NaturalHeight[Children(widget)[i]]]

\* The box of a column's i-th child: as wide as there is room, as high as it
\* wants, below those before it.
InColumn(widget, box, i) ==
  LET pad == Padding(widget) IN
  [x |-> box.x + pad,
   y |-> box.y + pad + Sums(ChildHeights(widget))[i - 1] + (i - 1) * Gap(widget),
   width |-> NotNegative(box.width - 2 * pad),
   height |-> NaturalHeight[Children(widget)[i]]]

\* Fault: the gaps are not taken from the width that is shared.
InWideRow(widget, box, i) ==
  LET width == box.width \div Len(Children(widget)) IN
  [x |-> box.x + (i - 1) * width, y |-> box.y, width |-> width + Gap(widget),
   height |-> box.height]

\* Of a row's: an equal share of the width the gaps leave, and all the height.
InRow(widget, box, i) ==
  LET n == Len(Children(widget))
      width == NotNegative((box.width - Gap(widget) * (n - 1)) \div n)
  IN [x |-> box.x + (i - 1) * (width + Gap(widget)), y |-> box.y, width |-> width,
      height |-> box.height]

ChildBox(widget, box, i) ==
  IF widget.kind = "vstack" THEN InColumn(widget, box, i) ELSE InRow(widget, box, i)

Boxes == [x : Nat, y : Nat, width : Nat, height : Nat]

\* A widget and its box, and then, in order, those of all below it.
LayoutWidget[widget \in Widgets] ==
  [box \in Boxes |->
     <<[widget |-> widget, box |-> box]>> \o
       FlattenSeq([i \in DOMAIN Children(widget) |->
                     LayoutWidget[Children(widget)[i]][ChildBox(widget, box, i)]])]

LayoutDocument(doc, width, height) ==
  LayoutWidget[doc][[x |-> 0, y |-> 0, width |-> width, height |-> height]]

-------------------------------------------------------------------------------
\* The entity tree, from the flat list of widgets and boxes

\* Fault: only one frame is popped, and only when a child comes too late.
PopLate(stack) ==
  IF stack # <<>> /\ Last(stack).assigned > Last(stack).expected THEN Front(stack) ELSE stack

\* Frames whose children have all been assigned are popped off the top.
PopFull(stack) ==
  LET open == {n \in DOMAIN stack : stack[n].assigned < stack[n].expected}
  IN IF open = {} THEN <<>> ELSE SubSeq(stack, 1, Max(open))

Counted(stack) ==
  IF stack = <<>> THEN stack ELSE [stack EXCEPT ![Len(stack)].assigned = @ + 1]

\* One turn of build_nodes_from_pairs: a node, its parent's list, the stack.
AddNode(built, pair) ==
  LET index == Len(built.nodes) + 1
      parent == IF built.stack = <<>> THEN 0 ELSE Last(built.stack).node
      node == [widget |-> pair.widget, box |-> pair.box, parent |-> parent, children |-> <<>>]
      known == IF parent = 0 THEN built.nodes
               ELSE [built.nodes EXCEPT ![parent].children = Append(@, index)]
      stack == PopFull(Counted(built.stack))
      frame == [node |-> index, expected |-> Len(Children(pair.widget)), assigned |-> 0]
  IN [nodes |-> Append(known, node),
      stack |-> IF frame.expected > 0 THEN Append(stack, frame) ELSE stack]

\* What there is after each turn.
Turns(pairs) ==
  LET built[n \in 0..Len(pairs)] ==
        IF n = 0 THEN [nodes |-> <<>>, stack |-> <<>>] ELSE AddNode(built[n - 1], pairs[n])
  IN built

BuildTree(doc, width, height) ==
  LET pairs == LayoutDocument(doc, width, height) IN Turns(pairs)[Len(pairs)].nodes
===============================================================================
