----------------------------- MODULE MCUiPipeline -----------------------------
\* Two windows, three states of an app, a cache of two documents.
EXTENDS UiPipeline

MCWindows == {"w1", "w2"}
MCCacheKeys == {"k1", "k2", "k3"}

Text(size) == [kind |-> "text", size |-> size]
Button == [kind |-> "button"]
Input == [kind |-> "input"]
Spacer(size) == [kind |-> "spacer", size |-> size]
VStack(gap, padding, children) ==
  [kind |-> "vstack", gap |-> gap, padding |-> padding, children |-> children]
HStack(gap, children) == [kind |-> "hstack", gap |-> gap, children |-> children]

Gaps == {{}, {0}, {40}}

\* Stacks in stacks: empty ones, a stack as the last child, one followed by a
\* control, columns of rows ...
Columns(g, p) ==
  VStack(g, p, <<VStack(g, {}, <<>>), HStack(g, <<Button, Input, Text({})>>),
                 VStack({}, p, <<Text({20}), HStack({}, <<>>), Input>>), Button>>)

\* ... rows of columns, whose paddings take more than there is ...
Rows(g, p) ==
  HStack(g, <<VStack(g, {120}, <<HStack(g, <<Input, VStack({}, p, <<Button>>)>>), Spacer({160})>>),
              Button, VStack(g, p, <<Button, Spacer({}), Input>>)>>)

\* ... and a chain of stacks that end together, with a control after it.
Chain(g, p) ==
  VStack(g, p, <<HStack(g, <<VStack(g, p, <<HStack(g, <<Button, Input>>)>>)>>), Button>>)

\* Three states of an app whose documents differ.
MCApps ==
  {[k1 |-> Columns(g, p), k2 |-> Rows(g, p), k3 |-> Chain(g, p)] : g \in Gaps, p \in {{}, {0}}}

RECURSIVE Within(_)
Within(widget) == {widget} \cup UNION {Within(w) : w \in ToSet(Children(widget))}

RECURSIVE Nesting(_)
Nesting(widget) == Max({0} \cup {1 + Nesting(w) : w \in ToSet(Children(widget))})

MCWidgets == UNION {Within(app[key]) : app \in MCApps, key \in MCCacheKeys}
MCDepth == [w \in MCWidgets |-> Nesting(w)]

\* A desktop, and windows with little room in one direction.
MCCanvases == {<<3000, 4000>>, <<290, 4000>>, <<800, 400>>}
===============================================================================
