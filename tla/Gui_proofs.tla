------------------------------ MODULE Gui_proofs -------------------------------
(***************************************************************************)
(* The event bridge, for any documents and any order of events, frames,    *)
(* patches and re-renderings; the cache that windows share, for any number *)
(* of windows, keys and entries; and what they show, for any documents and *)
(* any size of canvas.                                                     *)
(*                                                                         *)
(* What folds and recursive functions compute is shown by induction,       *)
(* stated of sets of numbers or of widgets (SetInduction, WidgetInduction) *)
(* as the provers know no operators: a function that takes one element     *)
(* after another, or a widget after its children, exists, and is the one   *)
(* the definition chooses.                                                 *)
(***************************************************************************)
EXTENDS EventBridge, UiPipeline, TLAPS, FiniteSetTheorems, SequenceTheorems, WellFoundedInduction

-------------------------------------------------------------------------------
\* Induction

LEMMA SetInduction ==
  ASSUME NEW S, 0 \in S, \A n \in Nat : n \in S => n + 1 \in S
  PROVE  Nat \subseteq S
  <1> DEFINE Missing == Nat \ S
  <1> SUFFICES ASSUME Missing # {} PROVE FALSE
    OBVIOUS
  <1>1. PICK x \in Missing : \A y \in Missing : ~(<<y, x>> \in OpToRel(<, Nat))
    <2>1. IsWellFoundedOn(OpToRel(<, Nat), Nat)
      BY NatLessThanWellFounded
    <2>2. Missing \subseteq Nat
      OBVIOUS
    <2> HIDE DEF Missing
    <2> QED BY <2>1, <2>2, WFMin
  <1>2. \A y \in Missing : ~(y < x)
    BY <1>1 DEF OpToRel
  <1>3. x \in Nat /\ x # 0
    OBVIOUS
  <1>4. x - 1 \in Nat /\ x - 1 < x /\ (x - 1) + 1 = x
    BY <1>3
  <1>5. x - 1 \in S
    BY <1>2, <1>4
  <1> QED BY <1>4, <1>5

\* A set of positions has a last one (hit_test goes through the nodes from the
\* last to the first).
LEMMA IntervalHasMax ==
  ASSUME NEW n \in Nat, NEW S \in SUBSET (1..n), S # {}
  PROVE  /\ Max(S) \in S
         /\ \A y \in S : y <= Max(S)
  <1> DEFINE Ok == {m \in Nat : \A T \in SUBSET (1..m) : T # {} => \E x \in T : \A y \in T : x >= y}
  <1>1. 0 \in Ok
    <2>1. 1..0 = {}
      OBVIOUS
    <2> QED BY <2>1
  <1>2. ASSUME NEW m \in Nat, m \in Ok PROVE m + 1 \in Ok
    <2> SUFFICES ASSUME NEW T \in SUBSET (1..(m+1)), T # {}
                 PROVE  \E x \in T : \A y \in T : x >= y
      OBVIOUS
    <2>1. CASE m + 1 \in T
      BY <2>1
    <2>2. CASE m + 1 \notin T
      <3>1. T \in SUBSET (1..m)
        BY <2>2
      <3> QED BY <1>2, <3>1
    <2> QED BY <2>1, <2>2
  <1> HIDE DEF Ok
  <1>3. n \in Ok
    BY <1>1, <1>2, SetInduction
  <1>4. \E x \in S : \A y \in S : x >= y
    BY <1>3 DEF Ok
  <1>5. /\ Max(S) \in S
        /\ \A y \in S : Max(S) >= y
    BY <1>4 DEF Max
  <1> QED BY <1>5

-------------------------------------------------------------------------------
\* FoldLeft

\* The function FoldLeft(Draw, base, s) evaluates, on sets of positions.
DrawIter(f, base, s, n) ==
  f = [S \in SUBSET (1..n) |-> IF S = {} THEN base ELSE Draw(f[S \ {Max(S)}], s[Max(S)])]

LEMMA DrawIterExists ==
  ASSUME NEW base, NEW s, NEW n \in Nat
  PROVE  \E f : DrawIter(f, base, s, n)
  <1> DEFINE Ok == {m \in Nat : \E f : DrawIter(f, base, s, m)}
  <1>1. 0 \in Ok
    <2> DEFINE f == [S \in SUBSET (1..0) |-> base]
    <2>1. SUBSET (1..0) = {{}}
      OBVIOUS
    <2>2. DrawIter(f, base, s, 0)
      BY <2>1 DEF DrawIter
    <2> QED BY <2>2
  <1>2. ASSUME NEW m \in Nat, m \in Ok PROVE m + 1 \in Ok
    <2>1. PICK f : DrawIter(f, base, s, m)
      BY <1>2
    <2> DEFINE k == m + 1
               g == [S \in SUBSET (1..k) |->
                       IF k \in S THEN Draw(f[S \ {k}], s[k]) ELSE f[S]]
    <2>2. ASSUME NEW S \in SUBSET (1..k)
          PROVE  g[S] = IF S = {} THEN base ELSE Draw(g[S \ {Max(S)}], s[Max(S)])
      <3>1. CASE k \in S
        <4>1. Max(S) = k
          <5>1. k \in Nat /\ S # {} /\ S \subseteq 1..k
            BY <3>1
          <5> HIDE DEF k, g
          <5>2. Max(S) \in S /\ \A y \in S : y <= Max(S)
            BY <5>1, IntervalHasMax
          <5>3. Max(S) \in 1..k /\ k <= Max(S)
            BY <3>1, <5>1, <5>2
          <5> QED BY <5>1, <5>3
        <4>2. S \ {k} \in SUBSET (1..k) /\ k \notin S \ {k}
          OBVIOUS
        <4>3. g[S \ {k}] = f[S \ {k}]
          BY <4>2
        <4> QED BY <3>1, <4>1, <4>3
      <3>2. CASE k \notin S
        <4>1. S \in SUBSET (1..m)
          BY <3>2
        <4>2. g[S] = f[S]
          BY <3>2
        <4>3. CASE S = {}
          BY <2>1, <4>1, <4>2, <4>3 DEF DrawIter
        <4>4. CASE S # {}
          <5>1. Max(S) \in S
            BY <4>1, <4>4, IntervalHasMax
          <5>2. S \ {Max(S)} \in SUBSET (1..k) /\ k \notin S \ {Max(S)}
            BY <3>2
          <5>3. g[S \ {Max(S)}] = f[S \ {Max(S)}]
            BY <5>2
          <5>4. f[S] = Draw(f[S \ {Max(S)}], s[Max(S)])
            BY <2>1, <4>1, <4>4 DEF DrawIter
          <5> QED BY <4>2, <4>4, <5>3, <5>4
        <4> QED BY <4>3, <4>4
      <3> QED BY <3>1, <3>2
    <2>3. DrawIter(g, base, s, k)
      BY <2>2 DEF DrawIter
    <2> HIDE DEF g
    <2> QED BY <2>3
  <1> HIDE DEF Ok
  <1>3. n \in Ok
    BY <1>1, <1>2, SetInduction
  <1> QED BY <1>3 DEF Ok

\* It takes one element after another.
LEMMA DrawIterSteps ==
  ASSUME NEW f, NEW base, NEW s, NEW n \in Nat, DrawIter(f, base, s, n)
  PROVE  /\ f[1..0] = base
         /\ \A j \in 1..n : f[1..j] = Draw(f[1..(j - 1)], s[j])
  <1>1. f[1..0] = base
    <2>1. 1..0 = {} /\ {} \in SUBSET (1..n)
      OBVIOUS
    <2> QED BY <2>1 DEF DrawIter
  <1>2. ASSUME NEW j \in 1..n PROVE f[1..j] = Draw(f[1..(j - 1)], s[j])
    <2>1. 1..j \in SUBSET (1..n) /\ 1..j # {} /\ j \in Nat /\ j \in 1..j
      OBVIOUS
    <2>2. Max(1..j) \in 1..j /\ \A y \in 1..j : y <= Max(1..j)
      BY <2>1, IntervalHasMax
    <2>3. Max(1..j) = j
      BY <2>1, <2>2
    <2>4. (1..j) \ {j} = 1..(j - 1)
      BY <2>1
    <2> QED BY <2>1, <2>3, <2>4 DEF DrawIter
  <1> QED BY <1>1, <1>2

LEMMA FoldDrawIter ==
  ASSUME NEW base, NEW s, NEW n \in Nat, DOMAIN s = 1..n
  PROVE  \E f : DrawIter(f, base, s, n) /\ FoldLeft(Draw, base, s) = f[1..n]
  <1> DEFINE g == CHOOSE f : DrawIter(f, base, s, n)
  <1>1. FoldLeft(Draw, base, s) = g[1..n]
    BY DEF FoldLeft, MapThenFoldSet, DrawIter
  <1>2. DrawIter(g, base, s, n)
    BY DrawIterExists
  <1> QED BY <1>1, <1>2

\* Without a FullReplace, apply_patches does what the app's drawing does.
LEMMA FoldApplyIter ==
  ASSUME NEW base, NEW s, NEW n \in Nat, DOMAIN s = 1..n,
         \A i \in 1..n : s[i].kind # "replace"
  PROVE  \E f : DrawIter(f, base, s, n) /\ FoldLeft(Apply, base, s) = f[1..n]
  <1> DEFINE ApplyIter(f) ==
               f = [S \in SUBSET (1..n) |->
                      IF S = {} THEN base ELSE Apply(f[S \ {Max(S)}], s[Max(S)])]
             g == CHOOSE f : ApplyIter(f)
  <1>1. FoldLeft(Apply, base, s) = g[1..n]
    BY DEF FoldLeft, MapThenFoldSet
  <1>2. ASSUME NEW f PROVE DrawIter(f, base, s, n) <=> ApplyIter(f)
    <2>1. ASSUME NEW S \in SUBSET (1..n), S # {}
          PROVE  Draw(f[S \ {Max(S)}], s[Max(S)]) = Apply(f[S \ {Max(S)}], s[Max(S)])
      <3>1. Max(S) \in 1..n
        BY <2>1, IntervalHasMax
      <3> QED BY <3>1 DEF Draw
    <2>2. \A S \in SUBSET (1..n) :
            (IF S = {} THEN base ELSE Draw(f[S \ {Max(S)}], s[Max(S)])) =
            (IF S = {} THEN base ELSE Apply(f[S \ {Max(S)}], s[Max(S)]))
      BY <2>1
    <2> QED BY <2>2 DEF DrawIter
  <1>3. \E f : ApplyIter(f)
    BY <1>2, DrawIterExists
  <1>4. ApplyIter(g)
    BY <1>3
  <1> QED BY <1>1, <1>2, <1>4

\* Two folds over sequences that agree on the first n elements agree there.
LEMMA DrawItersAgree ==
  ASSUME NEW base, NEW s, NEW t, NEW n \in Nat, NEW m \in Nat, n <= m,
         \A i \in 1..n : s[i] = t[i]
  PROVE  \A f, g : DrawIter(f, base, s, n) /\ DrawIter(g, base, t, m) => f[1..n] = g[1..n]
  <1> SUFFICES ASSUME NEW f, NEW g, DrawIter(f, base, s, n), DrawIter(g, base, t, m)
               PROVE  f[1..n] = g[1..n]
    OBVIOUS
  <1> DEFINE Ok == {j \in Nat : j <= n => f[1..j] = g[1..j]}
  <1>1. 0 \in Ok
    BY DrawIterSteps
  <1>2. ASSUME NEW j \in Nat, j \in Ok PROVE j + 1 \in Ok
    <2> SUFFICES ASSUME j + 1 <= n PROVE f[1..(j + 1)] = g[1..(j + 1)]
      OBVIOUS
    <2>1. j + 1 \in 1..n /\ j + 1 \in 1..m /\ (j + 1) - 1 = j
      OBVIOUS
    <2>2. f[1..(j + 1)] = Draw(f[1..j], s[j + 1]) /\ g[1..(j + 1)] = Draw(g[1..j], t[j + 1])
      BY <2>1, DrawIterSteps
    <2>3. f[1..j] = g[1..j] /\ s[j + 1] = t[j + 1]
      BY <1>2, <2>1
    <2> QED BY <2>2, <2>3
  <1> HIDE DEF Ok
  <1>3. n \in Ok
    BY <1>1, <1>2, SetInduction
  <1> QED BY <1>3 DEF Ok

LEMMA FoldDrawEmpty ==
  ASSUME NEW base
  PROVE  FoldLeft(Draw, base, <<>>) = base
  <1>1. DOMAIN <<>> = 1..0
    OBVIOUS
  <1>2. PICK f : DrawIter(f, base, <<>>, 0) /\ FoldLeft(Draw, base, <<>>) = f[1..0]
    BY <1>1, FoldDrawIter
  <1> QED BY <1>2, DrawIterSteps

LEMMA FoldDrawAppend ==
  ASSUME NEW base, NEW S, NEW s \in Seq(S), NEW e \in S
  PROVE  FoldLeft(Draw, base, Append(s, e)) = Draw(FoldLeft(Draw, base, s), e)
  <1> DEFINE n == Len(s)
             t == Append(s, e)
  <1>1. n \in Nat /\ DOMAIN s = 1..n
    BY LenProperties
  <1>2. /\ t \in Seq(S) /\ Len(t) = n + 1
        /\ \A i \in 1..n : s[i] = t[i]
        /\ t[n + 1] = e
    BY AppendProperties
  <1>3. DOMAIN t = 1..(n + 1)
    BY <1>2, LenProperties
  <1> HIDE DEF n, t
  <1>4. n + 1 \in Nat /\ n <= n + 1 /\ n + 1 \in 1..(n + 1) /\ (n + 1) - 1 = n
    BY <1>1
  <1>5. PICK f : DrawIter(f, base, s, n) /\ FoldLeft(Draw, base, s) = f[1..n]
    BY <1>1, FoldDrawIter
  <1>6. PICK g : DrawIter(g, base, t, n + 1) /\ FoldLeft(Draw, base, t) = g[1..(n + 1)]
    BY <1>3, <1>4, FoldDrawIter
  <1>7. g[1..(n + 1)] = Draw(g[1..n], e)
    BY <1>2, <1>4, <1>6, DrawIterSteps
  <1>8. \A ff, gg : DrawIter(ff, base, s, n) /\ DrawIter(gg, base, t, n + 1) => ff[1..n] = gg[1..n]
    BY <1>1, <1>2, <1>4, DrawItersAgree
  <1> QED BY <1>5, <1>6, <1>7, <1>8 DEF t

LEMMA FoldApplyIsFoldDraw ==
  ASSUME NEW base, NEW s, NEW n \in Nat, DOMAIN s = 1..n,
         \A i \in 1..n : s[i].kind # "replace"
  PROVE  FoldLeft(Apply, base, s) = FoldLeft(Draw, base, s)
  <1>1. PICK f : DrawIter(f, base, s, n) /\ FoldLeft(Draw, base, s) = f[1..n]
    BY FoldDrawIter
  <1>2. PICK g : DrawIter(g, base, s, n) /\ FoldLeft(Apply, base, s) = g[1..n]
    BY FoldApplyIter
  <1>3. \A ff, gg : DrawIter(ff, base, s, n) /\ DrawIter(gg, base, s, n) => ff[1..n] = gg[1..n]
    BY DrawItersAgree
  <1> QED BY <1>1, <1>2, <1>3

-------------------------------------------------------------------------------
\* FlattenSeq and SetToSeq

\* The function FlattenSeq evaluates, on the first m of some sequences.
FlattenIter(f, ss, m) == f = [i \in 1..m |-> IF i = 1 THEN ss[i] ELSE f[i-1] \o ss[i]]

LEMMA FlattenIterExists ==
  ASSUME NEW ss, NEW n \in Nat
  PROVE  \E f : FlattenIter(f, ss, n)
  <1> DEFINE Ok == {m \in Nat : \E f : FlattenIter(f, ss, m)}
  <1>1. 0 \in Ok
    <2>1. 1..0 = {}
      OBVIOUS
    <2>2. FlattenIter([i \in 1..0 |-> <<>>], ss, 0)
      BY <2>1 DEF FlattenIter
    <2> QED BY <2>2
  <1>2. ASSUME NEW m \in Nat, m \in Ok PROVE m + 1 \in Ok
    <2>1. PICK f : FlattenIter(f, ss, m)
      BY <1>2
    <2> DEFINE k == m + 1
               g == [i \in 1..k |-> IF i \in 1..m THEN f[i]
                                    ELSE IF i = 1 THEN ss[i] ELSE f[i-1] \o ss[i]]
    <2>2. ASSUME NEW i \in 1..k PROVE g[i] = IF i = 1 THEN ss[i] ELSE g[i-1] \o ss[i]
      <3>1. i # 1 => i - 1 \in 1..m /\ g[i-1] = f[i-1]
        OBVIOUS
      <3>2. CASE i \in 1..m
        <4>1. g[i] = f[i]
          BY <3>2
        <4>2. f[i] = IF i = 1 THEN ss[i] ELSE f[i-1] \o ss[i]
          BY <2>1, <3>2 DEF FlattenIter
        <4> QED BY <3>1, <4>1, <4>2
      <3>3. CASE i \notin 1..m
        <4>1. g[i] = IF i = 1 THEN ss[i] ELSE f[i-1] \o ss[i]
          BY <3>3
        <4> QED BY <3>1, <4>1
      <3> QED BY <3>2, <3>3
    <2>3. FlattenIter(g, ss, k)
      BY <2>2 DEF FlattenIter
    <2> HIDE DEF g
    <2> QED BY <2>3
  <1> HIDE DEF Ok
  <1>3. n \in Ok
    BY <1>1, <1>2, SetInduction
  <1> QED BY <1>3 DEF Ok

\* Short sequences, one after another, are no longer than their number.
LEMMA FlattenShort ==
  ASSUME NEW S, NEW n \in Nat, NEW ss \in [1..n -> Seq(S)], Len(ss) = n,
         \A i \in 1..n : Len(ss[i]) <= 1
  PROVE  FlattenSeq(ss) \in Seq(S) /\ Len(FlattenSeq(ss)) <= n
  <1>1. CASE n = 0
    <2>1. FlattenSeq(ss) = ss
      BY <1>1 DEF FlattenSeq
    <2>2. ss = <<>>
      BY <1>1
    <2> QED BY <1>1, <2>1, <2>2
  <1>2. CASE n # 0
    <2> DEFINE f == CHOOSE f : FlattenIter(f, ss, n)
    <2>1. FlattenSeq(ss) = f[n]
      BY <1>2 DEF FlattenSeq, FlattenIter
    <2>2. FlattenIter(f, ss, n)
      BY FlattenIterExists
    <2> HIDE DEF f
    <2> DEFINE Ok == {m \in Nat : m \in 1..n => f[m] \in Seq(S) /\ Len(f[m]) <= m}
    <2>3. 0 \in Ok
      OBVIOUS
    <2>4. ASSUME NEW m \in Nat, m \in Ok PROVE m + 1 \in Ok
      <3> SUFFICES ASSUME m + 1 \in 1..n
                   PROVE  f[m + 1] \in Seq(S) /\ Len(f[m + 1]) <= m + 1
        OBVIOUS
      <3>0. ss[m + 1] \in Seq(S) /\ Len(ss[m + 1]) <= 1
        OBVIOUS
      <3>1. CASE m = 0
        <4>1. f[m + 1] = ss[m + 1]
          BY <2>2, <3>1 DEF FlattenIter
        <4> QED BY <3>0, <3>1, <4>1
      <3>2. CASE m # 0
        <4>1. m \in 1..n /\ (m + 1) - 1 = m /\ m + 1 # 1
          BY <3>2
        <4>2. f[m + 1] = f[m] \o ss[m + 1]
          BY <2>2, <4>1 DEF FlattenIter
        <4>3. f[m] \in Seq(S) /\ Len(f[m]) <= m
          BY <2>4, <4>1
        <4>4. /\ f[m] \o ss[m + 1] \in Seq(S)
              /\ Len(f[m] \o ss[m + 1]) = Len(f[m]) + Len(ss[m + 1])
          BY <3>0, <4>3, ConcatProperties
        <4>5. Len(f[m]) \in Nat /\ Len(ss[m + 1]) \in Nat
          BY <3>0, <4>3, LenProperties
        <4>6. f[m + 1] \in Seq(S)
          BY <4>2, <4>4
        <4>7. Len(f[m + 1]) = Len(f[m]) + Len(ss[m + 1])
          BY <4>2, <4>4
        <4>8. \A a, b \in Nat : a <= m /\ b <= 1 => a + b <= m + 1
          OBVIOUS
        <4> QED BY <3>0, <4>3, <4>5, <4>6, <4>7, <4>8
      <3> QED BY <3>1, <3>2
    <2> HIDE DEF Ok
    <2>5. n \in Ok
      BY <2>3, <2>4, SetInduction
    <2>6. n \in 1..n
      BY <1>2
    <2> QED BY <2>1, <2>5, <2>6 DEF Ok
  <1> QED BY <1>1, <1>2

LEMMA SetToSeqShort ==
  ASSUME NEW S, NEW T \in SUBSET S, \A x, y \in T : x = y
  PROVE  SetToSeq(T) \in Seq(S) /\ Len(SetToSeq(T)) <= 1
  <1> DEFINE n == Cardinality(T)
  <1>1. n \in {0, 1} /\ \E f \in [1..n -> T] : IsInjective(f)
    <2>1. CASE T = {}
      <3>1. n = 0
        BY <2>1, FS_EmptySet
      <3>2. [i \in 1..0 |-> 0] \in [1..0 -> T]
        OBVIOUS
      <3>3. IsInjective([i \in 1..0 |-> 0])
        BY DEF IsInjective
      <3> QED BY <3>1, <3>2, <3>3
    <2>2. CASE T # {}
      <3>1. PICK x \in T : T = {x}
        BY <2>2
      <3>2. n = 1
        BY <3>1, FS_Singleton
      <3>3. [i \in 1..1 |-> x] \in [1..1 -> T]
        OBVIOUS
      <3>4. IsInjective([i \in 1..1 |-> x])
        BY DEF IsInjective
      <3> QED BY <3>2, <3>3, <3>4
    <2> QED BY <2>1, <2>2
  <1>2. SetToSeq(T) \in [1..n -> T]
    BY <1>1 DEF SetToSeq
  <1> HIDE DEF n
  <1>3. SetToSeq(T) \in [1..n -> S]
    BY <1>2
  <1>4. SetToSeq(T) \in Seq(S) /\ Len(SetToSeq(T)) = n
    BY <1>1, <1>3
  <1> QED BY <1>1, <1>4

-------------------------------------------------------------------------------
\* The invariant

TreeNodes == [kind : STRING, id : SUBSET STRING, action : SUBSET STRING, text : Nat]

\* What can be on display: the nodes of a document, with any texts.
ShownAs(doc) ==
  {t \in [DOMAIN doc -> TreeNodes] :
     \A i \in DOMAIN doc :
       t[i].kind = doc[i].kind /\ t[i].id = doc[i].id /\ t[i].action = doc[i].action}
Displays == UNION {ShownAs(doc) : doc \in Documents}

Calls == STRING \X SUBSET STRING
Events == [kind : {"click"}, at : Points, meant : SUBSET Calls]
          \cup [kind : {"text_input"}, entity : Nat, meant : SUBSET Calls]
          \cup [kind : {"other"}]
Updates == [kind : {"set"}, on : {"text", "button"}, widget : STRING, text : Nat]
           \cup [kind : {"visible"}]
Patches == Updates \cup [kind : {"replace"}, nodes : Displays, parses : BOOLEAN]
MeantCalls == {c \in [action : STRING, widget : SUBSET STRING, meant : SUBSET Calls] :
                 c.meant = {<<c.action, c.widget>>}}

BridgeTypes ==
  /\ tree \in Displays /\ app \in Displays
  /\ inbound \in Seq(Events) /\ outbound \in Seq(MeantCalls) /\ patches \in Seq(Patches)
  /\ made \in 0..MaxPatches /\ dropped \in BOOLEAN
  /\ Len(inbound) + Len(outbound) <= MaxEvents /\ Len(patches) <= made

\* Where a tree routes an event, and to what effect.
TargetIn(t, e) ==
  CASE e.kind = "click" ->
         LET under == {i \in e.at \cap DOMAIN t : Interactive(t[i])}
         IN IF under = {} THEN {} ELSE {Max(under)}
    [] e.kind = "text_input" -> {e.entity} \cap DOMAIN t
    [] OTHER -> {}
MeantIn(t, e) ==
  {<<a, t[i].id>> : i \in TargetIn(t, e), a \in UNION {t[j].action : j \in TargetIn(t, e)}}

\* An event waits only as long as the nodes it would be routed to stay.
EventsAreMeant ==
  \A i \in 1..Len(inbound) :
    inbound[i].kind # "other" => inbound[i].meant = MeantIn(tree, inbound[i])

\* Texts on display are older than those of patches waiting, which are in the
\* order in which they were made.
TextsInOrder ==
  /\ \A k \in DOMAIN tree : tree[k].text <= made
  /\ \A i \in 1..Len(patches) :
       /\ patches[i].kind = "set" =>
            /\ patches[i].text <= made
            /\ \A k \in DOMAIN tree : tree[k].text < patches[i].text
            /\ \A j \in 1..Len(patches) :
                 i < j /\ patches[j].kind = "set" => patches[i].text < patches[j].text
       /\ patches[i].kind = "replace" =>
            \A l \in DOMAIN patches[i].nodes :
              /\ patches[i].nodes[l].text <= made
              /\ \A k \in DOMAIN tree : tree[k].text <= patches[i].nodes[l].text

\* A FullReplace that waits makes good what was dropped before.
CaughtUp == ~dropped \/ Replacements # {} => FoldLeft(Draw, tree, patches) = app

IInv == BridgeTypes /\ EventsAreMeant /\ TextsInOrder /\ CaughtUp

-------------------------------------------------------------------------------
\* Documents on display

\* The same nodes, whatever their texts.
SameNodes(t, u) ==
  /\ DOMAIN u = DOMAIN t
  /\ \A i \in DOMAIN t :
       u[i].kind = t[i].kind /\ u[i].id = t[i].id /\ u[i].action = t[i].action

LEMMA DisplayNodes ==
  ASSUME NEW t \in Displays
  PROVE  /\ \E n \in Nat : DOMAIN t = 1..n
         /\ t \in [DOMAIN t -> TreeNodes]
         /\ \A i \in DOMAIN t : \A a, b \in t[i].action : a = b
  <1>1. PICK doc \in Documents : t \in ShownAs(doc)
    BY DEF Displays
  <1>2. /\ DOMAIN t = DOMAIN doc /\ t \in [DOMAIN doc -> TreeNodes]
        /\ \A i \in DOMAIN doc : t[i].action = doc[i].action
    BY <1>1 DEF ShownAs
  <1>3. /\ DOMAIN doc = 1..Len(doc) /\ Len(doc) \in Nat
        /\ \A i \in DOMAIN doc : \A a, b \in doc[i].action : a = b
    BY DocumentsAssumption, LenProperties
  <1> QED BY <1>2, <1>3

LEMMA BuiltIsDisplay ==
  ASSUME NEW doc \in Documents, NEW n \in Nat
  PROVE  Build(doc, n) \in Displays /\ \A i \in DOMAIN Build(doc, n) : Build(doc, n)[i].text = n
  <1>1. \A i \in DOMAIN doc : doc[i] \in [kind : STRING, id : SUBSET STRING, action : SUBSET STRING]
    <2> DEFINE W == [kind : STRING, id : SUBSET STRING, action : SUBSET STRING]
    <2>1. doc \in Seq(W)
      BY DocumentsAssumption
    <2> HIDE DEF W
    <2>2. doc \in [1..Len(doc) -> W] /\ DOMAIN doc = 1..Len(doc)
      BY <2>1, LenProperties
    <2>3. \A i \in DOMAIN doc : doc[i] \in W
      BY <2>2
    <2> QED BY <2>3 DEF W
  <1>2. Build(doc, n) \in ShownAs(doc)
    BY <1>1 DEF Build, ShownAs, TreeNodes
  <1> QED BY <1>2 DEF Displays, Build

LEMMA SameNodesDisplay ==
  ASSUME NEW t \in Displays, NEW u \in [DOMAIN t -> TreeNodes], SameNodes(t, u)
  PROVE  u \in Displays
  <1>1. PICK doc \in Documents : t \in ShownAs(doc)
    BY DEF Displays
  <1>2. u \in ShownAs(doc)
    BY <1>1 DEF ShownAs, SameNodes
  <1> QED BY <1>2 DEF Displays

\* A patch changes texts only, and only to its own.
LEMMA ApplyKeepsNodes ==
  ASSUME NEW t \in Displays, NEW p \in Updates
  PROVE  /\ Apply(t, p) \in Displays /\ SameNodes(t, Apply(t, p))
         /\ \A k \in DOMAIN t :
              \/ Apply(t, p)[k].text = t[k].text
              \/ p.kind = "set" /\ Apply(t, p)[k].text = p.text
  <1>1. CASE p.kind = "set"
    <2> DEFINE u == [i \in DOMAIN t |-> Patched(t[i], p)]
    <2>1. Apply(t, p) = u
      BY <1>1 DEF Apply
    <2>2. p.text \in Nat
      BY <1>1 DEF Updates
    <2>3. ASSUME NEW i \in DOMAIN t
          PROVE  /\ u[i] \in TreeNodes
                 /\ u[i].kind = t[i].kind /\ u[i].id = t[i].id /\ u[i].action = t[i].action
                 /\ u[i].text \in {t[i].text, p.text}
      <3>1. t[i] \in TreeNodes
        BY DisplayNodes
      <3>2. u[i] = t[i] \/ u[i] = [t[i] EXCEPT !.text = p.text]
        BY DEF Patched
      <3> HIDE DEF u
      <3> QED BY <2>2, <3>1, <3>2 DEF TreeNodes
    <2>4. u \in [DOMAIN t -> TreeNodes] /\ SameNodes(t, u)
      BY <2>3 DEF SameNodes
    <2>5. u \in Displays
      BY <2>4, SameNodesDisplay
    <2> HIDE DEF u
    <2> QED BY <1>1, <2>1, <2>3, <2>4, <2>5
  <1>2. CASE p.kind # "set"
    BY <1>2 DEF Apply, SameNodes
  <1> QED BY <1>1, <1>2

LEMMA DrawKeepsDisplays ==
  ASSUME NEW t \in Displays, NEW p \in Patches
  PROVE  Draw(t, p) \in Displays
  <1>1. CASE p.kind = "replace"
    BY <1>1 DEF Draw, Patches, Updates
  <1>2. CASE p.kind # "replace"
    BY <1>2, ApplyKeepsNodes DEF Draw, Patches
  <1> QED BY <1>1, <1>2

-------------------------------------------------------------------------------
\* Events

LEMMA MeantNow ==
  ASSUME NEW e
  PROVE  Target(e) = TargetIn(tree, e) /\ Meaning(Target(e)) = MeantIn(tree, e)
  <1>1. Target(e) = TargetIn(tree, e)
    BY DEF Target, TargetIn, Hit
  <1> QED BY <1>1 DEF Meaning, MeantIn

\* An event is routed to one node at most, one of the tree.
LEMMA TargetIsOneNode ==
  ASSUME NEW t \in Displays, NEW e
  PROVE  TargetIn(t, e) = {} \/ \E i \in DOMAIN t : TargetIn(t, e) = {i}
  <1>1. CASE e.kind = "click"
    <2> DEFINE under == {i \in e.at \cap DOMAIN t : Interactive(t[i])}
    <2>1. TargetIn(t, e) = IF under = {} THEN {} ELSE {Max(under)}
      BY <1>1 DEF TargetIn
    <2>2. PICK n \in Nat : DOMAIN t = 1..n
      BY DisplayNodes
    <2>3. under \in SUBSET (1..n) /\ under \subseteq DOMAIN t
      BY <2>2
    <2>4. under # {} => Max(under) \in under
      <3> HIDE DEF under
      <3> QED BY <2>3, IntervalHasMax
    <2> HIDE DEF under
    <2> QED BY <2>1, <2>3, <2>4
  <1>2. CASE e.kind = "text_input"
    BY <1>2 DEF TargetIn
  <1>3. CASE e.kind \notin {"click", "text_input"}
    BY <1>3 DEF TargetIn
  <1> QED BY <1>1, <1>2, <1>3

\* So it makes one callback at most, the one that was meant.
LEMMA RoutedAsMeant ==
  ASSUME BridgeTypes, NEW e \in Events, e.kind # "other" => e.meant = MeantIn(tree, e)
  PROVE  Routed(e) \in SUBSET MeantCalls /\ \A c, d \in Routed(e) : c = d
  <1>0. Target(e) = TargetIn(tree, e) /\ tree \in Displays
    BY MeantNow DEF BridgeTypes
  <1>1. CASE Target(e) = {}
    BY <1>1 DEF Routed
  <1>2. CASE Target(e) # {}
    <2>1. PICK i \in DOMAIN tree : Target(e) = {i}
      BY <1>0, <1>2, TargetIsOneNode
    <2>2. e.kind # "other"
      BY <1>2 DEF Target
    <2>3. /\ tree[i] \in TreeNodes
          /\ \A a, b \in tree[i].action : a = b
      BY <1>0, DisplayNodes
    <2>4. e.meant = {<<a, tree[i].id>> : a \in tree[i].action}
      BY <1>0, <2>1, <2>2 DEF MeantIn
    <2>5. Routed(e) = {[action |-> a, widget |-> tree[i].id, meant |-> e.meant] : a \in tree[i].action}
      BY <2>1 DEF Routed, Callbacks
    <2>6. ASSUME NEW a \in tree[i].action
          PROVE  [action |-> a, widget |-> tree[i].id, meant |-> e.meant] \in MeantCalls
      <3>1. e.meant = {<<a, tree[i].id>>}
        BY <2>3, <2>4
      <3>2. a \in STRING /\ tree[i].id \in SUBSET STRING
        BY <2>3 DEF TreeNodes
      <3>3. e.meant \in SUBSET Calls
        BY <3>1, <3>2 DEF Calls
      <3> QED BY <3>1, <3>2, <3>3 DEF MeantCalls
    <2>7. \A c, d \in Routed(e) : c = d
      BY <2>3, <2>5
    <2> QED BY <2>5, <2>6, <2>7
  <1> QED BY <1>1, <1>2

\* Where an event is routed depends on the nodes, not on their texts.
LEMMA TargetsStay ==
  ASSUME NEW t \in Displays, NEW u, SameNodes(t, u), NEW e
  PROVE  MeantIn(u, e) = MeantIn(t, e)
  <1>1. DOMAIN u = DOMAIN t
    BY DEF SameNodes
  <1>2. \A i \in DOMAIN t :
          u[i].kind = t[i].kind /\ u[i].id = t[i].id /\ u[i].action = t[i].action
    BY DEF SameNodes
  <1>3. {i \in e.at \cap DOMAIN u : Interactive(u[i])} =
        {i \in e.at \cap DOMAIN t : Interactive(t[i])}
    BY <1>1, <1>2 DEF Interactive
  <1>4. TargetIn(u, e) = TargetIn(t, e)
    BY <1>1, <1>3 DEF TargetIn
  <1>5. TargetIn(t, e) \subseteq DOMAIN t
    BY TargetIsOneNode
  <1>6. UNION {u[j].action : j \in TargetIn(t, e)} = UNION {t[j].action : j \in TargetIn(t, e)}
    BY <1>2, <1>5
  <1> DEFINE acts == UNION {t[j].action : j \in TargetIn(t, e)}
  <1>7. {<<a, u[i].id>> : i \in TargetIn(t, e), a \in acts} =
        {<<a, t[i].id>> : i \in TargetIn(t, e), a \in acts}
    BY <1>2, <1>5
  <1>8. MeantIn(u, e) = {<<a, u[i].id>> : i \in TargetIn(t, e),
                            a \in UNION {u[j].action : j \in TargetIn(t, e)}}
    BY <1>4 DEF MeantIn
  <1>9. MeantIn(t, e) = {<<a, t[i].id>> : i \in TargetIn(t, e), a \in acts}
    BY DEF MeantIn
  <1>10. MeantIn(u, e) = {<<a, u[i].id>> : i \in TargetIn(t, e), a \in acts}
    BY <1>6, <1>8
  <1> HIDE DEF acts
  <1> QED BY <1>7, <1>9, <1>10

-------------------------------------------------------------------------------
\* Steps

LEMMA InitIInv == Init => IInv
  <1> SUFFICES ASSUME Init PROVE IInv
    OBVIOUS
  <1>1. PICK doc \in Documents : tree = Build(doc, 0)
    BY DEF Init
  <1>2. tree \in Displays /\ \A i \in DOMAIN tree : tree[i].text = 0
    BY <1>1, BuiltIsDisplay
  <1>3. BridgeTypes
    <2>1. inbound = <<>> /\ outbound = <<>> /\ patches = <<>>
      BY DEF Init
    <2>2. /\ inbound \in Seq(Events) /\ outbound \in Seq(MeantCalls) /\ patches \in Seq(Patches)
          /\ Len(inbound) = 0 /\ Len(outbound) = 0 /\ Len(patches) = 0
      BY <2>1, EmptySeq
    <2>3. made = 0 /\ dropped = FALSE /\ app = tree
      BY DEF Init
    <2>4. dropped \in BOOLEAN
      BY <2>3
    <2>5. /\ made \in 0..MaxPatches /\ Len(inbound) + Len(outbound) <= MaxEvents
          /\ Len(patches) <= made
      BY <2>2, <2>3, BridgeAssumption
    <2> QED BY <1>2, <2>2, <2>3, <2>4, <2>5 DEF BridgeTypes
  <1>4. EventsAreMeant
    BY DEF Init, EventsAreMeant
  <1>5. TextsInOrder
    BY <1>2 DEF Init, TextsInOrder
  <1>6. CaughtUp
    BY FoldDrawEmpty DEF Init, CaughtUp
  <1> QED BY <1>3, <1>4, <1>5, <1>6 DEF IInv

\* An event is pushed with what it means on the tree of that moment.
LEMMA PushEventIInv ==
  ASSUME IInv, NEW e \in Events, PushEvent(e),
         e.kind # "other" => e.meant = MeantIn(tree, e)
  PROVE  IInv'
  <1> USE DEF IInv
  <1>1. /\ inbound' = Append(inbound, e)
        /\ UNCHANGED <<outbound, patches, tree, app, made, dropped>>
        /\ Len(inbound) + Len(outbound) < MaxEvents
    BY DEF PushEvent
  <1>2. /\ inbound' \in Seq(Events) /\ Len(inbound') = Len(inbound) + 1
        /\ \A i \in 1..Len(inbound) : inbound'[i] = inbound[i]
        /\ inbound'[Len(inbound) + 1] = e
    BY <1>1, AppendProperties DEF BridgeTypes
  <1>3. Len(inbound) \in Nat /\ Len(outbound) \in Nat
    BY LenProperties DEF BridgeTypes
  <1>4. Len(inbound') + Len(outbound') <= MaxEvents
    BY <1>1, <1>2, <1>3, BridgeAssumption
  <1>5. BridgeTypes'
    BY <1>1, <1>2, <1>4 DEF BridgeTypes
  <1>6. EventsAreMeant'
    <2> SUFFICES ASSUME NEW i \in 1..Len(inbound'), inbound'[i].kind # "other"
                 PROVE  inbound'[i].meant = MeantIn(tree, inbound'[i])
      BY <1>1 DEF EventsAreMeant
    <2>1. CASE i \in 1..Len(inbound)
      BY <1>2, <2>1 DEF EventsAreMeant
    <2>2. CASE i = Len(inbound) + 1
      BY <1>2, <2>2
    <2> QED BY <1>2, <1>3, <2>1, <2>2
  <1>7. TextsInOrder'
    BY <1>1 DEF TextsInOrder
  <1>8. CaughtUp'
    BY <1>1 DEF CaughtUp, Replacements
  <1> QED BY <1>5, <1>6, <1>7, <1>8

LEMMA MeaningType ==
  ASSUME BridgeTypes, NEW nodes \in SUBSET DOMAIN tree
  PROVE  Meaning(nodes) \in SUBSET Calls
  <1>1. \A i \in DOMAIN tree : tree[i].id \in SUBSET STRING /\ tree[i].action \in SUBSET STRING
    BY DisplayNodes DEF BridgeTypes, TreeNodes
  <1> QED BY <1>1 DEF Meaning, Calls

LEMMA EventsIInv ==
  ASSUME IInv, \/ \E point \in Points : Click(point)
               \/ \E i \in DOMAIN tree : TypeText(i)
               \/ HoverOrKey
  PROVE  IInv'
  <1>1. ASSUME NEW point \in Points, Click(point) PROVE IInv'
    <2> DEFINE under == {i \in point \cap DOMAIN tree : Interactive(tree[i])}
               e == [kind |-> "click", at |-> point, meant |-> Meaning(Hit(point))]
    <2>1. PICK n \in Nat : DOMAIN tree = 1..n
      BY DisplayNodes DEF IInv, BridgeTypes
    <2>2. under # {} => Max(under) \in under
      <3>1. under \in SUBSET (1..n)
        BY <2>1
      <3> HIDE DEF under
      <3> QED BY <3>1, IntervalHasMax
    <2>3. Hit(point) \in SUBSET DOMAIN tree
      BY <2>2 DEF Hit
    <2>4. Meaning(Hit(point)) \in SUBSET Calls
      BY <2>3, MeaningType DEF IInv
    <2>5. e \in Events
      BY <2>4 DEF Events
    <2>6. e.meant = MeantIn(tree, e)
      <3>1. Target(e) = Hit(point)
        BY DEF Target
      <3> QED BY <3>1, MeantNow
    <2>7. PushEvent(e)
      BY <1>1 DEF Click
    <2> HIDE DEF e
    <2> QED BY <2>5, <2>6, <2>7, PushEventIInv
  <1>2. ASSUME NEW i \in DOMAIN tree, TypeText(i) PROVE IInv'
    <2> DEFINE e == [kind |-> "text_input", entity |-> i, meant |-> Meaning({i})]
    <2>0. {i} \in SUBSET DOMAIN tree /\ BridgeTypes /\ tree \in Displays
      BY DEF IInv, BridgeTypes
    <2>1. Meaning({i}) \in SUBSET Calls /\ i \in Nat
      <3>1. PICK n \in Nat : DOMAIN tree = 1..n
        BY <2>0, DisplayNodes
      <3> QED BY <2>0, <3>1, MeaningType
    <2>2. e \in Events
      BY <2>1 DEF Events
    <2>3. Target(e) = {i}
      BY DEF Target
    <2>4. e.meant = MeantIn(tree, e)
      BY <2>3, MeantNow
    <2>5. PushEvent(e)
      BY <1>2 DEF TypeText
    <2> HIDE DEF e
    <2> QED BY <2>2, <2>4, <2>5, PushEventIInv
  <1>3. ASSUME HoverOrKey PROVE IInv'
    <2> DEFINE e == [kind |-> "other"]
    <2>1. e \in Events /\ e.kind = "other" /\ PushEvent(e)
      BY <1>3 DEF Events, HoverOrKey
    <2> HIDE DEF e
    <2> QED BY <2>1, PushEventIInv
  <1> QED BY <1>1, <1>2, <1>3

LEMMA ProcessEventsIInv ==
  ASSUME IInv, ProcessEvents
  PROVE  IInv'
  <1> USE DEF IInv
  <1> DEFINE n == Len(inbound)
             ss == [i \in DOMAIN inbound |-> SetToSeq(Routed(inbound[i]))]
  <1>1. /\ inbound' = <<>> /\ outbound' = outbound \o FlattenSeq(ss)
        /\ UNCHANGED <<patches, tree, app, made, dropped>>
    BY DEF ProcessEvents
  <1>2. n \in Nat /\ DOMAIN inbound = 1..n /\ \A i \in 1..n : inbound[i] \in Events
    BY LenProperties DEF BridgeTypes
  <1>3. ASSUME NEW i \in 1..n PROVE ss[i] \in Seq(MeantCalls) /\ Len(ss[i]) <= 1
    <2>1. inbound[i].kind # "other" => inbound[i].meant = MeantIn(tree, inbound[i])
      BY DEF EventsAreMeant
    <2>2. Routed(inbound[i]) \in SUBSET MeantCalls /\ \A c, d \in Routed(inbound[i]) : c = d
      BY <1>2, <2>1, RoutedAsMeant
    <2>3. ss[i] = SetToSeq(Routed(inbound[i]))
      BY <1>2
    <2> QED BY <2>2, <2>3, SetToSeqShort
  <1>4. ss \in [1..n -> Seq(MeantCalls)] /\ Len(ss) = n
    BY <1>2, <1>3
  <1> HIDE DEF ss, n
  <1>5. FlattenSeq(ss) \in Seq(MeantCalls) /\ Len(FlattenSeq(ss)) <= n
    BY <1>2, <1>3, <1>4, FlattenShort
  <1>6. outbound' \in Seq(MeantCalls) /\ Len(outbound') = Len(outbound) + Len(FlattenSeq(ss))
    BY <1>1, <1>5, ConcatProperties DEF BridgeTypes
  <1>7. /\ Len(outbound) \in Nat /\ Len(FlattenSeq(ss)) \in Nat
        /\ n + Len(outbound) <= MaxEvents
    BY <1>5, LenProperties DEF BridgeTypes, n
  <1>8. Len(inbound') = 0 /\ inbound' \in Seq(Events)
    BY <1>1
  <1>9. Len(inbound') + Len(outbound') <= MaxEvents
    BY <1>2, <1>5, <1>6, <1>7, <1>8, BridgeAssumption
  <1>10. BridgeTypes'
    BY <1>1, <1>6, <1>8, <1>9 DEF BridgeTypes
  <1>11. EventsAreMeant'
    BY <1>8 DEF EventsAreMeant
  <1>12. TextsInOrder'
    BY <1>1 DEF TextsInOrder
  <1>13. CaughtUp'
    BY <1>1 DEF CaughtUp, Replacements
  <1> QED BY <1>10, <1>11, <1>12, <1>13

LEMMA DrainOutboundIInv ==
  ASSUME IInv, DrainOutbound
  PROVE  IInv'
  <1> USE DEF IInv
  <1>1. /\ outbound' = <<>> /\ UNCHANGED <<inbound, patches, tree, app, made, dropped>>
    BY DEF DrainOutbound
  <1>2. Len(outbound') = 0 /\ outbound' \in Seq(MeantCalls)
    BY <1>1
  <1>3. Len(inbound) \in Nat /\ Len(outbound) \in Nat
    BY LenProperties DEF BridgeTypes
  <1>4. Len(inbound') + Len(outbound') <= MaxEvents
    BY <1>1, <1>2, <1>3, BridgeAssumption DEF BridgeTypes
  <1>5. BridgeTypes'
    BY <1>1, <1>2, <1>4 DEF BridgeTypes
  <1>6. EventsAreMeant'
    BY <1>1 DEF EventsAreMeant
  <1>7. TextsInOrder'
    BY <1>1 DEF TextsInOrder
  <1>8. CaughtUp'
    BY <1>1 DEF CaughtUp, Replacements
  <1> QED BY <1>5, <1>6, <1>7, <1>8

\* A new patch has the next number.
LEMMA PushPatchIInv ==
  ASSUME IInv, NEW p \in Patches, PushPatch(p),
         p.kind = "set" => p.text = made + 1,
         p.kind = "replace" => \A l \in DOMAIN p.nodes : p.nodes[l].text = made + 1
  PROVE  IInv'
  <1> USE DEF IInv
  <1> DEFINE n == Len(patches)
  <1>1. /\ made < MaxPatches /\ made' = made + 1
        /\ patches' = Append(patches, p) /\ app' = Draw(app, p)
        /\ UNCHANGED <<inbound, outbound, tree, dropped>>
    BY DEF PushPatch
  <1>2. /\ patches' \in Seq(Patches) /\ Len(patches') = n + 1
        /\ \A i \in 1..n : patches'[i] = patches[i]
        /\ patches'[n + 1] = p
    BY <1>1, AppendProperties DEF BridgeTypes
  <1>3. n \in Nat /\ made \in Nat /\ n <= made
    BY LenProperties, BridgeAssumption DEF BridgeTypes
  <1>4. made' \in 0..MaxPatches /\ Len(patches') <= made'
    BY <1>1, <1>2, <1>3, BridgeAssumption
  <1>5. app' \in Displays
    BY <1>1, DrawKeepsDisplays DEF BridgeTypes
  <1>6. BridgeTypes'
    BY <1>1, <1>2, <1>4, <1>5 DEF BridgeTypes
  <1>7. EventsAreMeant'
    BY <1>1 DEF EventsAreMeant
  <1>8. TextsInOrder'
    <2>1. \A k \in DOMAIN tree : tree[k].text \in Nat /\ tree[k].text <= made
      BY DisplayNodes DEF TextsInOrder, BridgeTypes, TreeNodes
    <2>2. \A k \in DOMAIN tree' : tree'[k].text <= made'
      BY <1>1, <1>3, <2>1
    <2>3. ASSUME NEW i \in 1..Len(patches'), patches'[i].kind = "set"
          PROVE  /\ patches'[i].text <= made'
                 /\ \A k \in DOMAIN tree' : tree'[k].text < patches'[i].text
                 /\ \A j \in 1..Len(patches') :
                      i < j /\ patches'[j].kind = "set" => patches'[i].text < patches'[j].text
      <3>1. CASE i \in 1..n
        <4>1. /\ patches'[i] = patches[i] /\ patches[i].text <= made
              /\ \A k \in DOMAIN tree : tree[k].text < patches[i].text
              /\ \A j \in 1..n : i < j /\ patches[j].kind = "set" => patches[i].text < patches[j].text
          BY <1>2, <2>3, <3>1 DEF TextsInOrder
        <4>2. patches[i].text \in Nat
          <5>1. patches[i] \in Patches /\ patches[i].kind = "set"
            BY <3>1, <4>1, <2>3, ElementOfSeq DEF BridgeTypes
          <5> QED BY <5>1 DEF Patches, Updates
        <4>3. patches'[i].text <= made'
          BY <1>1, <1>3, <4>1, <4>2
        <4>4. ASSUME NEW j \in 1..Len(patches'), i < j, patches'[j].kind = "set"
              PROVE  patches'[i].text < patches'[j].text
          <5>1. CASE j \in 1..n
            BY <1>2, <4>1, <4>4, <5>1
          <5>2. CASE j \notin 1..n
            <6>1. j = n + 1
              BY <1>2, <1>3, <5>2
            <6>2. patches'[j].text = made + 1
              BY <1>2, <4>4, <6>1
            <6> QED BY <1>3, <4>1, <4>2, <6>2
          <5> QED BY <5>1, <5>2
        <4> QED BY <1>1, <4>1, <4>3, <4>4
      <3>2. CASE i \notin 1..n
        <4>1. i = n + 1
          BY <1>2, <1>3, <3>2
        <4>2. patches'[i].text = made + 1
          BY <1>2, <2>3, <4>1
        <4>3. \A j \in 1..Len(patches') : ~(i < j)
          BY <1>2, <1>3, <4>1
        <4> QED BY <1>1, <1>3, <2>1, <4>2, <4>3
      <3> QED BY <3>1, <3>2
    <2>4. ASSUME NEW i \in 1..Len(patches'), patches'[i].kind = "replace",
                 NEW l \in DOMAIN patches'[i].nodes
          PROVE  /\ patches'[i].nodes[l].text <= made'
                 /\ \A k \in DOMAIN tree' : tree'[k].text <= patches'[i].nodes[l].text
      <3>1. CASE i \in 1..n
        <4>1. patches'[i] = patches[i]
          BY <1>2, <3>1
        <4>2. /\ patches[i].nodes[l].text <= made
              /\ \A k \in DOMAIN tree : tree[k].text <= patches[i].nodes[l].text
          BY <2>4, <3>1, <4>1 DEF TextsInOrder
        <4>3. patches[i].nodes[l].text \in Nat
          <5>1. patches[i] \in Patches /\ patches[i].kind = "replace"
            BY <2>4, <3>1, <4>1, ElementOfSeq DEF BridgeTypes
          <5>2. patches[i].nodes \in Displays
            BY <5>1 DEF Patches, Updates
          <5> QED BY <2>4, <4>1, <5>2, DisplayNodes DEF TreeNodes
        <4> QED BY <1>1, <1>3, <4>1, <4>2, <4>3
      <3>2. CASE i \notin 1..n
        <4>1. i = n + 1
          BY <1>2, <1>3, <3>2
        <4>2. patches'[i].nodes[l].text = made + 1
          BY <1>2, <2>4, <4>1
        <4> QED BY <1>1, <1>3, <2>1, <4>2
      <3> QED BY <3>1, <3>2
    <2> QED BY <2>2, <2>3, <2>4 DEF TextsInOrder
  <1>9. CaughtUp'
    <2> SUFFICES ASSUME ~dropped' \/ Replacements' # {}
                 PROVE  FoldLeft(Draw, tree', patches') = app'
      BY DEF CaughtUp
    <2>1. FoldLeft(Draw, tree', patches') = Draw(FoldLeft(Draw, tree, patches), p)
      BY <1>1, FoldDrawAppend DEF BridgeTypes
    <2>2. CASE p.kind = "replace"
      BY <1>1, <2>1, <2>2 DEF Draw
    <2>3. CASE p.kind # "replace"
      <3>1. ~dropped \/ Replacements # {}
        <4>1. CASE ~dropped'
          BY <1>1, <4>1
        <4>2. CASE Replacements' # {}
          <5>1. PICK i \in DOMAIN patches' : patches'[i].kind = "replace"
            BY <4>2 DEF Replacements
          <5>2. DOMAIN patches' = 1..(n + 1) /\ DOMAIN patches = 1..n
            BY <1>2, <1>6, LenProperties DEF BridgeTypes
          <5>3. i \in 1..n
            BY <1>2, <1>3, <2>3, <5>1, <5>2
          <5>4. i \in Replacements
            BY <1>2, <5>1, <5>2, <5>3 DEF Replacements
          <5> QED BY <5>4
        <4> QED BY <4>1, <4>2
      <3>2. FoldLeft(Draw, tree, patches) = app
        BY <3>1 DEF CaughtUp
      <3> QED BY <1>1, <2>1, <3>2
    <2> QED BY <2>2, <2>3
  <1> QED BY <1>6, <1>7, <1>8, <1>9

LEMMA PatchesIInv ==
  ASSUME IInv, Update \/ Replace
  PROVE  IInv'
  <1>1. ASSUME NEW i \in DOMAIN app, NEW kind \in {"text", "button"}, NEW id \in app[i].id,
               PushPatch([kind |-> "set", on |-> kind, widget |-> id, text |-> made + 1])
        PROVE  IInv'
    <2> DEFINE p == [kind |-> "set", on |-> kind, widget |-> id, text |-> made + 1]
    <2>1. id \in STRING
      <3>1. app[i] \in TreeNodes
        BY DisplayNodes DEF IInv, BridgeTypes
      <3>2. app[i].id \in SUBSET STRING
        BY <3>1 DEF TreeNodes
      <3> QED BY <3>2
    <2>2. made + 1 \in Nat
      BY BridgeAssumption DEF IInv, BridgeTypes
    <2>3. p \in Patches /\ p.kind = "set" /\ p.text = made + 1 /\ PushPatch(p)
      BY <1>1, <2>1, <2>2 DEF Patches, Updates
    <2> HIDE DEF p
    <2> QED BY <2>3, PushPatchIInv
  <1>2. ASSUME PushPatch([kind |-> "visible"]) PROVE IInv'
    <2> DEFINE p == [kind |-> "visible"]
    <2>1. p \in Patches /\ p.kind = "visible" /\ PushPatch(p)
      BY <1>2 DEF Patches, Updates
    <2> HIDE DEF p
    <2> QED BY <2>1, PushPatchIInv
  <1>3. ASSUME NEW doc \in Documents, NEW parses \in BOOLEAN,
               PushPatch([kind |-> "replace", nodes |-> Build(doc, made + 1), parses |-> parses])
        PROVE  IInv'
    <2> DEFINE p == [kind |-> "replace", nodes |-> Build(doc, made + 1), parses |-> parses]
    <2>1. made + 1 \in Nat
      BY BridgeAssumption DEF IInv, BridgeTypes
    <2>2. /\ Build(doc, made + 1) \in Displays
          /\ \A l \in DOMAIN Build(doc, made + 1) : Build(doc, made + 1)[l].text = made + 1
      BY <2>1, BuiltIsDisplay
    <2>3. p \in Patches /\ p.kind = "replace" /\ PushPatch(p)
      BY <1>3, <2>2 DEF Patches
    <2>4. \A l \in DOMAIN p.nodes : p.nodes[l].text = made + 1
      BY <2>2
    <2> HIDE DEF p
    <2> QED BY <2>3, <2>4, PushPatchIInv
  <1> QED BY <1>1, <1>2, <1>3 DEF Update, Replace

\* Patches of texts leave the nodes, with texts no older than before and no
\* newer than the newest patch.
LEMMA FoldKeepsNodes ==
  ASSUME NEW t \in Displays, NEW s, NEW n \in Nat, NEW m \in Nat,
         \A i \in 1..n : s[i] \in Updates,
         \A k \in DOMAIN t : t[k].text <= m,
         \A i \in 1..n : s[i].kind = "set" =>
           s[i].text <= m /\ \A k \in DOMAIN t : t[k].text < s[i].text,
         NEW f, DrawIter(f, t, s, n)
  PROVE  /\ f[1..n] \in Displays /\ SameNodes(t, f[1..n])
         /\ \A k \in DOMAIN t : t[k].text <= f[1..n][k].text /\ f[1..n][k].text <= m
  <1> DEFINE Good(u) == /\ u \in Displays /\ SameNodes(t, u)
                        /\ \A k \in DOMAIN t : t[k].text <= u[k].text /\ u[k].text <= m
             Ok == {j \in Nat : j <= n => Good(f[1..j])}
  <1>0. \A k \in DOMAIN t : t[k].text \in Nat
    BY DisplayNodes DEF TreeNodes
  <1>1. 0 \in Ok
    <2>1. Good(t)
      BY <1>0 DEF SameNodes
    <2> HIDE DEF Good
    <2> QED BY <2>1, DrawIterSteps
  <1>2. ASSUME NEW j \in Nat, j \in Ok PROVE j + 1 \in Ok
    <2> SUFFICES ASSUME j + 1 <= n PROVE Good(f[1..(j + 1)])
      OBVIOUS
    <2> DEFINE u == f[1..j]
               p == s[j + 1]
               v == Apply(u, p)
    <2>1. Good(u)
      BY <1>2
    <2>2. j + 1 \in 1..n /\ (j + 1) - 1 = j
      OBVIOUS
    <2>3. p \in Updates
      BY <2>2
    <2>4. f[1..(j + 1)] = v
      <3>1. f[1..(j + 1)] = Draw(u, p)
        BY <2>2, DrawIterSteps
      <3>2. p.kind # "replace"
        BY <2>3 DEF Updates
      <3> QED BY <3>1, <3>2 DEF Draw
    <2>5. /\ v \in Displays /\ SameNodes(u, v)
          /\ \A k \in DOMAIN u : \/ v[k].text = u[k].text
                                 \/ p.kind = "set" /\ v[k].text = p.text
      BY <2>1, <2>3, ApplyKeepsNodes
    <2>6. p.kind = "set" => p.text \in Nat /\ p.text <= m /\ \A k \in DOMAIN t : t[k].text < p.text
      <3>1. p.kind = "set" => p.text \in Nat
        BY <2>3 DEF Updates
      <3> QED BY <2>2, <3>1
    <2> HIDE DEF u, v, p
    <2>7. SameNodes(t, v) /\ DOMAIN u = DOMAIN t
      BY <2>1, <2>5 DEF SameNodes
    <2>8. ASSUME NEW k \in DOMAIN t PROVE t[k].text <= v[k].text /\ v[k].text <= m
      BY <1>0, <2>1, <2>5, <2>6, <2>7
    <2> QED BY <2>4, <2>5, <2>7, <2>8
  <1> HIDE DEF Ok
  <1>3. n \in Ok
    BY <1>1, <1>2, SetInduction
  <1> QED BY <1>3 DEF Ok

LEMMA Rendered ==
  ASSUME IInv, Render
  PROVE  /\ tree' = FoldLeft(Draw, tree, patches)
         /\ tree' \in Displays /\ SameNodes(tree, tree')
         /\ \A k \in DOMAIN tree : tree[k].text <= tree'[k].text /\ tree'[k].text <= made
  <1> USE DEF IInv
  <1> DEFINE n == Len(patches)
  <1>1. n \in Nat /\ DOMAIN patches = 1..n /\ \A i \in 1..n : patches[i] \in Patches
    BY LenProperties DEF BridgeTypes
  <1>2. \A i \in 1..n : patches[i].kind # "replace"
    BY <1>1 DEF Render, Replacements
  <1>3. \A i \in 1..n : patches[i] \in Updates
    BY <1>1, <1>2 DEF Patches
  <1>4. /\ tree \in Displays /\ made \in Nat
        /\ \A k \in DOMAIN tree : tree[k].text <= made
        /\ \A i \in 1..n : patches[i].kind = "set" =>
             patches[i].text <= made /\ \A k \in DOMAIN tree : tree[k].text < patches[i].text
    BY BridgeAssumption DEF BridgeTypes, TextsInOrder
  <1> HIDE DEF n, IInv
  <1>5. tree' = FoldLeft(Draw, tree, patches)
    BY <1>1, <1>2, FoldApplyIsFoldDraw DEF Render
  <1>6. PICK f : DrawIter(f, tree, patches, n) /\ FoldLeft(Draw, tree, patches) = f[1..n]
    BY <1>1, FoldDrawIter
  <1>7. /\ f[1..n] \in Displays /\ SameNodes(tree, f[1..n])
        /\ \A k \in DOMAIN tree : tree[k].text <= f[1..n][k].text /\ f[1..n][k].text <= made
    BY <1>1, <1>3, <1>4, <1>6, FoldKeepsNodes
  <1> QED BY <1>5, <1>6, <1>7

LEMMA RenderIInv ==
  ASSUME IInv, Render
  PROVE  IInv'
  <1>1. /\ patches' = <<>> /\ Replacements = {}
        /\ UNCHANGED <<inbound, outbound, app, made, dropped>>
    BY DEF Render
  <1>2. /\ tree' = FoldLeft(Draw, tree, patches)
        /\ tree' \in Displays /\ SameNodes(tree, tree')
        /\ \A k \in DOMAIN tree : tree[k].text <= tree'[k].text /\ tree'[k].text <= made
    BY Rendered
  <1>3. patches' \in Seq(Patches) /\ Len(patches') = 0
    BY <1>1
  <1>4. BridgeTypes'
    <2>1. Len(patches') <= made'
      BY <1>1, <1>3, BridgeAssumption DEF IInv, BridgeTypes
    <2> QED BY <1>1, <1>2, <1>3, <2>1 DEF IInv, BridgeTypes
  <1>5. EventsAreMeant'
    <2>1. tree \in Displays
      BY DEF IInv, BridgeTypes
    <2>2. \A e : MeantIn(tree', e) = MeantIn(tree, e)
      BY <1>2, <2>1, TargetsStay
    <2>3. \A i \in 1..Len(inbound) :
            inbound[i].kind # "other" => inbound[i].meant = MeantIn(tree, inbound[i])
      BY DEF IInv, EventsAreMeant
    <2> QED BY <1>1, <2>2, <2>3 DEF EventsAreMeant
  <1>6. TextsInOrder'
    <2>1. DOMAIN tree' = DOMAIN tree
      BY <1>2 DEF SameNodes
    <2>2. \A k \in DOMAIN tree' : tree'[k].text <= made'
      BY <1>1, <1>2, <2>1
    <2>3. 1..Len(patches') = {}
      BY <1>3
    <2> QED BY <2>2, <2>3 DEF TextsInOrder
  <1>7. CaughtUp'
    <2>1. Replacements' = {}
      BY <1>1 DEF Replacements
    <2>2. CASE ~dropped
      <3>1. tree' = app
        BY <1>2, <2>2 DEF IInv, CaughtUp
      <3>2. FoldLeft(Draw, tree', patches') = tree'
        BY <1>1, FoldDrawEmpty
      <3> QED BY <1>1, <3>1, <3>2 DEF CaughtUp
    <2>3. CASE dropped
      BY <1>1, <2>1, <2>3 DEF CaughtUp
    <2> QED BY <2>2, <2>3
  <1> QED BY <1>4, <1>5, <1>6, <1>7 DEF IInv

\* Whatever waits behind a FullReplace is dropped, and nothing if that is last.
LEMMA RerenderIInv ==
  ASSUME IInv, Rerender
  PROVE  IInv'
  <1> DEFINE n == Len(patches)
  <1>1. PICK i \in Replacements :
          /\ tree' = patches[i].nodes
          /\ dropped' = (i < n)
          /\ inbound' = <<>> /\ outbound' = <<>> /\ patches' = <<>>
          /\ UNCHANGED <<app, made>>
    BY DEF Rerender, FirstReplacements
  <1>2. n \in Nat /\ DOMAIN patches = 1..n
    BY LenProperties DEF IInv, BridgeTypes
  <1>3. i \in 1..n /\ patches[i].kind = "replace"
    BY <1>2 DEF Replacements
  <1>4. tree' \in Displays
    <2>1. patches[i] \in Patches
      BY <1>3, ElementOfSeq DEF IInv, BridgeTypes
    <2> QED BY <1>1, <1>3, <2>1 DEF Patches, Updates
  <1>5. BridgeTypes'
    <2>1. /\ inbound' \in Seq(Events) /\ outbound' \in Seq(MeantCalls) /\ patches' \in Seq(Patches)
          /\ Len(inbound') = 0 /\ Len(outbound') = 0 /\ Len(patches') = 0
      BY <1>1
    <2>2. Len(inbound') + Len(outbound') <= MaxEvents /\ Len(patches') <= made'
      BY <1>1, <2>1, BridgeAssumption DEF IInv, BridgeTypes
    <2>3. dropped' \in BOOLEAN
      BY <1>1
    <2>4. app' \in Displays /\ made' \in 0..MaxPatches
      BY <1>1 DEF IInv, BridgeTypes
    <2> QED BY <1>4, <2>1, <2>2, <2>3, <2>4 DEF BridgeTypes
  <1>6. EventsAreMeant'
    BY <1>1 DEF EventsAreMeant
  <1>7. TextsInOrder'
    <2>1. \A k \in DOMAIN tree' : tree'[k].text <= made'
      BY <1>1, <1>3 DEF IInv, TextsInOrder
    <2>2. 1..Len(patches') = {}
      BY <1>1
    <2> QED BY <2>1, <2>2 DEF TextsInOrder
  <1>8. CaughtUp'
    <2>1. Replacements' = {}
      BY <1>1 DEF Replacements
    <2>2. CASE dropped'
      BY <2>1, <2>2 DEF CaughtUp
    <2>3. CASE ~dropped'
      <3>1. i = n
        <4>1. ~(i < n)
          BY <1>1, <2>3
        <4>2. \A a \in Nat : \A b \in 1..a : ~(b < a) => b = a
          OBVIOUS
        <4> HIDE DEF n
        <4> QED BY <1>2, <1>3, <4>1, <4>2
      <3>2. FoldLeft(Draw, tree, patches) = app
        BY <1>1 DEF IInv, CaughtUp
      <3>3. PICK f : DrawIter(f, tree, patches, n) /\ FoldLeft(Draw, tree, patches) = f[1..n]
        BY <1>2, FoldDrawIter
      <3>4. f[1..n] = Draw(f[1..(n - 1)], patches[n])
        BY <1>2, <1>3, <3>1, <3>3, DrawIterSteps
      <3>5. app = tree'
        BY <1>1, <1>3, <3>1, <3>2, <3>3, <3>4 DEF Draw
      <3>6. FoldLeft(Draw, tree', patches') = tree'
        BY <1>1, FoldDrawEmpty
      <3> QED BY <1>1, <3>5, <3>6 DEF CaughtUp
    <2> QED BY <2>2, <2>3
  <1> QED BY <1>5, <1>6, <1>7, <1>8 DEF IInv

\* A FullReplace that does not parse leaves the nodes, as patches before it do.
LEMMA Refused ==
  ASSUME IInv, RefuseReplacement
  PROVE  /\ tree' \in Displays /\ SameNodes(tree, tree')
         /\ \A k \in DOMAIN tree : tree[k].text <= tree'[k].text /\ tree'[k].text <= made
  <1>1. PICK i \in FirstReplacements : tree' = FoldLeft(Apply, tree, SubSeq(patches, 1, i - 1))
    BY DEF RefuseReplacement
  <1>2. /\ Len(patches) \in Nat /\ DOMAIN patches = 1..Len(patches)
        /\ \A j \in 1..Len(patches) : patches[j] \in Patches
    BY LenProperties DEF IInv, BridgeTypes
  <1>3. /\ i \in 1..Len(patches)
        /\ \A j \in 1..Len(patches) : patches[j].kind = "replace" => i <= j
    BY <1>2 DEF FirstReplacements, Replacements
  <1> DEFINE n == i - 1
             s == SubSeq(patches, 1, n)
  <1>4. n \in Nat /\ n < i /\ \A j \in 1..n : j \in 1..Len(patches) /\ ~(i <= j)
    BY <1>2, <1>3
  <1>5. DOMAIN s = 1..n /\ \A j \in 1..n : s[j] = patches[j]
    <2>1. patches \in Seq(Patches)
      BY DEF IInv, BridgeTypes
    <2>2. 1 \in 1..(Len(patches) + 1) /\ n \in 0..Len(patches)
      BY <1>2, <1>3
    <2>3. /\ s \in Seq(Patches) /\ Len(s) = n
          /\ \A j \in 1..n : s[j] = patches[j]
      BY <1>2, <1>3, <2>1, <2>2
    <2> QED BY <2>3, LenProperties
  <1> HIDE DEF n, s
  <1>6. \A j \in 1..n : s[j] \in Updates /\ s[j].kind # "replace" /\ s[j] = patches[j]
    BY <1>2, <1>3, <1>4, <1>5 DEF Patches
  <1>7. /\ tree \in Displays /\ made \in Nat
        /\ \A k \in DOMAIN tree : tree[k].text <= made
        /\ \A j \in 1..Len(patches) : patches[j].kind = "set" =>
             patches[j].text <= made /\ \A k \in DOMAIN tree : tree[k].text < patches[j].text
    BY BridgeAssumption DEF IInv, BridgeTypes, TextsInOrder
  <1>8. \A j \in 1..n : s[j].kind = "set" =>
          s[j].text <= made /\ \A k \in DOMAIN tree : tree[k].text < s[j].text
    BY <1>4, <1>6, <1>7
  <1>9. tree' = FoldLeft(Apply, tree, s)
    BY <1>1 DEF n, s
  <1>10. PICK f : DrawIter(f, tree, s, n) /\ FoldLeft(Apply, tree, s) = f[1..n]
    <2>1. n \in Nat /\ DOMAIN s = 1..n
      BY <1>4, <1>5
    <2>2. \A j \in 1..n : s[j].kind # "replace"
      BY <1>6
    <2> QED BY ONLY <2>1, <2>2, FoldApplyIter
  <1>11. /\ f[1..n] \in Displays /\ SameNodes(tree, f[1..n])
         /\ \A k \in DOMAIN tree : tree[k].text <= f[1..n][k].text /\ f[1..n][k].text <= made
    BY <1>4, <1>6, <1>7, <1>8, <1>10, FoldKeepsNodes
  <1> QED BY <1>9, <1>10, <1>11

LEMMA RefuseReplacementIInv ==
  ASSUME IInv, RefuseReplacement
  PROVE  IInv'
  <1>1. patches' = <<>> /\ dropped' = TRUE /\ UNCHANGED <<inbound, outbound, app, made>>
    BY DEF RefuseReplacement
  <1>2. /\ tree' \in Displays /\ SameNodes(tree, tree')
        /\ \A k \in DOMAIN tree : tree[k].text <= tree'[k].text /\ tree'[k].text <= made
    BY Refused
  <1>3. patches' \in Seq(Patches) /\ Len(patches') = 0 /\ 1..Len(patches') = {}
    BY <1>1
  <1>4. BridgeTypes'
    <2>1. Len(patches') <= made'
      BY <1>1, <1>3, BridgeAssumption DEF IInv, BridgeTypes
    <2> QED BY <1>1, <1>2, <1>3, <2>1 DEF IInv, BridgeTypes
  <1>5. EventsAreMeant'
    <2>1. tree \in Displays
      BY DEF IInv, BridgeTypes
    <2>2. \A e : MeantIn(tree', e) = MeantIn(tree, e)
      BY <1>2, <2>1, TargetsStay
    <2>3. \A i \in 1..Len(inbound) :
            inbound[i].kind # "other" => inbound[i].meant = MeantIn(tree, inbound[i])
      BY DEF IInv, EventsAreMeant
    <2> QED BY <1>1, <2>2, <2>3 DEF EventsAreMeant
  <1>6. TextsInOrder'
    <2>1. \A k \in DOMAIN tree' : tree'[k].text <= made'
      BY <1>1, <1>2 DEF SameNodes
    <2> QED BY <1>3, <2>1 DEF TextsInOrder
  <1>7. CaughtUp'
    BY <1>1 DEF CaughtUp, Replacements
  <1> QED BY <1>4, <1>5, <1>6, <1>7 DEF IInv

LEMMA NextIInv == IInv /\ [Next]_vars => IInv'
  <1> SUFFICES ASSUME IInv, [Next]_vars PROVE IInv'
    OBVIOUS
  <1>1. CASE (\E point \in Points : Click(point)) \/ (\E i \in DOMAIN tree : TypeText(i)) \/ HoverOrKey
    BY <1>1, EventsIInv
  <1>2. CASE ProcessEvents
    BY <1>2, ProcessEventsIInv
  <1>3. CASE DrainOutbound
    BY <1>3, DrainOutboundIInv
  <1>4. CASE Update \/ Replace
    BY <1>4, PatchesIInv
  <1>5. CASE Render
    BY <1>5, RenderIInv
  <1>6. CASE Rerender
    BY <1>6, RerenderIInv
  <1>7. CASE RefuseReplacement
    BY <1>7, RefuseReplacementIInv
  <1>8. CASE UNCHANGED vars
    BY <1>8 DEF IInv, BridgeTypes, EventsAreMeant, TextsInOrder, CaughtUp, Replacements, vars
  <1> QED BY <1>1, <1>2, <1>3, <1>4, <1>5, <1>6, <1>7, <1>8 DEF Next

LEMMA BridgeInvariance == Spec => []IInv
  BY InitIInv, NextIInv, PTL DEF Spec

-------------------------------------------------------------------------------

\* Whatever the events and patches, what is on display is a document, its texts
\* are of patches that were made, and the queues keep their bounds.
THEOREM BridgeTypeInvariance == Spec => []TypeOK
  <1>1. ASSUME NEW t \in Displays PROVE AsBuilt(t) \in Trees
    <2>1. PICK doc \in Documents : t \in ShownAs(doc)
      BY DEF Displays
    <2>2. /\ DOMAIN t = DOMAIN doc /\ t \in [DOMAIN doc -> TreeNodes]
          /\ \A i \in DOMAIN doc :
               t[i].kind = doc[i].kind /\ t[i].id = doc[i].id /\ t[i].action = doc[i].action
      BY <2>1 DEF ShownAs
    <2>3. \A i \in DOMAIN doc :
            [t[i] EXCEPT !.text = 0] =
            [kind |-> doc[i].kind, id |-> doc[i].id, action |-> doc[i].action, text |-> 0]
      BY <2>2 DEF TreeNodes
    <2>4. AsBuilt(t) = Build(doc, 0)
      BY <2>2, <2>3 DEF AsBuilt, Build
    <2> QED BY <2>4 DEF Trees
  <1>2. IInv => TypeOK
    <2> SUFFICES ASSUME IInv PROVE TypeOK
      OBVIOUS
    <2>1. AsBuilt(tree) \in Trees /\ AsBuilt(app) \in Trees
      BY <1>1 DEF IInv, BridgeTypes
    <2>2. \A i \in DOMAIN tree : tree[i].text \in 0..made
      <3>1. \A i \in DOMAIN tree : tree[i].text \in Nat
        BY DisplayNodes DEF IInv, BridgeTypes, TreeNodes
      <3>2. \A i \in DOMAIN tree : tree[i].text <= made
        BY DEF IInv, TextsInOrder
      <3>3. made \in Nat
        BY BridgeAssumption DEF IInv, BridgeTypes
      <3> QED BY <3>1, <3>2, <3>3
    <2>3. \A i \in DOMAIN outbound : outbound[i].action \in STRING
      <3>1. \A i \in DOMAIN outbound : outbound[i] \in MeantCalls
        BY LenProperties, ElementOfSeq DEF IInv, BridgeTypes
      <3> QED BY <3>1 DEF MeantCalls
    <2>4. /\ made \in 0..MaxPatches /\ dropped \in BOOLEAN
          /\ Len(inbound) + Len(outbound) <= MaxEvents /\ Len(patches) <= made
      BY DEF IInv, BridgeTypes
    <2> QED BY <2>1, <2>2, <2>3, <2>4 DEF TypeOK
  <1> QED BY <1>2, BridgeInvariance, PTL

\* However many trees were on display since, a callback is for the widget the
\* user clicked or typed into: process_events routes by the tree of the moment,
\* and events outlive patches of texts but no re-rendering.
THEOREM CallbacksMeant == Spec => []CallbacksAreMeant
  <1>1. IInv => CallbacksAreMeant
    <2> SUFFICES ASSUME IInv PROVE CallbacksAreMeant
      OBVIOUS
    <2>1. \A i \in DOMAIN outbound : outbound[i] \in MeantCalls
      BY LenProperties, ElementOfSeq DEF IInv, BridgeTypes
    <2> QED BY <2>1 DEF MeantCalls, CallbacksAreMeant
  <1> QED BY <1>1, BridgeInvariance, PTL

\* As long as nothing was lost with a FullReplace, applying the patches that wait makes the
\* tree what the app drew (drain_patches and apply_patches in their order).
THEOREM CatchUp == Spec => []PatchesCatchUp
  <1>1. IInv => PatchesCatchUp
    BY DEF IInv, CaughtUp, PatchesCatchUp
  <1> QED BY <1>1, BridgeInvariance, PTL

\* No frame sets the text of a widget that stays back to an earlier one: the
\* texts of patches that wait are all newer, and stay in their order.
THEOREM NoTextGoesBack == Spec => TextsNeverGoBack
  <1>1. IInv /\ [Next]_vars =>
          [\A i \in DOMAIN tree \cap DOMAIN tree' :
             tree[i].id = tree'[i].id => tree[i].text <= tree'[i].text]_vars
    <2> SUFFICES ASSUME IInv, Next, NEW i \in DOMAIN tree \cap DOMAIN tree'
                 PROVE  tree[i].text <= tree'[i].text
      OBVIOUS
    <2>1. CASE tree' = tree
      <3>1. tree[i].text \in Nat
        BY DisplayNodes DEF IInv, BridgeTypes, TreeNodes
      <3> QED BY <2>1, <3>1
    <2>2. CASE Render
      BY <2>2, Rendered
    <2>3. CASE Rerender
      <3>1. PICK r \in Replacements : tree' = patches[r].nodes
        BY <2>3 DEF Rerender, FirstReplacements
      <3>2. r \in 1..Len(patches) /\ patches[r].kind = "replace"
        BY <3>1, LenProperties DEF Replacements, IInv, BridgeTypes
      <3> QED BY <3>1, <3>2 DEF IInv, TextsInOrder
    <2>4. CASE RefuseReplacement
      BY <2>4, Refused
    <2>5. CASE ~Render /\ ~Rerender /\ ~RefuseReplacement
      <3>1. tree' = tree
        BY <2>5 DEF Next, Click, TypeText, HoverOrKey, PushEvent, ProcessEvents, DrainOutbound,
                    Update, Replace, PushPatch
      <3> QED BY <2>1, <3>1
    <2> QED BY <2>2, <2>3, <2>4, <2>5
  <1> QED BY <1>1, BridgeInvariance, PTL DEF Spec, TextsNeverGoBack

-------------------------------------------------------------------------------
\* Orders of keys

NoRepeat(s) == \A i, j \in 1..Len(s) : s[i] = s[j] => i = j

LEMMA SuffixMeans ==
  ASSUME NEW S, NEW s \in Seq(S), NEW t \in Seq(S)
  PROVE  IsSuffix(s, t) <=>
           /\ Len(s) <= Len(t)
           /\ \A i \in 1..Len(s) : s[i] = t[(Len(t) - Len(s)) + i]
  <1> DEFINE m == Len(s)
             n == Len(t)
  <1>1. m \in Nat /\ n \in Nat
    BY LenProperties
  <1>2. /\ Reverse(s) = [i \in 1..m |-> s[(m - i) + 1]]
        /\ Reverse(t) = [i \in 1..n |-> t[(n - i) + 1]]
    BY DEF Reverse
  <1>3. ASSUME NEW u \in Seq(S)
        PROVE  Reverse(u) \in Seq(S) /\ Len(Reverse(u)) = Len(u)
    <2>1. Len(u) \in Nat /\ \A i \in 1..Len(u) : u[i] \in S
      BY LenProperties, ElementOfSeq
    <2>2. \A i \in 1..Len(u) : (Len(u) - i) + 1 \in 1..Len(u)
      BY <2>1
    <2>3. [i \in 1..Len(u) |-> u[(Len(u) - i) + 1]] \in [1..Len(u) -> S]
      BY <2>1, <2>2
    <2> QED BY <2>1, <2>3 DEF Reverse
  <1>4. CASE m <= n
    <2>1. /\ SubSeq(Reverse(s), 1, m) = [i \in 1..m |-> Reverse(s)[i]]
          /\ SubSeq(Reverse(t), 1, m) = [i \in 1..m |-> Reverse(t)[i]]
      <3>1. ASSUME NEW u \in Seq(S), m <= Len(u)
            PROVE  SubSeq(u, 1, m) = [i \in 1..m |-> u[i]]
        <4>1. \A i \in 1..m : u[i] \in S
          BY <1>1, <3>1, LenProperties, ElementOfSeq
        <4>2. /\ SubSeq(u, 1, m) \in Seq(S)
              /\ Len(SubSeq(u, 1, m)) = m
              /\ \A i \in 1..m : SubSeq(u, 1, m)[i] = u[i]
          BY <1>1, <4>1, SubSeqProperties
        <4>3. DOMAIN SubSeq(u, 1, m) = 1..m /\ SubSeq(u, 1, m) \in [1..m -> S]
          BY <4>2, LenProperties
        <4> QED BY <4>2, <4>3
      <3> QED BY <1>1, <1>3, <1>4, <3>1
    <2>2. IsSuffix(s, t) <=> \A i \in 1..m : Reverse(s)[i] = Reverse(t)[i]
      <3>1. IsSuffix(s, t) <=> SubSeq(Reverse(s), 1, m) = SubSeq(Reverse(t), 1, m)
        BY <1>3, <1>4 DEF IsSuffix, IsPrefix
      <3> QED BY <2>1, <3>1
    <2>3. \A i \in 1..m : i \in 1..n
      BY <1>1, <1>4
    <2>4. \A i \in 1..m : Reverse(s)[i] = s[(m - i) + 1] /\ Reverse(t)[i] = t[(n - i) + 1]
      BY <1>2, <2>3
    <2>5. ASSUME \A i \in 1..m : s[(m - i) + 1] = t[(n - i) + 1], NEW i \in 1..m
          PROVE  s[i] = t[(n - m) + i]
      <3>1. /\ (m - i) + 1 \in 1..m
            /\ (m - ((m - i) + 1)) + 1 = i
            /\ (n - ((m - i) + 1)) + 1 = (n - m) + i
        BY <1>1
      <3> HIDE DEF m, n
      <3>2. s[(m - ((m - i) + 1)) + 1] = t[(n - ((m - i) + 1)) + 1]
        BY <2>5, <3>1
      <3> QED BY <3>1, <3>2
    <2>6. ASSUME \A i \in 1..m : s[i] = t[(n - m) + i], NEW i \in 1..m
          PROVE  s[(m - i) + 1] = t[(n - i) + 1]
      <3>1. /\ (m - i) + 1 \in 1..m
            /\ (n - m) + ((m - i) + 1) = (n - i) + 1
        BY <1>1
      <3> HIDE DEF m, n
      <3> QED BY <2>6, <3>1
    <2> QED BY <1>4, <2>2, <2>4, <2>5, <2>6
  <1>5. CASE ~(m <= n)
    BY <1>3, <1>5 DEF IsSuffix, IsPrefix
  <1> QED BY <1>4, <1>5

LEMMA RemoveFirstKeeps ==
  ASSUME NEW S, NEW s \in Seq(S), NEW e, e \notin ToSet(s)
  PROVE  RemoveFirst(s, e) = s
  BY LenProperties DEF RemoveFirst, ToSet

LEMMA RemoveFirstAt ==
  ASSUME NEW S, NEW s \in Seq(S), NoRepeat(s), NEW p \in 1..Len(s)
  PROVE  /\ RemoveFirst(s, s[p]) \in Seq(S)
         /\ Len(RemoveFirst(s, s[p])) = Len(s) - 1
         /\ \A i \in 1..(Len(s) - 1) :
              RemoveFirst(s, s[p])[i] = IF i < p THEN s[i] ELSE s[i + 1]
  <1> DEFINE n == Len(s)
             front == SubSeq(s, 1, p - 1)
             back == SubSeq(s, p + 1, n)
  <1>0. n \in Nat /\ \A i \in 1..n : s[i] \in S
    BY LenProperties, ElementOfSeq
  <1>1. {i \in 1..Len(s) : s[i] = s[p]} = {p}
    BY DEF NoRepeat
  <1>2. Min({p}) = p
    BY DEF Min
  <1>3. RemoveFirst(s, s[p]) = front \o back
    BY <1>1, <1>2 DEF RemoveFirst, RemoveAt, SelectInSeq
  <1>4. /\ front \in Seq(S) /\ Len(front) = p - 1
        /\ \A i \in 1..(p - 1) : front[i] = s[i]
    <2>1. 1 \in Int /\ p - 1 \in Int /\ \A i \in 1..(p - 1) : s[i] \in S
      BY <1>0
    <2>2. /\ SubSeq(s, 1, p - 1) \in Seq(S)
          /\ Len(SubSeq(s, 1, p - 1)) = IF 1 <= p - 1 THEN (p - 1) - 1 + 1 ELSE 0
          /\ \A i \in 1..((p - 1) - 1 + 1) : SubSeq(s, 1, p - 1)[i] = s[1 + i - 1]
      BY <2>1, SubSeqProperties
    <2>3. (IF 1 <= p - 1 THEN (p - 1) - 1 + 1 ELSE 0) = p - 1 /\ (p - 1) - 1 + 1 = p - 1
      OBVIOUS
    <2>4. \A i \in 1..(p - 1) : 1 + i - 1 = i
      OBVIOUS
    <2> QED BY <2>2, <2>3, <2>4
  <1>5. /\ back \in Seq(S) /\ Len(back) = n - p
        /\ \A i \in 1..(n - p) : back[i] = s[p + i]
    <2>1. p + 1 \in Int /\ n \in Int /\ \A i \in (p + 1)..n : s[i] \in S
      BY <1>0
    <2>2. /\ SubSeq(s, p + 1, n) \in Seq(S)
          /\ Len(SubSeq(s, p + 1, n)) = IF p + 1 <= n THEN n - (p + 1) + 1 ELSE 0
          /\ \A i \in 1..(n - (p + 1) + 1) : SubSeq(s, p + 1, n)[i] = s[(p + 1) + i - 1]
      BY <2>1, SubSeqProperties
    <2>3. (IF p + 1 <= n THEN n - (p + 1) + 1 ELSE 0) = n - p /\ n - (p + 1) + 1 = n - p
      BY <1>0
    <2>4. \A i \in 1..(n - p) : (p + 1) + i - 1 = p + i
      BY <1>0
    <2> QED BY <2>2, <2>3, <2>4
  <1> HIDE DEF front, back
  <1>6. /\ front \o back \in Seq(S)
        /\ Len(front \o back) = Len(front) + Len(back)
        /\ \A i \in 1..(Len(front) + Len(back)) :
             (front \o back)[i] = IF i <= Len(front) THEN front[i] ELSE back[i - Len(front)]
    BY <1>4, <1>5, ConcatProperties
  <1>7. (p - 1) + (n - p) = n - 1
    BY <1>0
  <1>8. ASSUME NEW i \in 1..(n - 1)
        PROVE  (front \o back)[i] = IF i < p THEN s[i] ELSE s[i + 1]
    <2>1. (front \o back)[i] = IF i <= p - 1 THEN front[i] ELSE back[i - (p - 1)]
      BY <1>4, <1>5, <1>6, <1>7
    <2>2. CASE i < p
      <3>1. i <= p - 1 /\ i \in 1..(p - 1)
        BY <2>2
      <3> QED BY <1>4, <2>1, <2>2, <3>1
    <2>3. CASE ~(i < p)
      <3>1. /\ ~(i <= p - 1) /\ i - (p - 1) \in 1..(n - p)
            /\ p + (i - (p - 1)) = i + 1
        BY <1>0, <2>3
      <3>2. back[i - (p - 1)] = s[p + (i - (p - 1))]
        BY <1>5, <3>1
      <3> QED BY <2>1, <2>3, <3>1, <3>2
    <2> QED BY <2>2, <2>3
  <1> QED BY <1>3, <1>4, <1>5, <1>6, <1>7, <1>8

\* Of an order without repetition, a key is taken out.
LEMMA Removed ==
  ASSUME NEW S, NEW s \in Seq(S), NoRepeat(s), NEW e
  PROVE  LET r == RemoveFirst(s, e)
         IN /\ r \in Seq(S) /\ NoRepeat(r)
            /\ ToSet(r) = ToSet(s) \ {e}
            /\ Len(r) = IF e \in ToSet(s) THEN Len(s) - 1 ELSE Len(s)
  <1> DEFINE r == RemoveFirst(s, e)
             n == Len(s)
  <1>0. n \in Nat /\ DOMAIN s = 1..n
    BY LenProperties
  <1>1. CASE e \notin ToSet(s)
    BY <1>1, RemoveFirstKeeps
  <1>2. CASE e \in ToSet(s)
    <2>1. PICK p \in 1..n : e = s[p]
      BY <1>0, <1>2 DEF ToSet
    <2>2. /\ r \in Seq(S) /\ Len(r) = n - 1
          /\ \A i \in 1..(n - 1) : r[i] = IF i < p THEN s[i] ELSE s[i + 1]
      BY <2>1, RemoveFirstAt
    <2> HIDE DEF r
    <2>3. DOMAIN r = 1..(n - 1)
      BY <2>2, LenProperties
    <2>4. NoRepeat(r)
      <3> SUFFICES ASSUME NEW i \in 1..(n - 1), NEW j \in 1..(n - 1), r[i] = r[j]
                   PROVE  i = j
        BY <2>2 DEF NoRepeat
      <3> DEFINE at(k) == IF k < p THEN k ELSE k + 1
      <3>1. at(i) \in 1..n /\ at(j) \in 1..n
        BY <1>0
      <3>2. r[i] = s[at(i)] /\ r[j] = s[at(j)]
        BY <2>2
      <3>3. at(i) = at(j)
        <4> HIDE DEF at
        <4> QED BY <3>1, <3>2 DEF NoRepeat
      <3> QED BY <1>0, <3>3
    <2>5. ToSet(r) \subseteq ToSet(s) \ {e}
      <3> SUFFICES ASSUME NEW i \in 1..(n - 1) PROVE r[i] \in ToSet(s) \ {e}
        BY <2>3 DEF ToSet
      <3> DEFINE k == IF i < p THEN i ELSE i + 1
      <3>1. k \in 1..n /\ k # p
        BY <1>0
      <3>2. r[i] = s[k]
        BY <2>2
      <3> HIDE DEF k
      <3>3. s[k] # e
        BY <2>1, <3>1 DEF NoRepeat
      <3> QED BY <1>0, <3>1, <3>2, <3>3 DEF ToSet
    <2>6. ToSet(s) \ {e} \subseteq ToSet(r)
      <3> SUFFICES ASSUME NEW k \in 1..n, s[k] # e PROVE s[k] \in ToSet(r)
        BY <1>0 DEF ToSet
      <3>1. CASE k < p
        <4>1. k \in 1..(n - 1)
          BY <1>0, <3>1
        <4>2. r[k] = s[k]
          BY <2>2, <3>1, <4>1
        <4> QED BY <2>3, <4>1, <4>2 DEF ToSet
      <3>2. CASE k > p
        <4>1. k - 1 \in 1..(n - 1) /\ ~(k - 1 < p) /\ (k - 1) + 1 = k
          BY <1>0, <3>2
        <4>2. r[k - 1] = s[k]
          BY <2>2, <4>1
        <4> QED BY <2>3, <4>1, <4>2 DEF ToSet
      <3> QED BY <1>0, <2>1, <3>1, <3>2
    <2> QED BY <1>2, <2>2, <2>4, <2>5, <2>6 DEF r
  <1> QED BY <1>1, <1>2

LEMMA Appended ==
  ASSUME NEW S, NEW s \in Seq(S), NoRepeat(s), NEW e \in S, e \notin ToSet(s)
  PROVE  LET a == Append(s, e)
         IN a \in Seq(S) /\ NoRepeat(a) /\ ToSet(a) = ToSet(s) \cup {e} /\ Len(a) = Len(s) + 1
  <1> DEFINE a == Append(s, e)
             n == Len(s)
  <1>0. n \in Nat /\ DOMAIN s = 1..n
    BY LenProperties
  <1>1. /\ a \in Seq(S) /\ Len(a) = n + 1
        /\ \A i \in 1..n : a[i] = s[i]
        /\ a[n + 1] = e
    BY AppendProperties
  <1>2. DOMAIN a = 1..(n + 1)
    BY <1>1, LenProperties
  <1>3. \A i \in 1..n : s[i] # e
    BY <1>0 DEF ToSet
  <1> HIDE DEF a
  <1>4. 1..(n + 1) = (1..n) \cup {n + 1} /\ n + 1 \notin 1..n
    BY <1>0
  <1>5. NoRepeat(a)
    BY <1>1, <1>3, <1>4 DEF NoRepeat
  <1>6. ToSet(a) = ToSet(s) \cup {e}
    BY <1>0, <1>1, <1>2, <1>4 DEF ToSet
  <1> QED BY <1>1, <1>5, <1>6 DEF a

LEMMA Tailed ==
  ASSUME NEW S, NEW s \in Seq(S), NoRepeat(s), s # <<>>
  PROVE  /\ Tail(s) \in Seq(S) /\ NoRepeat(Tail(s))
         /\ ToSet(Tail(s)) = ToSet(s) \ {Head(s)} /\ Len(Tail(s)) = Len(s) - 1
         /\ Head(s) \in ToSet(s) /\ IsSuffix(Tail(s), s)
  <1> DEFINE r == Tail(s)
             n == Len(s)
  <1>0. n \in Nat /\ DOMAIN s = 1..n /\ n # 0
    BY LenProperties, EmptySeq
  <1>1. r \in Seq(S) /\ Len(r) = n - 1 /\ \A i \in 1..(n - 1) : r[i] = s[i + 1]
    BY HeadTailProperties
  <1>2. DOMAIN r = 1..(n - 1)
    BY <1>1, LenProperties
  <1>3. Head(s) = s[1] /\ 1 \in 1..n
    BY <1>0
  <1> HIDE DEF r
  <1>4. \A i \in 1..(n - 1) : i + 1 \in 1..n /\ i + 1 # 1
    BY <1>0
  <1>5. NoRepeat(r)
    <2> SUFFICES ASSUME NEW i \in 1..(n - 1), NEW j \in 1..(n - 1), r[i] = r[j]
                 PROVE  i = j
      BY <1>1 DEF NoRepeat
    <2>1. i + 1 = j + 1
      BY <1>1, <1>4 DEF NoRepeat
    <2> QED BY <2>1
  <1>6. ToSet(r) = ToSet(s) \ {Head(s)}
    <2>1. \A i \in 1..(n - 1) : r[i] \in ToSet(s) /\ r[i] # s[1]
      BY <1>0, <1>1, <1>3, <1>4 DEF ToSet, NoRepeat
    <2>2. ASSUME NEW k \in 1..n, k # 1 PROVE s[k] \in ToSet(r)
      <3>1. k - 1 \in 1..(n - 1) /\ (k - 1) + 1 = k
        BY <1>0, <2>2
      <3>2. r[k - 1] = s[k]
        BY <1>1, <3>1
      <3> QED BY <1>2, <3>1, <3>2 DEF ToSet
    <2> QED BY <1>0, <1>2, <1>3, <2>1, <2>2 DEF ToSet
  <1>7. IsSuffix(r, s)
    <2>1. n - (n - 1) = 1 /\ n - 1 <= n
      BY <1>0
    <2>2. \A i \in 1..(n - 1) : r[i] = s[1 + i]
      BY <1>1
    <2> QED BY <1>1, <2>1, <2>2, SuffixMeans
  <1> QED BY <1>0, <1>1, <1>3, <1>5, <1>6, <1>7 DEF r, ToSet

LEMMA KeysCounted ==
  ASSUME NEW S, NEW s \in Seq(S), NoRepeat(s)
  PROVE  Cardinality(ToSet(s)) = Len(s)
  <1>1. Len(s) \in Nat /\ DOMAIN s = 1..Len(s) /\ s \in [1..Len(s) -> S]
    BY LenProperties
  <1>2. s \in [1..Len(s) -> ToSet(s)]
    BY <1>1 DEF ToSet
  <1>3. s \in Injection(1..Len(s), ToSet(s))
    BY <1>1, <1>2 DEF Injection, IsInjective, NoRepeat
  <1>4. s \in Surjection(1..Len(s), ToSet(s))
    BY <1>1, <1>2 DEF Surjection, ToSet
  <1>5. ExistsBijection(1..Len(s), ToSet(s))
    BY <1>3, <1>4 DEF ExistsBijection, Bijection
  <1> QED BY <1>1, <1>5, FS_CountingElements

LEMMA SuffixItself ==
  ASSUME NEW S, NEW s \in Seq(S)
  PROVE  IsSuffix(s, s)
  <1>1. Len(s) \in Nat
    BY LenProperties
  <1>2. Len(s) <= Len(s) /\ \A i \in 1..Len(s) : (Len(s) - Len(s)) + i = i
    BY <1>1
  <1> QED BY <1>2, SuffixMeans

\* A suffix is of keys of the whole, and as long only if it is the whole.
LEMMA SuffixKeys ==
  ASSUME NEW S, NEW s \in Seq(S), NEW t \in Seq(S), IsSuffix(s, t)
  PROVE  /\ Len(s) <= Len(t) /\ ToSet(s) \subseteq ToSet(t)
         /\ Len(s) = Len(t) => s = t
  <1> DEFINE m == Len(s)
             n == Len(t)
  <1>1. m \in Nat /\ n \in Nat /\ DOMAIN s = 1..m /\ DOMAIN t = 1..n
    BY LenProperties
  <1>2. m <= n /\ \A i \in 1..m : s[i] = t[(n - m) + i]
    BY SuffixMeans
  <1> HIDE DEF m, n
  <1>3. ToSet(s) \subseteq ToSet(t)
    <2>1. \A i \in 1..m : (n - m) + i \in 1..n
      BY <1>1, <1>2
    <2> QED BY <1>1, <1>2, <2>1 DEF ToSet
  <1>4. ASSUME m = n PROVE s = t
    <2>1. \A i \in 1..m : (n - m) + i = i
      BY <1>1, <1>4
    <2>2. \A i \in 1..m : s[i] = t[i]
      BY <1>2, <2>1
    <2> QED BY <1>4, <2>2, SeqEqual DEF m, n
  <1> QED BY <1>2, <1>3, <1>4 DEF m, n

LEMMA SuffixAppended ==
  ASSUME NEW S, NEW s \in Seq(S), NEW t \in Seq(S), IsSuffix(s, t), NEW e \in S
  PROVE  IsSuffix(Append(s, e), Append(t, e))
  <1> DEFINE m == Len(s)
             n == Len(t)
             a == Append(s, e)
             b == Append(t, e)
  <1>1. m \in Nat /\ n \in Nat
    BY LenProperties
  <1>2. m <= n /\ \A i \in 1..m : s[i] = t[(n - m) + i]
    BY SuffixMeans
  <1>3. a \in Seq(S) /\ Len(a) = m + 1 /\ (\A i \in 1..m : a[i] = s[i]) /\ a[m + 1] = e
    BY AppendProperties
  <1>4. b \in Seq(S) /\ Len(b) = n + 1 /\ (\A i \in 1..n : b[i] = t[i]) /\ b[n + 1] = e
    BY AppendProperties
  <1> HIDE DEF m, n, a, b
  <1>5. (n + 1) - (m + 1) = n - m /\ m + 1 <= n + 1
    BY <1>1, <1>2
  <1>6. ASSUME NEW i \in 1..(m + 1) PROVE a[i] = b[(n - m) + i]
    <2>1. CASE i = m + 1
      <3>1. (n - m) + i = n + 1
        BY <1>1, <2>1
      <3> QED BY <1>3, <1>4, <2>1, <3>1
    <2>2. CASE i # m + 1
      <3>1. i \in 1..m /\ (n - m) + i \in 1..n
        BY <1>1, <1>2, <2>2
      <3> QED BY <1>2, <1>3, <1>4, <3>1
    <2> QED BY <2>1, <2>2
  <1>7. IsSuffix(a, b) <=>
          Len(a) <= Len(b) /\ \A i \in 1..Len(a) : a[i] = b[(Len(b) - Len(a)) + i]
    BY <1>3, <1>4, SuffixMeans
  <1>8. Len(a) <= Len(b) /\ Len(b) - Len(a) = n - m /\ Len(a) = m + 1
    BY <1>3, <1>4, <1>5
  <1>9. IsSuffix(a, b)
    BY <1>6, <1>7, <1>8
  <1> QED BY <1>9 DEF a, b

\* Of what is longer, the oldest may go.
LEMMA SuffixOfTail ==
  ASSUME NEW S, NEW s \in Seq(S), NEW t \in Seq(S), IsSuffix(s, t), Len(s) < Len(t)
  PROVE  IsSuffix(s, Tail(t))
  <1> DEFINE m == Len(s)
             n == Len(t)
             r == Tail(t)
  <1>1. m \in Nat /\ n \in Nat
    BY LenProperties
  <1>2. m <= n /\ \A i \in 1..m : s[i] = t[(n - m) + i]
    BY SuffixMeans
  <1>3. t # <<>>
    BY <1>1
  <1>4. r \in Seq(S) /\ Len(r) = n - 1 /\ \A i \in 1..(n - 1) : r[i] = t[i + 1]
    BY <1>3, HeadTailProperties
  <1>5. m <= n - 1 /\ \A i \in 1..m :
          ((n - 1) - m) + i \in 1..(n - 1) /\ (((n - 1) - m) + i) + 1 = (n - m) + i
    BY <1>1
  <1> HIDE DEF m, n, r
  <1>6. \A i \in 1..m : s[i] = r[((n - 1) - m) + i]
    BY <1>2, <1>4, <1>5
  <1>7. IsSuffix(s, r)
    BY <1>4, <1>5, <1>6, SuffixMeans DEF m
  <1> QED BY <1>7 DEF r

LEMMA SuffixRemoved ==
  ASSUME NEW S, NEW s \in Seq(S), NEW t \in Seq(S), IsSuffix(s, t), NoRepeat(s), NoRepeat(t),
         NEW e
  PROVE  IsSuffix(RemoveFirst(s, e), RemoveFirst(t, e))
  <1> DEFINE m == Len(s)
             n == Len(t)
             a == RemoveFirst(s, e)
             b == RemoveFirst(t, e)
  <1>1. m \in Nat /\ n \in Nat /\ DOMAIN s = 1..m /\ DOMAIN t = 1..n
    BY LenProperties
  <1>2. m <= n /\ \A i \in 1..m : s[i] = t[(n - m) + i]
    BY SuffixMeans
  <1>3. CASE e \notin ToSet(t)
    <2>1. e \notin ToSet(s)
      BY <1>3, SuffixKeys
    <2> QED BY <1>3, <2>1, RemoveFirstKeeps
  <1>4. CASE e \in ToSet(t)
    <2>1. PICK p \in 1..n : e = t[p]
      BY <1>1, <1>4 DEF ToSet
    <2>2. /\ b \in Seq(S) /\ Len(b) = n - 1
          /\ \A i \in 1..(n - 1) : b[i] = IF i < p THEN t[i] ELSE t[i + 1]
      BY <2>1, RemoveFirstAt
    <2>3. CASE p <= n - m
      <3>1. e \notin ToSet(s)
        <4> SUFFICES ASSUME NEW i \in 1..m, s[i] = e PROVE FALSE
          BY <1>1 DEF ToSet
        <4>1. (n - m) + i \in 1..n /\ (n - m) + i # p
          BY <1>1, <1>2, <2>3
        <4> QED BY <1>2, <2>1, <4>1 DEF NoRepeat
      <3>2. a = s
        BY <3>1, RemoveFirstKeeps
      <3>3. m <= n - 1 /\ \A i \in 1..m :
              /\ ((n - 1) - m) + i \in 1..(n - 1) /\ ~(((n - 1) - m) + i < p)
              /\ (((n - 1) - m) + i) + 1 = (n - m) + i
        BY <1>1, <2>3
      <3> HIDE DEF m, n, a, b
      <3>4. \A i \in 1..m : s[i] = b[((n - 1) - m) + i]
        BY <1>2, <2>2, <3>3
      <3>5. IsSuffix(s, b)
        BY <2>2, <3>3, <3>4, SuffixMeans DEF m
      <3> QED BY <3>2, <3>5 DEF a, b
    <2>4. CASE ~(p <= n - m)
      <3> DEFINE q == p - (n - m)
      <3>1. q \in 1..m /\ (n - m) + q = p
        BY <1>1, <1>2, <2>4
      <3>2. s[q] = e
        BY <1>2, <2>1, <3>1
      <3>3. /\ a \in Seq(S) /\ Len(a) = m - 1
            /\ \A i \in 1..(m - 1) : a[i] = IF i < q THEN s[i] ELSE s[i + 1]
        BY <3>1, <3>2, RemoveFirstAt
      <3>4. /\ m - 1 <= n - 1 /\ (n - 1) - (m - 1) = n - m
            /\ \A i \in 1..(m - 1) :
                 /\ (n - m) + i \in 1..(n - 1) /\ (i < q <=> (n - m) + i < p)
                 /\ ((n - m) + i) + 1 = (n - m) + (i + 1) /\ i \in 1..m /\ i + 1 \in 1..m
        BY <1>1, <1>2, <3>1
      <3> HIDE DEF m, n, a, b, q
      <3>5. ASSUME NEW i \in 1..(m - 1) PROVE a[i] = b[(n - m) + i]
        <4>1. b[(n - m) + i] = IF i < q THEN t[(n - m) + i] ELSE t[(n - m) + (i + 1)]
          BY <2>2, <3>4
        <4>2. s[i] = t[(n - m) + i] /\ s[i + 1] = t[(n - m) + (i + 1)]
          BY <1>2, <3>4
        <4> QED BY <3>3, <4>1, <4>2
      <3>6. IsSuffix(a, b) <=>
              Len(a) <= Len(b) /\ \A i \in 1..Len(a) : a[i] = b[(Len(b) - Len(a)) + i]
        BY <2>2, <3>3, SuffixMeans
      <3>7. Len(a) <= Len(b) /\ Len(b) - Len(a) = n - m /\ Len(a) = m - 1
        BY <2>2, <3>3, <3>4
      <3>8. IsSuffix(a, b)
        BY <3>5, <3>6, <3>7
      <3> QED BY <3>8 DEF a, b
    <2> QED BY <2>3, <2>4
  <1> QED BY <1>3, <1>4

-------------------------------------------------------------------------------
\* The cache and the ideal one

Recency ==
  /\ recency \in Seq(CacheKeys) /\ NoRepeat(recency) /\ ToSet(recency) = Cached
  /\ uses \in Seq(CacheKeys) /\ NoRepeat(uses) /\ Len(uses) <= MaxEntries
  /\ Len(recency) <= 1 \/ Len(recency) <= MaxEntries
  /\ MaxEntries > 0 => IsSuffix(recency, uses) /\ (~doubled => recency = uses)

LEMMA Using ==
  ASSUME Recency, NEW key \in CacheKeys, Used(key)
  PROVE  LET used == Append(RemoveFirst(uses, key), key)
         IN /\ used \in Seq(CacheKeys)
            /\ Len(used) = IF key \in ToSet(uses) THEN Len(uses) ELSE Len(uses) + 1
            /\ uses' = IF Len(used) > MaxEntries THEN Tail(used) ELSE used
            /\ uses' \in Seq(CacheKeys) /\ NoRepeat(uses') /\ Len(uses') <= MaxEntries
  <1> DEFINE rest == RemoveFirst(uses, key)
             used == Append(rest, key)
  <1>0. Len(uses) \in Nat /\ Len(uses) <= MaxEntries /\ MaxEntries \in Nat
    BY LenProperties, CacheAssumption DEF Recency
  <1>1. /\ rest \in Seq(CacheKeys) /\ NoRepeat(rest) /\ key \notin ToSet(rest)
        /\ Len(rest) = IF key \in ToSet(uses) THEN Len(uses) - 1 ELSE Len(uses)
    BY Removed DEF Recency
  <1> HIDE DEF rest
  <1>2. used \in Seq(CacheKeys) /\ NoRepeat(used) /\ Len(used) = Len(rest) + 1
    BY <1>1, Appended
  <1>3. Len(used) = IF key \in ToSet(uses) THEN Len(uses) ELSE Len(uses) + 1
    BY <1>0, <1>1, <1>2
  <1>4. uses' = IF Len(used) > MaxEntries THEN Tail(used) ELSE used
    BY DEF Used, rest
  <1>5. used # <<>>
    BY AppendProperties, <1>1
  <1> HIDE DEF used
  <1>6. Tail(used) \in Seq(CacheKeys) /\ NoRepeat(Tail(used)) /\ Len(Tail(used)) = Len(used) - 1
    BY <1>2, <1>5, Tailed
  <1>7. Len(uses') <= MaxEntries
    BY <1>0, <1>3, <1>4, <1>6
  <1>8. uses' \in Seq(CacheKeys) /\ NoRepeat(uses')
    BY <1>2, <1>4, <1>6
  <1> QED BY <1>2, <1>3, <1>4, <1>7, <1>8 DEF used, rest

\* A key is accessed with room for it, in the cache it is in or in one that
\* need not evict.
LEMMA AccessWithRoom ==
  ASSUME Recency, NEW key \in CacheKeys, Used(key),
         recency' = Append(RemoveFirst(recency, key), key),
         key \in ToSet(recency) \/ Len(recency) < MaxEntries, MaxEntries > 0
  PROVE  IsSuffix(recency', uses') /\ (recency = uses => recency' = uses')
  <1> DEFINE used == Append(RemoveFirst(uses, key), key)
  <1>0. /\ recency \in Seq(CacheKeys) /\ uses \in Seq(CacheKeys) /\ IsSuffix(recency, uses)
        /\ NoRepeat(recency) /\ NoRepeat(uses)
        /\ Len(recency) \in Nat /\ Len(uses) \in Nat /\ Len(uses) <= MaxEntries
        /\ MaxEntries \in Nat
    BY LenProperties, CacheAssumption DEF Recency
  <1>1. /\ used \in Seq(CacheKeys)
        /\ Len(used) = IF key \in ToSet(uses) THEN Len(uses) ELSE Len(uses) + 1
        /\ uses' = IF Len(used) > MaxEntries THEN Tail(used) ELSE used
    BY Using
  <1>2. RemoveFirst(recency, key) \in Seq(CacheKeys) /\ RemoveFirst(uses, key) \in Seq(CacheKeys)
    BY <1>0, Removed
  <1>3. IsSuffix(RemoveFirst(recency, key), RemoveFirst(uses, key))
    BY <1>0, SuffixRemoved
  <1>4. IsSuffix(recency', used)
    BY <1>2, <1>3, SuffixAppended
  <1>5. recency = uses => recency' = used
    OBVIOUS
  <1> HIDE DEF used
  <1>6. CASE Len(used) <= MaxEntries
    BY <1>0, <1>1, <1>4, <1>5, <1>6
  <1>7. CASE Len(used) > MaxEntries
    <2>1. key \notin ToSet(uses)
      BY <1>0, <1>1, <1>7
    <2>2. key \notin ToSet(recency)
      BY <1>0, <2>1, SuffixKeys
    <2>3. Len(recency) < MaxEntries
      BY <2>2
    <2>4. RemoveFirst(recency, key) = recency
      BY <1>0, <2>2, RemoveFirstKeeps
    <2>5. recency' \in Seq(CacheKeys) /\ Len(recency') = Len(recency) + 1
      BY <1>0, <2>4, AppendProperties
    <2>6. Len(recency') < Len(used)
      BY <1>0, <1>1, <1>7, <2>3, <2>5
    <2>7. IsSuffix(recency', Tail(used))
      BY <1>1, <1>4, <2>5, <2>6, SuffixOfTail
    <2>8. recency # uses
      BY <1>0, <1>5, <2>5, <2>6
    <2> QED BY <1>1, <1>7, <2>7, <2>8
  <1> QED BY <1>0, <1>1, <1>6, <1>7

\* In a full cache, the order is that of the ideal one, and both evict the same
\* unless the key is cached.
LEMMA AccessWhenFull ==
  ASSUME Recency, NEW key \in CacheKeys, Used(key), recency # <<>>,
         recency' = Append(RemoveFirst(Tail(recency), key), key),
         Len(recency) >= MaxEntries, MaxEntries > 0
  PROVE  IsSuffix(recency', uses') /\ (key \notin ToSet(recency) => recency' = uses')
  <1> DEFINE used == Append(RemoveFirst(uses, key), key)
  <1>0. /\ recency \in Seq(CacheKeys) /\ uses \in Seq(CacheKeys) /\ IsSuffix(recency, uses)
        /\ NoRepeat(recency) /\ NoRepeat(uses)
        /\ Len(recency) \in Nat /\ Len(uses) \in Nat /\ Len(uses) <= MaxEntries
        /\ MaxEntries \in Nat
    BY LenProperties, CacheAssumption DEF Recency
  <1>1. /\ used \in Seq(CacheKeys)
        /\ Len(used) = IF key \in ToSet(uses) THEN Len(uses) ELSE Len(uses) + 1
        /\ uses' = IF Len(used) > MaxEntries THEN Tail(used) ELSE used
        /\ uses' \in Seq(CacheKeys)
    BY Using
  <1>2. Len(recency) <= Len(uses) /\ (Len(recency) = Len(uses) => recency = uses)
    BY <1>0, SuffixKeys
  <1>3. Len(uses) = MaxEntries /\ recency = uses
    BY <1>0, <1>2
  <1>4. /\ Tail(recency) \in Seq(CacheKeys) /\ NoRepeat(Tail(recency))
        /\ ToSet(Tail(recency)) \subseteq ToSet(recency) /\ IsSuffix(Tail(recency), recency)
    BY <1>0, Tailed
  <1>5. CASE key \notin ToSet(recency)
    <2>1. RemoveFirst(uses, key) = recency /\ RemoveFirst(Tail(recency), key) = Tail(recency)
      BY <1>0, <1>3, <1>4, <1>5, RemoveFirstKeeps
    <2>2. uses' = Tail(Append(recency, key))
      BY <1>0, <1>1, <1>3, <1>5, <2>1
    <2>3. Tail(Append(recency, key)) = Append(Tail(recency), key)
      BY <1>0, HeadTailAppend
    <2>4. recency' = uses'
      BY <2>1, <2>2, <2>3
    <2> QED BY <1>1, <2>4, SuffixItself
  <1>6. CASE key \in ToSet(recency)
    <2>1. uses' = used
      BY <1>0, <1>1, <1>3, <1>6
    <2>2. /\ RemoveFirst(Tail(recency), key) \in Seq(CacheKeys)
          /\ RemoveFirst(recency, key) \in Seq(CacheKeys)
      BY <1>0, <1>4, Removed
    <2>3. IsSuffix(RemoveFirst(Tail(recency), key), RemoveFirst(recency, key))
      BY <1>0, <1>4, SuffixRemoved
    <2>4. IsSuffix(recency', used)
      BY <1>3, <2>2, <2>3, SuffixAppended
    <2> QED BY <1>6, <2>1, <2>4
  <1> QED BY <1>5, <1>6

\* Whatever is kept, the order and the ideal one are as the invariant says.
LEMMA AccessTypes ==
  ASSUME Recency, NEW key \in CacheKeys, NEW kept \in {recency, Tail(recency)},
         kept # recency => recency # <<>>,
         recency' = Append(RemoveFirst(kept, key), key)
  PROVE  /\ recency' \in Seq(CacheKeys) /\ NoRepeat(recency')
         /\ ToSet(recency') = ToSet(kept) \cup {key}
         /\ Len(recency') = IF key \in ToSet(kept) THEN Len(kept) ELSE Len(kept) + 1
  <1>1. kept \in Seq(CacheKeys) /\ NoRepeat(kept)
    BY Tailed DEF Recency
  <1> DEFINE rest == RemoveFirst(kept, key)
  <1>2. /\ rest \in Seq(CacheKeys) /\ NoRepeat(rest) /\ ToSet(rest) = ToSet(kept) \ {key}
        /\ Len(rest) = IF key \in ToSet(kept) THEN Len(kept) - 1 ELSE Len(kept)
    BY <1>1, Removed
  <1>3. recency' = Append(rest, key)
    OBVIOUS
  <1> HIDE DEF rest
  <1>4. /\ recency' \in Seq(CacheKeys) /\ NoRepeat(recency')
        /\ ToSet(recency') = ToSet(rest) \cup {key} /\ Len(recency') = Len(rest) + 1
    BY <1>2, <1>3, Appended
  <1>5. Len(kept) \in Nat
    BY <1>1, LenProperties
  <1> QED BY <1>2, <1>4, <1>5

LEMMA AccessRecency ==
  ASSUME Recency, NEW key \in CacheKeys, Used(key),
         NEW kept \in {recency, Tail(recency)},
         recency' = Append(RemoveFirst(kept, key), key),
         ToSet(recency') = DOMAIN entries',
         \/ /\ kept = recency
            /\ key \in ToSet(recency) \/ recency = <<>> \/ Len(recency) < MaxEntries
            /\ ~doubled' => ~doubled
         \/ /\ kept = Tail(recency) /\ recency # <<>> /\ Len(recency) >= MaxEntries
            /\ ~doubled' => ~doubled /\ key \notin ToSet(recency)
  PROVE  Recency'
  <1>0. /\ Len(recency) \in Nat /\ MaxEntries \in Nat
        /\ recency = <<>> => Len(recency) = 0
        /\ Len(recency) <= 1 \/ Len(recency) <= MaxEntries
    BY LenProperties, CacheAssumption DEF Recency
  <1>1. /\ recency' \in Seq(CacheKeys) /\ NoRepeat(recency')
        /\ Len(recency') = IF key \in ToSet(kept) THEN Len(kept) ELSE Len(kept) + 1
    BY AccessTypes
  <1>2. uses' \in Seq(CacheKeys) /\ NoRepeat(uses') /\ Len(uses') <= MaxEntries
    BY Using
  <1>3. Len(recency') <= 1 \/ Len(recency') <= MaxEntries
    <2>1. CASE kept = recency /\ (key \in ToSet(recency) \/ recency = <<>> \/ Len(recency) < MaxEntries)
      BY <1>0, <1>1, <2>1
    <2>2. CASE kept = Tail(recency) /\ recency # <<>>
      <3>1. Len(kept) = Len(recency) - 1
        BY <2>2, Tailed DEF Recency
      <3> QED BY <1>0, <1>1, <3>1
    <2> QED BY <2>1, <2>2
  <1>4. ASSUME MaxEntries > 0
        PROVE  IsSuffix(recency', uses') /\ (~doubled' => recency' = uses')
    <2>1. ~doubled => recency = uses
      BY <1>4 DEF Recency
    <2>2. CASE /\ kept = recency
               /\ key \in ToSet(recency) \/ recency = <<>> \/ Len(recency) < MaxEntries
               /\ ~doubled' => ~doubled
      <3>1. key \in ToSet(recency) \/ Len(recency) < MaxEntries
        BY <1>0, <1>4, <2>2
      <3>2. IsSuffix(recency', uses') /\ (recency = uses => recency' = uses')
        BY <1>4, <2>2, <3>1, AccessWithRoom
      <3> QED BY <2>1, <2>2, <3>2
    <2>3. CASE /\ kept = Tail(recency) /\ recency # <<>> /\ Len(recency) >= MaxEntries
               /\ ~doubled' => ~doubled /\ key \notin ToSet(recency)
      <3>1. IsSuffix(recency', uses') /\ (key \notin ToSet(recency) => recency' = uses')
        BY <1>4, <2>3, AccessWhenFull
      <3> QED BY <2>3, <3>1
    <2> QED BY <2>2, <2>3
  <1> QED BY <1>1, <1>2, <1>3, <1>4 DEF Recency, Cached

LEMMA FindCachedRecency ==
  ASSUME Recency, NEW w \in Windows, NEW key \in CacheKeys, FindCached(w, key)
  PROVE  Recency'
  <1>1. /\ key \in ToSet(recency) /\ Used(key) /\ UNCHANGED <<entries, doubled>>
        /\ recency' = Append(RemoveFirst(recency, key), key)
    BY DEF FindCached, Get, Touched, Recency
  <1>2. ToSet(recency') = ToSet(recency) \cup {key}
    BY <1>1, AccessTypes
  <1>3. ToSet(recency') = DOMAIN entries'
    BY <1>1, <1>2 DEF Recency, Cached
  <1> QED BY <1>1, <1>3, AccessRecency

LEMMA TakeGeneratedRecency ==
  ASSUME Recency, NEW w \in Windows, NEW key \in CacheKeys, TakeGenerated(w, key)
  PROVE  Recency'
  <1>1. /\ Used(key) /\ doubled' = (doubled \/ key \in Cached)
        /\ DOMAIN entries' = (Cached \ Victims) \cup {key}
        /\ recency' = Append(RemoveFirst(Kept, key), key)
    BY DEF TakeGenerated, Insert
  <1>2. /\ Cardinality(Cached) = Len(recency) /\ ToSet(recency) = Cached
        /\ recency \in Seq(CacheKeys) /\ NoRepeat(recency)
    BY KeysCounted DEF Recency
  <1>3. Cached = {} <=> recency = <<>>
    BY <1>2, LenProperties, EmptySeq DEF ToSet
  <1>4. Len(recency) \in Nat /\ MaxEntries \in Nat
    BY <1>2, LenProperties, CacheAssumption
  <1>5. CASE Full
    <2>1. Kept = Tail(recency) /\ Victims = {Head(recency)}
      BY <1>5 DEF Kept, Victims
    <2>2. recency # <<>> /\ Len(recency) >= MaxEntries
      BY <1>2, <1>3, <1>5 DEF Full
    <2>3. ToSet(recency') = ToSet(Tail(recency)) \cup {key}
      BY <1>1, <2>1, <2>2, AccessTypes
    <2>4. ToSet(Tail(recency)) = ToSet(recency) \ {Head(recency)}
      BY <1>2, <2>2, Tailed
    <2>5. ToSet(recency') = DOMAIN entries'
      BY <1>1, <1>2, <2>1, <2>3, <2>4
    <2>6. ~doubled' => ~doubled /\ key \notin ToSet(recency)
      BY <1>1, <1>2
    <2>7. recency' = Append(RemoveFirst(Tail(recency), key), key)
      BY <1>1, <2>1
    <2> QED BY <1>1, <2>2, <2>5, <2>6, <2>7, AccessRecency
  <1>6. CASE ~Full
    <2>1. Kept = recency /\ Victims = {}
      BY <1>6 DEF Kept, Victims
    <2>2. recency = <<>> \/ Len(recency) < MaxEntries
      BY <1>2, <1>3, <1>4, <1>6 DEF Full
    <2>3. recency' = Append(RemoveFirst(recency, key), key)
      BY <1>1, <2>1
    <2>4. ToSet(recency') = ToSet(recency) \cup {key}
      BY <2>3, AccessTypes
    <2>5. ToSet(recency') = DOMAIN entries'
      BY <1>1, <1>2, <2>1, <2>4
    <2>6. ~doubled' => ~doubled
      BY <1>1
    <2> QED BY <1>1, <2>2, <2>3, <2>5, <2>6, AccessRecency
  <1> QED BY <1>5, <1>6

LEMMA ForgetRecency ==
  ASSUME Recency, NEW key \in CacheKeys, Forget(key)
  PROVE  Recency'
  <1>1. /\ recency' = RemoveFirst(recency, key) /\ uses' = RemoveFirst(uses, key)
        /\ DOMAIN entries' = Cached \ {key} /\ UNCHANGED doubled
    BY DEF Forget, Invalidate, Without
  <1>2. /\ recency \in Seq(CacheKeys) /\ NoRepeat(recency) /\ ToSet(recency) = Cached
        /\ uses \in Seq(CacheKeys) /\ NoRepeat(uses)
        /\ Len(recency) \in Nat /\ Len(uses) \in Nat /\ MaxEntries \in Nat
    BY LenProperties, CacheAssumption DEF Recency
  <1>3. /\ recency' \in Seq(CacheKeys) /\ NoRepeat(recency')
        /\ ToSet(recency') = ToSet(recency) \ {key} /\ Len(recency') <= Len(recency)
    <2>1. Len(recency') = IF key \in ToSet(recency) THEN Len(recency) - 1 ELSE Len(recency)
      BY <1>1, <1>2, Removed
    <2> QED BY <1>1, <1>2, <2>1, Removed
  <1>4. uses' \in Seq(CacheKeys) /\ NoRepeat(uses') /\ Len(uses') <= Len(uses)
    <2>1. Len(uses') = IF key \in ToSet(uses) THEN Len(uses) - 1 ELSE Len(uses)
      BY <1>1, <1>2, Removed
    <2> QED BY <1>1, <1>2, <2>1, Removed
  <1>5. Len(recency') \in Nat /\ Len(uses') \in Nat
    BY <1>3, <1>4, LenProperties
  <1>6. Len(uses') <= MaxEntries
    BY <1>2, <1>4, <1>5 DEF Recency
  <1>7. Len(recency') <= 1 \/ Len(recency') <= MaxEntries
    BY <1>2, <1>3, <1>5 DEF Recency
  <1>8. ASSUME MaxEntries > 0
        PROVE  IsSuffix(recency', uses') /\ (~doubled' => recency' = uses')
    BY <1>1, <1>2, <1>8, SuffixRemoved DEF Recency
  <1> QED BY <1>1, <1>2, <1>3, <1>4, <1>6, <1>7, <1>8 DEF Recency, Cached

LEMMA NoneCached ==
  /\ recency = <<>> /\ uses = <<>> /\ entries = <<>> => Recency
  /\ (recency = <<>> /\ uses = <<>> /\ entries = <<>>)' => Recency'
  <1>1. <<>> \in Seq(CacheKeys) /\ Len(<<>>) = 0
    BY EmptySeq
  <1>2. ToSet(<<>>) = {} /\ NoRepeat(<<>>) /\ DOMAIN <<>> = {}
    BY DEF ToSet, NoRepeat
  <1>3. IsSuffix(<<>>, <<>>)
    BY <1>1, SuffixItself
  <1>4. 0 <= MaxEntries
    BY CacheAssumption
  <1>5. recency = <<>> /\ uses = <<>> /\ entries = <<>> => Recency
    BY <1>1, <1>2, <1>3, <1>4 DEF Recency, Cached
  <1>6. recency' = <<>> /\ uses' = <<>> /\ entries' = <<>> => Recency'
    BY <1>1, <1>2, <1>3, <1>4 DEF Recency, Cached
  <1> QED BY <1>5, <1>6

LEMMA WindowsNextRecency == Recency /\ [WindowsNext]_windowVars => Recency'
  <1> SUFFICES ASSUME Recency, [WindowsNext]_windowVars PROVE Recency'
    OBVIOUS
  <1>1. ASSUME NEW w \in Windows, NEW key \in CacheKeys, FindCached(w, key) PROVE Recency'
    BY <1>1, FindCachedRecency
  <1>2. ASSUME NEW w \in Windows, NEW key \in CacheKeys, TakeGenerated(w, key) PROVE Recency'
    BY <1>2, TakeGeneratedRecency
  <1>3. ASSUME NEW key \in CacheKeys, Forget(key) PROVE Recency'
    BY <1>3, ForgetRecency
  <1>4. CASE ForgetAll
    <2>1. recency' = <<>> /\ uses' = <<>> /\ entries' = <<>>
      BY <1>4 DEF ForgetAll, Clear
    <2> QED BY <2>1, NoneCached
  <1>5. CASE UNCHANGED <<cacheVars, uses, doubled>>
    BY <1>5 DEF cacheVars, Recency, Cached
  <1>6. ASSUME NEW w \in Windows, NEW key \in CacheKeys, Generate(w, key) PROVE Recency'
    BY <1>5, <1>6 DEF Generate
  <1> QED BY <1>1, <1>2, <1>3, <1>4, <1>5, <1>6 DEF WindowsNext, windowVars

\* Whatever windows find, miss and make at once, and whatever is invalidated:
\* the cache holds the most recently used documents, all that fit as long as
\* none was made twice, whatever its size is (UidlCache::insert and get).
THEOREM IdealCache == WindowsSpec => []RecentlyUsedAreCached
  <1>1. WindowsInit => Recency
    BY NoneCached DEF WindowsInit, CacheInit
  <1>2. Recency => RecentlyUsedAreCached
    BY DEF Recency, RecentlyUsedAreCached
  <1> QED BY <1>1, <1>2, WindowsNextRecency, PTL DEF WindowsSpec

\* The cache never holds more than its size, or one document if its size is 0.
THEOREM CacheBounded ==
  WindowsSpec => [](Cardinality(Cached) <= 1 \/ Cardinality(Cached) <= MaxEntries)
  <1>1. WindowsInit => Recency
    BY NoneCached DEF WindowsInit, CacheInit
  <1>2. Recency => Cardinality(Cached) <= 1 \/ Cardinality(Cached) <= MaxEntries
    <2>1. Recency => Cardinality(Cached) = Len(recency)
      BY KeysCounted DEF Recency
    <2> QED BY <2>1 DEF Recency
  <1> QED BY <1>1, <1>2, WindowsNextRecency, PTL DEF WindowsSpec
-------------------------------------------------------------------------------
\* Recursion over widgets

LEMMA WidgetsNest ==
  ASSUME NEW w \in Widgets
  PROVE  /\ w.kind \in Kinds /\ Depth[w] \in 0..MaxDepth
         /\ Children(w) \in Seq(Widgets) /\ Len(Children(w)) \in Nat
         /\ DOMAIN Children(w) = 1..Len(Children(w))
         /\ \A i \in DOMAIN Children(w) :
              Children(w)[i] \in Widgets /\ Depth[Children(w)[i]] < Depth[w]
         /\ w.kind \notin Containers => Children(w) = <<>>
  <1>1. /\ w.kind \in Kinds /\ Depth[w] \in 0..MaxDepth /\ Children(w) \in Seq(Widgets)
        /\ \A i \in DOMAIN Children(w) : Depth[Children(w)[i]] < Depth[w]
    BY WidgetsAssumption
  <1>2. w.kind \notin Containers => Children(w) = <<>>
    BY DEF Children
  <1> QED BY <1>1, <1>2, LenProperties, ElementOfSeq

\* What the children of a widget have, when g says what widgets have.
OfChildren(g, w) == [i \in DOMAIN Children(w) |-> g[Children(w)[i]]]

LEMMA OfChildrenType ==
  ASSUME NEW V, NEW g \in [Widgets -> V], NEW w \in Widgets
  PROVE  OfChildren(g, w) \in Seq(V)
  <1> DEFINE n == Len(Children(w))
  <1>1. /\ n \in Nat /\ DOMAIN Children(w) = 1..n
        /\ \A i \in DOMAIN Children(w) : Children(w)[i] \in Widgets
    BY WidgetsNest
  <1> HIDE DEF n
  <1>2. OfChildren(g, w) \in [1..n -> V]
    BY <1>1 DEF OfChildren
  <1> QED BY <1>1, <1>2, SeqDef

\* A definition by recursion over children defines a function, as widgets are
\* nested to a bounded depth.
Recursion(g, Step) == g = [w \in Widgets |-> Step[w][OfChildren(g, w)]]

\* A recursion over widgets, from the values of the children, defines a function.
LEMMA RecursionExists ==
  ASSUME NEW V, NEW Step \in [Widgets -> [Seq(V) -> V]]
  PROVE  \E g \in [Widgets -> V] : Recursion(g, Step)
  <1> DEFINE Right(g, w) == g[w] = Step[w][OfChildren(g, w)]
             Ok == {n \in Nat : \E g \in [Widgets -> V] :
                      \A w \in Widgets : Depth[w] < n => Right(g, w)}
  <1>1. 0 \in Ok
    <2> DEFINE g == [w \in Widgets |-> Step[w][<<>>]]
    <2>1. <<>> \in Seq(V)
      BY EmptySeq
    <2>2. g \in [Widgets -> V]
      BY <2>1
    <2>3. \A w \in Widgets : ~(Depth[w] < 0)
      BY WidgetsNest
    <2> QED BY <2>2, <2>3
  <1>2. ASSUME NEW n \in Nat, n \in Ok PROVE n + 1 \in Ok
    <2>1. PICK g \in [Widgets -> V] : \A w \in Widgets : Depth[w] < n => Right(g, w)
      BY <1>2
    <2> DEFINE h == [w \in Widgets |-> Step[w][OfChildren(g, w)]]
    <2>2. h \in [Widgets -> V]
      BY OfChildrenType
    <2>3. ASSUME NEW w \in Widgets, Depth[w] < n + 1 PROVE Right(h, w)
      <3>1. \A i \in DOMAIN Children(w) : Children(w)[i] \in Widgets /\ Depth[Children(w)[i]] < n
        <4>1. \A d, e \in Nat : d < e /\ e < n + 1 => d < n
          OBVIOUS
        <4>2. Depth[w] \in Nat /\ \A i \in DOMAIN Children(w) : Depth[Children(w)[i]] \in Nat
          BY WidgetsNest
        <4> QED BY <2>3, <4>1, <4>2, WidgetsNest
      <3>2. \A i \in DOMAIN Children(w) : g[Children(w)[i]] = h[Children(w)[i]]
        BY <2>1, <3>1
      <3>3. OfChildren(g, w) = OfChildren(h, w)
        BY <3>2 DEF OfChildren
      <3> QED BY <3>3
    <2> HIDE DEF h, Right
    <2> QED BY <2>2, <2>3
  <1>3. MaxDepth + 1 \in Ok
    <2> HIDE DEF Ok
    <2>1. Nat \subseteq Ok
      BY <1>1, <1>2, SetInduction
    <2> QED BY <2>1, WidgetsAssumption
  <1>4. PICK g \in [Widgets -> V] : \A w \in Widgets : Depth[w] < MaxDepth + 1 => Right(g, w)
    BY <1>3
  <1>5. \A w \in Widgets : Depth[w] < MaxDepth + 1
    <2>1. \A d \in 0..MaxDepth : d < MaxDepth + 1
      BY WidgetsAssumption
    <2> QED BY <2>1, WidgetsNest
  <1>6. g = [w \in Widgets |-> Step[w][OfChildren(g, w)]]
    BY <1>4, <1>5
  <1> QED BY <1>6 DEF Recursion

\* Induction: what holds of a widget if it holds of its children.
LEMMA WidgetInduction ==
  ASSUME NEW S,
         \A w \in Widgets : (\A i \in DOMAIN Children(w) : Children(w)[i] \in S) => w \in S
  PROVE  Widgets \subseteq S
  <1> DEFINE Ok == {n \in Nat : \A w \in Widgets : Depth[w] < n => w \in S}
  <1>1. 0 \in Ok
    <2>1. \A w \in Widgets : ~(Depth[w] < 0)
      BY WidgetsNest
    <2> QED BY <2>1
  <1>2. ASSUME NEW n \in Nat, n \in Ok PROVE n + 1 \in Ok
    <2> SUFFICES ASSUME NEW w \in Widgets, Depth[w] < n + 1 PROVE w \in S
      OBVIOUS
    <2>1. \A d, e \in Nat : d < e /\ e < n + 1 => d < n
      OBVIOUS
    <2>2. Depth[w] \in Nat /\ \A i \in DOMAIN Children(w) : Depth[Children(w)[i]] \in Nat
      BY WidgetsNest
    <2>3. \A i \in DOMAIN Children(w) : Children(w)[i] \in Widgets /\ Depth[Children(w)[i]] < n
      BY <2>1, <2>2, WidgetsNest
    <2> QED BY <1>2, <2>3
  <1>3. MaxDepth + 1 \in Ok
    <2> HIDE DEF Ok
    <2>1. Nat \subseteq Ok
      BY <1>1, <1>2, SetInduction
    <2> QED BY <2>1, WidgetsAssumption
  <1>4. \A d \in 0..MaxDepth : d < MaxDepth + 1
    BY WidgetsAssumption
  <1> QED BY <1>3, <1>4, WidgetsNest

\* The same of a recursion over the turns of a loop.
Loop(f, base, Step, N) == f = [k \in 0..N |-> IF k = 0 THEN base ELSE Step[k][f[k - 1]]]

\* A loop of N turns defines what there is after each.
LEMMA LoopExists ==
  ASSUME NEW V, NEW base \in V, NEW N \in Nat, NEW Step \in [1..N -> [V -> V]]
  PROVE  \E f \in [0..N -> V] : Loop(f, base, Step, N)
  <1> DEFINE Right(f, k) == f[k] = IF k = 0 THEN base ELSE Step[k][f[k - 1]]
             Ok == {n \in Nat : \E f \in [0..N -> V] :
                      \A k \in 0..N : k < n => Right(f, k)}
  <1>1. 0 \in Ok
    <2>1. [k \in 0..N |-> base] \in [0..N -> V] /\ \A k \in 0..N : ~(k < 0)
      OBVIOUS
    <2> QED BY <2>1
  <1>2. ASSUME NEW n \in Nat, n \in Ok PROVE n + 1 \in Ok
    <2>1. PICK f \in [0..N -> V] : \A k \in 0..N : k < n => Right(f, k)
      BY <1>2
    <2> DEFINE h == [k \in 0..N |-> IF k = 0 THEN base ELSE Step[k][f[k - 1]]]
    <2>2. h \in [0..N -> V]
      <3>1. ASSUME NEW k \in 0..N, k # 0 PROVE Step[k][f[k - 1]] \in V
        <4>1. k \in 1..N /\ k - 1 \in 0..N
          BY <3>1
        <4> QED BY <4>1
      <3> QED BY <3>1
    <2>3. ASSUME NEW k \in 0..N, k < n + 1 PROVE Right(h, k)
      <3>1. CASE k = 0
        BY <3>1
      <3>2. CASE k # 0
        <4>1. k - 1 \in 0..N /\ k - 1 < n
          BY <2>3, <3>2
        <4>2. h[k - 1] = f[k - 1]
          BY <2>1, <4>1
        <4> QED BY <3>2, <4>2
      <3> QED BY <3>1, <3>2
    <2> HIDE DEF h, Right
    <2> QED BY <2>2, <2>3
  <1>3. N + 1 \in Ok
    <2> HIDE DEF Ok
    <2>1. Nat \subseteq Ok
      BY <1>1, <1>2, SetInduction
    <2> QED BY <2>1
  <1>4. PICK f \in [0..N -> V] : \A k \in 0..N : k < N + 1 => Right(f, k)
    BY <1>3
  <1>5. f = [k \in 0..N |-> IF k = 0 THEN base ELSE Step[k][f[k - 1]]]
    <2>1. \A k \in 0..N : k < N + 1
      OBVIOUS
    <2> QED BY <1>4, <2>1
  <1> QED BY <1>5 DEF Loop

-------------------------------------------------------------------------------
\* Sums of lengths

LEMMA SumsSteps ==
  ASSUME NEW l \in Seq(Nat)
  PROVE  /\ Sums(l) \in [0..Len(l) -> Nat]
         /\ Sums(l)[0] = 0
         /\ \A k \in 1..Len(l) : Sums(l)[k] = Sums(l)[k - 1] + l[k]
  <1> DEFINE N == Len(l)
             F(f) == f = [n \in 0..N |-> IF n = 0 THEN 0 ELSE f[n - 1] + l[n]]
             Step == [k \in 1..N |-> [v \in Nat |-> v + l[k]]]
  <1>1. N \in Nat /\ \A k \in 1..N : l[k] \in Nat
    BY LenProperties, ElementOfSeq
  <1>2. Step \in [1..N -> [Nat -> Nat]]
    BY <1>1
  <1>3. PICK f \in [0..N -> Nat] : Loop(f, 0, Step, N)
    <2> HIDE DEF N, Step
    <2>1. 0 \in Nat
      OBVIOUS
    <2> QED BY <1>1, <1>2, <2>1, LoopExists
  <1>4. \A k \in 0..N : k # 0 => Step[k][f[k - 1]] = f[k - 1] + l[k]
    <2>1. \A k \in 0..N : k # 0 => k \in 1..N /\ k - 1 \in 0..N
      BY <1>1
    <2>2. \A k \in 1..N : \A v \in Nat : Step[k][v] = v + l[k]
      OBVIOUS
    <2> HIDE DEF N, Step
    <2> QED BY <2>1, <2>2
  <1>5. F(f)
    <2> HIDE DEF Step, N
    <2> QED BY <1>3, <1>4 DEF Loop
  <1>6. Sums(l) = CHOOSE g : F(g)
    BY DEF Sums
  <1>7. F(Sums(l))
    <2> HIDE DEF F
    <2> QED BY <1>5, <1>6
  <1>8. ASSUME NEW g, F(g) PROVE g = f
    <2> DEFINE Ok == {n \in Nat : n \in 0..N => g[n] = f[n]}
    <2>1. 0 \in Ok
      BY <1>1, <1>5, <1>8
    <2>2. ASSUME NEW n \in Nat, n \in Ok PROVE n + 1 \in Ok
      <3> SUFFICES ASSUME n + 1 \in 0..N PROVE g[n + 1] = f[n + 1]
        OBVIOUS
      <3>1. n \in 0..N /\ n + 1 # 0 /\ (n + 1) - 1 = n
        BY <1>1
      <3> QED BY <1>5, <1>8, <2>2, <3>1
    <2>3. Nat \subseteq Ok
      <3> HIDE DEF Ok
      <3> QED BY <2>1, <2>2, SetInduction
    <2>4. \A n \in 0..N : g[n] = f[n]
      BY <1>1, <2>3
    <2>5. g = [n \in 0..N |-> g[n]] /\ f = [n \in 0..N |-> f[n]]
      BY <1>5, <1>8
    <2> QED BY <2>4, <2>5
  <1>9. Sums(l) = f
    BY <1>7, <1>8
  <1>10. \A k \in 1..N : k \in 0..N /\ k # 0
    BY <1>1
  <1>11. f[0] = 0 /\ \A k \in 1..N : f[k] = f[k - 1] + l[k]
    <2>1. 0 \in 0..N
      BY <1>1
    <2> HIDE DEF Step, N
    <2> QED BY <1>5, <1>10, <2>1
  <1> HIDE DEF F, Step
  <1> QED BY <1>3, <1>9, <1>11

\* The sums grow, by each length.
LEMMA SumsGrow ==
  ASSUME NEW l \in Seq(Nat)
  PROVE  \A i, j \in 0..Len(l) : i < j => Sums(l)[i] + l[i + 1] <= Sums(l)[j]
  <1> DEFINE N == Len(l)
             s == Sums(l)
  <1>1. N \in Nat /\ \A k \in 1..N : l[k] \in Nat
    BY LenProperties, ElementOfSeq
  <1>2. s \in [0..N -> Nat] /\ \A k \in 1..N : s[k] = s[k - 1] + l[k]
    BY SumsSteps
  <1> HIDE DEF N, s
  <1> SUFFICES ASSUME NEW i \in 0..N PROVE \A j \in 0..N : i < j => s[i] + l[i + 1] <= s[j]
    BY DEF N, s
  <1> DEFINE Ok == {n \in Nat : n \in 0..N /\ i < n => s[i] + l[i + 1] <= s[n]}
  <1>3. 0 \in Ok
    OBVIOUS
  <1>4. ASSUME NEW n \in Nat, n \in Ok PROVE n + 1 \in Ok
    <2> SUFFICES ASSUME n + 1 \in 0..N, i < n + 1 PROVE s[i] + l[i + 1] <= s[n + 1]
      OBVIOUS
    <2>1. n + 1 \in 1..N /\ (n + 1) - 1 = n /\ n \in 0..N
      BY <1>1
    <2>2. s[n + 1] = s[n] + l[n + 1] /\ l[n + 1] \in Nat /\ s[n] \in Nat
      BY <1>1, <1>2, <2>1
    <2>3. CASE i = n
      BY <2>2, <2>3
    <2>4. CASE i < n
      <3>1. s[i] + l[i + 1] <= s[n]
        BY <1>4, <2>1, <2>4
      <3>2. i + 1 \in 1..N
        BY <1>1, <2>1, <2>4
      <3>3. s[i] \in Nat /\ l[i + 1] \in Nat
        BY <1>1, <1>2, <3>2
      <3> QED BY <2>2, <3>1, <3>3
    <2> QED BY <2>3, <2>4
  <1>5. Nat \subseteq Ok
    <2> HIDE DEF Ok
    <2> QED BY <1>3, <1>4, SetInduction
  <1> QED BY <1>1, <1>5

LEMMA TotalType ==
  ASSUME NEW l \in Seq(Nat)
  PROVE  Total(l) \in Nat
  <1>1. Len(l) \in Nat
    BY LenProperties
  <1>2. Len(l) \in 0..Len(l)
    BY <1>1
  <1> QED BY <1>2, SumsSteps DEF Total

\* The highest of some heights.
LEMMA HighestOf ==
  ASSUME NEW l \in Seq(Nat)
  PROVE  /\ Highest(l) \in Nat
         /\ \A i \in DOMAIN l : l[i] <= Highest(l)
  <1> DEFINE N == Len(l)
             Upto(n) == {0} \cup {l[i] : i \in 1..n}
             Ok == {n \in Nat : n \in 0..N => \E x \in Upto(n) : \A y \in Upto(n) : x >= y}
  <1>1. N \in Nat /\ (\A k \in 1..N : l[k] \in Nat) /\ DOMAIN l = 1..N
    BY LenProperties, ElementOfSeq
  <1>2. 0 \in Ok
    <2>1. Upto(0) = {0}
      OBVIOUS
    <2> QED BY <2>1
  <1>3. ASSUME NEW n \in Nat, n \in Ok PROVE n + 1 \in Ok
    <2> SUFFICES ASSUME n + 1 \in 0..N
                 PROVE  \E x \in Upto(n + 1) : \A y \in Upto(n + 1) : x >= y
      <3> HIDE DEF Upto
      <3> QED OBVIOUS
    <2>1. n \in 0..N /\ n + 1 \in 1..N /\ 1..(n + 1) = (1..n) \cup {n + 1}
      BY <1>1
    <2>2. PICK x \in Upto(n) : \A y \in Upto(n) : x >= y
      BY <1>3, <2>1
    <2>3. Upto(n + 1) = Upto(n) \cup {l[n + 1]}
      BY <2>1
    <2>4. Upto(n) \subseteq Nat /\ l[n + 1] \in Nat
      <3>1. \A i \in 1..n : i \in 1..N
        BY <1>1, <2>1
      <3> QED BY <1>1, <2>1, <3>1
    <2> HIDE DEF Upto, N
    <2>5. CASE x >= l[n + 1]
      BY <2>2, <2>3, <2>4, <2>5
    <2>6. CASE ~(x >= l[n + 1])
      <3>1. \A y \in Upto(n) : l[n + 1] >= y
        BY <2>2, <2>4, <2>6
      <3>2. \A y \in Upto(n + 1) : l[n + 1] >= y
        BY <2>3, <2>4, <3>1
      <3> QED BY <2>3, <3>2
    <2> QED BY <2>5, <2>6
  <1>4. Nat \subseteq Ok
    <2> HIDE DEF Ok
    <2> QED BY <1>2, <1>3, SetInduction
  <1>5. \E x \in Upto(N) : \A y \in Upto(N) : x >= y
    <2>1. N \in 0..N
      BY <1>1
    <2> QED BY <1>1, <1>4, <2>1
  <1>6. Upto(N) = {0} \cup ToSet(l)
    BY <1>1 DEF ToSet
  <1>7. Highest(l) \in Upto(N) /\ \A y \in Upto(N) : Highest(l) >= y
    BY <1>5, <1>6 DEF Highest, Max
  <1> QED BY <1>1, <1>7

-------------------------------------------------------------------------------
\* Natural heights

LEMMA OptionType ==
  ASSUME NEW S \in SUBSET Nat, NEW d \in Nat
  PROVE  Option(S, d) \in Nat
  BY DEF Option

\* The options a kind has are lengths.
LEMMA OptionsType ==
  ASSUME NEW w \in Widgets
  PROVE  /\ w.kind \in {"text", "spacer"} => \A d \in Nat : Option(w.size, d) \in Nat
         /\ w.kind \in Containers => Gap(w) \in Nat
         /\ w.kind = "vstack" => Padding(w) \in Nat
  <1>1. DefaultGap \in Nat /\ DefaultPadding \in Nat
    BY DEF DefaultGap, DefaultPadding, Pixel
  <1>2. /\ w.kind \in {"text", "spacer"} => w.size \in SUBSET Nat
        /\ w.kind \in Containers => w.gap \in SUBSET Nat
        /\ w.kind = "vstack" => w.padding \in SUBSET Nat
    BY WidgetsAssumption
  <1> QED BY <1>1, <1>2, OptionType DEF Gap, Padding

LEMMA StackedType ==
  ASSUME NEW w \in Widgets, w.kind = "vstack", NEW heights \in Seq(Nat)
  PROVE  /\ Stacked(w, heights) \in Nat
         /\ Len(heights) > 0 =>
              Stacked(w, heights) = Total(heights) + Gap(w) * (Len(heights) - 1) + 2 * Padding(w)
  <1>1. Gap(w) \in Nat /\ Padding(w) \in Nat
    BY OptionsType DEF Containers
  <1>2. Total(heights) \in Nat /\ Len(heights) \in Nat
    BY TotalType, LenProperties
  <1>3. NotNegative(Len(heights) - 1) \in Nat
    BY <1>2 DEF NotNegative
  <1>4. \A a, b \in Nat : a * b \in Nat
    OBVIOUS
  <1>5. Gap(w) * NotNegative(Len(heights) - 1) \in Nat
    BY <1>1, <1>3, <1>4
  <1>6. Len(heights) > 0 => NotNegative(Len(heights) - 1) = Len(heights) - 1
    BY <1>2 DEF NotNegative
  <1> QED BY <1>1, <1>2, <1>5, <1>6 DEF Stacked

LEMMA HeightOverType ==
  ASSUME NEW w \in Widgets, NEW heights \in Seq(Nat)
  PROVE  HeightOver(w, heights) \in Nat
  <1>1. w.kind \in Kinds
    BY WidgetsNest
  <1>2. CASE w.kind = "text"
    <2>1. Option(w.size, DefaultFontSize) \in Nat
      BY <1>2, OptionsType DEF DefaultFontSize
    <2>2. HeightOver(w, heights) = 14 * Option(w.size, DefaultFontSize)
      BY <1>2 DEF HeightOver
    <2> QED BY <2>1, <2>2
  <1>3. CASE w.kind = "button"
    BY <1>3 DEF HeightOver, DefaultButtonHeight, Pixel
  <1>4. CASE w.kind = "input"
    BY <1>4 DEF HeightOver, DefaultInputHeight, Pixel
  <1>5. CASE w.kind = "spacer"
    <2>1. DefaultGap \in Nat
      BY DEF DefaultGap, Pixel
    <2> QED BY <1>5, <2>1, OptionsType DEF HeightOver
  <1>6. CASE w.kind = "vstack"
    BY <1>6, StackedType DEF HeightOver
  <1>7. CASE w.kind = "hstack"
    BY <1>7, HighestOf DEF HeightOver
  <1> QED BY <1>1, <1>2, <1>3, <1>4, <1>5, <1>6, <1>7 DEF Kinds

\* widget_natural_height is defined for every widget.
LEMMA NaturalHeights ==
  /\ NaturalHeight \in [Widgets -> Nat]
  /\ \A w \in Widgets : NaturalHeight[w] = HeightOver(w, ChildHeights(w))
  <1> DEFINE Step == [w \in Widgets |-> [s \in Seq(Nat) |-> HeightOver(w, s)]]
             G(h) == h = [w \in Widgets |->
                            HeightOver(w, [i \in DOMAIN Children(w) |-> h[Children(w)[i]]])]
  <1>1. Step \in [Widgets -> [Seq(Nat) -> Nat]]
    BY HeightOverType
  <1>2. PICK g \in [Widgets -> Nat] : Recursion(g, Step)
    <2> HIDE DEF Step
    <2> QED BY <1>1, RecursionExists
  <1>3. \A w \in Widgets : Step[w][OfChildren(g, w)] = HeightOver(w, OfChildren(g, w))
    BY OfChildrenType
  <1>4. G(g)
    <2> HIDE DEF Step
    <2>1. g = [w \in Widgets |-> HeightOver(w, OfChildren(g, w))]
      BY <1>2, <1>3 DEF Recursion
    <2> QED BY <2>1 DEF OfChildren
  <1>5. NaturalHeight = CHOOSE h : G(h)
    BY DEF NaturalHeight
  <1>6. G(NaturalHeight)
    <2> HIDE DEF G
    <2> QED BY <1>4, <1>5
  <1>7. \A w \in Widgets : NaturalHeight[w] = HeightOver(w, ChildHeights(w))
    BY <1>6 DEF ChildHeights
  <1>8. Widgets \subseteq {w \in Widgets : NaturalHeight[w] \in Nat}
    <2> DEFINE S == {w \in Widgets : NaturalHeight[w] \in Nat}
    <2>1. ASSUME NEW w \in Widgets, \A i \in DOMAIN Children(w) : Children(w)[i] \in S
          PROVE  w \in S
      <3> DEFINE n == Len(Children(w))
      <3>1. n \in Nat /\ DOMAIN Children(w) = 1..n
        BY WidgetsNest
      <3>2. ChildHeights(w) \in [1..n -> Nat]
        BY <2>1, <3>1 DEF ChildHeights
      <3> HIDE DEF n
      <3>3. ChildHeights(w) \in Seq(Nat)
        BY <3>1, <3>2, SeqDef
      <3> QED BY <1>7, <3>3, HeightOverType
    <2>2. Widgets \subseteq S
      <3> HIDE DEF S
      <3> QED BY <2>1, WidgetInduction
    <2> QED BY <2>2
  <1> QED BY <1>6, <1>7, <1>8

\* The heights of the children of a widget, and its own.
LEMMA ChildHeightsType ==
  ASSUME NEW w \in Widgets
  PROVE  /\ ChildHeights(w) \in Seq(Nat) /\ Len(ChildHeights(w)) = Len(Children(w))
         /\ \A i \in DOMAIN Children(w) : ChildHeights(w)[i] = NaturalHeight[Children(w)[i]]
         /\ NaturalHeight[w] \in Nat
         /\ w.kind = "vstack" => NaturalHeight[w] = Stacked(w, ChildHeights(w))
         /\ w.kind = "hstack" => NaturalHeight[w] = Highest(ChildHeights(w))
  <1> DEFINE n == Len(Children(w))
  <1>1. n \in Nat /\ DOMAIN Children(w) = 1..n
    BY WidgetsNest
  <1>2. OfChildren(NaturalHeight, w) \in Seq(Nat)
    BY NaturalHeights, OfChildrenType
  <1>3. OfChildren(NaturalHeight, w) = ChildHeights(w)
    BY DEF OfChildren, ChildHeights
  <1>4. DOMAIN ChildHeights(w) = 1..n
    BY <1>1 DEF ChildHeights
  <1>5. Len(ChildHeights(w)) = n
    <2> HIDE DEF n
    <2> QED BY <1>1, <1>2, <1>3, <1>4, LenProperties
  <1>6. /\ w.kind = "vstack" => HeightOver(w, ChildHeights(w)) = Stacked(w, ChildHeights(w))
        /\ w.kind = "hstack" => HeightOver(w, ChildHeights(w)) = Highest(ChildHeights(w))
    BY DEF HeightOver
  <1> QED BY <1>2, <1>3, <1>5, <1>6, NaturalHeights DEF ChildHeights

-------------------------------------------------------------------------------
\* Sequences one after another

Lengths(ss) == [i \in DOMAIN ss |-> Len(ss[i])]

LEMMA LengthsType ==
  ASSUME NEW T, NEW ss \in Seq(Seq(T))
  PROVE  /\ Lengths(ss) \in Seq(Nat) /\ Len(Lengths(ss)) = Len(ss)
         /\ \A i \in 1..Len(ss) : Lengths(ss)[i] = Len(ss[i]) /\ ss[i] \in Seq(T)
  <1> DEFINE n == Len(ss)
  <1>1. n \in Nat /\ DOMAIN ss = 1..n /\ \A i \in 1..n : ss[i] \in Seq(T)
    BY LenProperties, ElementOfSeq
  <1>2. \A i \in 1..n : Len(ss[i]) \in Nat
    BY <1>1, LenProperties
  <1> HIDE DEF n
  <1>3. Lengths(ss) \in [1..n -> Nat]
    BY <1>1, <1>2 DEF Lengths
  <1>4. Lengths(ss) \in Seq(Nat)
    BY <1>1, <1>3, SeqDef
  <1>5. DOMAIN Lengths(ss) = 1..n
    BY <1>1 DEF Lengths
  <1>6. Len(Lengths(ss)) = n
    BY <1>1, <1>4, <1>5, LenProperties
  <1>7. \A i \in 1..n : Lengths(ss)[i] = Len(ss[i])
    BY <1>1 DEF Lengths
  <1> QED BY <1>1, <1>4, <1>6, <1>7 DEF n

\* Up to the total, every number lies in one of the spans the sums leave.
LEMMA SumsCover ==
  ASSUME NEW l \in Seq(Nat)
  PROVE  \A x \in 1..Total(l) :
           \E i \in 1..Len(l) : \E k \in 1..l[i] : x = Sums(l)[i - 1] + k
  <1> DEFINE N == Len(l)
             s == Sums(l)
             In(x, n) == \E i \in 1..n : \E k \in 1..l[i] : x = s[i - 1] + k
             Ok == {n \in Nat : n \in 0..N => \A x \in 1..s[n] : In(x, n)}
  <1>1. N \in Nat /\ \A k \in 1..N : l[k] \in Nat
    BY LenProperties, ElementOfSeq
  <1>2. s \in [0..N -> Nat] /\ s[0] = 0 /\ \A k \in 1..N : s[k] = s[k - 1] + l[k]
    BY SumsSteps
  <1>3. 0 \in Ok
    BY <1>2
  <1>4. ASSUME NEW n \in Nat, n \in Ok PROVE n + 1 \in Ok
    <2> HIDE DEF s, N, In
    <2> SUFFICES ASSUME n + 1 \in 0..N, NEW x \in 1..s[n + 1] PROVE In(x, n + 1)
      OBVIOUS
    <2>1. n + 1 \in 1..N /\ (n + 1) - 1 = n /\ n \in 0..N
      BY <1>1
    <2>2. s[n + 1] = s[n] + l[n + 1] /\ l[n + 1] \in Nat /\ s[n] \in Nat
      BY <1>1, <1>2, <2>1
    <2>3. CASE x <= s[n]
      <3>1. x \in 1..s[n]
        BY <2>2, <2>3
      <3>2. PICK i \in 1..n : \E k \in 1..l[i] : x = s[i - 1] + k
        BY <1>4, <2>1, <3>1 DEF In
      <3>3. i \in 1..(n + 1)
        OBVIOUS
      <3> QED BY <3>2, <3>3 DEF In
    <2>4. CASE x > s[n]
      <3>1. x - s[n] \in 1..l[n + 1] /\ x = s[n] + (x - s[n])
        BY <2>2, <2>4
      <3>2. n + 1 \in 1..(n + 1)
        OBVIOUS
      <3> QED BY <2>1, <3>1, <3>2 DEF In
    <2> QED BY <2>2, <2>3, <2>4
  <1>5. Nat \subseteq Ok
    <2> HIDE DEF Ok
    <2> QED BY <1>3, <1>4, SetInduction
  <1>6. N \in 0..N
    BY <1>1
  <1> QED BY <1>1, <1>5, <1>6 DEF Total

LEMMA FlattenAt ==
  ASSUME NEW T, NEW ss \in Seq(Seq(T))
  PROVE  /\ FlattenSeq(ss) \in Seq(T)
         /\ Len(FlattenSeq(ss)) = Total(Lengths(ss))
         /\ \A i \in 1..Len(ss) : \A k \in 1..Len(ss[i]) :
              FlattenSeq(ss)[Sums(Lengths(ss))[i - 1] + k] = ss[i][k]
  <1> DEFINE n == Len(ss)
             s == Sums(Lengths(ss))
  <1>1. n \in Nat /\ DOMAIN ss = 1..n /\ \A i \in 1..n : ss[i] \in Seq(T) /\ Len(ss[i]) \in Nat
    BY LenProperties, ElementOfSeq
  <1>2. /\ s \in [0..n -> Nat] /\ s[0] = 0
        /\ \A k \in 1..n : s[k] = s[k - 1] + Len(ss[k])
    BY LengthsType, SumsSteps
  <1>3. Total(Lengths(ss)) = s[n]
    BY LengthsType DEF Total
  <1>4. CASE n = 0
    <2>1. FlattenSeq(ss) = ss
      BY <1>4 DEF FlattenSeq
    <2>2. ss = <<>>
      BY <1>4, EmptySeq
    <2>3. Len(<<>>) = 0 /\ <<>> \in Seq(T)
      BY EmptySeq
    <2> HIDE DEF s
    <2> QED BY <1>2, <1>3, <1>4, <2>1, <2>2, <2>3
  <1>5. CASE n # 0
    <2> DEFINE f == CHOOSE f : FlattenIter(f, ss, n)
    <2>1. FlattenSeq(ss) = f[n]
      BY <1>5 DEF FlattenSeq, FlattenIter
    <2>2. FlattenIter(f, ss, n)
      BY <1>1, FlattenIterExists
    <2> HIDE DEF f, s, n
    <2> DEFINE Flat(m) == /\ f[m] \in Seq(T) /\ Len(f[m]) = s[m]
                          /\ \A i \in 1..m : \A k \in 1..Len(ss[i]) : f[m][s[i - 1] + k] = ss[i][k]
               Ok == {m \in Nat : m \in 1..n => Flat(m)}
    <2>3. 0 \in Ok
      OBVIOUS
    <2>4. ASSUME NEW m \in Nat, m \in Ok PROVE m + 1 \in Ok
      <3> HIDE DEF Flat
      <3> SUFFICES ASSUME m + 1 \in 1..n PROVE Flat(m + 1)
        OBVIOUS
      <3>0. ss[m + 1] \in Seq(T) /\ Len(ss[m + 1]) \in Nat
        BY <1>1
      <3>1. CASE m = 0
        <4>1. f[m + 1] = ss[m + 1]
          BY <2>2, <3>1 DEF FlattenIter
        <4>2. s[m + 1] = Len(ss[m + 1])
          BY <1>2, <3>0, <3>1
        <4>3. \A i \in 1..(m + 1) : i = m + 1 /\ s[i - 1] = 0
          BY <1>2, <3>1
        <4>4. \A i \in 1..(m + 1) : \A k \in 1..Len(ss[i]) : s[i - 1] + k = k
          BY <4>3
        <4> QED BY <3>0, <4>1, <4>2, <4>3, <4>4 DEF Flat
      <3>2. CASE m # 0
        <4>1. m \in 1..n /\ (m + 1) - 1 = m /\ m + 1 # 1 /\ m \in 0..n
          BY <1>1, <3>2
        <4>2. f[m + 1] = f[m] \o ss[m + 1]
          BY <2>2, <4>1 DEF FlattenIter
        <4>3. f[m] \in Seq(T) /\ Len(f[m]) = s[m] /\ s[m] \in Nat
          BY <1>2, <2>4, <4>1 DEF Flat
        <4>4. /\ f[m + 1] \in Seq(T)
              /\ Len(f[m + 1]) = s[m] + Len(ss[m + 1])
              /\ \A x \in 1..(s[m] + Len(ss[m + 1])) :
                   f[m + 1][x] = IF x <= s[m] THEN f[m][x] ELSE ss[m + 1][x - s[m]]
          <5> DEFINE a == f[m]
                     b == ss[m + 1]
          <5>1. a \in Seq(T) /\ b \in Seq(T)
            BY <3>0, <4>3
          <5> HIDE DEF a, b
          <5>2. /\ a \o b \in Seq(T) /\ Len(a \o b) = Len(a) + Len(b)
                /\ \A x \in 1..(Len(a) + Len(b)) :
                     (a \o b)[x] = IF x <= Len(a) THEN a[x] ELSE b[x - Len(a)]
            BY <5>1, ConcatProperties
          <5>3. f[m + 1] = a \o b /\ Len(a) = s[m]
            BY <4>2, <4>3 DEF a, b
          <5> QED BY <5>2, <5>3 DEF a, b
        <4>5. s[m + 1] = s[m] + Len(ss[m + 1])
          BY <1>2, <4>1
        <4>6. ASSUME NEW i \in 1..m, NEW k \in 1..Len(ss[i])
              PROVE  f[m + 1][s[i - 1] + k] = ss[i][k]
          <5>1. Lengths(ss) \in Seq(Nat) /\ Len(Lengths(ss)) = n
            BY LengthsType DEF n
          <5>2. i \in 1..n /\ i - 1 \in 0..n /\ i - 1 < m /\ (i - 1) + 1 = i
            BY <1>1, <4>1
          <5>3. s[i - 1] + Lengths(ss)[i] <= s[m]
            BY <4>1, <5>1, <5>2, SumsGrow DEF s
          <5>4. Lengths(ss)[i] = Len(ss[i])
            BY <5>2, LengthsType DEF n
          <5>5. s[i - 1] \in Nat /\ Len(ss[i]) \in Nat
            BY <1>1, <1>2, <5>2
          <5>6. s[i - 1] + k \in 1..(s[m] + Len(ss[m + 1])) /\ s[i - 1] + k <= s[m]
            <6>1. \A a, c, t, r \in Nat : \A q \in 1..c :
                    a + c <= t => a + q \in 1..(t + r) /\ a + q <= t
              OBVIOUS
            <6>2. s[i - 1] + Len(ss[i]) <= s[m]
              BY <5>3, <5>4
            <6> QED BY <3>0, <4>3, <5>5, <6>1, <6>2
          <5>7. f[m + 1][s[i - 1] + k] = f[m][s[i - 1] + k]
            BY <4>4, <5>6
          <5> QED BY <2>4, <4>1, <5>7 DEF Flat
        <4>7. ASSUME NEW k \in 1..Len(ss[m + 1])
              PROVE  f[m + 1][s[m] + k] = ss[m + 1][k]
          <5>1. s[m] + k \in 1..(s[m] + Len(ss[m + 1])) /\ ~(s[m] + k <= s[m])
                /\ (s[m] + k) - s[m] = k
            BY <3>0, <4>3
          <5> QED BY <4>4, <5>1
        <4>8. \A i \in 1..(m + 1) : i \in 1..m \/ i = m + 1
          OBVIOUS
        <4>9. ASSUME NEW i \in 1..(m + 1), NEW k \in 1..Len(ss[i])
              PROVE  f[m + 1][s[i - 1] + k] = ss[i][k]
          <5>1. CASE i \in 1..m
            BY <4>6, <5>1
          <5>2. CASE i = m + 1
            <6>1. i - 1 = m
              BY <5>2
            <6> QED BY <4>7, <5>2, <6>1
          <5> QED BY <4>8, <5>1, <5>2
        <4> QED BY <4>4, <4>5, <4>9 DEF Flat
      <3> QED BY <3>1, <3>2
    <2>5. n \in Ok
      <3> HIDE DEF Ok
      <3> QED BY <1>1, <2>3, <2>4, SetInduction
    <2>6. n \in 1..n
      BY <1>1, <1>5
    <2>7. Flat(n)
      BY <2>5, <2>6
    <2> QED BY <1>3, <2>1, <2>7 DEF n, s
  <1> QED BY <1>4, <1>5

-------------------------------------------------------------------------------
\* Where the boxes of children lie

LEMMA Products ==
  /\ \A a, b \in Nat : a * b \in Nat
  /\ \A a, b, c \in Nat : a <= b => a * c <= b * c /\ c * a <= c * b
  /\ \A a, b, c \in Nat : (a + b) * c = a * c + b * c /\ c * (a + b) = c * a + c * b
  <1>1. \A a, b \in Nat : a * b \in Nat
    OBVIOUS
  <1>2. \A a, b, c \in Nat : (a + b) * c = a * c + b * c /\ c * (a + b) = c * a + c * b
    OBVIOUS
  <1>3. ASSUME NEW a \in Nat, NEW b \in Nat, NEW c \in Nat, a <= b
        PROVE  a * c <= b * c /\ c * a <= c * b
    <2>1. b - a \in Nat /\ b = a + (b - a)
      BY <1>3
    <2>2. b * c = a * c + (b - a) * c /\ c * b = c * a + c * (b - a)
      BY <1>2, <2>1
    <2>3. (b - a) * c \in Nat /\ c * (b - a) \in Nat /\ a * c \in Nat /\ c * a \in Nat
      BY <1>1, <2>1
    <2> QED BY <2>2, <2>3
  <1> QED BY <1>1, <1>2, <1>3

\* A quotient does not exceed what is divided.
LEMMA Share ==
  ASSUME NEW a \in Int, NEW n \in Nat, n > 0, a \div n > 0
  PROVE  a \div n \in Nat /\ n * (a \div n) <= a
  OBVIOUS

\* How far down the widgets of a box can lie.
Reach(w, box) == IF box.height < NaturalHeight[w] THEN NaturalHeight[w] ELSE box.height

InColumnOf(w, box, i, cb) ==
  /\ cb \in Boxes /\ cb.height = NaturalHeight[Children(w)[i]]
  /\ box.y <= cb.y /\ cb.y + cb.height <= box.y + NaturalHeight[w]
  /\ box.x <= cb.x /\ (cb.width > 0 => cb.x + cb.width <= box.x + box.width)

\* The boxes of a column: one below the other, within its height if it is natural.
LEMMA Columns ==
  ASSUME NEW w \in Widgets, w.kind = "vstack", NEW box \in Boxes, NEW i \in 1..Len(Children(w))
  PROVE  /\ InColumnOf(w, box, i, InColumn(w, box, i))
         /\ \A j \in 1..Len(Children(w)) :
              i < j => InColumn(w, box, i).y + InColumn(w, box, i).height <= InColumn(w, box, j).y
  <1> DEFINE n == Len(Children(w))
             h == ChildHeights(w)
             s == Sums(h)
             g == Gap(w)
             p == Padding(w)
  <1>1. n \in Nat /\ g \in Nat /\ p \in Nat
    BY WidgetsNest, OptionsType DEF Containers
  <1>2. h \in Seq(Nat) /\ Len(h) = n /\ \A k \in 1..n : h[k] = NaturalHeight[Children(w)[k]]
    BY ChildHeightsType, WidgetsNest
  <1>3. /\ s \in [0..n -> Nat] /\ s[n] = Total(h)
        /\ \A k \in 1..n : h[k] \in Nat
        /\ \A k, m \in 0..n : k < m => s[k] + h[k + 1] <= s[m]
    <2>1. \A k \in 1..n : h[k] \in Nat
      BY <1>2, ElementOfSeq
    <2> QED BY <1>2, <2>1, SumsSteps, SumsGrow DEF Total
  <1>4. NaturalHeight[w] = s[n] + g * (n - 1) + 2 * p /\ NaturalHeight[w] \in Nat
    <2>1. NaturalHeight[w] = Stacked(w, h) /\ NaturalHeight[w] \in Nat
      BY ChildHeightsType
    <2>2. n > 0
      BY <1>1
    <2> QED BY <1>2, <1>3, <2>1, <2>2, StackedType
  <1>5. box.x \in Nat /\ box.y \in Nat /\ box.width \in Nat
    BY DEF Boxes
  <1> DEFINE cb(k) == InColumn(w, box, k)
             gaps(k) == (k - 1) * g
  <1>6. ASSUME NEW k \in 1..n
        PROVE  /\ cb(k).x = box.x + p
               /\ cb(k).y = box.y + p + s[k - 1] + gaps(k)
               /\ cb(k).width = NotNegative(box.width - 2 * p)
               /\ cb(k).height = h[k]
               /\ cb(k) = [x |-> cb(k).x, y |-> cb(k).y, width |-> cb(k).width,
                           height |-> cb(k).height]
    <2>1. h[k] = NaturalHeight[Children(w)[k]]
      BY <1>2
    <2> QED BY <2>1 DEF InColumn
  <1> HIDE DEF cb, n, h, s, g, p
  <1>7. ASSUME NEW k \in 1..n
        PROVE  /\ gaps(k) \in Nat /\ s[k - 1] \in Nat /\ h[k] \in Nat
               /\ k - 1 \in 0..n /\ (k - 1) + 1 = k /\ s[k - 1] + h[k] <= s[n]
               /\ gaps(k) <= gaps(n)
               /\ \A m \in 1..n : k < m => gaps(k) <= gaps(m) /\ s[k - 1] + h[k] <= s[m - 1]
    <2>1. k - 1 \in Nat /\ k - 1 \in 0..n /\ (k - 1) + 1 = k /\ k - 1 < n /\ n \in 0..n
      BY <1>1
    <2>2. \A m \in 1..n : k <= m => k - 1 <= m - 1 /\ m - 1 \in Nat
      BY <1>1
    <2>3. \A m \in 1..n : k <= m => gaps(k) <= gaps(m)
      BY <1>1, <2>1, <2>2, Products
    <2>4. n \in 1..n /\ k <= n
      BY <1>1
    <2>5. \A m \in 1..n : k < m => k - 1 < m - 1 /\ m - 1 \in 0..n /\ k <= m
      BY <1>1
    <2>6. \A m \in 1..n : k < m => s[k - 1] + h[k] <= s[m - 1]
      BY <1>3, <2>1, <2>5
    <2>7. s[k - 1] + h[k] <= s[n]
      BY <1>3, <2>1
    <2>8. gaps(k) \in Nat
      BY <1>1, <2>1, Products
    <2> HIDE DEF gaps
    <2> QED BY <1>3, <2>1, <2>3, <2>4, <2>5, <2>6, <2>7, <2>8
  <1>8. NaturalHeight[w] = s[n] + gaps(n) + 2 * p /\ s[n] \in Nat /\ gaps(n) \in Nat
    <2>1. i \in 1..n
      BY DEF n
    <2>2. n \in 1..n /\ n \in 0..n /\ n - 1 \in Nat
      BY <1>1, <2>1
    <2>3. gaps(n) = g * (n - 1)
      BY <1>1, <2>2
    <2>4. gaps(n) \in Nat /\ s[n] \in Nat
      BY <1>3, <1>7, <2>2
    <2> QED BY <1>4, <2>3, <2>4
  <1> HIDE DEF gaps
  <1>9. cb(i) \in Boxes /\ cb(i).height = NaturalHeight[Children(w)[i]]
    <2>1. i \in 1..n
      BY DEF n
    <2>2. cb(i).x \in Nat
      BY <1>1, <1>5, <1>6, <2>1
    <2>3. cb(i).y \in Nat
      <3>1. gaps(i) \in Nat /\ s[i - 1] \in Nat
        BY <1>7, <2>1
      <3>2. box.y + p + s[i - 1] + gaps(i) \in Nat
        BY <1>1, <1>5, <3>1
      <3> QED BY <1>6, <2>1, <3>2
    <2>4. cb(i).width \in Nat
      <3>1. NotNegative(box.width - 2 * p) \in Nat
        BY <1>1, <1>5 DEF NotNegative
      <3> QED BY <1>6, <2>1, <3>1
    <2>5. cb(i).height \in Nat /\ cb(i).height = NaturalHeight[Children(w)[i]]
      BY <1>2, <1>6, <1>7, <2>1
    <2>6. [x |-> cb(i).x, y |-> cb(i).y, width |-> cb(i).width, height |-> cb(i).height] \in Boxes
      BY <2>2, <2>3, <2>4, <2>5 DEF Boxes
    <2> QED BY <1>6, <2>1, <2>5, <2>6
  <1>10. box.y <= cb(i).y /\ cb(i).y + cb(i).height <= box.y + NaturalHeight[w]
    <2>1. i \in 1..n
      BY DEF n
    <2>2. cb(i).y = box.y + p + s[i - 1] + gaps(i) /\ cb(i).height = h[i]
      BY <1>6, <2>1
    <2>3. /\ gaps(i) \in Nat /\ s[i - 1] \in Nat /\ h[i] \in Nat
          /\ s[i - 1] + h[i] <= s[n] /\ gaps(i) <= gaps(n)
      BY <1>7, <2>1
    <2>4. /\ box.y <= box.y + p + s[i - 1] + gaps(i)
          /\ box.y + p + s[i - 1] + gaps(i) + h[i] <= box.y + (s[n] + gaps(n) + 2 * p)
      <3> DEFINE Y == box.y
                 A == s[i - 1]
                 B == h[i]
                 C == gaps(i)
                 S == s[n]
                 G == gaps(n)
      <3>1. /\ Y \in Nat /\ A \in Nat /\ B \in Nat /\ C \in Nat /\ S \in Nat /\ G \in Nat
            /\ A + B <= S /\ C <= G
        BY <1>5, <1>8, <2>3
      <3> HIDE DEF Y, A, B, C, S, G
      <3>2. Y <= Y + p + A + C /\ Y + p + A + C + B <= Y + (S + G + 2 * p)
        BY <1>1, <3>1
      <3> QED BY <3>2 DEF Y, A, B, C, S, G
    <2> QED BY <1>8, <2>2, <2>4
  <1>11. box.x <= cb(i).x /\ (cb(i).width > 0 => cb(i).x + cb(i).width <= box.x + box.width)
    <2>1. i \in 1..n
      BY DEF n
    <2>2. cb(i).x = box.x + p /\ cb(i).width = NotNegative(box.width - 2 * p)
      BY <1>6, <2>1
    <2>3. NotNegative(box.width - 2 * p) > 0 =>
            NotNegative(box.width - 2 * p) = box.width - 2 * p
      BY <1>1, <1>5 DEF NotNegative
    <2>4. /\ box.x <= box.x + p
          /\ NotNegative(box.width - 2 * p) > 0 =>
               (box.x + p) + NotNegative(box.width - 2 * p) <= box.x + box.width
      BY <1>1, <1>5, <2>3
    <2> QED BY <2>2, <2>4
  <1>12. ASSUME NEW j \in 1..n, i < j
         PROVE  cb(i).y + cb(i).height <= cb(j).y
    <2>1. i \in 1..n
      BY DEF n
    <2>2. /\ cb(i).y = box.y + p + s[i - 1] + gaps(i) /\ cb(i).height = h[i]
          /\ cb(j).y = box.y + p + s[j - 1] + gaps(j)
      BY <1>6, <2>1
    <2>3. /\ gaps(i) \in Nat /\ s[i - 1] \in Nat /\ h[i] \in Nat
          /\ gaps(j) \in Nat /\ s[j - 1] \in Nat
          /\ s[i - 1] + h[i] <= s[j - 1] /\ gaps(i) <= gaps(j)
      BY <1>7, <1>12, <2>1
    <2>4. box.y + p + s[i - 1] + gaps(i) + h[i] <= box.y + p + s[j - 1] + gaps(j)
      <3> DEFINE Y == box.y
                 A == s[i - 1]
                 B == h[i]
                 C == gaps(i)
                 S == s[j - 1]
                 G == gaps(j)
      <3>1. /\ Y \in Nat /\ A \in Nat /\ B \in Nat /\ C \in Nat /\ S \in Nat /\ G \in Nat
            /\ A + B <= S /\ C <= G
        BY <1>5, <2>3
      <3> HIDE DEF Y, A, B, C, S, G
      <3>2. Y + p + A + C + B <= Y + p + S + G
        BY <1>1, <3>1
      <3> QED BY <3>2 DEF Y, A, B, C, S, G
    <2> QED BY <2>2, <2>4
  <1> QED BY <1>9, <1>10, <1>11, <1>12 DEF InColumnOf, cb, n

InRowOf(w, box, i, cb) ==
  /\ cb \in Boxes /\ cb.y = box.y /\ cb.height = box.height
  /\ NaturalHeight[Children(w)[i]] <= NaturalHeight[w]
  /\ box.x <= cb.x /\ (cb.width > 0 => cb.x + cb.width <= box.x + box.width)

\* The boxes of a row: one beside the other, as high as the row.
LEMMA Rows ==
  ASSUME NEW w \in Widgets, w.kind = "hstack", NEW box \in Boxes, NEW i \in 1..Len(Children(w))
  PROVE  /\ InRowOf(w, box, i, InRow(w, box, i))
         /\ \A j \in 1..Len(Children(w)) :
              i < j => InRow(w, box, i).x + InRow(w, box, i).width <= InRow(w, box, j).x
  <1> DEFINE n == Len(Children(w))
             g == Gap(w)
             share == (box.width - g * (n - 1)) \div n
             q == NotNegative(share)
  <1>1. n \in Nat /\ n > 0 /\ g \in Nat /\ n - 1 \in Nat
    <2>1. n \in Nat /\ g \in Nat
      BY WidgetsNest, OptionsType DEF Containers
    <2> QED BY <2>1
  <1>2. box.x \in Nat /\ box.y \in Nat /\ box.width \in Nat /\ box.height \in Nat
    BY DEF Boxes
  <1>3. g * (n - 1) \in Nat
    <2> HIDE DEF g, n
    <2> QED BY <1>1, Products
  <1>4. share \in Int /\ q \in Nat /\ (q > 0 => n * q <= box.width - g * (n - 1))
    <2> DEFINE a == box.width - g * (n - 1)
    <2>1. a \in Int
      BY <1>2, <1>3
    <2> HIDE DEF a, g, n
    <2>2. a \div n \in Int
      BY <1>1, <2>1
    <2>3. a \div n > 0 => a \div n \in Nat /\ n * (a \div n) <= a
      BY <1>1, <2>1, Share
    <2>4. NotNegative(a \div n) \in Nat /\ (NotNegative(a \div n) > 0 =>
            NotNegative(a \div n) = a \div n /\ a \div n > 0)
      BY <2>2 DEF NotNegative
    <2> QED BY <2>2, <2>3, <2>4 DEF a
  <1> DEFINE cb(k) == InRow(w, box, k)
  <1>5. \A k \in 1..n :
          /\ cb(k).x = box.x + (k - 1) * (q + g) /\ cb(k).y = box.y
          /\ cb(k).width = q /\ cb(k).height = box.height
          /\ cb(k) = [x |-> cb(k).x, y |-> cb(k).y, width |-> cb(k).width,
                      height |-> cb(k).height]
    BY DEF InRow
  <1>6. i \in 1..n /\ i - 1 \in Nat /\ i \in Nat
    OBVIOUS
  <1>7. NaturalHeight[Children(w)[i]] <= NaturalHeight[w]
    <2>1. ChildHeights(w) \in Seq(Nat) /\ NaturalHeight[w] = Highest(ChildHeights(w))
          /\ DOMAIN ChildHeights(w) = 1..n
          /\ ChildHeights(w)[i] = NaturalHeight[Children(w)[i]]
      BY ChildHeightsType, WidgetsNest, LenProperties
    <2> HIDE DEF n
    <2> QED BY <1>6, <2>1, HighestOf
  <1> HIDE DEF cb, n, g, q, share
  <1>8. \A k \in Nat : k * (q + g) \in Nat /\ k * q \in Nat /\ k * g \in Nat
                       /\ k * (q + g) = k * q + k * g
    BY <1>1, <1>4, Products
  <1>9. cb(i) \in Boxes
    <2>1. cb(i).x \in Nat
      BY <1>2, <1>5, <1>6, <1>8
    <2>2. [x |-> cb(i).x, y |-> cb(i).y, width |-> cb(i).width, height |-> cb(i).height] \in Boxes
      BY <1>2, <1>4, <1>5, <1>6, <2>1 DEF Boxes
    <2> QED BY <1>5, <1>6, <2>2
  <1> DEFINE at(k) == (k - 1) * (q + g)
  <1>10. ASSUME q > 0
         PROVE  at(i) \in Nat /\ at(i) + q <= box.width
    <2> DEFINE A == (i - 1) * q
               B == (i - 1) * g
               Q == n * q
               G == g * (n - 1)
    <2>1. Q <= box.width - G /\ Q \in Nat /\ G \in Nat
      BY <1>1, <1>3, <1>4, <1>8, <1>10
    <2>2. A + q <= Q
      <3>1. i <= n
        BY <1>6
      <3>2. i * q <= n * q
        BY <1>1, <1>4, <1>6, <3>1, Products
      <3>3. i * q = (i - 1) * q + q
        BY <1>4, <1>6
      <3> QED BY <3>2, <3>3
    <2>3. B <= G
      <3>1. i - 1 <= n - 1
        BY <1>1, <1>6
      <3>2. (i - 1) * g <= (n - 1) * g
        BY <1>1, <1>6, <3>1, Products
      <3>3. (n - 1) * g = g * (n - 1)
        BY <1>1
      <3> QED BY <3>2, <3>3
    <2>4. at(i) = A + B /\ A \in Nat /\ B \in Nat
      BY <1>6, <1>8
    <2> HIDE DEF A, B, Q, G, at
    <2> QED BY <1>2, <1>4, <2>1, <2>2, <2>3, <2>4
  <1>11. ASSUME NEW j \in 1..n, i < j
         PROVE  at(i) \in Nat /\ at(j) \in Nat /\ at(i) + q <= at(j)
    <2> DEFINE A == i * (q + g)
    <2>1. i <= j - 1 /\ j - 1 \in Nat
      BY <1>6, <1>11
    <2>2. A <= at(j)
      BY <1>1, <1>4, <1>6, <2>1, Products
    <2>3. A = at(i) + (q + g)
      <3>1. i = (i - 1) + 1 /\ q + g \in Nat /\ 1 \in Nat /\ 1 * (q + g) = q + g
        BY <1>1, <1>4, <1>6
      <3> QED BY <1>6, <3>1, Products
    <2>4. at(i) \in Nat /\ at(j) \in Nat
      BY <1>6, <1>8, <2>1
    <2> HIDE DEF A, at
    <2> QED BY <1>1, <1>4, <2>2, <2>3, <2>4
  <1>12. \A k \in 1..n : cb(k).x = box.x + at(k) /\ cb(k).width = q
    BY <1>5
  <1> HIDE DEF at
  <1>13. box.x <= cb(i).x /\ (cb(i).width > 0 => cb(i).x + cb(i).width <= box.x + box.width)
    <2>1. cb(i).x = box.x + at(i) /\ cb(i).width = q
      BY <1>6, <1>12
    <2>2. at(i) \in Nat
      BY <1>6, <1>8 DEF at
    <2>3. q > 0 => at(i) + q <= box.width
      BY <1>10
    <2> QED BY <1>2, <1>4, <2>1, <2>2, <2>3
  <1>14. ASSUME NEW j \in 1..n, i < j
         PROVE  cb(i).x + cb(i).width <= cb(j).x
    <2>1. at(i) \in Nat /\ at(j) \in Nat /\ at(i) + q <= at(j)
      BY <1>11, <1>14
    <2>2. box.x + at(i) + q <= box.x + at(j)
      BY <1>2, <1>4, <2>1
    <2> QED BY <1>6, <1>12, <2>2
  <1> QED BY <1>5, <1>6, <1>7, <1>9, <1>13, <1>14 DEF InRowOf, cb, n

\* What matters of a child's box: it keeps within the reach of its parent's, is
\* clear of those after it, and where there is room, lies within its parent's.
Within(w, box, c, cb) ==
  /\ box.y <= cb.y /\ cb.y + Reach(c, cb) <= box.y + Reach(w, box)
  /\ box.x <= cb.x /\ (cb.width > 0 => cb.x + cb.width <= box.x + box.width)

Beyond(c, cb, db) == cb.y + Reach(c, cb) <= db.y \/ cb.x + cb.width <= db.x

HasRoom(w, box) == NaturalHeight[w] <= box.height

\* The box of a child, in either container.
LEMMA ChildBoxes ==
  ASSUME NEW w \in Widgets, NEW box \in Boxes, NEW i \in 1..Len(Children(w))
  PROVE  /\ ChildBox(w, box, i) \in Boxes
         /\ Within(w, box, Children(w)[i], ChildBox(w, box, i))
         /\ \A j \in 1..Len(Children(w)) :
              i < j => Beyond(Children(w)[i], ChildBox(w, box, i), ChildBox(w, box, j))
         /\ HasRoom(w, box) =>
              /\ HasRoom(Children(w)[i], ChildBox(w, box, i))
              /\ box.y <= ChildBox(w, box, i).y
              /\ ChildBox(w, box, i).y + ChildBox(w, box, i).height <= box.y + box.height
  <1> DEFINE c == Children(w)[i]
             cb(k) == ChildBox(w, box, k)
             h == NaturalHeight[c]
             H == NaturalHeight[w]
  <1>1. w.kind \in {"vstack", "hstack"}
    <2>1. Children(w) # <<>>
      BY EmptySeq
    <2> QED BY <2>1, WidgetsNest DEF Containers
  <1>2. c \in Widgets /\ h \in Nat /\ H \in Nat
    <2>1. c \in Widgets
      BY WidgetsNest
    <2> HIDE DEF c
    <2> QED BY <2>1, NaturalHeights
  <1>3. box.y \in Nat /\ box.height \in Nat
    BY DEF Boxes
  <1>4. CASE w.kind = "vstack"
    <2>1. \A k \in 1..Len(Children(w)) : cb(k) = InColumn(w, box, k)
      BY <1>4 DEF ChildBox
    <2>2. /\ cb(i) \in Boxes /\ cb(i).height = h
          /\ box.y <= cb(i).y /\ cb(i).y + cb(i).height <= box.y + H
          /\ box.x <= cb(i).x /\ (cb(i).width > 0 => cb(i).x + cb(i).width <= box.x + box.width)
      BY <1>4, <2>1, Columns DEF InColumnOf
    <2>3. \A j \in 1..Len(Children(w)) : i < j => cb(i).y + cb(i).height <= cb(j).y
      BY <1>4, <2>1, Columns
    <2> HIDE DEF c, h, cb, H
    <2>4. Reach(c, cb(i)) = h
      BY <1>2, <2>2 DEF Reach, h
    <2>5. H <= Reach(w, box) /\ Reach(w, box) \in Nat
      BY <1>2, <1>3 DEF Reach, H
    <2>6. cb(i).y \in Nat
      BY <2>2 DEF Boxes
    <2>7. cb(i).y + h <= box.y + Reach(w, box)
      BY <1>2, <1>3, <2>2, <2>5, <2>6
    <2>8. Within(w, box, c, cb(i))
      BY <2>2, <2>4, <2>7 DEF Within
    <2>9. \A j \in 1..Len(Children(w)) : i < j => Beyond(c, cb(i), cb(j))
      BY <2>2, <2>3, <2>4 DEF Beyond
    <2>10. HasRoom(w, box) =>
             HasRoom(c, cb(i)) /\ box.y <= cb(i).y /\ cb(i).y + cb(i).height <= box.y + box.height
      <3>1. HasRoom(c, cb(i))
        BY <1>2, <2>2 DEF HasRoom, h
      <3>2. HasRoom(w, box) => H <= box.height
        BY DEF HasRoom, H
      <3>3. H <= box.height => cb(i).y + h <= box.y + box.height
        BY <1>2, <1>3, <2>2, <2>6
      <3> QED BY <2>2, <3>1, <3>2, <3>3
    <2> QED BY <2>2, <2>8, <2>9, <2>10 DEF c, cb
  <1>5. CASE w.kind = "hstack"
    <2>1. \A k \in 1..Len(Children(w)) : cb(k) = InRow(w, box, k)
      BY <1>5 DEF ChildBox
    <2>2. /\ cb(i) \in Boxes /\ cb(i).y = box.y /\ cb(i).height = box.height /\ h <= H
          /\ box.x <= cb(i).x /\ (cb(i).width > 0 => cb(i).x + cb(i).width <= box.x + box.width)
      BY <1>5, <2>1, Rows DEF InRowOf
    <2>3. \A j \in 1..Len(Children(w)) : i < j => cb(i).x + cb(i).width <= cb(j).x
      BY <1>5, <2>1, Rows
    <2> HIDE DEF c, h, cb, H
    <2>4. Reach(c, cb(i)) <= Reach(w, box) /\ Reach(c, cb(i)) \in Nat /\ Reach(w, box) \in Nat
      BY <1>2, <1>3, <2>2 DEF Reach, h, H
    <2>5. box.y + Reach(c, cb(i)) <= box.y + Reach(w, box)
      BY <1>3, <2>4
    <2>6. Within(w, box, c, cb(i))
      BY <1>3, <2>2, <2>5 DEF Within
    <2>7. \A j \in 1..Len(Children(w)) : i < j => Beyond(c, cb(i), cb(j))
      BY <2>3 DEF Beyond
    <2>8. HasRoom(w, box) =>
             HasRoom(c, cb(i)) /\ box.y <= cb(i).y /\ cb(i).y + cb(i).height <= box.y + box.height
      <3>1. HasRoom(w, box) => H <= box.height
        BY DEF HasRoom, H
      <3>2. H <= box.height => h <= box.height
        BY <1>2, <1>3, <2>2
      <3>3. box.y <= box.y /\ box.y + box.height <= box.y + box.height
        BY <1>3
      <3> QED BY <2>2, <3>1, <3>2, <3>3 DEF HasRoom, h
    <2> QED BY <2>2, <2>6, <2>7, <2>8 DEF c, cb
  <1> QED BY <1>1, <1>4, <1>5

-------------------------------------------------------------------------------
\* The list of layout

Pairs == [widget : Widgets, box : Boxes]

LayoutOver(g, w, box) ==
  <<[widget |-> w, box |-> box]>> \o
    FlattenSeq([i \in DOMAIN Children(w) |-> g[Children(w)[i]][ChildBox(w, box, i)]])

LEMMA LayoutOverType ==
  ASSUME NEW w \in Widgets, NEW box \in Boxes,
         NEW ss, DOMAIN ss = DOMAIN Children(w), \A i \in DOMAIN ss : ss[i] \in Seq(Pairs),
         ss = [i \in DOMAIN ss |-> ss[i]]
  PROVE  /\ ss \in Seq(Seq(Pairs)) /\ Len(ss) = Len(Children(w))
         /\ <<[widget |-> w, box |-> box]>> \o FlattenSeq(ss) \in Seq(Pairs)
  <1> DEFINE n == Len(Children(w))
  <1>1. n \in Nat /\ DOMAIN Children(w) = 1..n
    BY WidgetsNest
  <1> HIDE DEF n
  <1>2. ss \in [1..n -> Seq(Pairs)]
    BY <1>1
  <1>3. ss \in Seq(Seq(Pairs))
    BY <1>1, <1>2, SeqDef
  <1>4. Len(ss) = n
    BY <1>1, <1>3, LenProperties
  <1>5. FlattenSeq(ss) \in Seq(Pairs)
    BY <1>3, FlattenAt
  <1>6. [widget |-> w, box |-> box] \in Pairs
    BY DEF Pairs
  <1>7. <<[widget |-> w, box |-> box]>> \in Seq(Pairs)
    BY <1>6
  <1> QED BY <1>3, <1>4, <1>5, <1>7, ConcatProperties DEF n

\* layout_widget is defined for every widget and every box.
LEMMA Layouts ==
  /\ LayoutWidget \in [Widgets -> [Boxes -> Seq(Pairs)]]
  /\ \A w \in Widgets : \A box \in Boxes :
       LayoutWidget[w][box] = LayoutOver(LayoutWidget, w, box)
  <1> DEFINE V == [Boxes -> Seq(Pairs)]
             Given(w, s, box) == [i \in DOMAIN Children(w) |-> s[i][ChildBox(w, box, i)]]
             Laid(w, s) == [box \in Boxes |->
                              <<[widget |-> w, box |-> box]>> \o FlattenSeq(Given(w, s, box))]
             Step == [w \in Widgets |-> [s \in Seq(V) |->
                        IF Len(s) = Len(Children(w)) THEN Laid(w, s) ELSE [box \in Boxes |-> <<>>]]]
             G(h) == h = [w \in Widgets |-> [box \in Boxes |-> LayoutOver(h, w, box)]]
  <1>1. ASSUME NEW w \in Widgets, NEW s \in Seq(V), Len(s) = Len(Children(w)), NEW box \in Boxes
        PROVE  <<[widget |-> w, box |-> box]>> \o FlattenSeq(Given(w, s, box)) \in Seq(Pairs)
    <2> DEFINE ss == Given(w, s, box)
    <2>1. DOMAIN ss = DOMAIN Children(w) /\ ss = [i \in DOMAIN ss |-> ss[i]]
      OBVIOUS
    <2>2. ASSUME NEW i \in DOMAIN Children(w) PROVE ss[i] \in Seq(Pairs)
      <3>1. i \in 1..Len(Children(w))
        BY WidgetsNest
      <3>2. s[i] \in V
        BY <1>1, <3>1, ElementOfSeq
      <3>3. ChildBox(w, box, i) \in Boxes
        BY <3>1, ChildBoxes
      <3> QED BY <3>2, <3>3
    <2> HIDE DEF ss
    <2>3. <<[widget |-> w, box |-> box]>> \o FlattenSeq(ss) \in Seq(Pairs)
      BY <2>1, <2>2, LayoutOverType
    <2> QED BY <2>3 DEF ss
  <1>2. Step \in [Widgets -> [Seq(V) -> V]]
    <2>1. \A w \in Widgets : \A s \in Seq(V) : Len(s) = Len(Children(w)) => Laid(w, s) \in V
      <3> HIDE DEF Given
      <3> QED BY <1>1
    <2>2. [box \in Boxes |-> <<>>] \in V
      <3>1. <<>> \in Seq(Pairs)
        BY EmptySeq
      <3> QED BY <3>1
    <2> HIDE DEF Laid, V
    <2> QED BY <2>1, <2>2
  <1>3. PICK g \in [Widgets -> V] : Recursion(g, Step)
    <2> HIDE DEF Step, V
    <2> QED BY <1>2, RecursionExists
  <1>4. ASSUME NEW w \in Widgets PROVE g[w] = [box \in Boxes |-> LayoutOver(g, w, box)]
    <2> DEFINE s == OfChildren(g, w)
    <2>1. g[w] = Step[w][s]
      <3> HIDE DEF Step
      <3> QED BY <1>3 DEF Recursion
    <2>2. s \in Seq(V)
      BY OfChildrenType
    <2>3. Len(s) = Len(Children(w))
      <3>1. DOMAIN s = DOMAIN Children(w)
        BY DEF OfChildren
      <3> HIDE DEF s, V
      <3> QED BY <2>2, <3>1, WidgetsNest, LenProperties
    <2>4. Step[w][s] = Laid(w, s)
      <3> HIDE DEF Laid, V, s
      <3> QED BY <2>2, <2>3
    <2>5. \A box \in Boxes : Given(w, s, box) =
            [i \in DOMAIN Children(w) |-> g[Children(w)[i]][ChildBox(w, box, i)]]
      BY DEF OfChildren
    <2>6. Laid(w, s) = [box \in Boxes |-> LayoutOver(g, w, box)]
      <3> HIDE DEF Given, s
      <3> QED BY <2>5 DEF LayoutOver
    <2> QED BY <2>1, <2>4, <2>6
  <1>5. G(g)
    <2> HIDE DEF Step, V
    <2> QED BY <1>3, <1>4 DEF Recursion
  <1>6. LayoutWidget = CHOOSE h : G(h)
    BY DEF LayoutWidget, LayoutOver
  <1>7. G(LayoutWidget)
    <2> HIDE DEF G
    <2> QED BY <1>5, <1>6
  <1> DEFINE S == {w \in Widgets : LayoutWidget[w] \in V}
  <1>8. ASSUME NEW w \in Widgets, \A i \in DOMAIN Children(w) : Children(w)[i] \in S
        PROVE  w \in S
    <2>1. ASSUME NEW box \in Boxes PROVE LayoutOver(LayoutWidget, w, box) \in Seq(Pairs)
      <3> DEFINE ss == [i \in DOMAIN Children(w) |->
                          LayoutWidget[Children(w)[i]][ChildBox(w, box, i)]]
      <3>1. DOMAIN ss = DOMAIN Children(w) /\ ss = [i \in DOMAIN ss |-> ss[i]]
        OBVIOUS
      <3>2. \A i \in DOMAIN Children(w) : ss[i] \in Seq(Pairs)
        BY <1>8, WidgetsNest, ChildBoxes
      <3> HIDE DEF ss
      <3>3. <<[widget |-> w, box |-> box]>> \o FlattenSeq(ss) \in Seq(Pairs)
        BY <3>1, <3>2, LayoutOverType
      <3> QED BY <3>3 DEF ss, LayoutOver
    <2>2. LayoutWidget[w] = [box \in Boxes |-> LayoutOver(LayoutWidget, w, box)]
      BY <1>7
    <2> HIDE DEF G
    <2> QED BY <2>1, <2>2
  <1>9. Widgets \subseteq S
    <2> HIDE DEF S
    <2> QED BY <1>8, WidgetInduction
  <1>10. \A w \in Widgets : LayoutWidget[w] = [box \in Boxes |-> LayoutOver(LayoutWidget, w, box)]
    BY <1>7
  <1>11. LayoutWidget \in [Widgets -> V]
    <2>1. \A w \in Widgets : LayoutWidget[w] \in V
      BY <1>9
    <2>2. LayoutWidget = [w \in Widgets |-> [box \in Boxes |-> LayoutOver(LayoutWidget, w, box)]]
      BY <1>7
    <2> HIDE DEF V, G
    <2> QED BY <2>1, <2>2
  <1> QED BY <1>10, <1>11

\* The lists of the children, and how many widgets come before each.
Below(w, box) == [i \in DOMAIN Children(w) |-> LayoutWidget[Children(w)[i]][ChildBox(w, box, i)]]
Before(w, box) == Sums(Lengths(Below(w, box)))

\* The list L of a widget with a box: itself, and the lists B of its children, of
\* which s[i] widgets come from the first i.
Parts(w, box, L, B, s) ==
  /\ L \in Seq(Pairs) /\ Len(L) \in Nat /\ L[1] = [widget |-> w, box |-> box]
  /\ s \in [0..Len(Children(w)) -> Nat] /\ s[0] = 0 /\ Len(L) = 1 + s[Len(Children(w))]
  /\ \A i \in 1..Len(Children(w)) :
       /\ B[i] = LayoutWidget[Children(w)[i]][ChildBox(w, box, i)]
       /\ B[i] \in Seq(Pairs) /\ Len(B[i]) \in Nat /\ s[i] = s[i - 1] + Len(B[i])
       /\ \A k \in 1..Len(B[i]) : L[1 + s[i - 1] + k] = B[i][k]
  /\ \A x \in 2..Len(L) :
       \E i \in 1..Len(Children(w)) : \E k \in 1..Len(B[i]) : x = 1 + s[i - 1] + k
  /\ \A i, j \in 0..Len(Children(w)) : i <= j => s[i] <= s[j]

\* The list of a widget: itself, and what FlattenSeq makes of those of its children.
LEMMA LayoutParts ==
  ASSUME NEW w \in Widgets, NEW box \in Boxes
  PROVE  Parts(w, box, LayoutWidget[w][box], Below(w, box), Before(w, box))
  <1> DEFINE L == LayoutWidget[w][box]
             n == Len(Children(w))
             B == Below(w, box)
             s == Before(w, box)
             F == FlattenSeq(B)
             first == [widget |-> w, box |-> box]
  <1>1. n \in Nat /\ DOMAIN Children(w) = 1..n
    BY WidgetsNest
  <1>2. L = <<first>> \o F
    BY Layouts DEF LayoutOver, Below
  <1>3. L \in Seq(Pairs)
    BY Layouts
  <1>4. \A i \in 1..n : B[i] = LayoutWidget[Children(w)[i]][ChildBox(w, box, i)] /\ B[i] \in Seq(Pairs)
    BY <1>1, WidgetsNest, ChildBoxes, Layouts DEF Below
  <1>5. B \in Seq(Seq(Pairs)) /\ Len(B) = n
    <2>1. DOMAIN B = DOMAIN Children(w) /\ B = [i \in DOMAIN B |-> B[i]]
      BY DEF Below
    <2>2. \A i \in DOMAIN B : B[i] \in Seq(Pairs)
      BY <1>1, <1>4, <2>1
    <2> HIDE DEF B, n
    <2> QED BY <2>1, <2>2, LayoutOverType DEF n
  <1> HIDE DEF B, n
  <1> DEFINE lens == Lengths(B)
  <1>6. /\ lens \in Seq(Nat) /\ Len(lens) = n
        /\ \A i \in 1..n : lens[i] = Len(B[i])
    BY <1>5, LengthsType
  <1>7. /\ F \in Seq(Pairs) /\ Len(F) = Total(lens)
        /\ \A i \in 1..n : \A k \in 1..Len(B[i]) : F[Sums(lens)[i - 1] + k] = B[i][k]
    BY <1>5, FlattenAt
  <1>8. s = Sums(lens)
    BY DEF Before, B
  <1> HIDE DEF lens, F, s
  <1>9. /\ s \in [0..n -> Nat] /\ s[0] = 0 /\ Total(lens) = s[n]
        /\ \A i \in 1..n : s[i] = s[i - 1] + Len(B[i])
    BY <1>6, <1>8, SumsSteps DEF Total
  <1>10. \A i \in 1..n : Len(B[i]) \in Nat
    BY <1>4, LenProperties
  <1>11. \A i, j \in 0..n : i <= j => s[i] <= s[j]
    <2> SUFFICES ASSUME NEW i \in 0..n, NEW j \in 0..n, i < j PROVE s[i] <= s[j]
      BY <1>1, <1>9
    <2>1. s[i] + lens[i + 1] <= s[j]
      BY <1>6, <1>8, SumsGrow
    <2>2. i + 1 \in 1..n
      BY <1>1
    <2>3. lens[i + 1] \in Nat
      BY <1>6, <1>10, <2>2
    <2> QED BY <1>9, <2>1, <2>3
  <1>12. s[n] \in Nat /\ Len(F) = s[n]
    <2>1. n \in 0..n
      BY <1>1
    <2> QED BY <1>7, <1>9, <2>1
  <1>13. /\ Len(L) = 1 + s[n] /\ L[1] = first
         /\ \A x \in 1..s[n] : L[1 + x] = F[x]
    <2>1. first \in Pairs
      BY DEF Pairs
    <2> HIDE DEF first, L
    <2>2. <<first>> \in Seq(Pairs) /\ Len(<<first>>) = 1 /\ <<first>>[1] = first
      BY <2>1
    <2> DEFINE a == <<first>>
    <2>3. a \in Seq(Pairs) /\ Len(a) = 1 /\ a[1] = first /\ L = a \o F
      BY <1>2, <2>2
    <2> HIDE DEF a
    <2>4. /\ Len(a \o F) = Len(a) + Len(F)
          /\ \A x \in 1..(Len(a) + Len(F)) : (a \o F)[x] = IF x <= Len(a) THEN a[x] ELSE F[x - Len(a)]
      BY <1>7, <2>3, ConcatProperties
    <2>5. /\ Len(L) = 1 + s[n]
          /\ \A x \in 1..(1 + s[n]) : L[x] = IF x <= 1 THEN a[x] ELSE F[x - 1]
      BY <1>12, <2>3, <2>4
    <2>6. 1 \in 1..(1 + s[n])
      BY <1>12
    <2>7. \A x \in 1..s[n] : 1 + x \in 1..(1 + s[n]) /\ ~(1 + x <= 1) /\ (1 + x) - 1 = x
      BY <1>12
    <2> QED BY <2>3, <2>5, <2>6, <2>7
  <1>14. ASSUME NEW i \in 1..n, NEW k \in 1..Len(B[i]) PROVE L[1 + s[i - 1] + k] = B[i][k]
    <2>1. i - 1 \in 0..n /\ i \in 0..n /\ n \in 0..n /\ i <= n
      BY <1>1
    <2>2. s[i] <= s[n] /\ s[i] = s[i - 1] + Len(B[i])
      BY <1>9, <1>11, <2>1
    <2>3. s[i - 1] \in Nat /\ Len(B[i]) \in Nat
      BY <1>9, <1>10, <2>1
    <2>4. s[i - 1] + k \in 1..s[n] /\ 1 + (s[i - 1] + k) = 1 + s[i - 1] + k
      BY <1>12, <2>2, <2>3
    <2>5. L[1 + (s[i - 1] + k)] = F[s[i - 1] + k]
      BY <1>13, <2>4
    <2>6. F[s[i - 1] + k] = B[i][k]
      BY <1>7, <1>8
    <2> QED BY <2>4, <2>5, <2>6
  <1>15. ASSUME NEW x \in 2..Len(L)
         PROVE  \E i \in 1..n : \E k \in 1..Len(B[i]) : x = 1 + s[i - 1] + k
    <2>1. x - 1 \in 1..Total(lens)
      BY <1>9, <1>12, <1>13
    <2>2. PICK i \in 1..n : \E k \in 1..lens[i] : x - 1 = s[i - 1] + k
      BY <1>6, <1>8, <2>1, SumsCover
    <2>3. PICK k \in 1..Len(B[i]) : x - 1 = s[i - 1] + k
      BY <1>6, <2>2
    <2>4. i - 1 \in 0..n
      BY <1>1
    <2>5. s[i - 1] \in Nat
      BY <1>9, <2>4
    <2>6. x = 1 + s[i - 1] + k
      BY <2>3, <2>5
    <2> QED BY <2>6
  <1>16. Len(L) \in Nat
    BY <1>12, <1>13
  <1> HIDE DEF L
  <1>17. Parts(w, box, L, B, s)
    BY <1>3, <1>4, <1>9, <1>10, <1>11, <1>13, <1>14, <1>15, <1>16 DEF Parts, n
  <1> QED BY <1>17 DEF L, B, s

\* A box does not begin before its widget's, and one that has a width ends in reach.
InReach(b, w, box) ==
  /\ box.x <= b.x /\ box.y <= b.y
  /\ b.width > 0 =>
       b.x + b.width <= box.x + box.width /\ b.y + b.height <= box.y + Reach(w, box)

LEMMA ReachType ==
  ASSUME NEW w \in Widgets, NEW box \in Boxes
  PROVE  Reach(w, box) \in Nat /\ box.height <= Reach(w, box)
  <1>1. box.height \in Nat
    BY DEF Boxes
  <1> QED BY <1>1, NaturalHeights DEF Reach

\* What is in reach of a child is in reach of its parent.
LEMMA InReachOfParent ==
  ASSUME NEW w \in Widgets, NEW box \in Boxes, NEW i \in 1..Len(Children(w)), NEW b \in Boxes,
         InReach(b, Children(w)[i], ChildBox(w, box, i))
  PROVE  InReach(b, w, box)
  <1> DEFINE c == Children(w)[i]
             cb == ChildBox(w, box, i)
  <1>1. cb \in Boxes /\ Within(w, box, c, cb) /\ c \in Widgets
    BY ChildBoxes, WidgetsNest
  <1> HIDE DEF c, cb
  <1>2. /\ cb.x <= b.x /\ cb.y <= b.y
        /\ b.width > 0 =>
             b.x + b.width <= cb.x + cb.width /\ b.y + b.height <= cb.y + Reach(c, cb)
    BY DEF InReach, c, cb
  <1>3. /\ b.x \in Nat /\ b.y \in Nat /\ b.width \in Nat /\ b.height \in Nat
        /\ cb.x \in Nat /\ cb.y \in Nat /\ cb.width \in Nat
        /\ box.x \in Nat /\ box.y \in Nat /\ box.width \in Nat
    BY <1>1 DEF Boxes
  <1>4. Reach(c, cb) \in Nat /\ Reach(w, box) \in Nat
    BY <1>1, ReachType
  <1>5. /\ box.y <= cb.y /\ cb.y + Reach(c, cb) <= box.y + Reach(w, box)
        /\ box.x <= cb.x /\ (cb.width > 0 => cb.x + cb.width <= box.x + box.width)
    BY <1>1 DEF Within
  <1>6. \A p, q, r \in Nat : p + q \in Nat /\ (p <= q /\ q <= r => p <= r)
    OBVIOUS
  <1>7. box.x <= b.x /\ box.y <= b.y
    BY <1>2, <1>3, <1>5, <1>6
  <1>8. ASSUME b.width > 0
        PROVE  b.x + b.width <= box.x + box.width /\ b.y + b.height <= box.y + Reach(w, box)
    <2>1. cb.width > 0
      BY <1>2, <1>3, <1>8
    <2>2. b.x + b.width <= box.x + box.width
      <3>1. b.x + b.width \in Nat /\ cb.x + cb.width \in Nat /\ box.x + box.width \in Nat
        BY <1>3, <1>6
      <3> QED BY <1>2, <1>5, <1>6, <1>8, <2>1, <3>1
    <2>3. b.y + b.height <= box.y + Reach(w, box)
      <3>1. b.y + b.height \in Nat /\ cb.y + Reach(c, cb) \in Nat /\ box.y + Reach(w, box) \in Nat
        BY <1>3, <1>4, <1>6
      <3> QED BY <1>2, <1>5, <1>6, <1>8, <3>1
    <2> QED BY <2>2, <2>3
  <1> QED BY <1>7, <1>8 DEF InReach

\* All a widget lays out stays in its reach.
LEMMA AllInReach ==
  ASSUME NEW w \in Widgets, NEW box \in Boxes
  PROVE  \A x \in 1..Len(LayoutWidget[w][box]) :
           LayoutWidget[w][box][x].box \in Boxes /\ InReach(LayoutWidget[w][box][x].box, w, box)
  <1> DEFINE Ok(v, b) == \A x \in 1..Len(LayoutWidget[v][b]) :
                           InReach(LayoutWidget[v][b][x].box, v, b)
             S == {v \in Widgets : \A b \in Boxes : Ok(v, b)}
  <1>1. ASSUME NEW v \in Widgets, NEW b \in Boxes
        PROVE  \A x \in 1..Len(LayoutWidget[v][b]) :
                 LayoutWidget[v][b][x].box \in Boxes /\ LayoutWidget[v][b][x].widget \in Widgets
    <2>1. \A x \in 1..Len(LayoutWidget[v][b]) : LayoutWidget[v][b][x] \in Pairs
      BY Layouts, ElementOfSeq
    <2> QED BY <2>1 DEF Pairs
  <1>2. ASSUME NEW v \in Widgets, \A i \in DOMAIN Children(v) : Children(v)[i] \in S
        PROVE  v \in S
    <2> SUFFICES ASSUME NEW b \in Boxes, NEW x \in 1..Len(LayoutWidget[v][b])
                 PROVE  InReach(LayoutWidget[v][b][x].box, v, b)
      OBVIOUS
    <2> DEFINE n == Len(Children(v))
               L == LayoutWidget[v][b]
               B == Below(v, b)
               s == Before(v, b)
    <2>0. Parts(v, b, L, B, s)
      BY LayoutParts
    <2> HIDE DEF L, B, s
    <2> SUFFICES InReach(L[x].box, v, b)
      BY DEF L
    <2>1. CASE x = 1
      <3>1. L[x].box = b
        BY <2>0, <2>1 DEF Parts
      <3>2. b.x \in Nat /\ b.y \in Nat /\ b.width \in Nat /\ b.height \in Nat
        BY DEF Boxes
      <3>3. InReach(b, v, b)
        BY <3>2, ReachType DEF InReach
      <3> QED BY <3>1, <3>3
    <2>2. CASE x # 1
      <3>1. x \in 2..Len(L)
        BY <2>0, <2>2 DEF Parts, L
      <3>2. PICK i \in 1..n : \E k \in 1..Len(B[i]) : x = 1 + s[i - 1] + k
        BY <2>0, <3>1 DEF Parts
      <3>3. PICK k \in 1..Len(B[i]) : x = 1 + s[i - 1] + k
        BY <3>2
      <3>4. L[x] = B[i][k]
        BY <2>0, <3>3 DEF Parts
      <3>5. B[i] = LayoutWidget[Children(v)[i]][ChildBox(v, b, i)]
        BY <2>0 DEF Parts
      <3>6. Children(v)[i] \in S /\ ChildBox(v, b, i) \in Boxes /\ Children(v)[i] \in Widgets
        BY <1>2, WidgetsNest, ChildBoxes
      <3>7. InReach(B[i][k].box, Children(v)[i], ChildBox(v, b, i))
        BY <3>5, <3>6
      <3>8. B[i][k].box \in Boxes
        BY <1>1, <3>5, <3>6
      <3> QED BY <3>4, <3>7, <3>8, InReachOfParent
    <2> QED BY <2>1, <2>2
  <1>3. Widgets \subseteq S
    <2> HIDE DEF S
    <2> QED BY <1>2, WidgetInduction
  <1> QED BY <1>1, <1>3

\* Of two children, what is in reach of the later has no point within a box of
\* the earlier that has a width.
LEMMA LaterIsOutside ==
  ASSUME NEW c \in Widgets, NEW cb \in Boxes, NEW d \in Widgets, NEW db \in Boxes,
         Beyond(c, cb, db), NEW a \in Boxes, NEW b \in Boxes,
         InReach(a, c, cb), InReach(b, d, db), NEW x \in Int, NEW y \in Int,
         Inside(x, y, a)
  PROVE  ~Covers(b, x, y)
  <1>1. /\ a.x \in Nat /\ a.y \in Nat /\ a.width \in Nat /\ a.height \in Nat
        /\ b.x \in Nat /\ b.y \in Nat /\ b.width \in Nat /\ b.height \in Nat
        /\ cb.x \in Nat /\ cb.y \in Nat /\ cb.width \in Nat
        /\ db.x \in Nat /\ db.y \in Nat
    BY DEF Boxes
  <1>2. x < a.x + a.width /\ y < a.y + a.height /\ a.width > 0
    BY <1>1 DEF Inside
  <1>3. /\ a.x + a.width <= cb.x + cb.width /\ a.y + a.height <= cb.y + Reach(c, cb)
        /\ db.x <= b.x /\ db.y <= b.y
    BY <1>2 DEF InReach
  <1>4. Reach(c, cb) \in Nat
    BY ReachType
  <1>5. cb.y + Reach(c, cb) <= db.y \/ cb.x + cb.width <= db.x
    BY DEF Beyond
  <1>6. y < b.y \/ x < b.x
    BY <1>1, <1>2, <1>3, <1>4, <1>5
  <1> QED BY <1>1, <1>6 DEF Covers

LEMMA BlocksInOrder ==
  ASSUME NEW a \in Nat, NEW b \in Nat, NEW d \in Nat, NEW k \in Nat, NEW m \in Nat,
         1 + a + k < 1 + b + m
  PROVE  (1 <= k /\ m <= d => ~(b + d <= a)) /\ (a = b => k < m)
  OBVIOUS

\* What is listed before another is of an earlier child, or before it in the same.
LEMMA ListedInOrder ==
  ASSUME NEW w \in Widgets, NEW box, NEW L, NEW B, NEW s, Parts(w, box, L, B, s),
         NEW i \in 1..Len(Children(w)), NEW j \in 1..Len(Children(w)),
         NEW k \in 1..Len(B[i]), NEW m \in 1..Len(B[j]),
         1 + s[i - 1] + k < 1 + s[j - 1] + m
  PROVE  i <= j /\ (i = j => k < m)
  <1> DEFINE n == Len(Children(w))
  <1>1. n \in Nat
    BY WidgetsNest
  <1>2. /\ s \in [0..n -> Nat] /\ \A e, f \in 0..n : e <= f => s[e] <= s[f]
        /\ \A e \in 1..n : s[e] = s[e - 1] + Len(B[e]) /\ Len(B[e]) \in Nat
    BY DEF Parts
  <1> HIDE DEF n
  <1>3. i \in 1..n /\ j \in 1..n
    BY DEF n
  <1>4. i - 1 \in 0..n /\ j - 1 \in 0..n /\ j \in 0..n /\ (j < i => j <= i - 1)
    BY <1>1, <1>3
  <1>5. s[i - 1] \in Nat /\ s[j - 1] \in Nat /\ Len(B[j]) \in Nat /\ Len(B[i]) \in Nat
    BY <1>2, <1>3, <1>4
  <1>6. j < i => s[j - 1] + Len(B[j]) <= s[i - 1]
    BY <1>2, <1>3, <1>4
  <1>7. k \in Nat /\ m \in Nat /\ 1 <= k /\ m <= Len(B[j])
    BY <1>5
  <1>8. ~(s[j - 1] + Len(B[j]) <= s[i - 1]) /\ (s[i - 1] = s[j - 1] => k < m)
    BY <1>5, <1>7, BlocksInOrder
  <1>9. ~(j < i) /\ (i = j => k < m)
    BY <1>6, <1>8
  <1> QED BY <1>9

\* A point within a control of a list is in none of the controls after it: of one
\* child by induction, of two because the later is beyond the earlier.
LEMMA LaterControlsAreOutside ==
  ASSUME NEW w \in Widgets, NEW box \in Boxes
  PROVE  \A x, y \in 1..Len(LayoutWidget[w][box]) :
           IsControl(LayoutWidget[w][box][x].widget) /\ IsControl(LayoutWidget[w][box][y].widget)
             /\ x < y =>
             \A p, q \in Int : Inside(p, q, LayoutWidget[w][box][x].box) =>
               ~Covers(LayoutWidget[w][box][y].box, p, q)
  <1> DEFINE Apart(L) == \A x, y \in 1..Len(L) :
                           IsControl(L[x].widget) /\ IsControl(L[y].widget) /\ x < y =>
                             \A p, q \in Int : Inside(p, q, L[x].box) => ~Covers(L[y].box, p, q)
             S == {v \in Widgets : \A b \in Boxes : Apart(LayoutWidget[v][b])}
  <1>1. ASSUME NEW v \in Widgets, \A i \in DOMAIN Children(v) : Children(v)[i] \in S
        PROVE  v \in S
    <2> SUFFICES ASSUME NEW b \in Boxes PROVE Apart(LayoutWidget[v][b])
      OBVIOUS
    <2> DEFINE L == LayoutWidget[v][b]
               n == Len(Children(v))
               B == Below(v, b)
               s == Before(v, b)
    <2> SUFFICES ASSUME NEW x \in 1..Len(L), NEW y \in 1..Len(L),
                        IsControl(L[x].widget), IsControl(L[y].widget), x < y,
                        NEW p \in Int, NEW q \in Int, Inside(p, q, L[x].box)
                 PROVE  ~Covers(L[y].box, p, q)
      OBVIOUS
    <2>0. Parts(v, b, L, B, s)
      BY LayoutParts
    <2>1. x # 1 /\ y # 1
      <3>1. y # 1
        OBVIOUS
      <3> SUFFICES ASSUME x = 1 PROVE FALSE
        BY <3>1
      <3> HIDE DEF L, B, s
      <3>2. L[1].widget = v
        BY <2>0 DEF Parts
      <3>3. IsControl(v)
        BY <3>2
      <3>4. Children(v) = <<>>
        BY <3>3, WidgetsNest DEF IsControl, Containers
      <3>5. n = 0
        BY <3>4, EmptySeq
      <3>6. Len(L) = 1
        BY <2>0, <3>5 DEF Parts
      <3> QED BY <3>6
    <2>2. \A z \in 1..Len(L) : z # 1 =>
            \E i \in 1..n : \E k \in 1..Len(B[i]) : L[z] = B[i][k] /\ z = 1 + s[i - 1] + k
      <3> HIDE DEF L, B, s
      <3>1. \A z \in 1..Len(L) : z # 1 => z \in 2..Len(L)
        BY <2>0 DEF Parts
      <3>2. \A z \in 2..Len(L) : \E i \in 1..n : \E k \in 1..Len(B[i]) : z = 1 + s[i - 1] + k
        BY <2>0 DEF Parts
      <3>3. \A i \in 1..n : \A k \in 1..Len(B[i]) : L[1 + s[i - 1] + k] = B[i][k]
        BY <2>0 DEF Parts
      <3> HIDE DEF n
      <3> SUFFICES ASSUME NEW z \in 1..Len(L), z # 1
                   PROVE  \E i \in 1..n : \E k \in 1..Len(B[i]) :
                            L[z] = B[i][k] /\ z = 1 + s[i - 1] + k
        OBVIOUS
      <3>4. PICK i \in 1..n : \E k \in 1..Len(B[i]) : z = 1 + s[i - 1] + k
        BY <3>1, <3>2
      <3>5. PICK k \in 1..Len(B[i]) : z = 1 + s[i - 1] + k
        BY <3>4
      <3>6. L[z] = B[i][k]
        BY <3>3, <3>5
      <3> QED BY <3>5, <3>6
    <2> DEFINE c(i) == Children(v)[i]
               cb(i) == ChildBox(v, b, i)
    <2>3. ASSUME NEW i \in 1..n
          PROVE  /\ c(i) \in S /\ c(i) \in Widgets /\ cb(i) \in Boxes
                 /\ B[i] = LayoutWidget[c(i)][cb(i)]
                 /\ \A j \in 1..n : i < j => Beyond(c(i), cb(i), cb(j))
      <3>1. c(i) \in S /\ c(i) \in Widgets
        BY <1>1, WidgetsNest
      <3>2. cb(i) \in Boxes /\ \A j \in 1..n : i < j => Beyond(c(i), cb(i), cb(j))
        BY ChildBoxes
      <3>3. B[i] = LayoutWidget[c(i)][cb(i)]
        <4> HIDE DEF L, B, s
        <4> QED BY <2>0 DEF Parts
      <3> QED BY <3>1, <3>2, <3>3
    <2> HIDE DEF L, n, B, s, c, cb, S, Apart
    <2>4. ASSUME NEW i \in 1..n, NEW k \in 1..Len(B[i]), NEW j \in 1..n, NEW m \in 1..Len(B[j]),
                 i < j, Inside(p, q, B[i][k].box)
          PROVE  ~Covers(B[j][m].box, p, q)
      <3>1. /\ B[i][k].box \in Boxes /\ InReach(B[i][k].box, c(i), cb(i))
            /\ B[j][m].box \in Boxes /\ InReach(B[j][m].box, c(j), cb(j))
        BY <2>3, AllInReach
      <3>2. Beyond(c(i), cb(i), cb(j))
        BY <2>3, <2>4
      <3> QED BY <2>3, <2>4, <3>1, <3>2, LaterIsOutside
    <2>5. PICK i \in 1..n : \E k \in 1..Len(B[i]) : L[x] = B[i][k] /\ x = 1 + s[i - 1] + k
      BY <2>1, <2>2
    <2>6. PICK k \in 1..Len(B[i]) : L[x] = B[i][k] /\ x = 1 + s[i - 1] + k
      BY <2>5
    <2>7. PICK j \in 1..n : \E m \in 1..Len(B[j]) : L[y] = B[j][m] /\ y = 1 + s[j - 1] + m
      BY <2>1, <2>2
    <2>8. PICK m \in 1..Len(B[j]) : L[y] = B[j][m] /\ y = 1 + s[j - 1] + m
      BY <2>7
    <2>9. 1 + s[i - 1] + k < 1 + s[j - 1] + m
      BY <2>6, <2>8
    <2>10. i <= j /\ (i = j => k < m)
      BY <2>0, <2>9, ListedInOrder DEF n
    <2>11. CASE i = j
      <3>1. Apart(B[i])
        BY <2>3 DEF S
      <3> QED BY <2>6, <2>8, <2>10, <2>11, <3>1 DEF Apart
    <2>12. CASE i < j
      BY <2>4, <2>6, <2>8, <2>12
    <2> QED BY <2>10, <2>11, <2>12
  <1>2. Widgets \subseteq S
    <2> HIDE DEF S
    <2> QED BY <1>1, WidgetInduction
  <1> QED BY <1>2

-------------------------------------------------------------------------------
\* The stack of the tree's builder

Frame == [node : Nat, expected : Nat, assigned : Nat]
FrameOf(node, expected, assigned) == [node |-> node, expected |-> expected, assigned |-> assigned]
IsOpen(f) == f.assigned < f.expected
OpenStacks == {s \in Seq(Frame) : \A n \in 1..Len(s) : IsOpen(s[n])}
Top(stack) == IF stack = <<>> THEN 0 ELSE Last(stack).node
After(stack) == PopFull(Counted(stack))

\* A stack that is not empty has a top.
LEMMA SplitLast ==
  ASSUME NEW s \in Seq(Frame), s # <<>>
  PROVE  \E r \in Seq(Frame) : \E f \in Frame : s = Append(r, f)
  <1> DEFINE n == Len(s)
             r == SubSeq(s, 1, n - 1)
             f == s[n]
  <1>1. n \in Nat /\ n > 0 /\ \A k \in 1..n : s[k] \in Frame
    BY EmptySeq, LenProperties, ElementOfSeq
  <1> HIDE DEF n
  <1>2. n \in 1..n /\ n - 1 \in Nat /\ \A k \in 1..(n - 1) : k \in 1..n
    BY <1>1
  <1>3. f \in Frame
    BY <1>1, <1>2
  <1>4. r \in Seq(Frame) /\ Len(r) = n - 1 /\ \A k \in 1..(n - 1) : r[k] = s[k]
    <2>1. \A k \in 1..(n - 1) : s[k] \in Frame
      BY <1>1, <1>2
    <2>2. /\ r \in Seq(Frame) /\ Len(r) = IF 1 <= n - 1 THEN (n - 1) - 1 + 1 ELSE 0
          /\ \A k \in 1..((n - 1) - 1 + 1) : r[k] = s[1 + k - 1]
      BY <1>2, <2>1, SubSeqProperties
    <2> HIDE DEF r
    <2>3. (n - 1) - 1 + 1 = n - 1 /\ \A k \in Nat : 1 + k - 1 = k
      BY <1>1
    <2> QED BY <1>1, <2>2, <2>3
  <1> HIDE DEF r, f
  <1>5. /\ Append(r, f) \in Seq(Frame) /\ Len(Append(r, f)) = n
        /\ \A k \in 1..(n - 1) : Append(r, f)[k] = s[k]
        /\ Append(r, f)[n] = s[n]
    <2>1. /\ Append(r, f) \in Seq(Frame) /\ Len(Append(r, f)) = Len(r) + 1
          /\ \A k \in 1..Len(r) : Append(r, f)[k] = r[k]
          /\ Append(r, f)[Len(r) + 1] = f
      BY <1>3, <1>4, AppendProperties
    <2>2. Len(r) + 1 = n
      BY <1>1, <1>4
    <2> QED BY <1>4, <2>1, <2>2 DEF f
  <1>6. \A k \in 1..n : k = n \/ k \in 1..(n - 1)
    BY <1>1
  <1>7. \A k \in 1..n : s[k] = Append(r, f)[k]
    BY <1>5, <1>6
  <1>8. Len(s) = Len(Append(r, f))
    BY <1>5 DEF n
  <1>9. s = Append(r, f)
    BY <1>5, <1>7, <1>8, SeqEqual DEF n
  <1> QED BY <1>3, <1>4, <1>9

\* A child is counted in the frame on top, which goes when it was the last.
LEMMA AfterAppend ==
  ASSUME NEW r \in OpenStacks, NEW f \in Frame, IsOpen(f)
  PROVE  /\ After(Append(r, f)) =
              IF f.assigned + 1 < f.expected
              THEN Append(r, FrameOf(f.node, f.expected, f.assigned + 1)) ELSE r
         /\ Top(Append(r, f)) = f.node
  <1> DEFINE m == Len(r)
             s == Append(r, f)
             g == FrameOf(f.node, f.expected, f.assigned + 1)
             t == Append(r, g)
  <1>1. m \in Nat /\ r \in Seq(Frame) /\ \A k \in 1..m : IsOpen(r[k])
    BY LenProperties DEF OpenStacks
  <1>2. /\ f.node \in Nat /\ f.expected \in Nat /\ f.assigned \in Nat /\ g \in Frame
        /\ g.expected = f.expected /\ g.assigned = f.assigned + 1
    BY DEF Frame, FrameOf
  <1> HIDE DEF g
  <1>3. /\ s \in Seq(Frame) /\ Len(s) = m + 1 /\ s[m + 1] = f
        /\ \A k \in 1..m : s[k] = r[k]
    BY <1>1, AppendProperties
  <1>4. /\ t \in Seq(Frame) /\ Len(t) = m + 1 /\ t[m + 1] = g
        /\ \A k \in 1..m : t[k] = r[k]
    BY <1>1, <1>2, AppendProperties
  <1> HIDE DEF s, t, m
  <1>5. m + 1 \in 1..(m + 1) /\ m + 1 \in Nat /\ 1..(m + 1) = (1..m) \cup {m + 1}
    BY <1>1
  <1>6. s # <<>>
    BY <1>1, <1>3, EmptySeq
  <1>7. Top(s) = f.node
    BY <1>3, <1>6 DEF Top, Last
  <1>8. Counted(s) = t
    <2> DEFINE e == [s EXCEPT ![m + 1] = g]
    <2>1. [f EXCEPT !.assigned = f.assigned + 1] = g
      BY DEF Frame, FrameOf, g
    <2>2. [s EXCEPT ![m + 1].assigned = @ + 1] = [s EXCEPT ![m + 1] = [f EXCEPT !.assigned = f.assigned + 1]]
      BY <1>3
    <2>3. Counted(s) = e
      BY <1>3, <1>6, <2>1, <2>2 DEF Counted
    <2>4. /\ e \in Seq(Frame) /\ Len(e) = m + 1
          /\ \A k \in 1..(m + 1) : e[k] = IF k = m + 1 THEN g ELSE s[k]
      <3>1. m + 1 \in 1..Len(s)
        BY <1>3, <1>5
      <3> QED BY <1>2, <1>3, <3>1, ExceptSeq
    <2> HIDE DEF e
    <2>5. \A k \in 1..(m + 1) : e[k] = t[k]
      BY <1>3, <1>4, <1>5, <2>4
    <2>6. e = t
      BY <1>4, <2>4, <2>5, SeqEqual
    <2> QED BY <2>3, <2>6
  <1> DEFINE open == {k \in DOMAIN t : t[k].assigned < t[k].expected}
  <1>9. DOMAIN t = 1..(m + 1)
    BY <1>4, LenProperties
  <1>10. \A k \in 1..m : t[k].assigned < t[k].expected
    BY <1>1, <1>4 DEF IsOpen
  <1>11. CASE f.assigned + 1 < f.expected
    <2>1. open = 1..(m + 1)
      BY <1>2, <1>4, <1>5, <1>9, <1>10, <1>11
    <2> HIDE DEF open
    <2>2. open # {} /\ Max(open) = m + 1
      <3>1. 1..(m + 1) \in SUBSET (1..(m + 1)) /\ 1..(m + 1) # {}
        BY <1>5
      <3>2. Max(1..(m + 1)) \in 1..(m + 1) /\ \A y \in 1..(m + 1) : y <= Max(1..(m + 1))
        BY <1>5, <3>1, IntervalHasMax
      <3>3. Max(1..(m + 1)) = m + 1
        BY <1>1, <1>5, <3>2
      <3> QED BY <1>5, <2>1, <3>3
    <2>3. PopFull(t) = SubSeq(t, 1, Len(t))
      BY <1>4, <2>2 DEF PopFull, open
    <2>4. PopFull(t) = t
      BY <1>4, <2>3, SubSeqFull
    <2> QED BY <1>7, <1>8, <1>11, <2>4 DEF After, g, s, t
  <1>12. CASE ~(f.assigned + 1 < f.expected)
    <2>1. open = 1..m
      BY <1>2, <1>4, <1>5, <1>9, <1>10, <1>12
    <2> HIDE DEF open
    <2>2. CASE m = 0
      <3>1. open = {}
        BY <2>1, <2>2
      <3>2. PopFull(t) = <<>>
        BY <3>1 DEF PopFull, open
      <3>3. r = <<>>
        BY <1>1, <2>2, EmptySeq DEF m
      <3> QED BY <1>7, <1>8, <1>12, <3>2, <3>3 DEF After, s
    <2>3. CASE m # 0
      <3>0. m \in 1..m
        BY <1>1, <2>3
      <3>1. m \in 1..m /\ 1..m \in SUBSET (1..m) /\ 1..m # {}
        BY <3>0
      <3>2. Max(1..m) \in 1..m /\ \A y \in 1..m : y <= Max(1..m)
        BY <1>1, <3>1, IntervalHasMax
      <3>3. Max(1..m) = m
        BY <1>1, <3>1, <3>2
      <3>4. PopFull(t) = SubSeq(t, 1, m)
        BY <2>1, <3>1, <3>3 DEF PopFull, open
      <3>5. SubSeq(t, 1, m) = r
        <4> DEFINE u == SubSeq(t, 1, m)
        <4>1. \A k \in 1..m : t[k] \in Frame
          BY <1>4, <1>5, ElementOfSeq
        <4>2. /\ u \in Seq(Frame) /\ Len(u) = IF 1 <= m THEN m - 1 + 1 ELSE 0
              /\ \A k \in 1..(m - 1 + 1) : u[k] = t[1 + k - 1]
          BY <1>1, <4>1, SubSeqProperties
        <4> HIDE DEF u
        <4>3. m - 1 + 1 = m /\ 1 <= m /\ \A k \in Nat : 1 + k - 1 = k
          BY <1>1, <2>3
        <4>4. Len(u) = Len(r) /\ \A k \in 1..Len(u) : u[k] = r[k]
          BY <1>4, <4>2, <4>3 DEF m
        <4>5. u = r
          BY <1>1, <4>2, <4>4, SeqEqual
        <4> QED BY <4>5 DEF u
      <3> QED BY <1>7, <1>8, <1>12, <3>4, <3>5 DEF After, s
    <2> QED BY <2>2, <2>3
  <1> QED BY <1>11, <1>12

LEMMA AfterEmpty == After(<<>>) = <<>> /\ Top(<<>>) = 0
  <1>1. DOMAIN <<>> = {}
    OBVIOUS
  <1> QED BY <1>1 DEF After, Counted, PopFull, Top

LEMMA PushOpen ==
  ASSUME NEW r \in OpenStacks, NEW f \in Frame, IsOpen(f)
  PROVE  Append(r, f) \in OpenStacks
  <1>1. r \in Seq(Frame) /\ Len(r) \in Nat /\ \A k \in 1..Len(r) : IsOpen(r[k])
    BY LenProperties DEF OpenStacks
  <1> DEFINE m == Len(r)
             s == Append(r, f)
  <1>2. /\ s \in Seq(Frame) /\ Len(s) = m + 1 /\ s[m + 1] = f
        /\ \A k \in 1..m : s[k] = r[k]
    BY <1>1, AppendProperties
  <1> HIDE DEF s, m
  <1>3. \A k \in 1..(m + 1) : k \in 1..m \/ k = m + 1
    BY <1>1 DEF m
  <1>4. \A k \in 1..Len(s) : IsOpen(s[k])
    BY <1>1, <1>2, <1>3 DEF m
  <1>5. s \in OpenStacks
    BY <1>2, <1>4 DEF OpenStacks
  <1> QED BY <1>5 DEF s

\* No frame that is full stays on the stack.
LEMMA AfterOpen ==
  ASSUME NEW s \in OpenStacks
  PROVE  After(s) \in OpenStacks
  <1>1. CASE s = <<>>
    BY <1>1, AfterEmpty
  <1>2. CASE s # <<>>
    <2>1. s \in Seq(Frame) /\ \A k \in 1..Len(s) : IsOpen(s[k])
      BY DEF OpenStacks
    <2>2. PICK r \in Seq(Frame) : \E f \in Frame : s = Append(r, f)
      BY <1>2, <2>1, SplitLast
    <2>3. PICK f \in Frame : s = Append(r, f)
      BY <2>2
    <2> DEFINE m == Len(r)
    <2>4. /\ m \in Nat /\ Len(s) = m + 1 /\ s[m + 1] = f
          /\ \A k \in 1..m : s[k] = r[k]
      BY <2>3, AppendProperties, LenProperties
    <2> HIDE DEF m
    <2>5. (\A k \in 1..m : k \in 1..(m + 1)) /\ m + 1 \in 1..(m + 1)
      BY <2>4
    <2>6. IsOpen(f) /\ \A k \in 1..m : IsOpen(r[k])
      BY <2>1, <2>4, <2>5
    <2>7. r \in OpenStacks
      BY <2>6 DEF OpenStacks, m
    <2> DEFINE g == FrameOf(f.node, f.expected, f.assigned + 1)
    <2>8. g \in Frame /\ (f.assigned + 1 < f.expected => IsOpen(g))
      BY DEF Frame, FrameOf, IsOpen
    <2>9. After(s) = IF f.assigned + 1 < f.expected THEN Append(r, g) ELSE r
      BY <2>3, <2>6, <2>7, AfterAppend
    <2> HIDE DEF g
    <2>10. f.assigned + 1 < f.expected => Append(r, g) \in OpenStacks
      BY <2>7, <2>8, PushOpen
    <2> QED BY <2>7, <2>9, <2>10
  <1> QED BY <1>1, <1>2

-------------------------------------------------------------------------------
\* The turns of the tree's builder

Node == [widget : Widgets, box : Boxes, parent : Nat, children : Seq(Nat)]
Builds == [nodes : Seq(Node), stack : OpenStacks]

\* What one turn makes of b.
Turned(b, pair, r) ==
  LET o == Len(b.nodes)
      kids == Len(Children(pair.widget))
  IN  /\ Len(r.nodes) = o + 1
      /\ r.nodes[o + 1] = [widget |-> pair.widget, box |-> pair.box,
                           parent |-> Top(b.stack), children |-> <<>>]
      /\ \A k \in 1..o :
           /\ r.nodes[k].widget = b.nodes[k].widget /\ r.nodes[k].box = b.nodes[k].box
           /\ r.nodes[k].parent = b.nodes[k].parent
           /\ r.nodes[k].children = IF k = Top(b.stack) THEN Append(b.nodes[k].children, o + 1)
                                    ELSE b.nodes[k].children
      /\ r.stack = IF kids > 0 THEN Append(After(b.stack), FrameOf(o + 1, kids, 0))
                   ELSE After(b.stack)

LEMMA TopType ==
  ASSUME NEW s \in OpenStacks
  PROVE  Top(s) \in Nat
  <1>1. CASE s = <<>>
    BY <1>1 DEF Top
  <1>2. CASE s # <<>>
    <2>1. s \in Seq(Frame) /\ Len(s) \in Nat /\ Len(s) # 0
      BY <1>2, EmptySeq DEF OpenStacks
    <2>2. s[Len(s)] \in Frame
      BY <2>1, ElementOfSeq
    <2> QED BY <1>2, <2>2 DEF Top, Last, Frame
  <1> QED BY <1>1, <1>2

\* A turn of build_nodes_from_pairs.
LEMMA AddNodeTurns ==
  ASSUME NEW b \in Builds, NEW pair \in Pairs
  PROVE  AddNode(b, pair) \in Builds /\ Turned(b, pair, AddNode(b, pair))
  <1> DEFINE o == Len(b.nodes)
             p == Top(b.stack)
             kids == Len(Children(pair.widget))
             node == [widget |-> pair.widget, box |-> pair.box, parent |-> p, children |-> <<>>]
             known == IF p = 0 THEN b.nodes
                      ELSE [b.nodes EXCEPT ![p].children = Append(@, o + 1)]
             stack == After(b.stack)
             frame == FrameOf(o + 1, kids, 0)
             r == AddNode(b, pair)
  <1>1. b.nodes \in Seq(Node) /\ b.stack \in OpenStacks /\ o \in Nat
    BY LenProperties DEF Builds
  <1>2. /\ pair.widget \in Widgets /\ pair.box \in Boxes /\ kids \in Nat
    <2>1. pair.widget \in Widgets /\ pair.box \in Boxes
      BY DEF Pairs
    <2> QED BY <2>1, WidgetsNest
  <1>3. p \in Nat /\ stack \in OpenStacks
    BY <1>1, TopType, AfterOpen
  <1>4. r = [nodes |-> Append(known, node), stack |-> IF kids > 0 THEN Append(stack, frame) ELSE stack]
    <2>1. AddNode(b, pair) = [nodes |-> Append(known, node),
                              stack |-> IF frame.expected > 0 THEN Append(stack, frame) ELSE stack]
      BY DEF AddNode, Top, After, FrameOf
    <2>2. frame.expected = kids
      BY DEF FrameOf
    <2> HIDE DEF known, node, stack, kids
    <2> QED BY <2>1, <2>2
  <1> HIDE DEF o, p, kids, stack, r
  <1>5. node \in Node
    <2>1. <<>> \in Seq(Nat)
      BY EmptySeq
    <2> QED BY <1>2, <1>3, <2>1 DEF Node
  <1> DEFINE grown(k) == IF k = p THEN Append(b.nodes[k].children, o + 1) ELSE b.nodes[k].children
  <1>6. \A k \in 1..o : b.nodes[k] \in Node
    BY <1>1, ElementOfSeq DEF o
  <1>7. \A k \in 1..o : grown(k) \in Seq(Nat)
    <2>1. \A k \in 1..o : b.nodes[k].children \in Seq(Nat)
      BY <1>6 DEF Node
    <2>2. o + 1 \in Nat
      BY <1>1
    <2> QED BY <2>1, <2>2, AppendProperties
  <1>8. /\ known \in Seq(Node) /\ Len(known) = o
        /\ \A k \in 1..o :
             /\ known[k].widget = b.nodes[k].widget /\ known[k].box = b.nodes[k].box
             /\ known[k].parent = b.nodes[k].parent /\ known[k].children = grown(k)
    <2>1. CASE p \in 1..o
      <3> DEFINE e == [b.nodes[p] EXCEPT !.children = Append(b.nodes[p].children, o + 1)]
      <3>1. e \in Node /\ e.widget = b.nodes[p].widget /\ e.box = b.nodes[p].box
            /\ e.parent = b.nodes[p].parent /\ e.children = Append(b.nodes[p].children, o + 1)
        <4>1. b.nodes[p] \in Node /\ Append(b.nodes[p].children, o + 1) \in Seq(Nat)
          BY <1>6, <1>7, <2>1
        <4> QED BY <4>1 DEF Node
      <3>2. known = [b.nodes EXCEPT ![p] = e]
        BY <2>1
      <3> HIDE DEF e, known
      <3>3. /\ known \in Seq(Node) /\ Len(known) = o
            /\ \A k \in 1..o : known[k] = IF k = p THEN e ELSE b.nodes[k]
        BY <1>1, <2>1, <3>1, <3>2, ExceptSeq DEF o
      <3> QED BY <3>1, <3>3
    <2>2. CASE p \notin 1..o
      <3>1. known = b.nodes
        <4>1. DOMAIN b.nodes = 1..o
          BY <1>1, LenProperties DEF o
        <4>2. b.nodes \in [1..o -> Node]
          BY <1>1, LenProperties DEF o
        <4> QED BY <2>2, <4>1, <4>2
      <3> HIDE DEF known
      <3> QED BY <1>1, <2>2, <3>1 DEF o
    <2> QED BY <2>1, <2>2
  <1> HIDE DEF known, node, grown
  <1>9. /\ Append(known, node) \in Seq(Node) /\ Len(Append(known, node)) = o + 1
        /\ Append(known, node)[o + 1] = node
        /\ \A k \in 1..o : Append(known, node)[k] = known[k]
    BY <1>5, <1>8, AppendProperties
  <1> DEFINE rest == IF kids > 0 THEN Append(stack, frame) ELSE stack
  <1>10. rest \in OpenStacks
    <2>1. CASE kids > 0
      <3>1. frame \in Frame /\ IsOpen(frame)
        BY <1>1, <1>2, <2>1 DEF Frame, FrameOf, IsOpen
      <3> HIDE DEF frame
      <3>2. Append(stack, frame) \in OpenStacks
        BY <1>3, <3>1, PushOpen
      <3> QED BY <2>1, <3>2
    <2>2. CASE ~(kids > 0)
      BY <1>3, <2>2
    <2> QED BY <2>1, <2>2
  <1>11. r.nodes = Append(known, node) /\ r.stack = rest
    BY <1>4
  <1> HIDE DEF rest
  <1>12. r \in Builds
    BY <1>4, <1>9, <1>10 DEF Builds, rest
  <1>13. Turned(b, pair, r)
    <2>1. /\ Len(r.nodes) = o + 1 /\ r.nodes[o + 1] = node
          /\ \A k \in 1..o : r.nodes[k] = known[k]
      BY <1>9, <1>11
    <2>2. \A k \in 1..o :
             /\ r.nodes[k].widget = b.nodes[k].widget /\ r.nodes[k].box = b.nodes[k].box
             /\ r.nodes[k].parent = b.nodes[k].parent /\ r.nodes[k].children = grown(k)
      BY <1>8, <2>1
    <2>3. r.stack = IF kids > 0 THEN Append(stack, frame) ELSE stack
      BY <1>11 DEF rest
    <2> HIDE DEF r, frame
    <2>4. Turned(b, pair, r) <=>
            /\ Len(r.nodes) = o + 1
            /\ r.nodes[o + 1] = node
            /\ \A k \in 1..o :
                 /\ r.nodes[k].widget = b.nodes[k].widget /\ r.nodes[k].box = b.nodes[k].box
                 /\ r.nodes[k].parent = b.nodes[k].parent /\ r.nodes[k].children = grown(k)
            /\ r.stack = IF kids > 0 THEN Append(stack, frame) ELSE stack
      BY DEF Turned, node, grown, o, p, kids, stack, frame
    <2> QED BY <2>1, <2>2, <2>3, <2>4
  <1> QED BY <1>12, <1>13 DEF r

\* The turns over a list L, one after another.
IsRun(T, L) ==
  /\ T \in [0..Len(L) -> Builds]
  /\ T[0] = [nodes |-> <<>>, stack |-> <<>>]
  /\ \A k \in 1..Len(L) : Turned(T[k - 1], L[k], T[k])

\* Its turns over a list.
LEMMA TurnsRun ==
  ASSUME NEW L \in Seq(Pairs)
  PROVE  IsRun(Turns(L), L)
  <1> DEFINE N == Len(L)
             none == [nodes |-> <<>>, stack |-> <<>>]
             G(f) == f = [n \in 0..N |-> IF n = 0 THEN none ELSE AddNode(f[n - 1], L[n])]
             Step == [k \in 1..N |-> [b \in Builds |-> AddNode(b, L[k])]]
  <1>1. N \in Nat /\ \A k \in 1..N : L[k] \in Pairs
    BY LenProperties, ElementOfSeq
  <1>2. none \in Builds
    <2>1. <<>> \in Seq(Node) /\ <<>> \in OpenStacks
      BY EmptySeq DEF OpenStacks
    <2> QED BY <2>1 DEF Builds
  <1>3. Step \in [1..N -> [Builds -> Builds]]
    BY <1>1, AddNodeTurns
  <1>4. PICK f \in [0..N -> Builds] : Loop(f, none, Step, N)
    <2> HIDE DEF N, Step, none
    <2> QED BY <1>1, <1>2, <1>3, LoopExists
  <1>5. \A k \in 1..N : k \in 0..N /\ k - 1 \in 0..N /\ k # 0
    BY <1>1
  <1>6. G(f)
    <2>1. \A k \in 0..N : k # 0 => Step[k][f[k - 1]] = AddNode(f[k - 1], L[k])
      <3>1. \A k \in 0..N : k # 0 => k \in 1..N
        BY <1>1
      <3>2. \A k \in 1..N : \A b \in Builds : Step[k][b] = AddNode(b, L[k])
        OBVIOUS
      <3> HIDE DEF Step, N
      <3> QED BY <1>5, <3>1, <3>2
    <2> HIDE DEF N, Step, none
    <2> QED BY <1>4, <2>1 DEF Loop
  <1>7. Turns(L) = CHOOSE g : G(g)
    BY DEF Turns
  <1>8. G(Turns(L))
    <2> HIDE DEF G
    <2> QED BY <1>6, <1>7
  <1> DEFINE T == Turns(L)
  <1>9. /\ T = [n \in 0..N |-> T[n]] /\ T[0] = none
        /\ \A k \in 1..N : T[k] = AddNode(T[k - 1], L[k])
    <2>1. 0 \in 0..N
      BY <1>1
    <2> HIDE DEF none, N, T
    <2> QED BY <1>5, <1>8, <2>1 DEF T
  <1> HIDE DEF T, none, N, G, Step
  <1> DEFINE Ok == {n \in Nat : n \in 0..N => T[n] \in Builds}
  <1>10. 0 \in Ok
    BY <1>2, <1>9
  <1>11. ASSUME NEW n \in Nat, n \in Ok PROVE n + 1 \in Ok
    <2> SUFFICES ASSUME n + 1 \in 0..N PROVE T[n + 1] \in Builds
      OBVIOUS
    <2>1. n + 1 \in 1..N /\ n \in 0..N /\ (n + 1) - 1 = n
      BY <1>1
    <2>2. T[n + 1] = AddNode(T[n], L[n + 1])
      BY <1>9, <2>1
    <2> QED BY <1>1, <1>11, <2>1, <2>2, AddNodeTurns
  <1>12. \A n \in 0..N : T[n] \in Builds
    <2>1. Nat \subseteq Ok
      <3> HIDE DEF Ok
      <3> QED BY <1>10, <1>11, SetInduction
    <2> QED BY <1>1, <2>1
  <1>13. T \in [0..N -> Builds]
    BY <1>9, <1>12
  <1>14. \A k \in 1..N : Turned(T[k - 1], L[k], T[k])
    BY <1>1, <1>5, <1>9, <1>12, AddNodeTurns
  <1> QED BY <1>9, <1>13, <1>14 DEF IsRun, T, N, none

-------------------------------------------------------------------------------
\* What the builder's run makes of a part of the list

Kids(T, n, k) == T[n].nodes[k].children
Par(T, k) == Top(T[k - 1].stack)

\* What turn n adds.
Grows(T, L) ==
  /\ \A n \in 0..Len(L) :
       /\ T[n].stack \in OpenStacks /\ Len(T[n].nodes) = n
       /\ \A k \in 1..n : Kids(T, n, k) \in Seq(Nat)
  /\ \A n \in 1..Len(L) :
       /\ \A k \in 1..(n - 1) : Kids(T, n, k) = IF k = Par(T, n) THEN Append(Kids(T, n - 1, k), n)
                                                ELSE Kids(T, n - 1, k)
       /\ Kids(T, n, n) = <<>>
       /\ T[n].stack = IF Len(Children(L[n].widget)) > 0
                       THEN Append(After(T[n - 1].stack), FrameOf(n, Len(Children(L[n].widget)), 0))
                       ELSE After(T[n - 1].stack)

\* Every turn adds a node, to the children of that on top of the stack.
LEMMA RunGrows ==
  ASSUME NEW L \in Seq(Pairs), NEW T, IsRun(T, L)
  PROVE  Grows(T, L)
  <1> DEFINE N == Len(L)
             Ok == {n \in Nat : n \in 0..N => Len(T[n].nodes) = n}
  <1>1. N \in Nat /\ \A k \in 1..N : k - 1 \in 0..N /\ k \in 0..N /\ (k - 1) + 1 = k
    BY LenProperties
  <1>2. /\ \A k \in 0..N : T[k] \in Builds
        /\ T[0] = [nodes |-> <<>>, stack |-> <<>>]
        /\ \A k \in 1..N : Turned(T[k - 1], L[k], T[k])
    BY DEF IsRun
  <1>3. \A k \in 0..N : T[k].nodes \in Seq(Node) /\ T[k].stack \in OpenStacks
    BY <1>2 DEF Builds
  <1>4. 0 \in Ok
    BY <1>2
  <1>5. ASSUME NEW n \in Nat, n \in Ok PROVE n + 1 \in Ok
    <2> SUFFICES ASSUME n + 1 \in 0..N PROVE Len(T[n + 1].nodes) = n + 1
      OBVIOUS
    <2>1. n + 1 \in 1..N /\ n \in 0..N /\ (n + 1) - 1 = n
      BY <1>1
    <2>2. Turned(T[n], L[n + 1], T[n + 1])
      BY <1>2, <2>1
    <2> QED BY <1>5, <2>1, <2>2 DEF Turned
  <1>6. \A n \in 0..N : Len(T[n].nodes) = n
    <2>1. Nat \subseteq Ok
      <3> HIDE DEF Ok
      <3> QED BY <1>4, <1>5, SetInduction
    <2> QED BY <1>1, <2>1
  <1>7. ASSUME NEW n \in 0..N, NEW k \in 1..n PROVE Kids(T, n, k) \in Seq(Nat)
    <2>1. T[n].nodes[k] \in Node
      BY <1>3, <1>6, ElementOfSeq
    <2> QED BY <2>1 DEF Kids, Node
  <1>8. ASSUME NEW n \in 1..N
        PROVE  /\ \A k \in 1..(n - 1) : Kids(T, n, k) = IF k = Par(T, n) THEN Append(Kids(T, n - 1, k), n)
                                                ELSE Kids(T, n - 1, k)
               /\ Kids(T, n, n) = <<>>
               /\ T[n].stack = IF Len(Children(L[n].widget)) > 0
                       THEN Append(After(T[n - 1].stack), FrameOf(n, Len(Children(L[n].widget)), 0))
                       ELSE After(T[n - 1].stack)
    <2>1. Len(T[n - 1].nodes) = n - 1 /\ (n - 1) + 1 = n
      BY <1>1, <1>6
    <2>2. Turned(T[n - 1], L[n], T[n])
      BY <1>2
    <2>3. /\ T[n].nodes[n].children = <<>>
          /\ \A k \in 1..(n - 1) :
               T[n].nodes[k].children = IF k = Top(T[n - 1].stack) THEN Append(T[n - 1].nodes[k].children, n)
                                        ELSE T[n - 1].nodes[k].children
          /\ T[n].stack = IF Len(Children(L[n].widget)) > 0
                          THEN Append(After(T[n - 1].stack), FrameOf(n, Len(Children(L[n].widget)), 0))
                          ELSE After(T[n - 1].stack)
      BY <2>1, <2>2 DEF Turned
    <2> QED BY <2>3 DEF Kids, Par
  <1> QED BY <1>3, <1>6, <1>7, <1>8 DEF Grows, N

\* A node has its widget and its box from the list, and for a parent what was
\* on top of the stack.
LEMMA RunNodes ==
  ASSUME NEW L \in Seq(Pairs), NEW T, IsRun(T, L), NEW n \in 0..Len(L), NEW k \in 1..n
  PROVE  /\ T[n].nodes[k].widget = L[k].widget /\ T[n].nodes[k].box = L[k].box
         /\ T[n].nodes[k].parent = Par(T, k)
  <1> DEFINE N == Len(L)
             Is(m) == \A j \in 1..m : /\ T[m].nodes[j].widget = L[j].widget
                                      /\ T[m].nodes[j].box = L[j].box
                                      /\ T[m].nodes[j].parent = Par(T, j)
             Ok == {m \in Nat : m \in 0..N => Is(m)}
  <1>1. N \in Nat
    BY LenProperties
  <1>2. 0 \in Ok
    OBVIOUS
  <1>3. ASSUME NEW m \in Nat, m \in Ok PROVE m + 1 \in Ok
    <2> SUFFICES ASSUME m + 1 \in 0..N PROVE Is(m + 1)
      OBVIOUS
    <2>1. m + 1 \in 1..N /\ m \in 0..N /\ (m + 1) - 1 = m
      BY <1>1
    <2>2. Is(m)
      BY <1>3, <2>1
    <2>3. Turned(T[m], L[m + 1], T[m + 1]) /\ Len(T[m].nodes) = m
      BY <2>1, RunGrows DEF IsRun, Grows
    <2>4. /\ T[m + 1].nodes[m + 1].widget = L[m + 1].widget
          /\ T[m + 1].nodes[m + 1].box = L[m + 1].box
          /\ T[m + 1].nodes[m + 1].parent = Par(T, m + 1)
          /\ \A j \in 1..m : /\ T[m + 1].nodes[j].widget = T[m].nodes[j].widget
                             /\ T[m + 1].nodes[j].box = T[m].nodes[j].box
                             /\ T[m + 1].nodes[j].parent = T[m].nodes[j].parent
      BY <2>1, <2>3 DEF Turned, Par
    <2>5. \A j \in 1..(m + 1) : j \in 1..m \/ j = m + 1
      OBVIOUS
    <2> QED BY <2>2, <2>4, <2>5
  <1>4. n \in Ok
    <2>1. Nat \subseteq Ok
      <3> HIDE DEF Ok
      <3> QED BY <1>2, <1>3, SetInduction
    <2>2. n \in Nat
      BY <1>1
    <2> QED BY <2>1, <2>2
  <1> QED BY <1>4

\* After turn e the children of node k are those of its widget, in order, each
\* with its box and with k for a parent.
Linked(T, L, e, k) ==
  /\ Len(Kids(T, e, k)) = Len(Children(L[k].widget))
  /\ \A j \in 1..Len(Children(L[k].widget)) :
       /\ Kids(T, e, k)[j] \in (k + 1)..e
       /\ L[Kids(T, e, k)[j]] = [widget |-> Children(L[k].widget)[j],
                                 box |-> ChildBox(L[k].widget, L[k].box, j)]
       /\ Par(T, Kids(T, e, k)[j]) = k
  /\ \A i, j \in 1..Len(Children(L[k].widget)) : i < j => Kids(T, e, k)[i] < Kids(T, e, k)[j]

\* Node k has a parent, at low or after it, that has it for a child.
Hung(T, e, k, low) ==
  /\ Par(T, k) \in low..(k - 1)
  /\ \E j \in 1..Len(Kids(T, e, Par(T, k))) : Kids(T, e, Par(T, k))[j] = k

\* Node o + 1 and some of those below it were added, up to turn e.
Started(T, L, o, e) ==
  /\ \A k \in 1..o : Kids(T, e, k) = IF k = Par(T, o + 1) THEN Append(Kids(T, o, k), o + 1)
                                     ELSE Kids(T, o, k)
  /\ \A k \in (o + 2)..e : Linked(T, L, e, k) /\ Hung(T, e, k, o + 1)

\* All of those below it.
Done(T, L, o, e) ==
  /\ T[e].stack = After(T[o].stack) /\ Started(T, L, o, e) /\ Linked(T, L, e, o + 1)

\* The next child of node o + 1, with all below it.
LEMMA NextChild ==
  ASSUME NEW L, NEW T, Grows(T, L), Len(L) \in Nat,
         NEW o \in Nat, NEW b \in Nat, NEW e \in Nat, o + 1 <= b, b < e, e <= Len(L),
         NEW n \in Nat, NEW i \in Nat, i < n, NEW rest \in OpenStacks,
         T[b].stack = Append(rest, FrameOf(o + 1, n, i)),
         Started(T, L, o, b), Done(T, L, b, e)
  PROVE  /\ T[e].stack = IF i + 1 < n THEN Append(rest, FrameOf(o + 1, n, i + 1)) ELSE rest
         /\ Kids(T, e, o + 1) = Append(Kids(T, b, o + 1), b + 1)
         /\ Par(T, b + 1) = o + 1
         /\ Started(T, L, o, e)
  <1> DEFINE f == FrameOf(o + 1, n, i)
  <1>1. f \in Frame /\ IsOpen(f) /\ f.node = o + 1 /\ f.expected = n /\ f.assigned = i
    BY DEF FrameOf, Frame, IsOpen
  <1>2. /\ After(T[b].stack) = IF i + 1 < n THEN Append(rest, FrameOf(o + 1, n, i + 1)) ELSE rest
        /\ Top(T[b].stack) = o + 1
    <2> HIDE DEF f
    <2> QED BY <1>1, AfterAppend DEF f
  <1>3. Par(T, b + 1) = o + 1
    <2>1. (b + 1) - 1 = b
      OBVIOUS
    <2> QED BY <1>2, <2>1 DEF Par
  <1>4. T[e].stack = IF i + 1 < n THEN Append(rest, FrameOf(o + 1, n, i + 1)) ELSE rest
    BY <1>2 DEF Done
  <1>5. \A k \in 1..b : Kids(T, e, k) = IF k = o + 1 THEN Append(Kids(T, b, k), b + 1) ELSE Kids(T, b, k)
    BY <1>3 DEF Done, Started
  <1>6. Kids(T, e, o + 1) = Append(Kids(T, b, o + 1), b + 1)
    <2>1. o + 1 \in 1..b
      OBVIOUS
    <2> QED BY <1>5, <2>1
  <1>7. \A k \in 1..o : Kids(T, e, k) = Kids(T, b, k)
    <2>1. \A k \in 1..o : k \in 1..b /\ k # o + 1
      OBVIOUS
    <2> QED BY <1>5, <2>1
  <1>8. /\ Len(Append(Kids(T, b, o + 1), b + 1)) = Len(Kids(T, b, o + 1)) + 1
        /\ Len(Kids(T, b, o + 1)) \in Nat
        /\ \A j \in 1..Len(Kids(T, b, o + 1)) :
             Append(Kids(T, b, o + 1), b + 1)[j] = Kids(T, b, o + 1)[j]
        /\ Append(Kids(T, b, o + 1), b + 1)[Len(Kids(T, b, o + 1)) + 1] = b + 1
    <2>1. o + 1 \in 1..b /\ b \in 0..Len(L) /\ b + 1 \in Nat
      OBVIOUS
    <2>2. Kids(T, b, o + 1) \in Seq(Nat)
      BY <2>1 DEF Grows
    <2> QED BY <2>1, <2>2, AppendProperties, LenProperties
  <1>9. /\ 1..Len(Kids(T, b, o + 1)) \subseteq 1..Len(Kids(T, e, o + 1))
        /\ Len(Kids(T, b, o + 1)) + 1 \in 1..Len(Kids(T, e, o + 1))
    <2> DEFINE m == Len(Kids(T, b, o + 1))
    <2>1. m \in Nat /\ Len(Kids(T, e, o + 1)) = m + 1
      BY <1>6, <1>8
    <2> HIDE DEF m
    <2>2. 1..m \subseteq 1..(m + 1) /\ m + 1 \in 1..(m + 1)
      BY <2>1
    <2> QED BY <2>1, <2>2 DEF m
  <1>10. ASSUME NEW k \in (o + 2)..e PROVE Linked(T, L, e, k) /\ Hung(T, e, k, o + 1)
    <2>1. CASE k \in (o + 2)..b
      <3>1. Linked(T, L, b, k) /\ Hung(T, b, k, o + 1)
        BY <2>1 DEF Started
      <3>2. Kids(T, e, k) = Kids(T, b, k)
        <4>1. k \in 1..b /\ k # o + 1
          BY <2>1
        <4> QED BY <1>5, <4>1
      <3>3. (k + 1)..b \subseteq (k + 1)..e
        BY <2>1
      <3>4. Linked(T, L, e, k)
        BY <3>1, <3>2, <3>3 DEF Linked
      <3>5. Par(T, k) \in (o + 1)..(k - 1)
        BY <3>1 DEF Hung
      <3>6. Par(T, k) \in 1..b
        <4>1. (o + 1)..(k - 1) \subseteq 1..b
          BY <2>1
        <4> QED BY <3>5, <4>1
      <3>7. PICK j \in 1..Len(Kids(T, b, Par(T, k))) : Kids(T, b, Par(T, k))[j] = k
        BY <3>1 DEF Hung
      <3>8. CASE Par(T, k) = o + 1
        <4>1. Kids(T, e, o + 1)[j] = k
          BY <1>6, <1>8, <3>7, <3>8
        <4>2. j \in 1..Len(Kids(T, e, o + 1))
          <5>1. j \in 1..Len(Kids(T, b, o + 1))
            BY <3>7, <3>8
          <5> QED BY <1>9, <5>1
        <4> QED BY <3>4, <3>5, <3>8, <4>1, <4>2 DEF Hung
      <3>9. CASE Par(T, k) # o + 1
        <4>1. Kids(T, e, Par(T, k)) = Kids(T, b, Par(T, k))
          BY <1>5, <3>6, <3>9
        <4> QED BY <3>4, <3>5, <3>7, <4>1 DEF Hung
      <3> QED BY <3>8, <3>9
    <2>2. CASE k = b + 1
      <3>1. Linked(T, L, e, k)
        BY <2>2 DEF Done
      <3>2. Par(T, k) \in (o + 1)..(k - 1) /\ Par(T, k) = o + 1
        BY <1>3, <2>2
      <3>3. Len(Kids(T, b, o + 1)) + 1 \in 1..Len(Kids(T, e, o + 1))
        BY <1>9
      <3>4. Kids(T, e, o + 1)[Len(Kids(T, b, o + 1)) + 1] = k
        BY <1>6, <1>8, <2>2
      <3> QED BY <3>1, <3>2, <3>3, <3>4 DEF Hung
    <2>3. CASE k \in (b + 2)..e
      <3>1. Linked(T, L, e, k) /\ Hung(T, e, k, b + 1)
        BY <2>3 DEF Done, Started
      <3>2. (b + 1)..(k - 1) \subseteq (o + 1)..(k - 1)
        OBVIOUS
      <3> QED BY <3>1, <3>2 DEF Hung
    <2>4. k \in (o + 2)..b \/ k = b + 1 \/ k \in (b + 2)..e
      OBVIOUS
    <2> QED BY <2>1, <2>2, <2>3, <2>4
  <1>11. Started(T, L, o, e)
    BY <1>7, <1>10 DEF Started
  <1> QED BY <1>3, <1>4, <1>6, <1>11

\* A widget comes first in its list.
LEMMA FirstOfLayout ==
  ASSUME NEW w \in Widgets, NEW box \in Boxes
  PROVE  /\ LayoutWidget[w][box] \in Seq(Pairs) /\ Len(LayoutWidget[w][box]) \in Nat
         /\ Len(LayoutWidget[w][box]) > 0
         /\ LayoutWidget[w][box][1] = [widget |-> w, box |-> box]
  <1> DEFINE n == Len(Children(w))
             s == Before(w, box)
             P == LayoutWidget[w][box]
  <1>1. /\ P \in Seq(Pairs) /\ Len(P) \in Nat /\ P[1] = [widget |-> w, box |-> box]
        /\ s \in [0..n -> Nat] /\ Len(P) = 1 + s[n]
    BY LayoutParts DEF Parts
  <1>2. n \in 0..n
    BY WidgetsNest
  <1> HIDE DEF n, s, P
  <1>3. s[n] \in Nat
    BY <1>1, <1>2
  <1> QED BY <1>1, <1>3 DEF P

\* P is the part of L after its first o.
Segment(L, o, P) == o + Len(P) <= Len(L) /\ \A k \in 1..Len(P) : L[o + k] = P[k]

\* What is to be shown of w.
Follows(T, L, w) ==
  \A box \in Boxes : \A o \in Nat :
    Segment(L, o, LayoutWidget[w][box]) => Done(T, L, o, o + Len(LayoutWidget[w][box]))

\* A part that is a widget's list is all of it added, if that goes for its children.
LEMMA WidgetDone ==
  ASSUME NEW L, NEW T, Grows(T, L), Len(L) \in Nat,
         NEW w \in Widgets, NEW box \in Boxes, NEW o \in Nat, Segment(L, o, LayoutWidget[w][box]),
         \A i \in DOMAIN Children(w) : Follows(T, L, Children(w)[i])
  PROVE  Done(T, L, o, o + Len(LayoutWidget[w][box]))
  <1> DEFINE P == LayoutWidget[w][box]
             n == Len(Children(w))
             B == Below(w, box)
             s == Before(w, box)
             a(i) == o + 1 + s[i]
             rest == After(T[o].stack)
  <1>1. n \in Nat /\ DOMAIN Children(w) = 1..n
    BY WidgetsNest
  <1>2. /\ Len(P) \in Nat /\ P[1] = [widget |-> w, box |-> box]
        /\ s \in [0..n -> Nat] /\ s[0] = 0 /\ Len(P) = 1 + s[n]
        /\ \A i \in 1..n : s[i] = s[i - 1] + Len(B[i])
        /\ \A i \in 1..n : \A k \in 1..Len(B[i]) : P[1 + s[i - 1] + k] = B[i][k]
        /\ \A i, j \in 0..n : i <= j => s[i] <= s[j]
        /\ \A i \in 1..n : B[i] = LayoutWidget[Children(w)[i]][ChildBox(w, box, i)]
    <2>1. Parts(w, box, P, B, s)
      BY LayoutParts
    <2> HIDE DEF P, B, s
    <2> QED BY <2>1 DEF Parts
  <1>3. \A i \in 1..n : i - 1 \in 0..n /\ i \in 0..n /\ (i - 1) + 1 = i
    BY <1>1
  <1>4. \A i \in 1..n : ChildBox(w, box, i) \in Boxes /\ Children(w)[i] \in Widgets
    BY <1>1, ChildBoxes, WidgetsNest
  <1>5. \A i \in 1..n : /\ Len(B[i]) \in Nat /\ Len(B[i]) > 0
                        /\ B[i][1] = [widget |-> Children(w)[i], box |-> ChildBox(w, box, i)]
    <2> HIDE DEF B, n
    <2> QED BY <1>2, <1>4, FirstOfLayout
  <1> HIDE DEF B, n, s, P
  <1>6. o + Len(P) <= Len(L) /\ \A k \in 1..Len(P) : L[o + k] = P[k]
    BY DEF Segment, P
  <1>7. L[o + 1] = [widget |-> w, box |-> box] /\ o + 1 \in 1..Len(L)
    <2>1. n \in 0..n
      BY <1>1
    <2>2. s[n] \in Nat
      BY <1>2, <2>1
    <2>3. 1 \in 1..Len(P)
      BY <1>2, <2>2
    <2> QED BY <1>2, <1>6, <2>3
  <1>8. ASSUME NEW i \in 1..n
        PROVE  /\ a(i - 1) \in Nat /\ a(i) \in Nat /\ a(i) = a(i - 1) + Len(B[i])
               /\ o + 1 <= a(i - 1) /\ a(i - 1) < a(i) /\ a(i) <= Len(L)
               /\ L[a(i - 1) + 1] = [widget |-> Children(w)[i], box |-> ChildBox(w, box, i)]
               /\ Done(T, L, a(i - 1), a(i))
    <2> DEFINE p == s[i - 1]
               q == s[i]
               m == Len(B[i])
    <2>1. p \in Nat /\ q \in Nat /\ s[n] \in Nat /\ q <= s[n]
      <3>1. i - 1 \in 0..n /\ i \in 0..n /\ n \in 0..n /\ i <= n
        BY <1>1, <1>3
      <3> QED BY <1>2, <3>1
    <2>2. q = p + m /\ m \in Nat /\ m > 0
      BY <1>2, <1>5
    <2>3. \A k \in 1..m : P[1 + p + k] = B[i][k]
      BY <1>2
    <2> HIDE DEF p, q, m
    <2>4. a(i - 1) = o + 1 + p /\ a(i) = o + 1 + q
      BY DEF p, q
    <2>5. \A k \in 1..m : 1 + p + k \in 1..Len(P) /\ o + (1 + p + k) = (o + 1 + p) + k
      BY <1>2, <2>1, <2>2
    <2>6. \A k \in 1..m : L[(o + 1 + p) + k] = B[i][k]
      BY <1>6, <2>3, <2>5
    <2>7. o + 1 + q <= Len(L) /\ o + 1 + q = o + 1 + p + m
      BY <1>2, <1>6, <2>1, <2>2
    <2>8. Segment(L, o + 1 + p, B[i])
      BY <2>6, <2>7 DEF Segment, m
    <2>9. Done(T, L, o + 1 + p, o + 1 + p + m)
      <3>1. o + 1 + p \in Nat
        BY <2>1
      <3>2. B[i] = LayoutWidget[Children(w)[i]][ChildBox(w, box, i)]
        BY <1>2
      <3>3. i \in DOMAIN Children(w)
        BY <1>1
      <3> QED BY <1>4, <2>8, <3>1, <3>2, <3>3 DEF Follows, m
    <2>10. L[(o + 1 + p) + 1] = [widget |-> Children(w)[i], box |-> ChildBox(w, box, i)]
      <3>1. 1 \in 1..m
        BY <2>2
      <3> QED BY <1>5, <2>6, <3>1
    <2>11. o + 1 + p \in Nat /\ o + 1 + q \in Nat /\ o + 1 <= o + 1 + p /\ o + 1 + p < o + 1 + q
      BY <2>1, <2>2
    <2> HIDE DEF a
    <2> QED BY <2>4, <2>7, <2>9, <2>10, <2>11 DEF m
  <1>9. /\ rest \in OpenStacks
        /\ T[o + 1].stack = IF n > 0 THEN Append(rest, FrameOf(o + 1, n, 0)) ELSE rest
        /\ Kids(T, o + 1, o + 1) = <<>>
        /\ Started(T, L, o, o + 1)
    <2>1. o \in 0..Len(L) /\ (o + 1) - 1 = o /\ (o + 2)..(o + 1) = {}
      BY <1>7
    <2>2. T[o].stack \in OpenStacks
      BY <2>1 DEF Grows
    <2>3. Len(Children(L[o + 1].widget)) = n
      BY <1>7 DEF n
    <2>4. /\ \A k \in 1..o : Kids(T, o + 1, k) = IF k = Par(T, o + 1) THEN Append(Kids(T, o, k), o + 1)
                                               ELSE Kids(T, o, k)
          /\ Kids(T, o + 1, o + 1) = <<>>
          /\ T[o + 1].stack = IF n > 0 THEN Append(rest, FrameOf(o + 1, n, 0)) ELSE rest
      BY <1>7, <2>1, <2>3 DEF Grows
    <2> QED BY <2>1, <2>2, <2>4, AfterOpen DEF Started
  <1> HIDE DEF rest
  <1> DEFINE Added(i) ==
        /\ T[a(i)].stack = IF i < n THEN Append(rest, FrameOf(o + 1, n, i)) ELSE rest
        /\ Started(T, L, o, a(i))
        /\ Len(Kids(T, a(i), o + 1)) = i
        /\ \A j \in 1..i : Kids(T, a(i), o + 1)[j] = a(j - 1) + 1 /\ Par(T, a(j - 1) + 1) = o + 1
             Ok == {i \in Nat : i \in 0..n => Added(i)}
  <1>10. 0 \in Ok
    <2>1. a(0) = o + 1
      BY <1>2
    <2>2. Len(<<>>) = 0 /\ 1..0 = {} /\ 0 \in Nat
      OBVIOUS
    <2>3. 0 < n <=> n > 0
      BY <1>1
    <2> HIDE DEF a
    <2>4. Added(0)
      BY <1>9, <2>1, <2>2, <2>3
    <2> QED BY <2>2, <2>4
  <1>11. ASSUME NEW i \in Nat, i \in Ok PROVE i + 1 \in Ok
    <2> SUFFICES ASSUME i + 1 \in 0..n PROVE Added(i + 1)
      OBVIOUS
    <2>1. i + 1 \in 1..n /\ i \in 0..n /\ i < n /\ (i + 1) - 1 = i
      BY <1>1
    <2>2. Added(i)
      BY <1>11, <2>1
    <2>3. /\ a(i) \in Nat /\ a(i + 1) \in Nat /\ o + 1 <= a(i) /\ a(i) < a(i + 1)
          /\ a(i + 1) <= Len(L) /\ Done(T, L, a(i), a(i + 1))
      BY <1>8, <2>1
    <2> DEFINE b == a(i)
               e == a(i + 1)
    <2>4. /\ b \in Nat /\ e \in Nat /\ o + 1 <= b /\ b < e /\ e <= Len(L) /\ Done(T, L, b, e)
          /\ T[b].stack = Append(rest, FrameOf(o + 1, n, i))
          /\ Started(T, L, o, b) /\ Len(Kids(T, b, o + 1)) = i
          /\ \A j \in 1..i : Kids(T, b, o + 1)[j] = a(j - 1) + 1 /\ Par(T, a(j - 1) + 1) = o + 1
      BY <2>1, <2>2, <2>3
    <2> HIDE DEF b, e
    <2>5. /\ T[e].stack = IF i + 1 < n THEN Append(rest, FrameOf(o + 1, n, i + 1)) ELSE rest
          /\ Kids(T, e, o + 1) = Append(Kids(T, b, o + 1), b + 1)
          /\ Par(T, b + 1) = o + 1
          /\ Started(T, L, o, e)
      <3>1. n \in Nat /\ i \in Nat /\ i < n /\ rest \in OpenStacks
        BY <1>1, <1>9, <2>1
      <3>2. /\ b \in Nat /\ e \in Nat /\ o + 1 <= b /\ b < e /\ e <= Len(L) /\ Done(T, L, b, e)
            /\ T[b].stack = Append(rest, FrameOf(o + 1, n, i)) /\ Started(T, L, o, b)
        BY <2>4
      <3> QED BY <3>1, <3>2, NextChild
    <2>6. Kids(T, b, o + 1) \in Seq(Nat) /\ b + 1 \in Nat
      <3>1. b \in 0..Len(L) /\ o + 1 \in 1..b
        BY <2>4
      <3> QED BY <2>4, <3>1 DEF Grows
    <2>7. /\ Len(Kids(T, e, o + 1)) = i + 1
          /\ \A j \in 1..i : Kids(T, e, o + 1)[j] = Kids(T, b, o + 1)[j]
          /\ Kids(T, e, o + 1)[i + 1] = b + 1
      <3> DEFINE c == Kids(T, b, o + 1)
                 d == Kids(T, e, o + 1)
      <3>1. c \in Seq(Nat) /\ Len(c) = i /\ d = Append(c, b + 1)
        BY <2>4, <2>5, <2>6
      <3> HIDE DEF c, d
      <3>2. /\ Len(d) = i + 1 /\ d[i + 1] = b + 1
            /\ \A j \in 1..i : d[j] = c[j]
        BY <2>6, <3>1, AppendProperties
      <3> QED BY <3>2 DEF c, d
    <2>8. b = a((i + 1) - 1)
      BY <2>1 DEF b
    <2>9. \A j \in 1..(i + 1) : j \in 1..i \/ j = i + 1
      OBVIOUS
    <2> HIDE DEF a
    <2>10. \A j \in 1..(i + 1) : Kids(T, e, o + 1)[j] = a(j - 1) + 1 /\ Par(T, a(j - 1) + 1) = o + 1
      BY <2>4, <2>5, <2>7, <2>8, <2>9
    <2> QED BY <2>5, <2>7, <2>10 DEF e
  <1>12. Added(n)
    <2>1. Nat \subseteq Ok
      <3> HIDE DEF Ok
      <3> QED BY <1>10, <1>11, SetInduction
    <2>2. n \in 0..n
      BY <1>1
    <2> QED BY <1>1, <2>1, <2>2
  <1>13. o + Len(P) = a(n)
    <2>1. n \in 0..n
      BY <1>1
    <2> DEFINE q == s[n]
    <2>2. q \in Nat /\ Len(P) = 1 + q /\ a(n) = o + 1 + q
      BY <1>2, <2>1
    <2> HIDE DEF q, a
    <2>3. o + (1 + q) = o + 1 + q
      BY <2>2
    <2> QED BY <2>2, <2>3
  <1>14. \A p, q, r \in Nat :
           /\ p <= q => o + 1 + p <= o + 1 + q
           /\ o + 1 + p \in Nat
           /\ o + 1 <= p /\ p < q /\ q <= r => p + 1 \in (o + 1 + 1)..r
           /\ p < q /\ q <= r => p + 1 < r + 1
    OBVIOUS
  <1>15. Linked(T, L, a(n), o + 1)
    <2>1. /\ L[o + 1].widget = w /\ L[o + 1].box = box
      BY <1>7
    <2>2. ASSUME NEW j \in 1..n
          PROVE  /\ Kids(T, a(n), o + 1)[j] \in (o + 1 + 1)..a(n)
                 /\ Kids(T, a(n), o + 1)[j] = a(j - 1) + 1
                 /\ Par(T, Kids(T, a(n), o + 1)[j]) = o + 1
                 /\ L[Kids(T, a(n), o + 1)[j]] = [widget |-> Children(w)[j], box |-> ChildBox(w, box, j)]
      <3>1. Kids(T, a(n), o + 1)[j] = a(j - 1) + 1 /\ Par(T, a(j - 1) + 1) = o + 1
        BY <1>12
      <3>2. /\ a(j - 1) \in Nat /\ a(j) \in Nat /\ o + 1 <= a(j - 1) /\ a(j - 1) < a(j)
            /\ L[a(j - 1) + 1] = [widget |-> Children(w)[j], box |-> ChildBox(w, box, j)]
        BY <1>8
      <3>3. s[j] \in Nat /\ s[n] \in Nat /\ s[j] <= s[n]
        <4>1. j \in 0..n /\ n \in 0..n /\ j <= n
          BY <1>1
        <4> QED BY <1>2, <4>1
      <3>4. a(j) <= a(n) /\ a(n) \in Nat
        BY <1>14, <3>3
      <3> HIDE DEF a
      <3>5. a(j - 1) + 1 \in (o + 1 + 1)..a(n)
        BY <1>14, <3>2, <3>4
      <3> QED BY <3>1, <3>2, <3>5
    <2>3. ASSUME NEW i \in 1..n, NEW j \in 1..n, i < j
          PROVE  Kids(T, a(n), o + 1)[i] < Kids(T, a(n), o + 1)[j]
      <3>1. a(i - 1) < a(i) /\ a(i - 1) \in Nat /\ a(i) \in Nat /\ a(j - 1) \in Nat
        BY <1>8
      <3>2. s[i] \in Nat /\ s[j - 1] \in Nat /\ s[i] <= s[j - 1]
        <4>1. i \in 0..n /\ j - 1 \in 0..n /\ i <= j - 1
          BY <1>1, <2>3
        <4> QED BY <1>2, <4>1
      <3>3. a(i) <= a(j - 1)
        BY <1>14, <3>2
      <3> HIDE DEF a
      <3>4. a(i - 1) + 1 < a(j - 1) + 1
        BY <1>14, <3>1, <3>3
      <3> QED BY <2>2, <3>4
    <2>4. Len(Kids(T, a(n), o + 1)) = n
      BY <1>12
    <2>5. Children(L[o + 1].widget) = Children(w) /\ Len(Children(w)) = n
      BY <2>1 DEF n
    <2> HIDE DEF a
    <2> QED BY <2>1, <2>2, <2>3, <2>4, <2>5 DEF Linked
  <1>16. T[a(n)].stack = rest /\ Started(T, L, o, a(n))
    <2>1. ~(n < n)
      BY <1>1
    <2> QED BY <1>12, <2>1
  <1>17. Done(T, L, o, a(n))
    <2> HIDE DEF a
    <2> QED BY <1>15, <1>16 DEF Done, rest
  <1> QED BY <1>13, <1>17 DEF P

\* The builder leaves the part of a widget as it found it, but for the widget's tree.
LEMMA AllDone ==
  ASSUME NEW L, NEW T, Grows(T, L), Len(L) \in Nat,
         NEW w \in Widgets, NEW box \in Boxes, NEW o \in Nat, Segment(L, o, LayoutWidget[w][box])
  PROVE  Done(T, L, o, o + Len(LayoutWidget[w][box]))
  <1> DEFINE S == {v \in Widgets : Follows(T, L, v)}
  <1>1. ASSUME NEW v \in Widgets, \A i \in DOMAIN Children(v) : Children(v)[i] \in S
        PROVE  v \in S
    <2>1. \A i \in DOMAIN Children(v) : Follows(T, L, Children(v)[i])
      BY <1>1
    <2>2. \A b \in Boxes : \A a \in Nat :
            Segment(L, a, LayoutWidget[v][b]) => Done(T, L, a, a + Len(LayoutWidget[v][b]))
      BY <2>1, WidgetDone
    <2> QED BY <2>2 DEF Follows
  <1>2. Widgets \subseteq S
    <2> HIDE DEF S
    <2> QED BY <1>1, WidgetInduction
  <1> QED BY <1>2 DEF Follows

-------------------------------------------------------------------------------
\* The tree of a document

\* t is the tree of doc, in box.
TreeFor(t, doc, box) ==
  /\ t \in Seq(Node) /\ Len(t) > 0
  /\ t[1].widget = doc /\ t[1].box = box /\ t[1].parent = 0
  /\ \A k \in 1..Len(t) :
       /\ Len(t[k].children) = Len(Children(t[k].widget))
       /\ \A j \in 1..Len(Children(t[k].widget)) :
            /\ t[k].children[j] \in (k + 1)..Len(t)
            /\ t[t[k].children[j]].widget = Children(t[k].widget)[j]
            /\ t[t[k].children[j]].box = ChildBox(t[k].widget, t[k].box, j)
            /\ t[t[k].children[j]].parent = k
       /\ \A i, j \in 1..Len(Children(t[k].widget)) : i < j => t[k].children[i] < t[k].children[j]
  /\ \A k \in 2..Len(t) :
       /\ t[k].parent \in 1..(k - 1)
       /\ \E j \in 1..Len(t[t[k].parent].children) : t[t[k].parent].children[j] = k

\* The nodes are those of the list.
SameAsList(t, L) ==
  /\ Len(t) = Len(L)
  /\ \A k \in 1..Len(L) : t[k].widget = L[k].widget /\ t[k].box = L[k].box

Canvas(width, height) == [x |-> 0, y |-> 0, width |-> width, height |-> height]

\* The builder's tree of a document, and of the list it was made of.
LEMMA TreesBuilt ==
  ASSUME NEW doc \in Widgets, NEW width \in Nat, NEW height \in Nat
  PROVE  /\ TreeFor(BuildTree(doc, width, height), doc, Canvas(width, height))
         /\ SameAsList(BuildTree(doc, width, height), LayoutWidget[doc][Canvas(width, height)])
  <1> DEFINE box == Canvas(width, height)
             L == LayoutWidget[doc][box]
             N == Len(L)
             T == Turns(L)
             t == BuildTree(doc, width, height)
  <1>1. box \in Boxes
    BY DEF Canvas, Boxes
  <1>2. t = T[N].nodes
    BY DEF BuildTree, LayoutDocument, Canvas
  <1> HIDE DEF box, t
  <1>3. L \in Seq(Pairs) /\ N \in Nat /\ N > 0 /\ L[1] = [widget |-> doc, box |-> box]
    BY <1>1, FirstOfLayout
  <1>4. Segment(L, 0, L)
    <2>1. 0 + N <= N /\ \A k \in 1..N : 0 + k = k
      BY <1>3
    <2> HIDE DEF L
    <2> QED BY <2>1 DEF Segment
  <1>5. Done(T, L, 0, N) /\ Grows(T, L) /\ IsRun(T, L)
    <2>1. IsRun(T, L)
      BY <1>3, TurnsRun
    <2>2. Grows(T, L)
      BY <1>3, <2>1, RunGrows
    <2>3. Done(T, L, 0, 0 + N)
      BY <1>1, <1>3, <1>4, <2>2, AllDone
    <2>4. 0 + N = N
      BY <1>3
    <2> QED BY <2>1, <2>2, <2>3, <2>4
  <1> HIDE DEF T, N, L
  <1>6. N \in 0..N /\ N = Len(L)
    BY <1>3 DEF N
  <1>7. t \in Seq(Node) /\ Len(t) = N
    <2>1. T[N] \in Builds /\ Len(T[N].nodes) = N
      BY <1>5, <1>6 DEF IsRun, Grows
    <2> QED BY <1>2, <2>1 DEF Builds
  <1>8. \A k \in 1..N : /\ t[k].widget = L[k].widget /\ t[k].box = L[k].box
                        /\ t[k].parent = Par(T, k) /\ t[k].children = Kids(T, N, k)
    <2>1. \A k \in 1..N : /\ t[k].widget = L[k].widget /\ t[k].box = L[k].box
                          /\ t[k].parent = Par(T, k)
      BY <1>2, <1>3, <1>5, <1>6, RunNodes
    <2> QED BY <1>2, <2>1 DEF Kids
  <1>9. t[1].widget = doc /\ t[1].box = box /\ t[1].parent = 0
    <2>1. 1 \in 1..N /\ 1 - 1 = 0
      BY <1>3
    <2>2. Par(T, 1) = 0
      <3>1. T[0].stack = <<>>
        BY <1>5 DEF IsRun
      <3> QED BY <2>1, <3>1 DEF Par, Top
    <2> QED BY <1>3, <1>8, <2>1, <2>2
  <1>10. \A k \in 1..N : Linked(T, L, N, k)
    <2>1. \A k \in 1..N : k = 0 + 1 \/ k \in (0 + 2)..N
      BY <1>3
    <2> QED BY <1>5, <2>1 DEF Done, Started
  <1>11. \A k \in 2..N : Hung(T, N, k, 1)
    <2>1. 0 + 2 = 2 /\ 0 + 1 = 1
      OBVIOUS
    <2> QED BY <1>5, <2>1 DEF Done, Started
  <1>12. ASSUME NEW k \in 1..N
         PROVE  /\ Len(t[k].children) = Len(Children(t[k].widget))
                /\ \A j \in 1..Len(Children(t[k].widget)) :
                     /\ t[k].children[j] \in (k + 1)..N
                     /\ t[t[k].children[j]].widget = Children(t[k].widget)[j]
                     /\ t[t[k].children[j]].box = ChildBox(t[k].widget, t[k].box, j)
                     /\ t[t[k].children[j]].parent = k
                /\ \A i, j \in 1..Len(Children(t[k].widget)) :
                     i < j => t[k].children[i] < t[k].children[j]
    <2> DEFINE c == Kids(T, N, k)
               w == L[k].widget
               b == L[k].box
    <2>1. t[k].children = c /\ t[k].widget = w /\ t[k].box = b
      BY <1>8
    <2>2. /\ Len(c) = Len(Children(w))
          /\ \A j \in 1..Len(Children(w)) :
               /\ c[j] \in (k + 1)..N /\ Par(T, c[j]) = k
               /\ L[c[j]] = [widget |-> Children(w)[j], box |-> ChildBox(w, b, j)]
          /\ \A i, j \in 1..Len(Children(w)) : i < j => c[i] < c[j]
      BY <1>10 DEF Linked
    <2> HIDE DEF c, w, b
    <2>3. (k + 1)..N \subseteq 1..N
      OBVIOUS
    <2>4. \A j \in 1..Len(Children(w)) :
            /\ t[c[j]].widget = Children(w)[j] /\ t[c[j]].box = ChildBox(w, b, j)
            /\ t[c[j]].parent = k
      <3> TAKE j \in 1..Len(Children(w))
      <3> DEFINE m == c[j]
      <3>1. /\ m \in 1..N /\ Par(T, m) = k
            /\ L[m] = [widget |-> Children(w)[j], box |-> ChildBox(w, b, j)]
        BY <2>2, <2>3
      <3> HIDE DEF m
      <3>2. t[m].widget = L[m].widget /\ t[m].box = L[m].box /\ t[m].parent = Par(T, m)
        BY <1>8, <3>1
      <3> QED BY <3>1, <3>2 DEF m
    <2> QED BY <2>1, <2>2, <2>4
  <1>13. ASSUME NEW k \in 2..N
         PROVE  /\ t[k].parent \in 1..(k - 1)
                /\ \E j \in 1..Len(t[t[k].parent].children) : t[t[k].parent].children[j] = k
    <2> DEFINE p == Par(T, k)
    <2>1. p \in 1..(k - 1) /\ \E j \in 1..Len(Kids(T, N, p)) : Kids(T, N, p)[j] = k
      BY <1>11 DEF Hung
    <2> HIDE DEF p
    <2>2. k \in 1..N /\ p \in 1..N
      <3>1. 1..(k - 1) \subseteq 1..N /\ 2..N \subseteq 1..N
        BY <1>3
      <3> QED BY <2>1, <3>1
    <2>3. t[k].parent = p /\ t[p].children = Kids(T, N, p)
      BY <1>8, <2>2 DEF p
    <2> QED BY <2>1, <2>3
  <1>14. TreeFor(t, doc, box)
    <2>1. Len(t) > 0
      BY <1>3, <1>7
    <2> QED BY <1>7, <1>9, <1>12, <1>13, <2>1 DEF TreeFor
  <1>15. SameAsList(t, L)
    BY <1>6, <1>7, <1>8 DEF SameAsList
  <1> QED BY <1>14, <1>15 DEF t, L, box

LEMMA TreeTypes ==
  ASSUME NEW t, NEW doc, NEW box, TreeFor(t, doc, box)
  PROVE  /\ Len(t) \in Nat /\ DOMAIN t = 1..Len(t)
         /\ \A k \in 1..Len(t) :
              /\ t[k].widget \in Widgets /\ t[k].box \in Boxes /\ t[k].parent \in Nat
              /\ t[k].children \in Seq(Nat)
  <1>1. t \in Seq(Node)
    BY DEF TreeFor
  <1>2. Len(t) \in Nat /\ DOMAIN t = 1..Len(t) /\ \A k \in 1..Len(t) : t[k] \in Node
    BY <1>1, LenProperties, ElementOfSeq
  <1> QED BY <1>2 DEF Node

\* What the tree's links say in the words of the property.
LEMMA TreeIsDocument ==
  ASSUME NEW t, NEW doc, NEW box, TreeFor(t, doc, box), shown = [document |-> doc, tree |-> t]
  PROVE  TreeIsTheDocument
  <1> DEFINE N == Len(t)
  <1>1. /\ shown.tree = t /\ shown.document = doc /\ Nodes = 1..N /\ N \in Nat /\ N > 0
        /\ \A k : /\ WidgetOf(k) = t[k].widget /\ ParentOf(k) = t[k].parent
                  /\ ChildrenOf(k) = t[k].children
    BY TreeTypes DEF Nodes, WidgetOf, ParentOf, ChildrenOf, TreeFor
  <1>2. WidgetOf(1) = shown.document /\ ParentOf(1) = 0
    BY <1>1 DEF TreeFor
  <1>3. ASSUME NEW i \in 1..N
        PROVE  /\ [j \in DOMAIN t[i].children |-> t[t[i].children[j]].widget] = Children(t[i].widget)
               /\ \A j, k \in DOMAIN t[i].children : j < k => t[i].children[j] < t[i].children[k]
               /\ ToSet(t[i].children) = {n \in 1..N : t[n].parent = i}
    <2> DEFINE c == t[i].children
               w == t[i].widget
               n == Len(Children(w))
    <2>1. c \in Seq(Nat) /\ w \in Widgets
      BY TreeTypes
    <2>2. /\ Len(c) = n
          /\ \A j \in 1..n : /\ c[j] \in (i + 1)..N /\ t[c[j]].widget = Children(w)[j]
                             /\ t[c[j]].parent = i
          /\ \A j, k \in 1..n : j < k => c[j] < c[k]
      BY DEF TreeFor
    <2> HIDE DEF c, w
    <2>3. DOMAIN c = 1..n /\ DOMAIN Children(w) = 1..n
          /\ Children(w) = [j \in 1..n |-> Children(w)[j]]
      <3>1. DOMAIN c = 1..n
        BY <2>1, <2>2, LenProperties
      <3>2. Children(w) \in Seq(Widgets)
        BY <2>1, WidgetsNest
      <3>3. Children(w) \in [1..n -> Widgets]
        BY <3>2, LenProperties
      <3> QED BY <3>1, <3>3
    <2> HIDE DEF n
    <2>4. [j \in DOMAIN c |-> t[c[j]].widget] = Children(w)
      BY <2>2, <2>3
    <2>5. ToSet(c) = {m \in 1..N : t[m].parent = i}
      <3>1. (i + 1)..N \subseteq 1..N
        OBVIOUS
      <3>2. ToSet(c) = {c[j] : j \in 1..n}
        BY <2>3 DEF ToSet
      <3>3. \A j \in 1..n : c[j] \in 1..N /\ t[c[j]].parent = i
        BY <2>2, <3>1
      <3>4. ASSUME NEW m \in 1..N, t[m].parent = i PROVE \E j \in 1..n : c[j] = m
        <4>1. m # 1
          BY <3>4 DEF TreeFor
        <4>2. m \in 2..N
          BY <1>1, <4>1
        <4>3. \E j \in 1..Len(t[t[m].parent].children) : t[t[m].parent].children[j] = m
          BY <4>2 DEF TreeFor
        <4> QED BY <2>2, <3>4, <4>3 DEF c
      <3> QED BY <3>2, <3>3, <3>4
    <2> QED BY <2>2, <2>3, <2>4, <2>5 DEF c, w
  <1>4. \A i \in (1..N) \ {1} : t[i].parent \in 1..(i - 1)
    <2>1. \A i \in (1..N) \ {1} : i \in 2..N
      BY <1>1
    <2> QED BY <2>1 DEF TreeFor
  <1> HIDE DEF N
  <1> QED BY <1>1, <1>2, <1>3, <1>4 DEF TreeIsTheDocument

\* Wherever a click lies within a control, hit_test finds that one.
ClicksAnywhere ==
  \A i \in Controls : \A x, y \in Int : Inside(x, y, BoxOf(i)) => HitTest(x, y) = {i}

LEMMA HitIsLast ==
  ASSUME NEW n \in Nat, Nodes = 1..n, NEW x \in Int, NEW y \in Int, NEW i \in Under(x, y),
         \A j \in Under(x, y) : j <= i
  PROVE  HitTest(x, y) = {i}
  <1>1. Under(x, y) \subseteq 1..n
    BY DEF Under
  <1>2. Under(x, y) # {} /\ \A j \in Under(x, y) : j \in Nat
    BY <1>1
  <1>3. Max(Under(x, y)) = i
    <2> DEFINE U == Under(x, y)
    <2>1. \A m \in U : (\A j \in U : m >= j) => m = i
      BY <1>2
    <2>2. i \in U /\ \A j \in U : i >= j
      BY <1>2
    <2> HIDE DEF U
    <2>3. (CHOOSE m \in U : \A j \in U : m >= j) = i
      BY <2>1, <2>2
    <2> QED BY <2>3 DEF Max, U
  <1> QED BY <1>2, <1>3 DEF HitTest

\* The controls of the tree are those of the list.
LEMMA TreeClicks ==
  ASSUME NEW t, NEW doc \in Widgets, NEW box \in Boxes, TreeFor(t, doc, box),
         SameAsList(t, LayoutWidget[doc][box]), shown = [document |-> doc, tree |-> t]
  PROVE  ClicksAnywhere
  <1> DEFINE L == LayoutWidget[doc][box]
             n == Len(L)
  <1>1. Nodes = 1..n /\ \A k : WidgetOf(k) = t[k].widget /\ BoxOf(k) = t[k].box
    BY TreeTypes DEF Nodes, WidgetOf, BoxOf, SameAsList
  <1>2. \A x, y \in 1..n :
          IsControl(L[x].widget) /\ IsControl(L[y].widget) /\ x < y =>
            \A p, q \in Int : Inside(p, q, L[x].box) => ~Covers(L[y].box, p, q)
    BY LaterControlsAreOutside
  <1>3. \A k \in 1..n : t[k].widget = L[k].widget /\ t[k].box = L[k].box /\ t[k].box \in Boxes
    BY AllInReach DEF SameAsList
  <1>4. n \in Nat
    BY LayoutParts DEF Parts
  <1> HIDE DEF L, n
  <1> SUFFICES ASSUME NEW i \in Controls, NEW x \in Int, NEW y \in Int, Inside(x, y, BoxOf(i))
               PROVE  HitTest(x, y) = {i}
    BY DEF ClicksAnywhere
  <1>5. i \in 1..n /\ IsControl(WidgetOf(i))
    BY <1>1 DEF Controls
  <1>6. i \in Under(x, y)
    <2>1. BoxOf(i) \in Boxes
      BY <1>1, <1>3, <1>5
    <2>2. Covers(BoxOf(i), x, y)
      BY <2>1 DEF Covers, Inside, Boxes
    <2> QED BY <1>1, <1>5, <2>2 DEF Under
  <1>7. ASSUME NEW j \in Under(x, y) PROVE j <= i
    <2>1. j \in 1..n /\ IsControl(WidgetOf(j)) /\ Covers(BoxOf(j), x, y)
      BY <1>1 DEF Under
    <2>2. ~(i < j)
      BY <1>1, <1>2, <1>3, <1>5, <2>1
    <2> QED BY <1>4, <1>5, <2>1, <2>2
  <1> QED BY <1>1, <1>4, <1>6, <1>7, HitIsLast

\* Room is handed down from node 1 to every other, by a parent that comes before.
LEMMA TreeHasRoom ==
  ASSUME NEW t, NEW doc \in Widgets, NEW box \in Boxes, TreeFor(t, doc, box),
         shown = [document |-> doc, tree |-> t], NaturalHeight[doc] <= box.height
  PROVE  \A i \in Nodes \ {1} :
           LET outer == BoxOf(ParentOf(i)) IN
           outer.y <= BoxOf(i).y /\ BoxOf(i).y + BoxOf(i).height <= outer.y + outer.height
  <1> DEFINE N == Len(t)
             Room(k) == HasRoom(t[k].widget, t[k].box)
             Ok == {n \in Nat : \A k \in 1..n : k <= N => Room(k)}
  <1>1. /\ Nodes = 1..N /\ N \in Nat
        /\ \A k : BoxOf(k) = t[k].box /\ ParentOf(k) = t[k].parent
    BY TreeTypes DEF Nodes, BoxOf, ParentOf
  <1>2. ASSUME NEW k \in 2..N
        PROVE  LET p == t[k].parent IN
               /\ p \in 1..(k - 1)
               /\ Room(p) => /\ Room(k) /\ t[p].box.y <= t[k].box.y
                             /\ t[k].box.y + t[k].box.height <= t[p].box.y + t[p].box.height
    <2> DEFINE p == t[k].parent
               w == t[p].widget
               b == t[p].box
    <2>1. p \in 1..(k - 1) /\ \E j \in 1..Len(t[p].children) : t[p].children[j] = k
      BY DEF TreeFor
    <2>2. p \in 1..N
      <3>1. 1..(k - 1) \subseteq 1..N
        BY <1>1
      <3> QED BY <2>1, <3>1
    <2> HIDE DEF p
    <2>3. PICK j \in 1..Len(t[p].children) : t[p].children[j] = k
      BY <2>1
    <2>4. w \in Widgets /\ b \in Boxes
      BY <2>2, TreeTypes
    <2>5. /\ j \in 1..Len(Children(w)) /\ t[k].widget = Children(w)[j]
          /\ t[k].box = ChildBox(w, b, j)
      BY <2>2, <2>3 DEF TreeFor
    <2> HIDE DEF w, b
    <2>6. HasRoom(w, b) => /\ HasRoom(t[k].widget, t[k].box) /\ b.y <= t[k].box.y
                           /\ t[k].box.y + t[k].box.height <= b.y + b.height
      BY <2>4, <2>5, ChildBoxes
    <2> QED BY <2>1, <2>6 DEF p, w, b
  <1>3. Room(1)
    BY DEF TreeFor, HasRoom
  <1>4. 0 \in Ok
    OBVIOUS
  <1>5. ASSUME NEW n \in Nat, n \in Ok PROVE n + 1 \in Ok
    <2> SUFFICES ASSUME n + 1 <= N PROVE Room(n + 1)
      <3>1. \A k \in 1..(n + 1) : k \in 1..n \/ k = n + 1
        OBVIOUS
      <3> HIDE DEF Room
      <3> QED BY <1>5, <3>1
    <2>1. CASE n = 0
      <3>1. n + 1 = 1
        BY <2>1
      <3> QED BY <1>3, <3>1
    <2>2. CASE n # 0
      <3>1. n + 1 \in 2..N /\ (n + 1) - 1 = n
        BY <1>1, <2>2
      <3> DEFINE p == t[n + 1].parent
      <3>2. p \in 1..n /\ (Room(p) => Room(n + 1))
        BY <1>2, <3>1
      <3> HIDE DEF p, Room
      <3>3. p <= N
        BY <1>1, <3>1, <3>2
      <3> QED BY <1>5, <3>2, <3>3
    <2> QED BY <2>1, <2>2
  <1>6. \A k \in 1..N : Room(k)
    <2>1. Nat \subseteq Ok
      <3> HIDE DEF Ok
      <3> QED BY <1>4, <1>5, SetInduction
    <2>2. \A k \in 1..N : k <= N
      BY <1>1
    <2> HIDE DEF Room
    <2> QED BY <1>1, <2>1, <2>2
  <1> SUFFICES ASSUME NEW i \in Nodes \ {1}
               PROVE  /\ BoxOf(ParentOf(i)).y <= BoxOf(i).y
                      /\ BoxOf(i).y + BoxOf(i).height
                           <= BoxOf(ParentOf(i)).y + BoxOf(ParentOf(i)).height
    OBVIOUS
  <1>7. i \in 2..N
    BY <1>1
  <1> DEFINE p == t[i].parent
  <1>8. /\ p \in 1..(i - 1)
        /\ Room(p) => /\ t[p].box.y <= t[i].box.y
                      /\ t[i].box.y + t[i].box.height <= t[p].box.y + t[p].box.height
    BY <1>2, <1>7
  <1>9. p \in 1..N
    <2>1. 1..(i - 1) \subseteq 1..N
      BY <1>1, <1>7
    <2> HIDE DEF p
    <2> QED BY <1>8, <2>1
  <1> HIDE DEF Room
  <1>10. Room(p)
    BY <1>6, <1>9
  <1> QED BY <1>1, <1>8, <1>10

-------------------------------------------------------------------------------
\* What the windows show

\* The cache holds the documents of the app, and what is shown is one of a
\* widget, laid out on the app's canvas.
Showing ==
  /\ documents \in [CacheKeys -> Widgets] /\ canvas \in Nat \X Nat
  /\ \A k \in Cached : k \in CacheKeys /\ entries[k] = documents[k]
  /\ \/ shown = Blank
     \/ \E doc \in Widgets :
          shown = [document |-> doc, tree |-> BuildTree(doc, canvas[1], canvas[2])]

LEMMA PipelineInitShowing == PipelineInit => Showing
  <1> SUFFICES ASSUME PipelineInit PROVE Showing
    OBVIOUS
  <1>1. documents \in [CacheKeys -> Widgets] /\ canvas \in Nat \X Nat /\ shown = Blank
    BY PipelineAssumption DEF PipelineInit, WindowsInit
  <1>2. Cached = {}
    BY DEF PipelineInit, WindowsInit, CacheInit, Cached
  <1> QED BY <1>1, <1>2 DEF Showing

LEMMA PipelineNextShowing == Showing /\ [PipelineNext]_pipelineVars => Showing'
  <1> SUFFICES ASSUME Showing, [PipelineNext]_pipelineVars PROVE Showing'
    OBVIOUS
  <1> DEFINE InStep(e, d) == \A k \in DOMAIN e : k \in CacheKeys /\ e[k] = d[k]
  <1>0. /\ documents \in [CacheKeys -> Widgets] /\ canvas \in Nat \X Nat
        /\ InStep(entries, documents)
    BY DEF Showing, Cached
  <1>1. ASSUME documents' = documents, canvas' = canvas, InStep(entries', documents'),
               \/ shown' = shown
               \/ \E doc \in Widgets :
                    shown' = [document |-> doc, tree |-> BuildTree(doc, canvas[1], canvas[2])]
        PROVE  Showing'
    BY <1>1 DEF Showing, Cached
  <1>2. ASSUME NEW w \in Windows, NEW key \in CacheKeys, ShowCached(w, key) PROVE Showing'
    <2>1. /\ key \in DOMAIN entries /\ UNCHANGED <<documents, entries, canvas>>
          /\ shown' = [document |-> entries[key],
                       tree |-> BuildTree(entries[key], canvas[1], canvas[2])]
      BY <1>2 DEF ShowCached, FindCached, Get, Show, Cached
    <2>2. entries[key] \in Widgets
      BY <1>0, <2>1
    <2> QED BY <1>0, <1>1, <2>1, <2>2
  <1>3. ASSUME NEW w \in Windows, NEW key \in CacheKeys, ShowGenerated(w, key) PROVE Showing'
    <2>1. /\ UNCHANGED <<documents, canvas>> /\ Insert(key, documents[key])
          /\ shown' = [document |-> documents[key],
                       tree |-> BuildTree(documents[key], canvas[1], canvas[2])]
      BY <1>3 DEF ShowGenerated, TakeGenerated, Show
    <2>2. documents[key] \in Widgets
      BY <1>0
    <2>3. InStep(entries', documents')
      BY <1>0, <2>1 DEF Insert, Cached
    <2> QED BY <1>1, <2>1, <2>2, <2>3
  <1>4. ASSUME NEW key \in CacheKeys, Forget(key), UNCHANGED <<canvas, shown>> PROVE Showing'
    <2>1. InStep(entries', documents') /\ UNCHANGED documents
      BY <1>0, <1>4 DEF Forget, Invalidate, Without, Cached
    <2> QED BY <1>1, <1>4, <2>1
  <1>5. CASE ForgetAll /\ UNCHANGED <<canvas, shown>>
    <2>1. entries' = <<>> /\ UNCHANGED documents
      BY <1>5 DEF ForgetAll, Clear
    <2>2. DOMAIN <<>> = {}
      OBVIOUS
    <2>3. InStep(entries', documents')
      BY <2>1, <2>2
    <2> QED BY <1>1, <1>5, <2>1, <2>3
  <1>6. CASE UNCHANGED <<documents, entries, canvas, shown>>
    BY <1>0, <1>1, <1>6
  <1>7. ASSUME NEW w \in Windows, NEW key \in CacheKeys, Generate(w, key), UNCHANGED <<canvas, shown>>
        PROVE  Showing'
    BY <1>6, <1>7 DEF Generate, cacheVars
  <1>8. CASE UNCHANGED pipelineVars
    BY <1>6, <1>8 DEF pipelineVars, windowVars, cacheVars
  <1> HIDE DEF InStep
  <1> QED BY <1>2, <1>3, <1>4, <1>5, <1>7, <1>8 DEF PipelineNext, ShowNothing

LEMMA PipelineInvariance == PipelineSpec => []Showing
  BY PipelineInitShowing, PipelineNextShowing, PTL DEF PipelineSpec

\* A tree that is shown is that of the document, on the canvas.
LEMMA ShownTree ==
  ASSUME Showing, shown # Blank
  PROVE  /\ shown.document \in Widgets /\ canvas[1] \in Nat /\ canvas[2] \in Nat
         /\ Canvas(canvas[1], canvas[2]) \in Boxes
         /\ shown = [document |-> shown.document, tree |-> shown.tree]
         /\ TreeFor(shown.tree, shown.document, Canvas(canvas[1], canvas[2]))
         /\ SameAsList(shown.tree, LayoutWidget[shown.document][Canvas(canvas[1], canvas[2])])
  <1>1. canvas[1] \in Nat /\ canvas[2] \in Nat
    BY DEF Showing
  <1>2. PICK doc \in Widgets :
          shown = [document |-> doc, tree |-> BuildTree(doc, canvas[1], canvas[2])]
    BY DEF Showing
  <1>3. /\ TreeFor(BuildTree(doc, canvas[1], canvas[2]), doc, Canvas(canvas[1], canvas[2]))
        /\ SameAsList(BuildTree(doc, canvas[1], canvas[2]),
                      LayoutWidget[doc][Canvas(canvas[1], canvas[2])])
    BY <1>1, TreesBuilt
  <1>4. Canvas(canvas[1], canvas[2]) \in Boxes
    BY <1>1 DEF Canvas, Boxes
  <1>5. shown.document = doc /\ shown.tree = BuildTree(doc, canvas[1], canvas[2])
    BY <1>2
  <1> QED BY <1>1, <1>2, <1>3, <1>4, <1>5

\* The windows use the cache as they do without a canvas: what is shown is laid
\* out and built of what they find, and changes nothing of it.
THEOREM PipelineWindows == PipelineSpec => WindowsSpec
  <1>1. PipelineInit => WindowsInit
    BY DEF PipelineInit
  <1>2. [PipelineNext]_pipelineVars => [WindowsNext]_windowVars
    BY DEF PipelineNext, ShowCached, ShowGenerated, ShowNothing, WindowsNext, pipelineVars
  <1> QED BY <1>1, <1>2, PTL DEF PipelineSpec, WindowsSpec

\* Whatever windows show, from the cache or newly made, on a canvas of any size
\* and of any document: the entity tree that build_nodes_from_pairs makes of the
\* flat list, with a stack of counts, has the document's own structure.
THEOREM TreeOfTheDocument == PipelineSpec => []TreeIsTheDocument
  <1>1. Showing => TreeIsTheDocument
    <2>1. Showing /\ shown # Blank => TreeIsTheDocument
      BY ShownTree, TreeIsDocument
    <2>2. ~(shown # Blank) => TreeIsTheDocument
      BY DEF TreeIsTheDocument
    <2> QED BY <2>1, <2>2
  <1> QED BY <1>1, PipelineInvariance, PTL

\* However the document nests its stacks, and whatever room there is: a click at any
\* point within a button or input, its edges left out, is that control's, though others
\* without a width may lie there (hit_test, layout_widget).
THEOREM EveryClickHits == PipelineSpec => []ClicksAnywhere
  <1>1. Showing => ClicksAnywhere
    <2>1. Showing /\ shown # Blank => ClicksAnywhere
      BY ShownTree, TreeClicks
    <2>2. shown = Blank => ClicksAnywhere
      <3> SUFFICES ASSUME shown = Blank PROVE ClicksAnywhere
        OBVIOUS
      <3>1. Nodes = {}
        BY DEF Nodes, Blank
      <3> QED BY <3>1 DEF ClicksAnywhere, Controls
    <2> QED BY <2>1, <2>2
  <1> QED BY <1>1, PipelineInvariance, PTL

\* So it is where boxes begin, which is where the model checker clicks.
THEOREM ClicksHit == PipelineSpec => []ClicksHitTheirControl
  <1>1. Showing /\ ClicksAnywhere => ClicksHitTheirControl
    <2> SUFFICES ASSUME Showing, ClicksAnywhere, shown # Blank PROVE ClicksHitTheirControl
      <3>1. shown = Blank => Nodes = {}
        BY DEF Nodes, Blank
      <3> QED BY <3>1 DEF ClicksHitTheirControl, Controls
    <2>1. \A k \in Nodes : BoxOf(k).x \in Nat /\ BoxOf(k).y \in Nat
      <3>1. \A k \in 1..Len(shown.tree) : shown.tree[k].box \in Boxes
        BY ShownTree, TreeTypes
      <3>2. Nodes = 1..Len(shown.tree)
        BY ShownTree, TreeTypes DEF Nodes
      <3> QED BY <3>1, <3>2 DEF BoxOf, Boxes
    <2>2. Lefts \subseteq Int /\ Tops \subseteq Int
      BY <2>1 DEF Lefts, Tops, Controls
    <2> QED BY <2>2 DEF ClicksHitTheirControl, ClicksAnywhere
  <1> QED BY <1>1, PipelineInvariance, EveryClickHits, PTL

\* A canvas that is as high as widget_natural_height says suffices: layout_widget
\* lets nothing stick out of its parent at the top or the bottom.
THEOREM NaturalHeightSuffices == PipelineSpec => []NaturalHeightIsEnough
  <1>1. Showing => NaturalHeightIsEnough
    <2> SUFFICES ASSUME Showing, shown # Blank, canvas[2] >= NaturalHeight[shown.document]
                 PROVE  NaturalHeightIsEnough
      BY DEF NaturalHeightIsEnough
    <2>1. NaturalHeight[shown.document] <= Canvas(canvas[1], canvas[2]).height
      <3>1. shown.document \in Widgets /\ canvas[2] \in Nat
        BY ShownTree
      <3>2. NaturalHeight[shown.document] \in Nat
        BY <3>1, NaturalHeights
      <3>3. Canvas(canvas[1], canvas[2]).height = canvas[2]
        BY DEF Canvas
      <3> QED BY <3>1, <3>2, <3>3
    <2>2. \A i \in Nodes \ {1} :
            LET outer == BoxOf(ParentOf(i)) IN
            outer.y <= BoxOf(i).y /\ BoxOf(i).y + BoxOf(i).height <= outer.y + outer.height
      BY <2>1, ShownTree, TreeHasRoom
    <2> QED BY <2>2 DEF NaturalHeightIsEnough
  <1> QED BY <1>1, PipelineInvariance, PTL

\* The same cache is behind what is shown: the windows that lay their documents
\* out find what was used most recently (UidlCache::get).
THEOREM IdealCacheOnScreen == PipelineSpec => []RecentlyUsedAreCached
  BY PipelineWindows, IdealCache, PTL
================================================================================
