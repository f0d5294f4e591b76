--------------------------- MODULE WaitGraphProofs ---------------------------
(***************************************************************************)
(* The wait-for graph, for every list of edges: what adding and removing   *)
(* edges leaves, and that the search ends, finds a cycle that is one, and  *)
(* finds none only when nobody is in a deadlock.                           *)
(***************************************************************************)
EXTENDS WaitGraph, FiniteSetTheorems, SequenceTheorems, WellFoundedInduction, TLAPS

\* Every set of natural numbers has a least element: the form in which
\* induction is used here.
LEMMA LeastElement ==
  ASSUME NEW T \in SUBSET Nat, T # {}
  PROVE  \E m \in T : \A k \in T : m <= k
<1> DEFINE R == {ss \in Nat \X Nat : ss[1] < ss[2]}
<1>1. IsWellFoundedOn(R, Nat)
  BY NatLessThanWellFounded DEF OpToRel
<1>2. \E m \in T : \A k \in T : ~(<<k, m>> \in R)
  <2>. HIDE DEF R
  <2>. QED
    BY <1>1, WFMin
<1>3. PICK m \in T : \A k \in T : ~(<<k, m>> \in R)
  BY <1>2
<1>4. \A k \in T : ~(k < m)
  BY <1>3
<1>5. \A k \in T : m <= k
  BY <1>4
<1>. QED
  BY <1>5

LEMMA FiniteImage ==
  ASSUME NEW X, NEW f, IsFiniteSet(X), f = [x \in X |-> f[x]]
  PROVE  IsFiniteSet({f[x] : x \in X})
<1>1. f \in Surjection(X, {f[x] : x \in X})
  BY DEF Surjection
<1>. QED
  BY <1>1, FS_Surjection

-----------------------------------------------------------------------------
(* Adding and removing edges                                               *)

\* The recursive function that retains edges exists: a shortest list for which
\* it did not would have a shorter one.
RetainStep(g, S, h, n) ==
  IF n = 0 THEN <<>> ELSE IF g[n] \in S THEN Append(h[n - 1], g[n]) ELSE h[n - 1]

LEMMA RetainExists ==
  ASSUME NEW g, NEW S, NEW l \in Nat
  PROVE  \E f : f = [n \in 0 .. l |-> RetainStep(g, S, f, n)]
<1> DEFINE Has(m) == \E f : f = [n \in 0 .. m |-> RetainStep(g, S, f, n)]
           Bad == {m \in Nat : ~Has(m)}
<1>1. SUFFICES Bad = {}
  OBVIOUS
<1>2. SUFFICES ASSUME Bad # {} PROVE FALSE
  OBVIOUS
<1>3. PICK m \in Bad : \A k \in Bad : m <= k
  <2>1. Bad \in SUBSET Nat
    OBVIOUS
  <2>. HIDE DEF Bad
  <2>. QED
    BY <1>2, <2>1, LeastElement
<1>4. m # 0
  <2>1. [n \in 0 .. 0 |-> <<>>] = [n \in 0 .. 0 |-> RetainStep(g, S, [i \in 0 .. 0 |-> <<>>], n)]
    BY DEF RetainStep
  <2>2. Has(0)
    BY <2>1
  <2>. QED
    BY <1>3, <2>2
<1>5. m - 1 \in Nat /\ m - 1 \notin Bad
  BY <1>3, <1>4
<1>6. PICK h : h = [n \in 0 .. m - 1 |-> RetainStep(g, S, h, n)]
  BY <1>5
<1> DEFINE f == [n \in 0 .. m |-> IF n = m THEN RetainStep(g, S, h, m) ELSE h[n]]
<1>7. \A n \in 0 .. m - 1 : f[n] = h[n]
  BY <1>3
<1>8. \A n \in 0 .. m : f[n] = RetainStep(g, S, f, n)
  <2> TAKE n \in 0 .. m
  <2>1. CASE n = m
    <3>1. f[n] = RetainStep(g, S, h, m) /\ h[m - 1] = f[m - 1]
      BY <1>5, <1>7, <2>1
    <3>. QED
      BY <2>1, <3>1 DEF RetainStep
  <2>2. CASE n # m
    <3>1. n \in 0 .. m - 1 /\ (n # 0 => n - 1 \in 0 .. m - 1) /\ f[n] = h[n]
      BY <1>3, <1>5, <2>2
    <3>2. h[n] = RetainStep(g, S, h, n)
      BY <1>6, <3>1
    <3>3. n # 0 => f[n - 1] = h[n - 1]
      BY <1>7, <3>1
    <3>. QED
      BY <3>1, <3>2, <3>3 DEF RetainStep
  <2>. QED
    BY <2>1, <2>2
<1>9. f = [n \in 0 .. m |-> RetainStep(g, S, f, n)]
  <2>1. f = [n \in 0 .. m |-> f[n]]
    OBVIOUS
  <2>. HIDE DEF f
  <2>. QED
    BY <1>8, <2>1
<1>. QED
  BY <1>3, <1>9

LEMMA RetainFacts ==
  ASSUME NEW E, NEW g \in Seq(E), NEW S
  PROVE  /\ Retain(g, S) \in Seq(E)
         /\ ToSet(Retain(g, S)) \subseteq ToSet(g) \cap S
<1> DEFINE kept == CHOOSE f : f = [n \in 0 .. Len(g) |-> RetainStep(g, S, f, n)]
<1>1. Len(g) \in Nat /\ DOMAIN g = 1 .. Len(g)
  BY LenProperties
<1>2. kept = [n \in 0 .. Len(g) |-> RetainStep(g, S, kept, n)]
  BY <1>1, RetainExists
<1>3. Retain(g, S) = kept[Len(g)]
  BY DEF Retain, RetainStep
<1>. HIDE DEF kept
<1> DEFINE Good(n) == kept[n] \in Seq(E) /\ ToSet(kept[n]) \subseteq ToSet(g) \cap S
           Bad == {n \in 0 .. Len(g) : ~Good(n)}
<1>4. ASSUME Bad # {} PROVE FALSE
  <2>1. PICK n \in Bad : \A k \in Bad : n <= k
    <3>1. Bad \in SUBSET Nat
      BY <1>1
    <3>. HIDE DEF Bad
    <3>. QED
      BY <1>4, <3>1, LeastElement
  <2>2. n # 0
    <3>1. kept[0] = <<>>
      BY <1>1, <1>2 DEF RetainStep
    <3>2. Good(0)
      BY <3>1 DEF ToSet
    <3>. QED
      BY <2>1, <3>2
  <2>3. n \in 1 .. Len(g) /\ n - 1 \in 0 .. Len(g)
    BY <1>1, <2>1, <2>2
  <2>4. Good(n - 1)
    BY <2>1, <2>3
  <2>5. g[n] \in E /\ g[n] \in ToSet(g)
    BY <1>1, <2>3, ElementOfSeq DEF ToSet
  <2>6. kept[n] = IF g[n] \in S THEN Append(kept[n - 1], g[n]) ELSE kept[n - 1]
    BY <1>2, <2>2, <2>3 DEF RetainStep
  <2>. HIDE DEF Bad
  <2>7. Good(n)
    <3>1. CASE g[n] \in S
      <4>1. kept[n] = Append(kept[n - 1], g[n])
        BY <2>6, <3>1
      <4>2. /\ kept[n] \in Seq(E)
            /\ DOMAIN kept[n] = 1 .. Len(kept[n - 1]) + 1 /\ Len(kept[n - 1]) \in Nat
            /\ DOMAIN kept[n - 1] = 1 .. Len(kept[n - 1])
            /\ \A i \in 1 .. Len(kept[n - 1]) : kept[n][i] = kept[n - 1][i]
            /\ kept[n][Len(kept[n - 1]) + 1] = g[n]
        BY <2>4, <2>5, <4>1, AppendProperties, LenProperties
      <4>3. \A i \in DOMAIN kept[n] : i \in DOMAIN kept[n - 1] \/ i = Len(kept[n - 1]) + 1
        BY <4>2
      <4>4. ToSet(kept[n]) \subseteq ToSet(kept[n - 1]) \cup {g[n]}
        BY <4>2, <4>3 DEF ToSet
      <4>. QED
        BY <2>4, <2>5, <3>1, <4>2, <4>4
    <3>2. CASE g[n] \notin S
      BY <2>4, <2>6, <3>2
    <3>. QED
      BY <3>1, <3>2
  <2>. QED
    BY <2>1, <2>7 DEF Bad
<1>5. Good(Len(g))
  BY <1>1, <1>4
<1>. QED
  BY <1>3, <1>5

\* The removed agent waits for nobody, and nobody waits for it.
LEMMA RemoveAgentFacts ==
  ASSUME NEW A, NEW g \in Seq(Edges(A)), NEW a
  PROVE  RemoveAgent(g, a) \in Seq(Edges(A)) /\ Nodes(RemoveAgent(g, a)) \subseteq Nodes(g) \ {a}
<1> DEFINE S == {e \in ToSet(g) : e.from # a /\ e.to # a}
<1>1. RemoveAgent(g, a) = Retain(g, S)
  BY DEF RemoveAgent
<1>. HIDE DEF S
<1>2. RemoveAgent(g, a) \in Seq(Edges(A)) /\ ToSet(RemoveAgent(g, a)) \subseteq ToSet(g) \cap S
  BY <1>1, RetainFacts
<1>3. \A e \in ToSet(RemoveAgent(g, a)) : e \in ToSet(g) /\ e.from # a /\ e.to # a
  BY <1>2 DEF S
<1>. QED
  BY <1>2, <1>3 DEF Nodes

LEMMA AddEdgeFacts ==
  ASSUME NEW A, NEW g \in Seq(Edges(A)), NEW a \in A, NEW b \in A
  PROVE  AddEdge(g, a, b) \in Seq(Edges(A)) /\ Nodes(AddEdge(g, a, b)) \subseteq Nodes(g) \cup {a, b}
<1> DEFINE e == Edge(a, b)
<1>1. e \in Edges(A) /\ e.from = a /\ e.to = b
  BY DEF Edge, Edges
<1>2. AddEdge(g, a, b) = g \/ AddEdge(g, a, b) = Append(g, e)
  BY DEF AddEdge
<1>. HIDE DEF e
<1>3. CASE AddEdge(g, a, b) = Append(g, e)
  <2>1. /\ Append(g, e) \in Seq(Edges(A))
        /\ DOMAIN g = 1 .. Len(g) /\ Len(g) \in Nat
        /\ DOMAIN Append(g, e) = 1 .. Len(g) + 1
        /\ \A i \in DOMAIN g : Append(g, e)[i] = g[i]
        /\ Append(g, e)[Len(g) + 1] = e
    BY <1>1, AppendProperties, LenProperties
  <2>2. \A i \in DOMAIN Append(g, e) : i \in DOMAIN g \/ i = Len(g) + 1
    BY <2>1
  <2>3. ToSet(Append(g, e)) \subseteq ToSet(g) \cup {e}
    BY <2>1, <2>2 DEF ToSet
  <2>. QED
    BY <1>1, <1>3, <2>1, <2>3 DEF Nodes
<1>. QED
  BY <1>2, <1>3

-----------------------------------------------------------------------------
(* Searches                                                                *)

LEMMA GraphFacts ==
  ASSUME NEW A, NEW g \in Seq(Edges(A))
  PROVE  /\ Len(g) \in Nat /\ DOMAIN g = 1 .. Len(g)
         /\ \A i \in 1 .. Len(g) : g[i] \in ToSet(g)
         /\ \A e \in ToSet(g) : /\ e \in Edges(Nodes(g)) /\ e.from \in Nodes(g) /\ e.to \in Nodes(g)
                                /\ e = Edge(e.from, e.to)
                                /\ \E i \in 1 .. Len(g) : e = g[i]
         /\ IsFiniteSet(Nodes(g))
<1>1. Len(g) \in Nat /\ DOMAIN g = 1 .. Len(g)
  BY LenProperties
<1>2. \A i \in 1 .. Len(g) : g[i] \in Edges(A)
  BY <1>1, ElementOfSeq
<1>3. \A e \in ToSet(g) : \E i \in 1 .. Len(g) : e = g[i]
  BY <1>1 DEF ToSet
<1>4. \A i \in 1 .. Len(g) : g[i] \in ToSet(g)
  BY <1>1 DEF ToSet
<1>5. ASSUME NEW e \in ToSet(g)
      PROVE  /\ e \in Edges(Nodes(g)) /\ e.from \in Nodes(g) /\ e.to \in Nodes(g)
             /\ e = Edge(e.from, e.to)
  <2>1. e \in [from : A, to : A]
    BY <1>2, <1>3 DEF Edges
  <2>2. e.from \in Nodes(g) /\ e.to \in Nodes(g)
    BY DEF Nodes
  <2>3. e = [from |-> e.from, to |-> e.to]
    BY <2>1
  <2>4. e \in [from : Nodes(g), to : Nodes(g)]
    BY <2>2, <2>3
  <2>. QED
    BY <2>2, <2>3, <2>4 DEF Edges, Edge
<1>6. IsFiniteSet(Nodes(g))
  <2> DEFINE I == 1 .. Len(g)
             f == [i \in I |-> g[i].from]
             h == [i \in I |-> g[i].to]
  <2>1. IsFiniteSet(I)
    BY <1>1, FS_Interval
  <2>2. IsFiniteSet({f[i] : i \in I}) /\ IsFiniteSet({h[i] : i \in I})
    <3>1. f = [i \in I |-> f[i]] /\ h = [i \in I |-> h[i]]
      OBVIOUS
    <3>. HIDE DEF f, h, I
    <3>. QED
      BY <2>1, <3>1, FiniteImage
  <2>3. Nodes(g) = {f[i] : i \in I} \cup {h[i] : i \in I}
    <3>1. {e.from : e \in ToSet(g)} = {f[i] : i \in I}
      BY <1>3, <1>4
    <3>2. {e.to : e \in ToSet(g)} = {h[i] : i \in I}
      BY <1>3, <1>4
    <3>. QED
      BY <3>1, <3>2 DEF Nodes
  <2>. HIDE DEF f, h
  <2>. QED
    BY <2>2, <2>3, FS_Union
<1>. QED
  BY <1>1, <1>3, <1>4, <1>5, <1>6

\* What a search goes on with: the next edge, the next edge with other colours,
\* or the node the edge leads to.
Rest(s)        == [s EXCEPT !.next = @ + 1]
RestWith(s, c) == [Rest(s) EXCEPT !.colour = c]
Deeper(g, s)   == Enter(Append(s.path, g[s.next]), g[s.next].to, s.colour)

Skips(g, s) == g[s.next].from # s.node \/ s.colour[g[s.next].to] = 2
Backs(g, s) == g[s.next].from = s.node /\ s.colour[g[s.next].to] = 1
Downs(g, s) == g[s.next].from = s.node /\ s.colour[g[s.next].to] = 0

LEMMA SearchFields ==
  ASSUME NEW A, NEW g \in Seq(Edges(A)), NEW s \in Searches(g)
  PROVE  /\ s.node \in Nodes(g) /\ s.next \in 1 .. Len(g) + 1 /\ s.next \in Nat
         /\ s.colour \in [Nodes(g) -> 0 .. 2] /\ s.path \in Seq(Edges(Nodes(g)))
         /\ s = [node |-> s.node, next |-> s.next, colour |-> s.colour, path |-> s.path]
         /\ s.next <= Len(g) => /\ s.next \in 1 .. Len(g)
                                /\ g[s.next] \in ToSet(g) /\ g[s.next] \in Edges(Nodes(g))
                                /\ g[s.next].from \in Nodes(g) /\ g[s.next].to \in Nodes(g)
<1>1. Len(g) \in Nat
  BY GraphFacts
<1>2. /\ s.node \in Nodes(g) /\ s.next \in 1 .. Len(g) + 1 /\ s.next \in Nat
      /\ s.colour \in [Nodes(g) -> 0 .. 2] /\ s.path \in Seq(Edges(Nodes(g)))
      /\ s = [node |-> s.node, next |-> s.next, colour |-> s.colour, path |-> s.path]
  BY <1>1 DEF Searches
<1>3. s.next <= Len(g) => s.next \in 1 .. Len(g)
  BY <1>1, <1>2
<1>. QED
  BY <1>2, <1>3, GraphFacts

LEMMA VisitCases ==
  ASSUME NEW A, NEW g \in Seq(Edges(A)), NEW s \in Searches(g), NEW f
  PROVE  /\ s.next > Len(g) =>
              Visit(g, f, s) = [cycle |-> NoCycle, colour |-> [s.colour EXCEPT ![s.node] = 2]]
         /\ s.next <= Len(g) =>
              /\ Skips(g, s) \/ Backs(g, s) \/ Downs(g, s)
              /\ Skips(g, s) => Visit(g, f, s) = f[Rest(s)]
              /\ Backs(g, s) =>
                   Visit(g, f, s) = [cycle |-> CycleOf(s.path, g[s.next]), colour |-> s.colour]
              /\ Downs(g, s) =>
                   Visit(g, f, s) = IF f[Deeper(g, s)].cycle # NoCycle
                                      THEN f[Deeper(g, s)]
                                      ELSE f[RestWith(s, f[Deeper(g, s)].colour)]
<1>1. Len(g) \in Nat /\ s.next \in Nat
  BY GraphFacts, SearchFields
<1>2. CASE s.next > Len(g)
  BY <1>1, <1>2, SMTT(30) DEF Visit
<1>3. CASE s.next <= Len(g)
  <2>1. ~(s.next > Len(g))
    BY <1>1, <1>3
  <2>2. g[s.next].to \in Nodes(g) /\ s.colour \in [Nodes(g) -> 0 .. 2]
    BY <1>3, SearchFields
  <2>3. s.colour[g[s.next].to] \in {0, 1, 2}
    BY <2>2
  <2>4. Skips(g, s) \/ Backs(g, s) \/ Downs(g, s)
    BY <2>3 DEF Skips, Backs, Downs
  <2>5. ASSUME Skips(g, s) PROVE Visit(g, f, s) = f[Rest(s)]
    BY <2>1, <2>5 DEF Visit, Skips, Rest
  <2>6. ASSUME Backs(g, s)
        PROVE  Visit(g, f, s) = [cycle |-> CycleOf(s.path, g[s.next]), colour |-> s.colour]
    BY <2>1, <2>6 DEF Visit, Backs
  <2>7. ASSUME Downs(g, s)
        PROVE  Visit(g, f, s) = IF f[Deeper(g, s)].cycle # NoCycle
                                  THEN f[Deeper(g, s)]
                                  ELSE f[RestWith(s, f[Deeper(g, s)].colour)]
    BY <2>1, <2>7 DEF Visit, Downs, Deeper, Rest, RestWith
  <2>. QED
    BY <2>1, <2>4, <2>5, <2>6, <2>7
<1>. QED
  BY <1>1, <1>2, <1>3

-----------------------------------------------------------------------------
(* The recursion ends                                                      *)

\* Every call has a node less to visit, or as many and an edge less.
White(g, c) == {n \in Nodes(g) : c[n] = 0}
Size(g, s)  == Cardinality(White(g, s.colour)) * (Len(g) + 1) + (Len(g) + 1 - s.next)

LEMMA Lexicographic ==
  ASSUME NEW v \in Nat, NEW w \in Nat, NEW l \in Nat, NEW n \in 1 .. l
  PROVE  /\ v <= w => v * (l + 1) + (l + 1 - (n + 1)) < w * (l + 1) + (l + 1 - n)
         /\ v < w => v * (l + 1) + (l + 1 - 1) < w * (l + 1) + (l + 1 - n)
<1>1. v * (l + 1) \in Nat /\ w * (l + 1) \in Nat
  OBVIOUS
<1>2. ASSUME v <= w PROVE v * (l + 1) <= w * (l + 1)
  <2>1. w - v \in Nat
    BY <1>2
  <2>2. (w - v) * (l + 1) \in Nat
    BY <2>1
  <2>3. w * (l + 1) = v * (l + 1) + (w - v) * (l + 1)
    OBVIOUS
  <2>. QED
    BY <1>1, <2>2, <2>3
<1>3. ASSUME v < w PROVE v * (l + 1) + (l + 1) <= w * (l + 1)
  <2>1. w - v - 1 \in Nat
    BY <1>3
  <2>2. (w - v - 1) * (l + 1) \in Nat
    BY <2>1
  <2>3. w * (l + 1) = v * (l + 1) + (l + 1) + (w - v - 1) * (l + 1)
    OBVIOUS
  <2>. QED
    BY <1>1, <2>2, <2>3
<1>. QED
  BY <1>1, <1>2, <1>3

LEMMA WhiteFacts ==
  ASSUME NEW A, NEW g \in Seq(Edges(A)), NEW c, NEW d, White(g, d) \subseteq White(g, c)
  PROVE  /\ Cardinality(White(g, c)) \in Nat /\ Cardinality(White(g, d)) \in Nat
         /\ Cardinality(White(g, d)) <= Cardinality(White(g, c))
         /\ White(g, d) # White(g, c) => Cardinality(White(g, d)) < Cardinality(White(g, c))
<1>1. IsFiniteSet(White(g, c))
  BY GraphFacts, FS_Subset DEF White
<1>. QED
  BY <1>1, FS_Subset, FS_CardinalityType

LEMMA SizeFacts ==
  ASSUME NEW A, NEW g \in Seq(Edges(A)), NEW s \in Searches(g)
  PROVE  /\ Size(g, s) \in Nat
         /\ s.next <= Len(g) =>
              /\ Rest(s) \in Searches(g) /\ Size(g, Rest(s)) < Size(g, s)
              /\ \A c \in [Nodes(g) -> 0 .. 2] : White(g, c) \subseteq White(g, s.colour) =>
                   RestWith(s, c) \in Searches(g) /\ Size(g, RestWith(s, c)) < Size(g, s)
              /\ Downs(g, s) =>
                   /\ Deeper(g, s) \in Searches(g) /\ Size(g, Deeper(g, s)) < Size(g, s)
                   /\ White(g, Deeper(g, s).colour) \subseteq White(g, s.colour)
<1>1. /\ s.node \in Nodes(g) /\ s.next \in 1 .. Len(g) + 1 /\ s.next \in Nat
      /\ s.colour \in [Nodes(g) -> 0 .. 2] /\ s.path \in Seq(Edges(Nodes(g)))
      /\ s = [node |-> s.node, next |-> s.next, colour |-> s.colour, path |-> s.path]
      /\ Len(g) \in Nat
  BY SearchFields, GraphFacts
<1>2. Size(g, s) \in Nat
  <2>1. Cardinality(White(g, s.colour)) \in Nat
    BY WhiteFacts
  <2>2. Cardinality(White(g, s.colour)) * (Len(g) + 1) \in Nat /\ Len(g) + 1 - s.next \in Nat
    BY <1>1, <2>1
  <2>. QED
    BY <2>2 DEF Size
<1>3. ASSUME s.next <= Len(g), NEW c \in [Nodes(g) -> 0 .. 2], White(g, c) \subseteq White(g, s.colour)
      PROVE  RestWith(s, c) \in Searches(g) /\ Size(g, RestWith(s, c)) < Size(g, s)
  <2>1. RestWith(s, c) = [node |-> s.node, next |-> s.next + 1, colour |-> c, path |-> s.path]
    <3>1. PICK n, i, d, p : s = [node |-> n, next |-> i, colour |-> d, path |-> p]
      BY <1>1
    <3>2. Rest(s) = [node |-> n, next |-> i + 1, colour |-> d, path |-> p]
      BY <3>1 DEF Rest
    <3>3. RestWith(s, c) = [node |-> n, next |-> i + 1, colour |-> c, path |-> p]
      BY <3>2 DEF RestWith
    <3>. QED
      BY <3>1, <3>3
  <2>2. s.next + 1 \in 1 .. Len(g) + 1 /\ s.next \in 1 .. Len(g)
    BY <1>1, <1>3
  <2>3. RestWith(s, c) \in Searches(g)
    BY <1>1, <2>1, <2>2 DEF Searches
  <2>4. /\ Cardinality(White(g, c)) \in Nat /\ Cardinality(White(g, s.colour)) \in Nat
        /\ Cardinality(White(g, c)) <= Cardinality(White(g, s.colour))
    BY <1>3, WhiteFacts
  <2>5. RestWith(s, c).colour = c /\ RestWith(s, c).next = s.next + 1
    BY <2>1
  <2>6. Size(g, RestWith(s, c)) < Size(g, s)
    BY <1>1, <2>2, <2>4, <2>5, Lexicographic DEF Size
  <2>. QED
    BY <2>3, <2>6
<1>4. ASSUME s.next <= Len(g) PROVE Rest(s) \in Searches(g) /\ Size(g, Rest(s)) < Size(g, s)
  <2>1. Rest(s) = RestWith(s, s.colour)
    BY <1>1 DEF Rest, RestWith
  <2>. QED
    BY <1>1, <1>3, <1>4, <2>1
<1>5. ASSUME s.next <= Len(g), Downs(g, s)
      PROVE  /\ Deeper(g, s) \in Searches(g) /\ Size(g, Deeper(g, s)) < Size(g, s)
             /\ White(g, Deeper(g, s).colour) \subseteq White(g, s.colour)
  <2> DEFINE e == g[s.next]
             c == [s.colour EXCEPT ![e.to] = 1]
  <2>1. e \in Edges(Nodes(g)) /\ e.to \in Nodes(g) /\ s.next \in 1 .. Len(g)
    BY <1>5, SearchFields
  <2>2. Deeper(g, s) = [node |-> e.to, next |-> 1, colour |-> c, path |-> Append(s.path, e)]
    BY DEF Deeper, Enter
  <2>3. c \in [Nodes(g) -> 0 .. 2]
    BY <1>1, <2>1
  <2>4. Append(s.path, e) \in Seq(Edges(Nodes(g)))
    BY <1>1, <2>1, AppendProperties
  <2>5. Deeper(g, s) \in Searches(g)
    BY <1>1, <2>1, <2>2, <2>3, <2>4 DEF Searches
  <2>6. White(g, c) \subseteq White(g, s.colour) /\ e.to \in White(g, s.colour) \ White(g, c)
    BY <1>1, <1>5, <2>1 DEF White, Downs
  <2>7. /\ Cardinality(White(g, c)) \in Nat /\ Cardinality(White(g, s.colour)) \in Nat
        /\ Cardinality(White(g, c)) < Cardinality(White(g, s.colour))
    <3>. HIDE DEF c, e
    <3>. QED
      BY <2>6, WhiteFacts
  <2>8. Deeper(g, s).colour = c /\ Deeper(g, s).next = 1
    BY <2>2
  <2>. HIDE DEF c, e
  <2>9. Size(g, Deeper(g, s)) < Size(g, s)
    BY <1>1, <2>1, <2>7, <2>8, Lexicographic DEF Size
  <2>. QED
    BY <2>5, <2>6, <2>8, <2>9
<1>. QED
  BY <1>2, <1>3, <1>4, <1>5

\* What every search keeps to: its result has colours, and no node that was
\* visited is unvisited again.
Sound(g, s, r) ==
  r.colour \in [Nodes(g) -> 0 .. 2] /\ White(g, r.colour) \subseteq White(g, s.colour)

\* Visiting looks only at smaller searches.
LEMMA VisitLooksDown ==
  ASSUME NEW A, NEW g \in Seq(Edges(A)), NEW s \in Searches(g), NEW f, NEW h,
         \A t \in Searches(g) : Size(g, t) < Size(g, s) => f[t] = h[t] /\ Sound(g, t, f[t])
  PROVE  Visit(g, f, s) = Visit(g, h, s) /\ Sound(g, s, Visit(g, f, s))
<1>1. s.colour \in [Nodes(g) -> 0 .. 2] /\ s.node \in Nodes(g)
  BY SearchFields
<1>2. Len(g) \in Nat /\ s.next \in Nat
  BY SearchFields, GraphFacts
<1>3. CASE s.next > Len(g)
  <2>1. /\ Visit(g, f, s) = [cycle |-> NoCycle, colour |-> [s.colour EXCEPT ![s.node] = 2]]
        /\ Visit(g, h, s) = [cycle |-> NoCycle, colour |-> [s.colour EXCEPT ![s.node] = 2]]
    BY <1>3, VisitCases
  <2>. QED
    BY <1>1, <2>1 DEF Sound, White
<1>4. CASE s.next <= Len(g)
  <2>1. CASE Skips(g, s)
    <3>1. Visit(g, f, s) = f[Rest(s)] /\ Visit(g, h, s) = h[Rest(s)]
      BY <1>4, <2>1, VisitCases
    <3>2. f[Rest(s)] = h[Rest(s)] /\ Sound(g, Rest(s), f[Rest(s)])
      BY <1>4, SizeFacts
    <3>3. Rest(s).colour = s.colour
      BY SearchFields DEF Rest
    <3>. QED
      BY <3>1, <3>2, <3>3 DEF Sound
  <2>2. CASE Backs(g, s)
    <3>1. /\ Visit(g, f, s) = [cycle |-> CycleOf(s.path, g[s.next]), colour |-> s.colour]
          /\ Visit(g, h, s) = [cycle |-> CycleOf(s.path, g[s.next]), colour |-> s.colour]
      BY <1>4, <2>2, VisitCases
    <3>. QED
      BY <1>1, <3>1 DEF Sound
  <2>3. CASE Downs(g, s)
    <3> DEFINE d == Deeper(g, s)
               r == RestWith(s, f[d].colour)
    <3>1. /\ d \in Searches(g) /\ Size(g, d) < Size(g, s)
          /\ White(g, d.colour) \subseteq White(g, s.colour)
      BY <1>4, <2>3, SizeFacts
    <3>2. f[d] = h[d] /\ f[d].colour \in [Nodes(g) -> 0 .. 2]
          /\ White(g, f[d].colour) \subseteq White(g, s.colour)
      BY <3>1 DEF Sound
    <3>3. r \in Searches(g) /\ Size(g, r) < Size(g, s)
      BY <1>4, <3>2, SizeFacts
    <3>4. r.colour = f[d].colour
      <4>1. \A c : RestWith(s, c).colour = c
        <5>1. PICK n, i, c0, p : s = [node |-> n, next |-> i, colour |-> c0, path |-> p]
          BY SearchFields
        <5>. QED
          BY <5>1 DEF Rest, RestWith
      <4>. QED
        BY <4>1
    <3>5. f[r] = h[r] /\ Sound(g, r, f[r])
      BY <3>3
    <3>6. /\ Visit(g, f, s) = IF f[d].cycle # NoCycle THEN f[d] ELSE f[r]
          /\ Visit(g, h, s) = IF h[d].cycle # NoCycle THEN h[d] ELSE h[RestWith(s, h[d].colour)]
      BY <1>4, <2>3, VisitCases
    <3>. HIDE DEF d
    <3>7. Visit(g, h, s) = IF f[d].cycle # NoCycle THEN f[d] ELSE f[r]
      BY <3>2, <3>5, <3>6
    <3>. HIDE DEF r
    <3>8. Sound(g, s, f[d]) /\ Sound(g, s, f[r])
      BY <3>2, <3>4, <3>5 DEF Sound
    <3>. QED
      BY <3>6, <3>7, <3>8
  <2>. QED
    BY <1>4, <2>1, <2>2, <2>3, VisitCases
<1>. QED
  BY <1>2, <1>3, <1>4

\* So the function of which SearchFrom speaks exists: a smallest size up to
\* which it did not would not be smallest.
LEMMA SearchExists ==
  ASSUME NEW A, NEW g \in Seq(Edges(A))
  PROVE  \E f : /\ f = [s \in Searches(g) |-> Visit(g, f, s)]
                /\ \A s \in Searches(g) : Sound(g, s, f[s])
<1> DEFINE Below(k) == {s \in Searches(g) : Size(g, s) < k}
           Fits(f, k) == /\ f = [s \in Below(k) |-> Visit(g, f, s)]
                         /\ \A s \in Below(k) : Sound(g, s, f[s])
           Bad == {k \in Nat : ~\E f : Fits(f, k)}
<1>1. ASSUME Bad # {} PROVE FALSE
  <2>1. PICK k \in Bad : \A m \in Bad : k <= m
    <3>1. Bad \in SUBSET Nat
      OBVIOUS
    <3>. HIDE DEF Bad
    <3>. QED
      BY <1>1, <3>1, LeastElement
  <2>2. k # 0
    <3>1. Below(0) = {}
      BY SizeFacts
    <3>2. Fits([s \in {} |-> s], 0)
      BY <3>1
    <3>. QED
      BY <2>1, <3>2
  <2>3. k - 1 \in Nat /\ k - 1 \notin Bad
    <3>1. k \in Nat
      OBVIOUS
    <3>. HIDE DEF Bad
    <3>. QED
      BY <2>1, <2>2, <3>1
  <2>4. PICK f : Fits(f, k - 1)
    BY <2>3
  <2> DEFINE h == [s \in Below(k) |-> Visit(g, f, s)]
  <2>5. ASSUME NEW s \in Below(k - 1) PROVE s \in Below(k) /\ h[s] = f[s] /\ Sound(g, s, f[s])
    <3>1. s \in Below(k)
      BY <2>1, SizeFacts
    <3>2. f[s] = Visit(g, f, s) /\ Sound(g, s, f[s])
      <4>. HIDE DEF Below
      <4>. QED
        BY <2>4
    <3>. HIDE DEF Below
    <3>. QED
      BY <3>1, <3>2
  <2>6. ASSUME NEW s \in Below(k) PROVE h[s] = Visit(g, h, s) /\ Sound(g, s, h[s])
    <3>1. \A t \in Searches(g) : Size(g, t) < Size(g, s) => t \in Below(k - 1)
      BY <2>1, SizeFacts
    <3>2. h[s] = Visit(g, f, s)
      OBVIOUS
    <3>3. s \in Searches(g)
      OBVIOUS
    <3>. HIDE DEF Below, h
    <3>4. \A t \in Searches(g) : Size(g, t) < Size(g, s) => f[t] = h[t] /\ Sound(g, t, f[t])
      BY <2>5, <3>1
    <3>5. Visit(g, f, s) = Visit(g, h, s) /\ Sound(g, s, Visit(g, f, s))
      BY <3>3, <3>4, VisitLooksDown
    <3>. QED
      BY <3>2, <3>5
  <2>7. Fits(h, k)
    <3>1. h = [s \in Below(k) |-> h[s]]
      <4>. HIDE DEF Below
      <4>. QED
        OBVIOUS
    <3>. HIDE DEF h, Below
    <3>. QED
      BY <2>6, <3>1
  <2>. HIDE DEF Fits, h
  <2>. QED
    BY <2>1, <2>7
<1> DEFINE n == Cardinality(Nodes(g)) * (Len(g) + 1) + (Len(g) + 1)
<1>2. n \in Nat /\ Searches(g) = Below(n)
  <2>1. IsFiniteSet(Nodes(g)) /\ Len(g) \in Nat
    BY GraphFacts
  <2>2. Cardinality(Nodes(g)) \in Nat
    BY <2>1, FS_CardinalityType
  <2>3. n \in Nat
    BY <2>1, <2>2
  <2>4. ASSUME NEW s \in Searches(g) PROVE Size(g, s) < n
    <3>1. Cardinality(White(g, s.colour)) <= Cardinality(Nodes(g)) /\ Cardinality(White(g, s.colour)) \in Nat
      BY <2>1, FS_Subset, WhiteFacts DEF White
    <3>2. s.next \in 1 .. Len(g) + 1
      BY SearchFields
    <3>3. Cardinality(Nodes(g)) - Cardinality(White(g, s.colour)) \in Nat
      BY <2>2, <3>1
    <3> DEFINE v == Cardinality(White(g, s.colour))
               w == Cardinality(Nodes(g))
    <3>4. v \in Nat /\ w \in Nat /\ w - v \in Nat
      BY <2>2, <3>1, <3>3
    <3>. HIDE DEF v, w
    <3>5. w * (Len(g) + 1) = v * (Len(g) + 1) + (w - v) * (Len(g) + 1)
      BY <2>1, <3>4
    <3>6. (w - v) * (Len(g) + 1) \in Nat /\ v * (Len(g) + 1) \in Nat
      BY <2>1, <3>4
    <3>7. v * (Len(g) + 1) + (Len(g) + 1 - s.next) < w * (Len(g) + 1) + (Len(g) + 1)
      BY <2>1, <3>2, <3>5, <3>6
    <3>. QED
      BY <3>7 DEF Size, v, w
  <2>. HIDE DEF n
  <2>. QED
    BY <2>3, <2>4
<1>3. \E f : Fits(f, n)
  <2>. HIDE DEF n, Fits
  <2>. QED
    BY <1>1, <1>2
<1>. HIDE DEF Below, n
<1>. QED
  BY <1>2, <1>3

\* The function, and what it says of each search.
Dfs(g) == CHOOSE f : f = [s \in Searches(g) |-> Visit(g, f, s)]

LEMMA DfsFacts ==
  ASSUME NEW A, NEW g \in Seq(Edges(A))
  PROVE  \A s \in Searches(g) : Dfs(g)[s] = Visit(g, Dfs(g), s)
<1>1. \E f : f = [s \in Searches(g) |-> Visit(g, f, s)]
  BY SearchExists
<1>2. Dfs(g) = [s \in Searches(g) |-> Visit(g, Dfs(g), s)]
  BY <1>1 DEF Dfs
<1>. QED
  BY <1>2

-----------------------------------------------------------------------------
(* What a search finds                                                     *)

\* A node that is done leads to done ones only, and they are in no deadlock.
Cleared(g, c) ==
  /\ \A e \in ToSet(g) : c[e.from] = 2 => c[e.to] = 2
  /\ \A S \in SUBSET Nodes(g) : S # {} /\ (\A n \in S : c[n] = 2) =>
       \E n \in S : \A m \in S : Edge(n, m) \notin ToSet(g)

\* The path leads to the node, meets no node twice, and is what is coloured 1.
OnPath(g, s) ==
  /\ \A i \in DOMAIN s.path : /\ s.path[i] \in ToSet(g) /\ s.path[i].from # s.node
                              /\ s.path[i].to = IF i = Len(s.path) THEN s.node ELSE s.path[i + 1].from
  /\ \A i, j \in DOMAIN s.path : i # j => s.path[i].from # s.path[j].from
  /\ \A n \in Nodes(g) : s.colour[n] = 1 <=> (n = s.node \/ \E i \in DOMAIN s.path : n = s.path[i].from)

\* A sequence of edges of g that is a cycle.
Circle(c, g) == c \in Seq(ToSet(g)) /\ IsCycle(c, g)

Before(g, s) ==
  /\ OnPath(g, s)
  /\ Cleared(g, s.colour)
  /\ \A i \in 1 .. Len(g) : i < s.next /\ g[i].from = s.node => s.colour[g[i].to] = 2

\* A cycle, or the node is done, and others at most have been done too.
Found(g, s, r) ==
  IF r.cycle # NoCycle THEN Circle(r.cycle, g)
  ELSE /\ r.colour \in [Nodes(g) -> 0 .. 2]
       /\ Cleared(g, r.colour)
       /\ r.colour[s.node] = 2
       /\ \A n \in Nodes(g) \ {s.node} : /\ s.colour[n] # 0 => r.colour[n] = s.colour[n]
                                         /\ s.colour[n] = 0 => r.colour[n] # 1

\* A node all of whose edges lead to done nodes is done.
LEMMA NodeIsDone ==
  ASSUME NEW A, NEW g \in Seq(Edges(A)), NEW s \in Searches(g), Before(g, s), s.next > Len(g)
  PROVE  Found(g, s, [cycle |-> NoCycle, colour |-> [s.colour EXCEPT ![s.node] = 2]])
<1> DEFINE c == s.colour
           d == [c EXCEPT ![s.node] = 2]
<1>1. /\ s.node \in Nodes(g) /\ c \in [Nodes(g) -> 0 .. 2] /\ s.next \in Nat /\ Len(g) \in Nat
  BY SearchFields, GraphFacts
<1>2. \A e \in ToSet(g) : /\ e.from \in Nodes(g) /\ e.to \in Nodes(g)
                          /\ e.from = s.node => c[e.to] = 2
  <2> SUFFICES ASSUME NEW e \in ToSet(g)
               PROVE  /\ e.from \in Nodes(g) /\ e.to \in Nodes(g)
                      /\ e.from = s.node => c[e.to] = 2
    OBVIOUS
  <2>1. PICK i \in 1 .. Len(g) : e = g[i]
    BY GraphFacts
  <2>2. i < s.next
    BY <1>1, <2>1
  <2>. QED
    BY <2>1, <2>2, GraphFacts DEF Before
<1>3. c[s.node] = 1
  BY <1>1 DEF Before, OnPath
<1>4. Cleared(g, c)
  BY DEF Before
<1>. HIDE DEF c
<1>5. d \in [Nodes(g) -> 0 .. 2] /\ d[s.node] = 2 /\ \A n \in Nodes(g) \ {s.node} : d[n] = c[n]
  BY <1>1
<1>. HIDE DEF d
<1>6. \A e \in ToSet(g) : d[e.from] = 2 => d[e.to] = 2
  BY <1>2, <1>4, <1>5 DEF Cleared
<1>7. ASSUME NEW S \in SUBSET Nodes(g), S # {}, \A n \in S : d[n] = 2
      PROVE  \E n \in S : \A m \in S : Edge(n, m) \notin ToSet(g)
  <2> DEFINE T == S \ {s.node}
  <2>1. \A n \in T : c[n] = 2
    BY <1>5, <1>7
  <2>2. CASE T = {}
    <3>1. S = {s.node}
      BY <1>7, <2>2
    <3>2. Edge(s.node, s.node) \notin ToSet(g)
      BY <1>2, <1>3 DEF Edge
    <3>. QED
      BY <3>1, <3>2
  <2>3. CASE T # {}
    <3>1. PICK n \in T : \A m \in T : Edge(n, m) \notin ToSet(g)
      BY <1>4, <2>1, <2>3 DEF Cleared
    <3>2. Edge(n, s.node) \notin ToSet(g)
      <4>1. c[n] = 2
        BY <2>1
      <4>2. Edge(n, s.node).from = n /\ Edge(n, s.node).to = s.node
        BY DEF Edge
      <4>. QED
        BY <1>3, <1>4, <4>1, <4>2 DEF Cleared
    <3>. QED
      BY <3>1, <3>2
  <2>. QED
    BY <2>2, <2>3
<1>8. Cleared(g, d)
  BY <1>6, <1>7 DEF Cleared
<1>9. \A n \in Nodes(g) \ {s.node} : /\ c[n] # 0 => d[n] = c[n]
                                     /\ c[n] = 0 => d[n] # 1
  BY <1>5
<1>. QED
  BY <1>5, <1>8, <1>9 DEF Found, c, d

\* An edge back to the path closes a cycle.
LEMMA BackEdgeCloses ==
  ASSUME NEW A, NEW g \in Seq(Edges(A)), NEW s \in Searches(g), Before(g, s),
         s.next <= Len(g), Backs(g, s)
  PROVE  Circle(CycleOf(s.path, g[s.next]), g)
<1> DEFINE e == g[s.next]
           p == s.path
           P == {i \in DOMAIN p : p[i].from = e.to}
<1>1. e \in ToSet(g) /\ e.from = s.node /\ e.to \in Nodes(g) /\ s.colour[e.to] = 1
  BY SearchFields DEF Backs
<1>2. Len(p) \in Nat /\ DOMAIN p = 1 .. Len(p) /\ p \in Seq(Edges(Nodes(g)))
  BY SearchFields, LenProperties
<1>3. /\ \A i \in DOMAIN p : /\ p[i] \in ToSet(g) /\ p[i].from # s.node
                             /\ p[i].to = IF i = Len(p) THEN s.node ELSE p[i + 1].from
      /\ \A i, j \in DOMAIN p : i # j => p[i].from # p[j].from
  BY DEF Before, OnPath
<1>4. e.to = s.node \/ P # {}
  BY <1>1 DEF Before, OnPath
<1>5. CycleOf(p, e) = IF P = {} THEN <<e>>
                      ELSE Append(SubSeq(p, CHOOSE i \in P : \A j \in P : i <= j, Len(p)), e)
  BY DEF CycleOf
<1>. HIDE DEF e, p
<1>6. CASE P = {}
  <2> DEFINE c == <<e>>
  <2>1. CycleOf(p, e) = c
    BY <1>5, <1>6
  <2>2. Len(c) = 1 /\ c[1] = e /\ DOMAIN c = {1} /\ c # <<>> /\ ToSet(c) = {e}
    BY DEF ToSet
  <2>3. e.to = e.from
    BY <1>1, <1>4, <1>6
  <2>4. 1 .. 1 = {1} /\ (1 % 1) + 1 = 1
    OBVIOUS
  <2>. HIDE DEF c
  <2>5. IsCycle(c, g)
    BY <1>1, <2>2, <2>3, <2>4 DEF IsCycle
  <2>6. c \in Seq(ToSet(g))
    BY <1>1 DEF c
  <2>. QED
    BY <2>1, <2>5, <2>6 DEF e, p, Circle
<1>7. CASE P # {}
  <2>1. \E i \in P : \A j \in P : i <= j
    <3>1. P \in SUBSET Nat
      BY <1>2
    <3>. HIDE DEF P
    <3>. QED
      BY <1>7, <3>1, LeastElement
  <2> DEFINE k == CHOOSE i \in P : \A j \in P : i <= j
  <2>2. k \in P
    BY <2>1
  <2>. HIDE DEF k
  <2>3. k \in 1 .. Len(p) /\ p[k].from = e.to
    BY <1>2, <2>2
  <2> DEFINE q == SubSeq(p, k, Len(p))
             c == Append(q, e)
             l == Len(p) - k + 1
  <2>4. l \in Nat \ {0} /\ k \in Nat
    BY <1>2, <2>3
  <2>5. /\ q \in Seq(ToSet(g)) /\ Len(q) = l
        /\ \A i \in 1 .. l : q[i] = p[k + i - 1]
    <3>1. \A i \in k .. Len(p) : p[i] \in ToSet(g)
      BY <1>2, <1>3, <2>3
    <3>. QED
      BY <1>2, <2>3, <3>1, SubSeqProperties
  <2>. HIDE DEF q
  <2>6. /\ c \in Seq(ToSet(g)) /\ Len(c) = l + 1 /\ DOMAIN c = 1 .. l + 1
        /\ \A i \in 1 .. l : c[i] = p[k + i - 1]
        /\ c[l + 1] = e
    BY <1>1, <2>5, AppendProperties, LenProperties
  <2>7. \A i \in 1 .. l : k + i - 1 \in DOMAIN p
    BY <1>2, <2>3
  <2>8. c # <<>> /\ ToSet(c) \subseteq ToSet(g)
    <3>1. Len(<<>>) = 0
      OBVIOUS
    <3>2. \A i \in DOMAIN c : c[i] \in ToSet(g)
      BY <2>6, ElementOfSeq
    <3>. HIDE DEF c, l
    <3>. QED
      BY <2>4, <2>6, <3>1, <3>2 DEF ToSet
  <2>9. ASSUME NEW i \in 1 .. l + 1 PROVE c[i].to = c[(i % (l + 1)) + 1].from
    <3>1. CASE i = l + 1
      <4>1. (l + 1) % (l + 1) = 0
        BY <2>4
      <4>2. c[i] = e /\ c[1] = p[k]
        BY <2>3, <2>4, <2>6, <3>1
      <4>. HIDE DEF c, l
      <4>. QED
        BY <2>3, <3>1, <4>1, <4>2
    <3>2. CASE i = l
      <4>1. l % (l + 1) = l
        BY <2>4, SMTT(30)
      <4>2. l \in 1 .. l /\ k + l - 1 = Len(p) /\ Len(p) \in DOMAIN p
        BY <1>2, <2>3, <2>4
      <4>3. c[l] = p[k + l - 1] /\ c[l + 1] = e
        BY <2>6, <4>2
      <4>. HIDE DEF c, l
      <4>. QED
        BY <1>1, <1>3, <3>2, <4>1, <4>2, <4>3
    <3>3. CASE i \in 1 .. l - 1
      <4>1. i % (l + 1) = i
        BY <2>4, <3>3
      <4>2. i \in 1 .. l /\ i + 1 \in 1 .. l
        BY <2>4, <3>3
      <4>3. k + i - 1 \in DOMAIN p /\ k + i - 1 # Len(p) /\ k + (i + 1) - 1 = (k + i - 1) + 1
        BY <1>2, <2>3, <3>3
      <4>4. c[i] = p[k + i - 1] /\ c[i + 1] = p[k + (i + 1) - 1]
        BY <2>6, <4>2
      <4>5. c[i + 1] = p[(k + i - 1) + 1]
        BY <4>3, <4>4
      <4>. HIDE DEF c, l
      <4>. QED
        BY <1>3, <4>1, <4>3, <4>4, <4>5
    <3>. HIDE DEF c, l
    <3>4. i = l + 1 \/ i = l \/ i \in 1 .. l - 1
      BY <2>4
    <3>. QED
      BY <3>1, <3>2, <3>3, <3>4
  <2>10. ASSUME NEW i \in 1 .. l + 1, NEW j \in 1 .. l + 1, i # j PROVE c[i].from # c[j].from
    <3>1. ASSUME NEW a \in 1 .. l, NEW b \in 1 .. l, a # b PROVE c[a].from # c[b].from
      <4>1. k + a - 1 # k + b - 1
        BY <2>4, <3>1
      <4>2. c[a] = p[k + a - 1] /\ c[b] = p[k + b - 1]
        BY <2>6
      <4>. HIDE DEF c, l
      <4>. QED
        BY <1>3, <2>7, <4>1, <4>2
    <3>2. ASSUME NEW a \in 1 .. l PROVE c[a].from # c[l + 1].from
      <4>1. c[a] = p[k + a - 1] /\ c[l + 1] = e
        BY <2>6
      <4>. HIDE DEF c, l
      <4>. QED
        BY <1>1, <1>3, <2>7, <4>1
    <3>3. (i \in 1 .. l \/ i = l + 1) /\ (j \in 1 .. l \/ j = l + 1)
      BY <2>4
    <3>. HIDE DEF c, l
    <3>. QED
      BY <2>10, <3>1, <3>2, <3>3
  <2>11. CycleOf(p, e) = c
    BY <1>5, <1>7 DEF q, k
  <2>. HIDE DEF c, l
  <2>12. IsCycle(c, g)
    BY <2>6, <2>8, <2>9, <2>10 DEF IsCycle
  <2>. QED
    BY <2>6, <2>11, <2>12 DEF e, p, Circle
<1>. QED
  BY <1>6, <1>7

\* An edge that goes down finds a search that may begin...
LEMMA DownBegins ==
  ASSUME NEW A, NEW g \in Seq(Edges(A)), NEW s \in Searches(g), Before(g, s),
         s.next <= Len(g), Downs(g, s)
  PROVE  /\ Before(g, Deeper(g, s))
         /\ Deeper(g, s).node = g[s.next].to
         /\ Deeper(g, s).colour = [s.colour EXCEPT ![g[s.next].to] = 1]
<1> DEFINE e == g[s.next]
           p == s.path
           c == [s.colour EXCEPT ![e.to] = 1]
           q == Append(p, e)
           t == Deeper(g, s)
<1>1. /\ e \in ToSet(g) /\ e.from = s.node /\ e.to \in Nodes(g) /\ s.colour[e.to] = 0
      /\ e \in Edges(Nodes(g)) /\ s.node \in Nodes(g)
  BY SearchFields DEF Downs
<1>2. Len(p) \in Nat /\ DOMAIN p = 1 .. Len(p) /\ p \in Seq(Edges(Nodes(g)))
      /\ s.colour \in [Nodes(g) -> 0 .. 2] /\ Len(g) \in Nat
  BY SearchFields, LenProperties, GraphFacts
<1>3. /\ \A i \in DOMAIN p : /\ p[i] \in ToSet(g) /\ p[i].from # s.node
                             /\ p[i].to = IF i = Len(p) THEN s.node ELSE p[i + 1].from
      /\ \A i, j \in DOMAIN p : i # j => p[i].from # p[j].from
      /\ \A n \in Nodes(g) : s.colour[n] = 1 <=> (n = s.node \/ \E i \in DOMAIN p : n = p[i].from)
      /\ Cleared(g, s.colour)
  BY DEF Before, OnPath
<1>4. t.node = e.to /\ t.next = 1 /\ t.colour = c /\ t.path = q
  BY DEF Deeper, Enter
<1>5. /\ Len(q) = Len(p) + 1 /\ DOMAIN q = 1 .. Len(p) + 1
      /\ \A i \in 1 .. Len(p) : q[i] = p[i]
      /\ q[Len(p) + 1] = e
  BY <1>1, <1>2, AppendProperties, LenProperties
<1>6. c[e.to] = 1 /\ \A n \in Nodes(g) \ {e.to} : c[n] = s.colour[n]
  BY <1>1, <1>2
<1>7. s.colour[s.node] = 1 /\ \A i \in DOMAIN p : p[i].from \in Nodes(g) /\ s.colour[p[i].from] = 1
  BY <1>1, <1>3, GraphFacts
<1>8. e.to # s.node /\ \A i \in DOMAIN p : p[i].from # e.to
  BY <1>1, <1>7
<1>9. \A i \in DOMAIN q : i \in DOMAIN p \/ i = Len(p) + 1
  BY <1>2, <1>5
<1>. HIDE DEF e, p, c, q, t
<1>10. \A i \in DOMAIN q : /\ q[i] \in ToSet(g) /\ q[i].from # t.node
                           /\ q[i].to = IF i = Len(q) THEN t.node ELSE q[i + 1].from
  <2> SUFFICES ASSUME NEW i \in DOMAIN q
               PROVE  /\ q[i] \in ToSet(g) /\ q[i].from # t.node
                      /\ q[i].to = IF i = Len(q) THEN t.node ELSE q[i + 1].from
    OBVIOUS
  <2>1. CASE i = Len(p) + 1
    BY <1>1, <1>4, <1>5, <1>8, <2>1
  <2>2. CASE i \in DOMAIN p /\ i = Len(p)
    <3>1. Len(p) \in 1 .. Len(p) /\ Len(p) # Len(p) + 1
      <4>1. i \in 1 .. Len(p)
        BY <1>2, <2>2, Zenon
      <4>2. \A n \in Nat : n # n + 1
        OBVIOUS
      <4>. QED
        BY <1>2, <2>2, <4>1, <4>2, Zenon
    <3>2. q[i] = p[i] /\ q[i + 1] = e /\ i # Len(q)
      BY <1>5, <2>2, <3>1
    <3>. QED
      BY <1>1, <1>3, <1>4, <1>8, <2>2, <3>2
  <2>3. CASE i \in DOMAIN p /\ i # Len(p)
    <3>1. q[i] = p[i] /\ q[i + 1] = p[i + 1] /\ i # Len(q)
      BY <1>2, <1>5, <2>3
    <3>. QED
      BY <1>3, <1>4, <1>8, <2>3, <3>1
  <2>. QED
    BY <1>9, <2>1, <2>2, <2>3
<1>11. \A i, j \in DOMAIN q : i # j => q[i].from # q[j].from
  BY <1>1, <1>2, <1>3, <1>5, <1>9
<1>12. \A n \in Nodes(g) : t.colour[n] = 1 <=> (n = t.node \/ \E i \in DOMAIN q : n = q[i].from)
  <2> SUFFICES ASSUME NEW n \in Nodes(g)
               PROVE  c[n] = 1 <=> (n = e.to \/ \E i \in DOMAIN q : n = q[i].from)
    BY <1>4
  <2>1. (\E i \in DOMAIN q : n = q[i].from) <=> (n = s.node \/ \E i \in DOMAIN p : n = p[i].from)
    <3>1. \A i \in DOMAIN p : i \in DOMAIN q /\ q[i] = p[i]
      BY <1>2, <1>5
    <3>2. Len(p) + 1 \in DOMAIN q
      BY <1>2, <1>5
    <3>. QED
      BY <1>1, <1>5, <1>9, <3>1, <3>2
  <2>. QED
    BY <1>3, <1>6, <2>1
<1>13. Cleared(g, t.colour)
  <2>1. \A n \in Nodes(g) : c[n] = 2 <=> s.colour[n] = 2
    BY <1>1, <1>6
  <2>2. \A f \in ToSet(g) : f.from \in Nodes(g) /\ f.to \in Nodes(g)
    BY GraphFacts
  <2>. QED
    BY <1>3, <1>4, <2>1, <2>2 DEF Cleared
<1>14. \A i \in 1 .. Len(g) : ~(i < t.next)
  BY <1>2, <1>4
<1>. QED
  BY <1>4, <1>10, <1>11, <1>12, <1>13, <1>14 DEF Before, OnPath, e, c, t, q

\* ...and, when it has found nothing, the rest of this one goes on from there.
LEMMA UpAgain ==
  ASSUME NEW A, NEW g \in Seq(Edges(A)), NEW s \in Searches(g), Before(g, s),
         s.next <= Len(g), Downs(g, s),
         NEW r, r.cycle = NoCycle, Found(g, Deeper(g, s), r)
  PROVE  /\ Before(g, RestWith(s, r.colour))
         /\ r.colour \in [Nodes(g) -> 0 .. 2] /\ White(g, r.colour) \subseteq White(g, s.colour)
         /\ \A q : Found(g, RestWith(s, r.colour), q) => Found(g, s, q)
<1> DEFINE e == g[s.next]
           c == r.colour
           t == RestWith(s, c)
           d == [s.colour EXCEPT ![e.to] = 1]
<1>1. /\ e \in ToSet(g) /\ e.from = s.node /\ e.to \in Nodes(g) /\ s.colour[e.to] = 0
      /\ s.node \in Nodes(g) /\ s.colour \in [Nodes(g) -> 0 .. 2]
      /\ s.next \in Nat /\ Len(g) \in Nat
  BY SearchFields, GraphFacts DEF Downs
<1>2. t.node = s.node /\ t.next = s.next + 1 /\ t.colour = c /\ t.path = s.path
  <2>1. PICK n, i, c0, p : s = [node |-> n, next |-> i, colour |-> c0, path |-> p]
    BY SearchFields
  <2>. QED
    BY <2>1 DEF Rest, RestWith
<1>3. /\ c \in [Nodes(g) -> 0 .. 2] /\ Cleared(g, c) /\ c[e.to] = 2
      /\ \A n \in Nodes(g) \ {e.to} : /\ d[n] # 0 => c[n] = d[n]
                                      /\ d[n] = 0 => c[n] # 1
  BY DownBegins, ZenonT(30) DEF Found
<1>4. \A n \in Nodes(g) \ {e.to} : d[n] = s.colour[n]
  BY <1>1
<1>. HIDE DEF c, d, t, e
<1>5. \A n \in Nodes(g) : /\ s.colour[n] = 1 => c[n] = 1
                          /\ s.colour[n] = 2 => c[n] = 2
                          /\ s.colour[n] = 0 => c[n] # 1
  BY <1>1, <1>3, <1>4
<1>6. \A n \in Nodes(g) : s.colour[n] \in {0, 1, 2}
  BY <1>1
<1>7. OnPath(g, t)
  <2>1. \A n \in Nodes(g) : c[n] = 1 <=> s.colour[n] = 1
    BY <1>5, <1>6
  <2>2. OnPath(g, s)
    BY DEF Before
  <2>. QED
    BY <1>2, <2>1, <2>2 DEF OnPath
<1>8. ASSUME NEW i \in 1 .. Len(g), i < t.next, g[i].from = t.node PROVE c[g[i].to] = 2
  <2>1. CASE i = s.next
    BY <1>3, <2>1 DEF e
  <2>2. CASE i # s.next
    <3>1. i < s.next
      BY <1>1, <1>2, <1>8, <2>2
    <3>2. s.colour[g[i].to] = 2
      BY <1>2, <1>8, <3>1 DEF Before
    <3>3. g[i].to \in Nodes(g)
      BY GraphFacts
    <3>. QED
      BY <1>5, <3>2, <3>3
  <2>. QED
    BY <2>1, <2>2
<1>9. Before(g, t)
  BY <1>2, <1>3, <1>7, <1>8 DEF Before
<1>10. White(g, c) \subseteq White(g, s.colour)
  BY <1>5, <1>6 DEF White
<1>11. ASSUME NEW q, Found(g, t, q) PROVE Found(g, s, q)
  <2>1. CASE q.cycle # NoCycle
    BY <1>11, <2>1 DEF Found
  <2>2. CASE ~(q.cycle # NoCycle)
    <3>1. /\ q.colour \in [Nodes(g) -> 0 .. 2] /\ Cleared(g, q.colour)
          /\ q.colour[s.node] = 2
          /\ \A n \in Nodes(g) \ {s.node} : /\ c[n] # 0 => q.colour[n] = c[n]
                                            /\ c[n] = 0 => q.colour[n] # 1
      BY <1>2, <1>11, <2>2 DEF Found
    <3>2. \A n \in Nodes(g) \ {s.node} : /\ s.colour[n] # 0 => q.colour[n] = s.colour[n]
                                         /\ s.colour[n] = 0 => q.colour[n] # 1
      BY <1>3, <1>5, <1>6, <3>1
    <3>. QED
      BY <2>2, <3>1, <3>2 DEF Found
  <2>. QED
    BY <2>1, <2>2
<1>. QED
  BY <1>3, <1>9, <1>10, <1>11 DEF t, c

LEMMA SkipGoesOn ==
  ASSUME NEW A, NEW g \in Seq(Edges(A)), NEW s \in Searches(g), Before(g, s),
         s.next <= Len(g), Skips(g, s)
  PROVE  Before(g, Rest(s)) /\ \A q : Found(g, Rest(s), q) => Found(g, s, q)
<1>1. s.next \in Nat /\ Len(g) \in Nat
  BY SearchFields, GraphFacts
<1>2. /\ Rest(s).node = s.node /\ Rest(s).next = s.next + 1
      /\ Rest(s).colour = s.colour /\ Rest(s).path = s.path
  <2>1. PICK n, i, c0, p : s = [node |-> n, next |-> i, colour |-> c0, path |-> p]
    BY SearchFields
  <2>. QED
    BY <2>1 DEF Rest
<1>3. ASSUME NEW i \in 1 .. Len(g), i < Rest(s).next, g[i].from = s.node PROVE s.colour[g[i].to] = 2
  <2>1. CASE i = s.next
    BY <1>3, <2>1 DEF Skips
  <2>2. CASE i # s.next
    <3>1. i < s.next
      BY <1>1, <1>2, <1>3, <2>2
    <3>. QED
      BY <1>3, <3>1 DEF Before
  <2>. QED
    BY <2>1, <2>2
<1>4. Before(g, Rest(s))
  BY <1>2, <1>3 DEF Before, OnPath
<1>. QED
  BY <1>2, <1>4 DEF Found

\* Every search that has begun well ends well: a smallest one that did not
\* would have gone on to a smaller one.
LEMMA SearchIsRight ==
  ASSUME NEW A, NEW g \in Seq(Edges(A)), NEW s \in Searches(g), Before(g, s)
  PROVE  Found(g, s, Dfs(g)[s])
<1> DEFINE f == Dfs(g)
           Wrong(t) == t \in Searches(g) /\ Before(g, t) /\ ~Found(g, t, f[t])
           Bad == {k \in Nat : \E t : Wrong(t) /\ Size(g, t) = k}
<1>1. ASSUME Bad # {} PROVE FALSE
  <2>1. PICK k \in Bad : \A m \in Bad : k <= m
    <3>1. Bad \in SUBSET Nat
      OBVIOUS
    <3>. HIDE DEF Bad
    <3>. QED
      BY <1>1, <3>1, LeastElement
  <2>2. PICK t : Wrong(t) /\ Size(g, t) = k
    BY <2>1
  <2>3. t \in Searches(g) /\ Before(g, t) /\ ~Found(g, t, f[t]) /\ Size(g, t) \in Nat
    BY <2>2, SizeFacts
  <2>4. ASSUME NEW u \in Searches(g), Size(g, u) < Size(g, t), Before(g, u) PROVE Found(g, u, f[u])
    <3>1. SUFFICES ASSUME ~Found(g, u, f[u]) PROVE FALSE
      OBVIOUS
    <3>2. Size(g, u) \in Nat
      BY SizeFacts
    <3>3. Size(g, u) \in Bad
      BY <2>4, <3>1, <3>2
    <3>. HIDE DEF Bad, f
    <3>. QED
      BY <2>1, <2>2, <2>3, <2>4, <3>2, <3>3
  <2>5. f[t] = Visit(g, f, t)
    BY <2>3, DfsFacts
  <2>6. Len(g) \in Nat /\ t.next \in Nat
    BY <2>3, GraphFacts, SearchFields
  <2>. HIDE DEF f, Bad, Wrong
  <2>7. CASE t.next > Len(g)
    <3>1. f[t] = [cycle |-> NoCycle, colour |-> [t.colour EXCEPT ![t.node] = 2]]
      BY <2>3, <2>5, <2>7, VisitCases
    <3>. QED
      BY <2>3, <2>7, <3>1, NodeIsDone
  <2>8. CASE t.next <= Len(g) /\ Skips(g, t)
    <3>1. f[t] = f[Rest(t)]
      BY <2>3, <2>5, <2>8, VisitCases
    <3>2. Rest(t) \in Searches(g) /\ Size(g, Rest(t)) < Size(g, t)
      BY <2>3, <2>8, SizeFacts
    <3>3. Before(g, Rest(t)) /\ \A q : Found(g, Rest(t), q) => Found(g, t, q)
      BY <2>3, <2>8, SkipGoesOn
    <3>. QED
      BY <2>3, <2>4, <3>1, <3>2, <3>3
  <2>9. CASE t.next <= Len(g) /\ Backs(g, t)
    <3>1. f[t] = [cycle |-> CycleOf(t.path, g[t.next]), colour |-> t.colour]
      BY <2>3, <2>5, <2>9, VisitCases
    <3>2. Circle(CycleOf(t.path, g[t.next]), g)
      BY <2>3, <2>9, BackEdgeCloses
    <3>3. CycleOf(t.path, g[t.next]) # NoCycle
      BY <3>2 DEF Circle, IsCycle, NoCycle
    <3>. QED
      BY <2>3, <3>1, <3>2, <3>3 DEF Found
  <2>10. CASE t.next <= Len(g) /\ Downs(g, t)
    <3> DEFINE d == Deeper(g, t)
               u == RestWith(t, f[d].colour)
    <3>1. d \in Searches(g) /\ Size(g, d) < Size(g, t) /\ Before(g, d)
      BY <2>3, <2>10, SizeFacts, DownBegins
    <3>2. Found(g, d, f[d])
      BY <2>4, <3>1
    <3>3. f[t] = IF f[d].cycle # NoCycle THEN f[d] ELSE f[u]
      BY <2>3, <2>5, <2>10, VisitCases
    <3>4. CASE f[d].cycle # NoCycle
      <4>1. f[t] = f[d]
        BY <3>3, <3>4
      <4>2. Circle(f[d].cycle, g)
        BY <3>2, <3>4 DEF Found
      <4>. QED
        BY <2>3, <3>4, <4>1, <4>2 DEF Found
    <3>5. CASE f[d].cycle = NoCycle
      <4>1. f[t] = f[u]
        BY <3>3, <3>5
      <4>2. /\ Before(g, u) /\ f[d].colour \in [Nodes(g) -> 0 .. 2]
            /\ White(g, f[d].colour) \subseteq White(g, t.colour)
            /\ \A q : Found(g, u, q) => Found(g, t, q)
        BY <2>3, <2>10, <3>2, <3>5, UpAgain
      <4>3. u \in Searches(g) /\ Size(g, u) < Size(g, t)
        BY <2>3, <2>10, <4>2, SizeFacts
      <4>. HIDE DEF u, d
      <4>. QED
        BY <2>3, <2>4, <4>1, <4>2, <4>3
    <3>. QED
      BY <3>4, <3>5
  <2>. QED
    BY <2>3, <2>6, <2>7, <2>8, <2>9, <2>10, VisitCases
<1>2. Size(g, s) \in Nat
  BY SizeFacts
<1>3. ~Wrong(s)
  <2>. HIDE DEF Wrong
  <2>. QED
    BY <1>1, <1>2
<1>. QED
  BY <1>3

-----------------------------------------------------------------------------
(* find_cycle                                                              *)

\* Between two searches no node is on a path.
Settled(g, r) ==
  IF r.cycle # NoCycle THEN Circle(r.cycle, g)
  ELSE /\ r.colour \in [Nodes(g) -> 0 .. 2] /\ Cleared(g, r.colour)
       /\ \A n \in Nodes(g) : r.colour[n] # 1

LEMMA SearchFromFacts ==
  ASSUME NEW A, NEW g \in Seq(Edges(A)), NEW n \in Nodes(g),
         NEW r, r.cycle = NoCycle, Settled(g, r), r.colour[n] = 0
  PROVE  LET q == SearchFrom(g, n, r.colour)
         IN  /\ Settled(g, q)
             /\ q.cycle = NoCycle => /\ q.colour[n] = 2
                                     /\ \A m \in Nodes(g) : r.colour[m] = 2 => q.colour[m] = 2
<1> DEFINE c == [r.colour EXCEPT ![n] = 1]
           s == Enter(<<>>, n, r.colour)
           q == SearchFrom(g, n, r.colour)
<1>1. r.colour \in [Nodes(g) -> 0 .. 2] /\ Cleared(g, r.colour) /\ \A m \in Nodes(g) : r.colour[m] # 1
  BY DEF Settled
<1>2. q = Dfs(g)[s]
  BY DEF SearchFrom, Dfs
<1>3. s = [node |-> n, next |-> 1, colour |-> c, path |-> <<>>]
  BY DEF Enter
<1>4. c \in [Nodes(g) -> 0 .. 2] /\ c[n] = 1 /\ \A m \in Nodes(g) \ {n} : c[m] = r.colour[m]
  BY <1>1
<1>5. Len(g) \in Nat /\ \A e \in ToSet(g) : e.from \in Nodes(g) /\ e.to \in Nodes(g)
  BY GraphFacts
<1>. HIDE DEF s, c, q
<1>6. s \in Searches(g)
  <2>1. <<>> \in Seq(Edges(Nodes(g))) /\ 1 \in 1 .. Len(g) + 1
    BY <1>5
  <2>. QED
    BY <1>3, <1>4, <2>1 DEF Searches
<1>7. Before(g, s)
  <2>1. s.node = n /\ s.next = 1 /\ s.colour = c /\ s.path = <<>>
    BY <1>3
  <2>2. DOMAIN <<>> = {}
    OBVIOUS
  <2>3. OnPath(g, s)
    <3>1. DOMAIN s.path = {}
      BY <2>1, <2>2
    <3>2. \A m \in Nodes(g) : c[m] = 1 <=> m = n
      BY <1>1, <1>4
    <3>. QED
      BY <2>1, <3>1, <3>2 DEF OnPath
  <2>4. Cleared(g, c)
    <3>1. \A m \in Nodes(g) : c[m] = 2 <=> r.colour[m] = 2
      BY <1>4
    <3>. QED
      BY <1>1, <1>5, <3>1 DEF Cleared
  <2>5. \A i \in 1 .. Len(g) : ~(i < s.next)
    BY <1>5, <2>1
  <2>. QED
    BY <2>1, <2>3, <2>4, <2>5 DEF Before
<1>8. Found(g, s, q)
  BY <1>2, <1>6, <1>7, SearchIsRight
<1>9. CASE q.cycle # NoCycle
  BY <1>8, <1>9 DEF Found, Settled, q
<1>10. CASE ~(q.cycle # NoCycle)
  <2>1. /\ q.colour \in [Nodes(g) -> 0 .. 2] /\ Cleared(g, q.colour) /\ q.colour[n] = 2
        /\ \A m \in Nodes(g) \ {n} : /\ c[m] # 0 => q.colour[m] = c[m]
                                     /\ c[m] = 0 => q.colour[m] # 1
    BY <1>3, <1>8, <1>10 DEF Found
  <2>2. \A m \in Nodes(g) : q.colour[m] # 1
    BY <1>1, <1>4, <2>1
  <2>3. \A m \in Nodes(g) : r.colour[m] = 2 => q.colour[m] = 2
    BY <1>4, <2>1
  <2>. QED
    BY <1>10, <2>1, <2>2, <2>3 DEF Settled, q
<1>. QED
  BY <1>9, <1>10

TryNext(g, h, i) ==
  IF i = 0 THEN [cycle |-> NoCycle, colour |-> Unvisited(g)]
  ELSE IF h[i - 1].cycle # NoCycle \/ h[i - 1].colour[Starts(g)[i]] # 0
    THEN h[i - 1] ELSE SearchFrom(g, Starts(g)[i], h[i - 1].colour)

LEMMA TriesExist ==
  ASSUME NEW g, NEW l \in Nat
  PROVE  \E f : f = [i \in 0 .. l |-> TryNext(g, f, i)]
<1> DEFINE Has(m) == \E f : f = [i \in 0 .. m |-> TryNext(g, f, i)]
           Bad == {m \in Nat : ~Has(m)}
<1>1. SUFFICES ASSUME Bad # {} PROVE FALSE
  OBVIOUS
<1>2. PICK m \in Bad : \A k \in Bad : m <= k
  <2>1. Bad \in SUBSET Nat
    OBVIOUS
  <2>. HIDE DEF Bad
  <2>. QED
    BY <1>1, <2>1, LeastElement
<1>3. m # 0
  <2> DEFINE first == [cycle |-> NoCycle, colour |-> Unvisited(g)]
  <2>1. \A h : TryNext(g, h, 0) = first
    BY DEF TryNext
  <2>. HIDE DEF first
  <2>2. [i \in 0 .. 0 |-> first] = [i \in 0 .. 0 |-> TryNext(g, [j \in 0 .. 0 |-> first], i)]
    BY <2>1
  <2>3. Has(0)
    BY <2>2
  <2>. QED
    BY <1>2, <2>3
<1>4. m \in Nat /\ m - 1 \in Nat /\ m - 1 \notin Bad
  BY <1>2, <1>3
<1>5. PICK h : h = [i \in 0 .. m - 1 |-> TryNext(g, h, i)]
  BY <1>4
<1> DEFINE f == [i \in 0 .. m |-> IF i = m THEN TryNext(g, h, m) ELSE h[i]]
<1>6. \A i \in 0 .. m - 1 : f[i] = h[i]
  BY <1>4
<1>7. \A i \in 0 .. m : f[i] = TryNext(g, f, i)
  <2> TAKE i \in 0 .. m
  <2>1. CASE i = m
    <3>1. f[i] = TryNext(g, h, m) /\ h[m - 1] = f[m - 1]
      BY <1>4, <1>6, <2>1
    <3>. HIDE DEF f
    <3>. QED
      BY <1>3, <2>1, <3>1 DEF TryNext
  <2>2. CASE i # m
    <3>1. i \in 0 .. m - 1 /\ (i # 0 => i - 1 \in 0 .. m - 1) /\ f[i] = h[i]
      BY <1>4, <2>2
    <3>2. h[i] = TryNext(g, h, i)
      BY <1>5, <3>1
    <3>3. i # 0 => f[i - 1] = h[i - 1]
      BY <1>6, <3>1
    <3>. HIDE DEF f
    <3>. QED
      BY <3>1, <3>2, <3>3 DEF TryNext
  <2>. QED
    BY <2>1, <2>2
<1>8. f = [i \in 0 .. m |-> TryNext(g, f, i)]
  <2>1. f = [i \in 0 .. m |-> f[i]]
    OBVIOUS
  <2>. HIDE DEF f
  <2>. QED
    BY <1>7, <2>1
<1>. QED
  BY <1>2, <1>8

LEMMA StartsFacts ==
  ASSUME NEW A, NEW g \in Seq(Edges(A))
  PROVE  /\ Len(Starts(g)) = 2 * Len(g) /\ Len(Starts(g)) \in Nat
         /\ \A i \in 1 .. Len(Starts(g)) : Starts(g)[i] \in Nodes(g)
         /\ \A n \in Nodes(g) : \E i \in 1 .. Len(Starts(g)) : Starts(g)[i] = n
<1> DEFINE l == 2 * Len(g)
           f(i) == IF i % 2 = 1 THEN g[(i + 1) \div 2].from ELSE g[i \div 2].to
<1>1. Len(g) \in Nat /\ l \in Nat
  BY GraphFacts
<1>2. ASSUME NEW i \in 1 .. l PROVE f(i) \in Nodes(g)
  <2>1. CASE i % 2 = 1
    <3>1. (i + 1) \div 2 \in 1 .. Len(g)
      BY <1>1, <2>1
    <3>2. g[(i + 1) \div 2].from \in Nodes(g)
      BY <3>1, GraphFacts
    <3>. QED
      BY <2>1, <3>2
  <2>2. CASE i % 2 # 1
    <3>1. i \div 2 \in 1 .. Len(g)
      BY <1>1, <2>2
    <3>2. g[i \div 2].to \in Nodes(g)
      BY <3>1, GraphFacts
    <3>. QED
      BY <2>2, <3>2
  <2>. QED
    BY <2>1, <2>2
<1>3. Starts(g) = [i \in 1 .. l |-> f(i)]
  BY DEF Starts
<1>4. ASSUME NEW n \in Nodes(g) PROVE \E i \in 1 .. l : f(i) = n
  <2>1. PICK e \in ToSet(g) : n = e.from \/ n = e.to
    BY DEF Nodes
  <2>2. PICK k \in 1 .. Len(g) : e = g[k]
    BY GraphFacts
  <2>3. k \in Nat /\ 2 * k - 1 \in 1 .. l /\ 2 * k \in 1 .. l
    BY <1>1
  <2>4. (2 * k - 1) % 2 = 1 /\ ((2 * k - 1) + 1) \div 2 = k
    BY <2>3
  <2>5. (2 * k) % 2 # 1 /\ (2 * k) \div 2 = k
    BY <2>3
  <2>6. f(2 * k - 1) = g[k].from /\ f(2 * k) = g[k].to
    BY <2>4, <2>5
  <2>. HIDE DEF f
  <2>. QED
    BY <2>1, <2>2, <2>3, <2>6
<1>. HIDE DEF f
<1>5. Len(Starts(g)) = l
  BY <1>1, <1>3
<1>6. \A i \in 1 .. l : Starts(g)[i] = f(i)
  BY <1>3
<1>. QED
  BY <1>1, <1>2, <1>4, <1>5, <1>6

\* What is found is a cycle; and when nothing is, every node is done, so that
\* none is in a deadlock.
LEMMA SearchSettles ==
  ASSUME NEW A, NEW g \in Seq(Edges(A))
  PROVE  /\ FindCycle(g) # NoCycle => Circle(FindCycle(g), g)
         /\ FindCycle(g) = NoCycle => ~Deadlocked(g)
<1> DEFINE l == Len(Starts(g))
           f == CHOOSE f : f = [i \in 0 .. l |-> TryNext(g, f, i)]
<1>1. /\ l \in Nat /\ \A i \in 1 .. l : Starts(g)[i] \in Nodes(g)
      /\ \A n \in Nodes(g) : \E i \in 1 .. l : Starts(g)[i] = n
  BY StartsFacts
<1>2. f = [i \in 0 .. l |-> TryNext(g, f, i)]
  BY <1>1, TriesExist
<1>3. FindCycle(g) = f[l].cycle
  BY DEF FindCycle, TryNext
<1>. HIDE DEF f
<1>4. f[0] = [cycle |-> NoCycle, colour |-> Unvisited(g)]
  BY <1>1, <1>2 DEF TryNext
<1>5. \A i \in 1 .. l :
        f[i] = IF f[i - 1].cycle # NoCycle \/ f[i - 1].colour[Starts(g)[i]] # 0
                 THEN f[i - 1] ELSE SearchFrom(g, Starts(g)[i], f[i - 1].colour)
  <2> TAKE i \in 1 .. l
  <2>1. i \in 0 .. l /\ i # 0
    BY <1>1
  <2>. HIDE DEF l
  <2>2. f[i] = TryNext(g, f, i)
    BY <1>2, <2>1
  <2>. QED
    BY <2>1, <2>2 DEF TryNext
<1>. HIDE DEF l
<1> DEFINE Good(i) == /\ Settled(g, f[i])
                      /\ f[i].cycle = NoCycle => \A j \in 1 .. i : f[i].colour[Starts(g)[j]] = 2
           Bad == {i \in 0 .. l : ~Good(i)}
<1>6. ASSUME Bad # {} PROVE FALSE
  <2>1. PICK i \in Bad : \A j \in Bad : i <= j
    <3>1. Bad \in SUBSET Nat
      BY <1>1
    <3>. HIDE DEF Bad
    <3>. QED
      BY <1>6, <3>1, LeastElement
  <2>2. i # 0
    <3>1. Unvisited(g) \in [Nodes(g) -> 0 .. 2] /\ \A n \in Nodes(g) : Unvisited(g)[n] = 0
      BY DEF Unvisited
    <3>2. Cleared(g, Unvisited(g))
      BY <3>1, GraphFacts DEF Cleared
    <3>3. Settled(g, f[0])
      BY <1>4, <3>1, <3>2 DEF Settled
    <3>4. Good(0)
      BY <3>3
    <3>. QED
      BY <2>1, <3>4
  <2>3. i \in 1 .. l /\ i \in Nat /\ i - 1 \in 0 .. l /\ i - 1 < i
    BY <1>1, <2>1, <2>2
  <2>4. Good(i - 1)
    <3>1. i - 1 \notin Bad
      <4>. HIDE DEF Bad
      <4>. QED
        BY <2>1, <2>3
    <3>. HIDE DEF Good
    <3>. QED
      BY <2>3, <3>1
  <2> DEFINE r == f[i - 1]
             n == Starts(g)[i]
  <2>5. n \in Nodes(g)
    BY <1>1, <2>3
  <2>6. f[i] = IF r.cycle # NoCycle \/ r.colour[n] # 0 THEN r ELSE SearchFrom(g, n, r.colour)
    BY <1>5, <2>3
  <2>7. \A j \in 1 .. i : j \in 1 .. i - 1 \/ j = i
    BY <2>3
  <2>8. /\ Settled(g, r)
        /\ r.cycle = NoCycle => \A j \in 1 .. i - 1 : r.colour[Starts(g)[j]] = 2
    BY <2>4
  <2>9. \A j \in 1 .. i : Starts(g)[j] \in Nodes(g)
    BY <1>1, <2>3
  <2>. HIDE DEF r
  <2>10. CASE r.cycle # NoCycle
    BY <2>1, <2>6, <2>8, <2>10
  <2>11. CASE r.cycle = NoCycle /\ r.colour[n] # 0
    <3>1. f[i] = r
      BY <2>6, <2>11
    <3>2. r.colour[n] = 2
      BY <2>5, <2>8, <2>11 DEF Settled
    <3>3. Good(i)
      BY <2>7, <2>8, <2>11, <3>1, <3>2
    <3>. QED
      BY <2>1, <3>3
  <2>12. CASE r.cycle = NoCycle /\ r.colour[n] = 0
    <3>1. f[i] = SearchFrom(g, n, r.colour)
      BY <2>6, <2>12
    <3>2. /\ Settled(g, f[i])
          /\ f[i].cycle = NoCycle => /\ f[i].colour[n] = 2
                                     /\ \A m \in Nodes(g) : r.colour[m] = 2 => f[i].colour[m] = 2
      BY <2>5, <2>8, <2>12, <3>1, SearchFromFacts
    <3>3. Good(i)
      BY <2>7, <2>8, <2>9, <2>12, <3>2
    <3>. QED
      BY <2>1, <3>3
  <2>. QED
    BY <2>10, <2>11, <2>12
<1>7. Good(l)
  <2>1. l \in 0 .. l
    BY <1>1
  <2>. HIDE DEF Good
  <2>. QED
    BY <1>6, <2>1
<1>8. ASSUME FindCycle(g) # NoCycle PROVE Circle(FindCycle(g), g)
  BY <1>3, <1>7, <1>8 DEF Settled
<1>9. ASSUME FindCycle(g) = NoCycle PROVE ~Deadlocked(g)
  <2>1. Cleared(g, f[l].colour) /\ \A j \in 1 .. l : f[l].colour[Starts(g)[j]] = 2
    BY <1>3, <1>7, <1>9 DEF Settled
  <2>2. \A n \in Nodes(g) : f[l].colour[n] = 2
    BY <1>1, <2>1
  <2>3. \A S \in SUBSET Nodes(g) : S # {} => \E n \in S : \A m \in S : Edge(n, m) \notin ToSet(g)
    BY <2>1, <2>2 DEF Cleared
  <2>. QED
    BY <2>3 DEF Deadlocked
<1>. QED
  BY <1>8, <1>9

\* The agents of a cycle each wait for the next.
LEMMA CycleIsDeadlock ==
  ASSUME NEW A, NEW g \in Seq(Edges(A)), NEW c, Circle(c, g)
  PROVE  Deadlocked(g)
<1> DEFINE S == {c[i].from : i \in DOMAIN c}
<1>0. c \in Seq(ToSet(g)) /\ c # <<>>
  BY DEF Circle, IsCycle
<1>1. Len(c) \in Nat \ {0} /\ DOMAIN c = 1 .. Len(c)
  BY <1>0, LenProperties, EmptySeq
<1>2. \A i \in DOMAIN c : c[i] \in ToSet(g) /\ c[i].to = c[(i % Len(c)) + 1].from
  BY <1>0, <1>1, ElementOfSeq DEF Circle, IsCycle
<1>3. \A i \in DOMAIN c : (i % Len(c)) + 1 \in DOMAIN c
  BY <1>1
<1>4. \A i \in DOMAIN c : /\ c[i].from \in Nodes(g) /\ c[i] = Edge(c[i].from, c[i].to)
  BY <1>2, GraphFacts
<1>5. S \subseteq Nodes(g) /\ S # {}
  <2>1. 1 \in DOMAIN c
    BY <1>1
  <2>. QED
    BY <1>4, <2>1
<1>6. ASSUME NEW n \in S PROVE \E m \in S : Edge(n, m) \in ToSet(g)
  <2>1. PICK i \in DOMAIN c : n = c[i].from
    OBVIOUS
  <2>2. c[i].to \in S
    BY <1>2, <1>3
  <2>3. Edge(n, c[i].to) \in ToSet(g)
    BY <1>2, <1>4, <2>1
  <2>. QED
    BY <2>2, <2>3
<1>. HIDE DEF S
<1>. QED
  BY <1>5, <1>6 DEF Deadlocked
=============================================================================
