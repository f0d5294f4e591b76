----------------------------- MODULE WaitGraph ------------------------------
(***************************************************************************)
(* The wait-for graph (packages/coordify-core/src/waitgraph.rs): a list of *)
(* edges in insertion order, and the depth-first search for a cycle in it. *)
(* An edge's resource is left out: the first one given stays.              *)
(***************************************************************************)
EXTENDS Naturals, SequencesExt

Edge(a, b) == [from |-> a, to |-> b]
Edges(N)   == [from : N, to : N]

\* An edge is added once, at the end.
AddEdge(g, a, b) ==
  IF Edge(a, b) \in ToSet(g) THEN g ELSE Append(g, Edge(a, b))

\* Vec::retain: the edges that are in S stay, in their order.
Retain(g, S) ==
  LET kept[n \in 0 .. Len(g)] ==
        IF n = 0 THEN <<>>
        ELSE IF g[n] \in S THEN Append(kept[n - 1], g[n]) ELSE kept[n - 1]
  IN  kept[Len(g)]

RemoveAgent(g, a) == Retain(g, {e \in ToSet(g) : e.from # a /\ e.to # a})

Nodes(g) == {e.from : e \in ToSet(g)} \cup {e.to : e \in ToSet(g)}

-----------------------------------------------------------------------------
(* find_cycle                                                              *)

\* The back edge e closes the part of the path that begins where e leads; when
\* e is a loop, no edge of the path begins there.
CycleOf(path, e) ==
  LET entries == {i \in DOMAIN path : path[i].from = e.to}
  IN  IF entries = {} THEN <<e>>
      ELSE Append(SubSeq(path, CHOOSE i \in entries : \A j \in entries : i <= j, Len(path)), e)

NoCycle == <<>>

\* A search is at a node and looks at the edges from `next' on for those that
\* leave the node.  Colours: 0 is unvisited, 1 on the path, 2 done.
Searches(g) ==
  [node : Nodes(g), next : 1 .. Len(g) + 1, colour : [Nodes(g) -> 0 .. 2],
   path : Seq(Edges(Nodes(g)))]

Unvisited(g) == [n \in Nodes(g) |-> 0]

Enter(path, node, colour) ==
  [node |-> node, next |-> 1, colour |-> [colour EXCEPT ![node] = 1], path |-> path]

\* What a search comes to, by what `dfs' says of those that go on from it: a
\* cycle, or none and the colours at the end.
Visit(g, dfs, s) ==
  IF s.next > Len(g)
    THEN [cycle |-> NoCycle, colour |-> [s.colour EXCEPT ![s.node] = 2]]
    ELSE LET e    == g[s.next]
             rest == [s EXCEPT !.next = @ + 1]
         IN  CASE e.from # s.node \/ s.colour[e.to] = 2 -> dfs[rest]
               [] e.from = s.node /\ s.colour[e.to] = 1 ->
                    [cycle |-> CycleOf(s.path, e), colour |-> s.colour]
               [] e.from = s.node /\ s.colour[e.to] = 0 ->
                    LET deeper == dfs[Enter(Append(s.path, e), e.to, s.colour)]
                    IN  IF deeper.cycle # NoCycle
                          THEN deeper ELSE dfs[[rest EXCEPT !.colour = deeper.colour]]

SearchFrom(g, start, colour) ==
  LET dfs[s \in Searches(g)] == Visit(g, dfs, s)
  IN  dfs[Enter(<<>>, start, colour)]

\* Mutant: one search, from the oldest edge.
StartsOnce(g) == IF g = <<>> THEN <<>> ELSE <<Head(g).from>>

\* The nodes in the order in which the edges name them.
Starts(g) ==
  [i \in 1 .. 2 * Len(g) |-> IF i % 2 = 1 THEN g[(i + 1) \div 2].from ELSE g[i \div 2].to]

\* A search from each node that none has visited, until one finds a cycle.
FindCycle(g) ==
  LET starts == Starts(g)
      found[i \in 0 .. Len(starts)] ==
        IF i = 0 THEN [cycle |-> NoCycle, colour |-> Unvisited(g)]
        ELSE LET before == found[i - 1]
             IN  IF before.cycle # NoCycle \/ before.colour[starts[i]] # 0
                   THEN before ELSE SearchFrom(g, starts[i], before.colour)
  IN  found[Len(starts)].cycle

-----------------------------------------------------------------------------
(* What find_cycle is for                                                  *)

\* There is a deadlock when some agents each wait for another of them.
Deadlocked(g) ==
  \E S \in (SUBSET Nodes(g)) \ {{}} :
    \A n \in S : \E m \in S : Edge(n, m) \in ToSet(g)

\* c is a cycle of g that visits no agent twice.
IsCycle(c, g) ==
  /\ c # <<>>
  /\ ToSet(c) \subseteq ToSet(g)
  /\ \A i \in 1 .. Len(c) : c[i].to = c[(i % Len(c)) + 1].from
  /\ \A i, j \in DOMAIN c : i # j => c[i].from # c[j].from
=============================================================================
