---------------------------- MODULE MCWaitGraph -----------------------------
(***************************************************************************)
(* A wait-for graph over a few agents, edges added and agents removed in   *)
(* every order, at most MaxEdges at a time.                                *)
(***************************************************************************)
EXTENDS WaitGraph

CONSTANTS Agent, MaxEdges

VARIABLE edges

WaitInit == edges = <<>>

Wait(a, b) ==
  /\ Len(edges) < MaxEdges
  /\ edges' = AddEdge(edges, a, b)

Forget(a) == edges' = RemoveAgent(edges, a)

WaitNext == \E a \in Agent : Forget(a) \/ \E b \in Agent : Wait(a, b)

\* find_cycle finds a cycle exactly when some agents wait for each other in a
\* circle, whatever the order in which the edges were added; and what it returns
\* is such a circle and nothing else: no edge that merely leads into it, no edge twice.
CycleIffDeadlocked ==
  LET c == FindCycle(edges)
  IN  /\ c # NoCycle <=> Deadlocked(edges)
      /\ c # NoCycle => IsCycle(c, edges)
=============================================================================
