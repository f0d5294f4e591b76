----------------------------- MODULE Knowledge ------------------------------
(***************************************************************************)
(* What Core remembers of a project from one session to the next           *)
(* (packages/coordify-core/src/knowledge.rs): how often each path was in a *)
(* conflict, and how often two paths were worked on together.  The scores  *)
(* that heat uses are n/(n+k) of these counts.  How they are kept on disk  *)
(* is in Sessions.                                                         *)
(***************************************************************************)
EXTENDS Integers, FiniteSets, Sequences

CONSTANTS
  Path,        \* the files of the project
  KnowledgeK   \* knowledge_k, half the score: COORDIFY_KNOWLEDGE_K, 5 by default

ASSUME KnowledgeAssumption == IsFiniteSet(Path) /\ KnowledgeK \in Nat \ {0}

\* The key of two paths, whatever their order; of a path listed twice, itself.
pair(p, q) == {p, q}
PathPairs  == {pair(p, q) : p, q \in Path}

Knows   == [hotzones : [Path -> Nat], coupling : [PathPairs -> Nat]]
Nothing == [hotzones |-> [p \in Path |-> 0], coupling |-> [e \in PathPairs |-> 0]]

\* Every two entries of a list are coupled once more.
accrue_pairs(k, files) ==
  LET times(e) == Cardinality({ij \in (DOMAIN files) \X (DOMAIN files) :
                     ij[1] < ij[2] /\ pair(files[ij[1]], files[ij[2]]) = e})
  IN  [k EXCEPT !.coupling = [e \in PathPairs |-> @[e] + times(e)]]

\* Two distinct members of a set of paths.
Within(S) == {e \in PathPairs : e \subseteq S /\ Cardinality(e) = 2}

\* The paths of a conflict are an intersection: none is there twice.
record_conflict(k, paths) ==
  [hotzones |-> [p \in Path |-> k.hotzones[p] + (IF p \in paths THEN 1 ELSE 0)],
   coupling |-> [e \in PathPairs |-> k.coupling[e] + (IF e \in Within(paths) THEN 1 ELSE 0)]]

\* The estimated files of an accepted claim, if there are two.
record_claim_files(k, files) == IF Len(files) >= 2 THEN accrue_pairs(k, files) ELSE k

\* Mutant: every pair of the claim's files, whichever of them are new.
record_cotouch_all(k, all, new) ==
  [k EXCEPT !.coupling = [e \in PathPairs |-> @[e] + (IF e \in Within(all) THEN 1 ELSE 0)]]

\* The files of a claim, of which `new` are new: a pair of old ones is not
\* counted again.
record_cotouch(k, all, new) ==
  [k EXCEPT !.coupling = [e \in PathPairs |->
     @[e] + (IF e \in Within(all) /\ e \cap new # {} THEN 1 ELSE 0)]]

\* FILE_TOUCHED: the claim's files and the knowledge after `files` are touched.
Touch(k, actual, files) ==
  LET new == files \ actual
      all == actual \cup files
  IN  [actual |-> all,
       knows  |-> IF new # {} /\ Cardinality(all) >= 2
                    THEN record_cotouch(k, all, new) ELSE k]

\* Mutant: a count that is seen more often scores less.
ScoreFades(n) == <<KnowledgeK, n + KnowledgeK>>

\* score: the fraction n/(n+k) as numerator and denominator.
Score(n) == <<n, n + KnowledgeK>>
=============================================================================
