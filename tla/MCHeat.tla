------------------------------- MODULE MCHeat -------------------------------
(***************************************************************************)
(* Heat and knowledge, one question at a time: every pair of agents at     *)
(* work over two files with what is known of them, before and after a      *)
(* conflict or a claim adds to it; and a claim that touches files.         *)
(***************************************************************************)
EXTENDS Heat

CONSTANTS
  Often,    \* a count so high that its score is nearly 1
  Worked    \* the files that two agents at work may have

ASSUME OftenAssumption == Often \in Nat

VARIABLES
  ask,       \* the two agents' inputs and what is known
  answer,    \* the heat, what the first agent is advised before it claims, and
             \* what the heat is with what is learned next
  touched,   \* the files a claim has touched
  known      \* what its touches have taught

heatVars  == <<ask, answer>>
touchVars == <<touched, known>>

Unanswered == [heat |-> -1, advice |-> "", learned |-> <<>>]

Counts == {[hotzones |-> [p \in Path |-> h], coupling |-> [e \in PathPairs |-> c]] :
             h \in {0, Often}, c \in {0, Often}}

Order(S) == CHOOSE s \in [1 .. Cardinality(S) -> S] : \A i, j \in DOMAIN s : i # j => s[i] # s[j]

NoQuestion ==
  [a |-> CHOOSE i \in HeatInputs : i.files = {}, b |-> CHOOSE i \in HeatInputs : i.files = {},
   knows |-> Nothing]

HeatIdle == ask = NoQuestion /\ answer = Unanswered
HeatInit ==
  LET inputs == {i \in HeatInputs : i.files \subseteq Worked}
  IN  ask \in [a : inputs, b : inputs, knows : Counts] /\ answer = Unanswered

\* What is learned next: a conflict of the two, a claim on the files of both.
Answer ==
  /\ answer = Unanswered
  /\ LET a == ask.a
         b == ask.b
         k == ask.knows
     IN  answer' = [heat    |-> compute_heat(a, b, k),
                    advice  |-> Advice(a, {b}, k),
                    learned |-> <<compute_heat(a, b, record_conflict(k, Shared(a, b))),
                                  compute_heat(a, b, record_claim_files(k, Order(a.files \cup b.files)))>>]
  /\ UNCHANGED ask

TouchInit == touched = {} /\ known = Nothing

TouchNext ==
  \E files \in SUBSET Path :
    LET t == Touch(known, touched, files)
    IN  touched' = t.actual /\ known' = t.knows

-----------------------------------------------------------------------------

\* Two agents become a conflict candidate only over a file that both have: a
\* conflict that is opened names a path, and a PROTECTED_PATH can be noticed.
HotPairsShareAFile ==
  answer # Unanswered /\ band_for(answer.heat) = "CONFLICT_CANDIDATE"
    => Shared(ask.a, ask.b) # {}

\* What is learned between the forecast for a claim and the heat computed when
\* it is accepted never makes the forecast too high, nor an agent that was told
\* to negotiate first one that had nothing to negotiate.
LearningOnlyWarms ==
  \A i \in DOMAIN answer.learned :
    /\ answer.learned[i] >= answer.heat
    /\ answer.advice = "NEGOTIATE_BEFORE_CLAIM"
         => band_for(answer.learned[i]) = "CONFLICT_CANDIDATE"

\* "avoids inflation on repeated touches" (knowledge.rs:58): however a claim's
\* files are touched, and however often, each two of them are coupled once.
TouchesCountOnce ==
  \A e \in PathPairs : known.coupling[e] = IF e \in Within(touched) THEN 1 ELSE 0
=============================================================================
