-------------------------------- MODULE Heat --------------------------------
(***************************************************************************)
(* How close the work of two agents is (packages/coordify-core/src/heat.rs *)
(* `compute_heat`): eight components between 0 and 1, weighted, as a       *)
(* percentage and a band.  The code computes with f64; here a component is *)
(* the exact fraction <<numerator, denominator>>.                          *)
(***************************************************************************)
EXTENDS Knowledge

CONSTANTS
  Intents, Domains, Tokens, Branches,   \* what claims and agents may say
  Window,                               \* temporal_window_ms
  Instants                              \* values of last_seen_ms

ASSUME HeatAssumption ==
  /\ IsFiniteSet(Domains) /\ IsFiniteSet(Tokens)
  /\ Window \in Nat \ {0} /\ Instants \subseteq Nat

NoBranch == "none"

HeatInputs ==
  [intent : Intents, domains : SUBSET Domains, files : SUBSET Path,
   task_tokens : SUBSET Tokens, last_seen : Instants, branch : Branches \cup {NoBranch}]

\* HeatConfig::default(), in percent.
Weights == [task |-> 10, intent |-> 15, domain |-> 15, file |-> 20,
            temporal |-> 10, branch |-> 10, hotzone |-> 10, coupling |-> 10]
SafeMax    == 25
MonitorMax == 50
OverlapMax == 75

-----------------------------------------------------------------------------
(* Fractions                                                               *)

Zero == <<0, 1>>
One  == <<1, 1>>
Plus(r, s)  == <<r[1] * s[2] + s[1] * r[2], r[2] * s[2]>>
Times(w, r) == <<w * r[1], r[2]>>
\* f64::round of a fraction that is not negative: half goes up.
Round(r) == (2 * r[1] + r[2]) \div (2 * r[2])

IsOne(test) == IF test THEN One ELSE Zero
Greatest(S) == CHOOSE n \in S \cup {0} : \A m \in S : m <= n
Distance(m, n) == IF m < n THEN n - m ELSE m - n

-----------------------------------------------------------------------------
(* The components                                                          *)

jaccard(S, T) ==
  IF S \cup T = {} THEN Zero ELSE <<Cardinality(S \cap T), Cardinality(S \cup T)>>

Temporal(a, b) ==
  LET diff == Distance(a.last_seen, b.last_seen)
  IN  IF diff >= Window THEN Zero ELSE <<Window - diff, Window>>

Shared(a, b) == a.files \cap b.files

\* The greatest risk of a shared file; n/(n+k) grows with n.
Hotzone(a, b, k)  == Score(Greatest({k.hotzones[p] : p \in Shared(a, b)}))
Coupling(a, b, k) == Score(Greatest({k.coupling[pair(p, q)] : p \in a.files, q \in b.files}))

components(a, b, k) ==
  [task     |-> jaccard(a.task_tokens, b.task_tokens),
   intent   |-> IsOne(a.intent = b.intent),
   domain   |-> jaccard(a.domains, b.domains),
   file     |-> jaccard(a.files, b.files),
   temporal |-> Temporal(a, b),
   branch   |-> IsOne(a.branch = b.branch /\ a.branch # NoBranch),
   hotzone  |-> Hotzone(a, b, k),
   coupling |-> Coupling(a, b, k)]

Total(c) ==
  Plus(c.task, Plus(c.intent, Plus(c.domain, Plus(c.file,
    Plus(c.temporal, Plus(c.branch, Plus(c.hotzone, c.coupling)))))))

compute_heat(a, b, k) ==
  LET c == components(a, b, k)
  IN  Round(Total([f \in DOMAIN c |-> Times(Weights[f], c[f])]))

-----------------------------------------------------------------------------
(* Bands                                                                   *)

\* Mutant: the last band begins earlier.
band_for_below(heat) ==
  CASE heat < SafeMax    -> "SAFE"
    [] heat < MonitorMax -> "MONITOR"
    [] heat < 70         -> "OVERLAP"
    [] OTHER             -> "CONFLICT_CANDIDATE"

band_for(heat) ==
  CASE heat <= SafeMax    -> "SAFE"
    [] heat <= MonitorMax -> "MONITOR"
    [] heat <= OverlapMax -> "OVERLAP"
    [] OTHER              -> "CONFLICT_CANDIDATE"

recommendation(band) ==
  CASE band = "SAFE"    -> "PROCEED"
    [] band = "MONITOR" -> "MONITOR"
    [] band = "OVERLAP" -> "SPLIT_SCOPE_OR_SEQUENCE"
    [] OTHER            -> "NEGOTIATE_BEFORE_CLAIM"

\* What a proposed claim is told: the advice for the worst of its edges, and to
\* proceed when there is no other agent at work.
Advice(proposed, others, k) ==
  LET heats == {compute_heat(proposed, o, k) : o \in others}
  IN  IF heats = {} THEN "PROCEED" ELSE recommendation(band_for(Greatest(heats)))
=============================================================================
