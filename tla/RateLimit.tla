------------------------------ MODULE RateLimit -----------------------------
(***************************************************************************)
(* The rate limiter of submit_event (server.rs `handle_request'): one      *)
(* counter with the start of its window for each agent id on a request,    *)
(* and one, "anon", for all requests without an id -- which is what every  *)
(* sidecar sends (lib/core-client.js `submitEvent').                       *)
(***************************************************************************)
EXTENDS Integers, FiniteSets, SequencesExt

CONSTANTS
  Senders,       \* agent ids that requests may carry
  Rate,          \* MAX_EVENTS_PER_WINDOW
  RateWindow,    \* RATE_WINDOW_MS
  MaxSubmits     \* bound: events that are submitted

ASSUME RateAssumption ==
  Rate \in Nat \ {0} /\ RateWindow \in Nat \ {0} /\ MaxSubmits \in Nat

VARIABLES
  clock,    \* now_ms
  rates,    \* bucket -> events counted and start of the window
  passed    \* when and from which bucket events got through (history)

rateVars == <<clock, rates, passed>>

Anon    == "anon"
Buckets == Senders \cup {Anon}
Unused  == [count |-> 0, start |-> -1]

RateInit ==
  /\ clock = 0
  /\ rates = [k \in Buckets |-> Unused]
  /\ passed = <<>>

Advance ==
  /\ clock < 2 * RateWindow
  /\ clock' = clock + 1
  /\ UNCHANGED <<rates, passed>>

\* Mutant: the window is never started again, only the count.
CountedFromTheFirst(r, now) ==
  IF r = Unused THEN [count |-> 1, start |-> now]
  ELSE IF now - r.start >= RateWindow THEN [r EXCEPT !.count = 1]
  ELSE [r EXCEPT !.count = @ + 1]

\* Events that are refused are counted too.
Counted(r, now) ==
  IF r = Unused \/ now - r.start >= RateWindow THEN [count |-> 1, start |-> now]
  ELSE [r EXCEPT !.count = @ + 1]

Submit(k) ==
  LET r == Counted(rates[k], clock)
  IN  /\ r.count <= Rate + 1     \* bound: no more refusals than one
      /\ Len(passed) < MaxSubmits
      /\ rates' = [rates EXCEPT ![k] = r]
      /\ passed' = IF r.count > Rate THEN passed
                   ELSE Append(passed, [bucket |-> k, at |-> clock])
      /\ UNCHANGED clock

RateNext == Advance \/ \E k \in Buckets : Submit(k)

-----------------------------------------------------------------------------

\* The window does not slide, as the comment at server.rs:99 has it: it starts
\* with the first event after the last one.  So within any RATE_WINDOW_MS a
\* bucket lets through up to twice MAX_EVENTS_PER_WINDOW, and never more.
AtMostTwiceTheRate ==
  \A k \in Buckets, t \in 0 .. clock :
    Cardinality({i \in DOMAIN passed :
                   /\ passed[i].bucket = k
                   /\ passed[i].at >= t /\ passed[i].at < t + RateWindow}) <= 2 * Rate
=============================================================================
