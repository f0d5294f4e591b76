----------------------------- MODULE Statistics -----------------------------
(***************************************************************************)
(* The event log and what is counted from it when a session ends           *)
(* (packages/coordify-core/src/eventlog.rs, and stats.rs `summarize').      *)
(* The statistics are one pass over the events in the order they were      *)
(* appended.  An event is a record of the fields that are read; a pair is  *)
(* a sequence of two agents, in either order, and agents and files are     *)
(* numbered in the order of their names.                                   *)
(***************************************************************************)
EXTENDS Integers, FiniteSets, SequencesExt

CONSTANTS
  Agents,     \* agent names: numbers from 1, in the order of the strings
  LogFiles,   \* the files events name, also numbers from 1
  MaxLines    \* MAX_LOG_BYTES, in events

ASSUME StatisticsAssumption ==
  /\ MaxLines \in Nat \ {0}
  /\ Agents \subseteq Nat \ {0} /\ IsFiniteSet(Agents)
  /\ LogFiles \subseteq Nat \ {0}

-----------------------------------------------------------------------------
(* events.log and events.log.1                                             *)

\* EventLog::append: a full file takes the place of the spare one first.
AppendEvent(log, e) ==
  IF Len(log.live) >= MaxLines THEN [live |-> <<e>>, spare |-> log.live]
                               ELSE [log EXCEPT !.live = Append(@, e)]

-----------------------------------------------------------------------------
(* summarize                                                               *)

Counters == {"claims_created", "claims_released", "claims_rejected", "heat_updates",
             "conflicts_opened", "auto_resolved_heat_dropped", "negotiated_resolved",
             "user_arbitrated", "escalated", "timed_out", "aborted", "deadlocks",
             "arbitrations_requested"}
TallyFields == {"claims_made", "tasks_completed", "ghost_claims", "conflicts_involved",
                "heat_generated_sum", "heat_generated_count", "arbitrations_involved",
                "deadlocks_involved"}

NoPeak  == [heat |-> 0, pair |-> <<>>, ts |-> 0]
NoStats ==
  [session |-> [c \in Counters |-> 0], seen |-> {}, files |-> {}, peak |-> NoPeak,
   agents |-> [a \in Agents |-> [f \in TallyFields |-> 0]]]

Count(s, c) == [s EXCEPT !.session[c] = @ + 1]
Tally(s, who, f, n) ==
  [s EXCEPT !.agents = [a \in Agents |->
     IF a \in who THEN [s.agents[a] EXCEPT ![f] = @ + n] ELSE s.agents[a]]]

\* How a conflict ended, as a counter; a word that is not known is dropped.
\* (Mutant: one that `compare' gives is not known here.)
NegotiatedPast == {"PARTICIPANT_STEPPED_ASIDE", "SCOPE_SPLIT", "CO_OWNERSHIP"}
Negotiated     == {"PARTICIPANT_STEPPED_ASIDE", "QUEUED", "SCOPE_SPLIT", "CO_OWNERSHIP"}
CountResolved(s, resolution) ==
  CASE resolution = "AUTO_RESOLVED_HEAT_DROPPED" -> Count(s, "auto_resolved_heat_dropped")
    [] resolution = "USER_ARBITRATED"            -> Count(s, "user_arbitrated")
    [] resolution \in Negotiated                 -> Count(s, "negotiated_resolved")
    [] OTHER                                     -> s

CountHeat(s, e) ==
  LET who == ToSet(e.pair)
      t   == Tally(Tally(Count(s, "heat_updates"), who, "heat_generated_sum", e.heat),
                   who, "heat_generated_count", 1)
  IN  IF e.heat > s.peak.heat
        THEN [t EXCEPT !.peak = [heat |-> e.heat, pair |-> e.pair, ts |-> e.ts]] ELSE t

\* One event of the pass.
CountEvent(s, e) ==
  CASE e.type = "AGENT_JOINED"   -> [s EXCEPT !.seen = @ \cup {e.agent}]
    [] e.type = "CLAIM_CREATED"  -> Tally(Count(s, "claims_created"), {e.agent}, "claims_made", 1)
    [] e.type = "CLAIM_REJECTED" -> Count(s, "claims_rejected")
    [] e.type = "CLAIM_RELEASED" ->
         Tally(Count(s, "claims_released"),
               IF e.reason = "TASK_COMPLETED" THEN {e.agent} ELSE {}, "tasks_completed", 1)
    [] e.type = "CLAIM_ORPHANED" -> Tally(s, {e.agent}, "ghost_claims", 1)
    [] e.type = "FILE_TOUCHED"   -> [s EXCEPT !.files = @ \cup e.files]
    [] e.type = "HEAT_UPDATED"   -> CountHeat(s, e)
    [] e.type = "CONFLICT_OPENED" ->
         Tally(Count(s, "conflicts_opened"), ToSet(e.pair), "conflicts_involved", 1)
    [] e.type = "CONFLICT_RESOLVED"  -> CountResolved(s, e.resolution)
    [] e.type = "CONFLICT_ESCALATED" -> Count(s, "escalated")
    [] e.type = "CONFLICT_TIMEOUT"   -> Count(s, "timed_out")
    [] e.type = "CONFLICT_ABORTED"   -> Count(s, "aborted")
    [] e.type = "USER_ARBITRATION_REQUIRED" ->
         Tally(Count(s, "arbitrations_requested"), ToSet(e.pair), "arbitrations_involved", 1)
    [] e.type = "DEADLOCK_DETECTED" ->
         Tally(Count(s, "deadlocks"), ToSet(e.pair), "deadlocks_involved", 1)
    [] OTHER -> s

\* The events one after the other.
summarize(events) ==
  LET after[n \in 0 .. Len(events)] ==
        IF n = 0 THEN NoStats ELSE CountEvent(after[n - 1], events[n])
  IN  after[Len(events)]
=============================================================================
