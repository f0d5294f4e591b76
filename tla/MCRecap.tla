------------------------------- MODULE MCRecap ------------------------------
(***************************************************************************)
(* Event logs as Core writes them, one event after the other, with their   *)
(* statistics and recap.  A conflict is opened once and ends at most once; *)
(* it may be escalated or time out before or, the sweep's entry being      *)
(* written after the conflict was let go, just after it has ended.         *)
(***************************************************************************)
EXTENDS Recap, ConflictRules

CONSTANTS Heats, MaxEvents

ASSUME RecapAssumption == Heats \subseteq Nat

VARIABLES
  log,      \* events.log and events.log.1
  written,  \* how many events were appended
  opened,   \* conflicts that were opened
  ended     \* conflicts that were resolved or aborted

recapVars == <<log, written, opened, ended>>

\* Every word that Core writes as the resolution of a conflict.  An approval
\* flag or a file only keeps `compare' from resolving one.
Plain == {[kind |-> k, approval |-> FALSE, files |-> {}] : k \in Kinds}
Resolutions ==
  {"AUTO_RESOLVED_HEAT_DROPPED", "USER_ARBITRATED"} \cup
  {d.reason : d \in {e \in {Compare(p, q, {}) : p, q \in Plain} : e.auto}}

RecapInit ==
  /\ log = [live |-> <<>>, spare |-> <<>>]
  /\ written = 0
  /\ opened = {}
  /\ ended = {}

Now == written

Write(e) ==
  /\ Now < MaxEvents
  /\ log' = AppendEvent(log, e)
  /\ written' = written + 1

OpenConflict(i) ==
  /\ i \notin opened
  /\ \A j \in ConflictIds : j < i => j \in opened
  /\ opened' = opened \cup {i}
  /\ Write([type |-> "CONFLICT_OPENED", ts |-> Now, id |-> i, pair |-> <<1, 2>>, files |-> {1}])
  /\ UNCHANGED ended

EndConflict(i) ==
  /\ i \in opened \ ended
  /\ ended' = ended \cup {i}
  /\ \/ Write([type |-> "CONFLICT_ABORTED", ts |-> Now, id |-> i])
     \/ \E r \in Resolutions :
          Write([type |-> "CONFLICT_RESOLVED", ts |-> Now, id |-> i, resolution |-> r])
  /\ UNCHANGED opened

\* Escalated, late, asked about or proposed for.
DiscussConflict(i) ==
  /\ i \in opened
  /\ \/ \E type \in {"CONFLICT_ESCALATED", "CONFLICT_TIMEOUT"} : Write([type |-> type, ts |-> Now, id |-> i])
     \/ \E type \in {"USER_ARBITRATION_REQUIRED", "DEADLOCK_DETECTED"} :
          Write([type |-> type, ts |-> Now, id |-> i, pair |-> <<1, 2>>])
     \/ Write([type |-> "CONFLICT_PROPOSAL_RECEIVED", ts |-> Now, id |-> i, agent |-> 2, kind |-> "CO_OWN"])
  /\ UNCHANGED <<opened, ended>>

Work(a, c) ==
  /\ \/ Write([type |-> "AGENT_JOINED", ts |-> Now, agent |-> a])
     \/ Write([type |-> "CLAIM_CREATED", ts |-> Now, agent |-> a, claim |-> c])
     \/ Write([type |-> "CLAIM_REJECTED", ts |-> Now, agent |-> a])
     \/ \E reason \in {"TASK_COMPLETED", "SESSION_END"} :
          Write([type |-> "CLAIM_RELEASED", ts |-> Now, agent |-> a, claim |-> c, reason |-> reason])
     \/ Write([type |-> "CLAIM_ORPHANED", ts |-> Now, agent |-> a])
     \/ Write([type |-> "FILE_TOUCHED", ts |-> Now, agent |-> a, files |-> {1}])
  /\ UNCHANGED <<opened, ended>>

UpdateHeat(a, b, h) ==
  /\ a # b
  /\ Write([type |-> "HEAT_UPDATED", ts |-> Now, pair |-> <<a, b>>, heat |-> h])
  /\ UNCHANGED <<opened, ended>>

RecapNext ==
  \/ \E i \in ConflictIds : OpenConflict(i) \/ EndConflict(i) \/ DiscussConflict(i)
  \/ \E a \in Agents, c \in LogClaims : Work(a, c)
  \/ \E a, b \in Agents, h \in Heats : UpdateHeat(a, b, h)

-----------------------------------------------------------------------------

Stats == summarize(log.live)

\* Until the log is rotated the statistics account for every conflict: those
\* opened are those resolved by heat, by agreement or by the user, those
\* aborted, and those still open.  A resolution that `compare` can give and
\* `summarize` does not know would be lost here.
EveryEndIsCounted ==
  log.spare = <<>> =>
    Stats.session["conflicts_opened"] =
      Stats.session["auto_resolved_heat_dropped"] + Stats.session["negotiated_resolved"]
      + Stats.session["user_arbitrated"] + Stats.session["aborted"]
      + Cardinality(opened \ ended)

\* Two updates of one pair, in either order of its agents, with none between.
Consecutive(es, m, n) ==
  /\ m < n
  /\ \A k \in {m, n} : es[k].type = "HEAT_UPDATED"
  /\ ToSet(es[m].pair) = ToSet(es[n].pair)
  /\ \A k \in m + 1 .. n - 1 :
       es[k].type = "HEAT_UPDATED" => ToSet(es[k].pair) # ToSet(es[m].pair)

Rises(es) == {mn \in (DOMAIN es) \X (DOMAIN es) :
                Consecutive(es, mn[1], mn[2]) /\ es[mn[2]].heat > es[mn[1]].heat}
RiseOf(es, mn)  == es[mn[2]].heat - es[mn[1]].heat
SpikeOf(es, mn) == [pair |-> ToSet(es[mn[1]].pair), from |-> es[mn[1]].heat, to |-> es[mn[2]].heat]

\* biggest_spike is the first of the greatest rises between two consecutive
\* updates of a pair, and there is none only if no heat ever rose.
SpikeIsTheBiggestRise(es) ==
  IF Rises(es) = {} THEN Marks(es).spike = NoSpike
  ELSE \E mn \in Rises(es) :
         /\ Marks(es).spike = SpikeOf(es, mn)
         /\ \A kl \in Rises(es) :
              \/ RiseOf(es, kl) < RiseOf(es, mn)
              \/ RiseOf(es, kl) = RiseOf(es, mn) /\ kl[2] >= mn[2]

\* The most of the positions `ends', one after the other, that are all in `good'.
Rows(ends)              == {{k \in ends : i <= k /\ k <= j} : i, j \in ends}
LongestRow(ends, good) == Max({Cardinality(S) : S \in {{}} \cup (Rows(ends) \cap SUBSET good)})

\* A streak is as long as the longest row of ends that are all good.
StreaksAreRuns(es) ==
  LET Of(types) == {n \in DOMAIN es : es[n].type \in types}
      releases  == Of({"CLAIM_RELEASED"})
  IN  /\ auto_resolve_streak(es) = LongestRow(Of(Outcomes), Of({"CONFLICT_RESOLVED"}))
      /\ completion_streak(es)
           = LongestRow(releases, {n \in releases : es[n].reason = "TASK_COMPLETED"})

\* No two badges contradict each other, although each is worked out on its own
\* and from two passes: who has had no conflict is neither the conflict magnet
\* nor a pacifist, who left a ghost claim is no sniper, and there is a hero of
\* the battleground only if somebody touched it.
BadgesAgree(es) ==
  LET s == summarize(es)
      m == Marks(es)
      b == Badges(s, m)
  IN  /\ b.lone_wolf # NoOne => b.lone_wolf \notin {b.conflict_magnet, b.pacifist}
      /\ b.sniper # NoOne => s.agents[b.sniper]["ghost_claims"] = 0
      /\ b.hotzone_hero # NoOne => battleground(m) \in m.touched[b.hotzone_hero]
      /\ (b.firestarter = NoOne) <=> (s.peak.heat = 0)

\* What the recap says of a session is true of its log.
RecapIsTrue ==
  /\ SpikeIsTheBiggestRise(log.live)
  /\ StreaksAreRuns(log.live)
  /\ BadgesAgree(log.live)
=============================================================================
