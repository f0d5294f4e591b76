------------------------------- MODULE Recap --------------------------------
(***************************************************************************)
(* The recap of a session (packages/coordify-core/src/entertainment.rs     *)
(* `build_entertainment`): superlatives and badges from one more pass over *)
(* the event log and from the statistics.  Labels, colours and the wording *)
(* of the narrative are left out.                                          *)
(***************************************************************************)
EXTENDS Statistics

CONSTANTS
  ConflictIds, LogClaims    \* the ids that events name

Unset   == -1
NoSpike == [pair |-> {}, from |-> 0, to |-> 0]
NoSpan  == [id |-> Unset, ms |-> 0]

NoMarks ==
  [touched   |-> [a \in Agents |-> {}],          \* agent_files
   uses      |-> [f \in LogFiles |-> 0],         \* file_counts
   diplomacy |-> [a \in Agents |-> 0],           \* diplomat_count
   heats     |-> [p \in SUBSET Agents |-> Unset],   \* last_heat
   spike     |-> NoSpike,
   openedAt  |-> [i \in ConflictIds |-> Unset],  \* conflict_open
   longest   |-> NoSpan,
   createdAt |-> [c \in LogClaims |-> Unset],    \* claim_create_ms
   lasted    |-> [a \in Agents |-> [ms |-> 0, claims |-> 0]]]   \* claim_durations

Rise(spike) == spike.to - spike.from

MarkUses(m, files) ==
  [m EXCEPT !.uses = [f \in LogFiles |-> @[f] + (IF f \in files THEN 1 ELSE 0)]]

\* Mutant: an earlier spike gives way to one that is no bigger.
MarkHeatLatest(m, e) ==
  LET p    == ToSet(e.pair)
      rise == [pair |-> p, from |-> m.heats[p], to |-> e.heat]
  IN  [m EXCEPT !.heats[p] = e.heat,
                !.spike = IF m.heats[p] # Unset /\ e.heat > m.heats[p] THEN rise ELSE @]

\* A heat that is higher than the pair's last one is a rise; the first of the
\* biggest is kept.
MarkHeat(m, e) ==
  LET p    == ToSet(e.pair)
      rise == [pair |-> p, from |-> m.heats[p], to |-> e.heat]
  IN  [m EXCEPT !.heats[p] = e.heat,
                !.spike = IF m.heats[p] # Unset /\ Rise(rise) > Rise(@) THEN rise ELSE @]

\* A conflict is negotiated until it is first resolved or escalated.
MarkDecided(m, e) ==
  LET ms == e.ts - m.openedAt[e.id]
  IN  IF m.openedAt[e.id] = Unset THEN m
      ELSE [m EXCEPT !.openedAt[e.id] = Unset,
                     !.longest = IF @ = NoSpan \/ ms > @.ms THEN [id |-> e.id, ms |-> ms] ELSE @]

MarkReleased(m, e) ==
  LET ms == e.ts - m.createdAt[e.claim]
  IN  IF m.createdAt[e.claim] = Unset \/ ms < 0 THEN m
      ELSE [m EXCEPT !.lasted[e.agent] = [ms |-> @.ms + ms, claims |-> @.claims + 1]]

\* One event of the pass.
MarkEvent(m, e) ==
  CASE e.type = "FILE_TOUCHED" ->
         MarkUses([m EXCEPT !.touched[e.agent] = @ \cup e.files], e.files)
    [] e.type = "CONFLICT_OPENED" -> MarkUses([m EXCEPT !.openedAt[e.id] = e.ts], e.files)
    [] e.type \in {"CONFLICT_RESOLVED", "CONFLICT_ESCALATED"} -> MarkDecided(m, e)
    [] e.type = "CONFLICT_PROPOSAL_RECEIVED" ->
         IF e.kind \in {"YIELD_CLAIM", "CO_OWN"}
           THEN [m EXCEPT !.diplomacy[e.agent] = @ + 1] ELSE m
    [] e.type = "HEAT_UPDATED"   -> MarkHeat(m, e)
    [] e.type = "CLAIM_CREATED"  -> [m EXCEPT !.createdAt[e.claim] = e.ts]
    [] e.type = "CLAIM_RELEASED" -> MarkReleased(m, e)
    [] OTHER -> m

Marks(events) ==
  LET after[n \in 0 .. Len(events)] ==
        IF n = 0 THEN NoMarks ELSE MarkEvent(after[n - 1], events[n])
  IN  after[Len(events)]

-----------------------------------------------------------------------------
(* Badges: nobody, or the first agent that deserves one                    *)

NoOne == 0
FirstOf(S)   == IF S = {} THEN NoOne ELSE Min(S)
MostOf(f)    == {a \in DOMAIN f : f[a] > 0 /\ \A b \in DOMAIN f : f[b] <= f[a]}

badge_max_agent(s, field) == FirstOf(MostOf([a \in Agents |-> s.agents[a][field]]))

battleground(m) == FirstOf(MostOf(m.uses))

Alone(t) == t.claims_made > 0 /\ t.conflicts_involved = 0

\* The shortest mean time of a claim, a fraction compared crosswise.
Faster(x, y) == x.ms * y.claims <= y.ms * x.claims

Badges(s, m) ==
  LET t == s.agents
      bg == battleground(m)
      timed == {a \in Agents : m.lasted[a].claims > 0}
  IN  [firestarter     |-> badge_max_agent(s, "heat_generated_sum"),
       sprinter        |-> badge_max_agent(s, "tasks_completed"),
       ghost           |-> badge_max_agent(s, "ghost_claims"),
       conflict_magnet |-> badge_max_agent(s, "conflicts_involved"),
       diplomat        |-> FirstOf(MostOf(m.diplomacy)),
       hotzone_hero    |-> IF bg = NoOne THEN NoOne
                           ELSE FirstOf({a \in Agents : bg \in m.touched[a]}),
       lone_wolf       |-> FirstOf({a \in Agents : Alone(t[a])}),
       pacifist        |-> FirstOf({a \in Agents : t[a].conflicts_involved > 0
                                               /\ t[a].arbitrations_involved = 0}),
       sniper          |-> FirstOf({a \in Agents : t[a].claims_made > 0
                                               /\ t[a].tasks_completed = t[a].claims_made
                                               /\ t[a].ghost_claims = 0}),
       speed_demon     |-> FirstOf({a \in timed :
                             \A b \in timed : Faster(m.lasted[a], m.lasted[b])})]

-----------------------------------------------------------------------------
(* Streaks                                                                 *)

NoRun == [cur |-> 0, max |-> 0]

\* What the filter before longest_run leaves out is "none", no flag at all.
RunOn(r, flag) ==
  LET cur == CASE flag = "hit" -> r.cur + 1 [] flag = "miss" -> 0 [] OTHER -> r.cur
  IN  [cur |-> cur, max |-> IF cur > r.max THEN cur ELSE r.max]

\* longest_run: of the flags that hold one after the other.
longest_run(flags) ==
  LET after[n \in 0 .. Len(flags)] ==
        IF n = 0 THEN NoRun ELSE RunOn(after[n - 1], flags[n])
  IN  after[Len(flags)].max

Outcomes == {"CONFLICT_RESOLVED", "CONFLICT_ESCALATED", "CONFLICT_TIMEOUT", "CONFLICT_ABORTED"}

OutcomeFlag(e) ==
  IF e.type \notin Outcomes THEN "none"
  ELSE IF e.type = "CONFLICT_RESOLVED" THEN "hit" ELSE "miss"

ReleaseFlag(e) ==
  IF e.type # "CLAIM_RELEASED" THEN "none"
  ELSE IF e.reason = "TASK_COMPLETED" THEN "hit" ELSE "miss"

auto_resolve_streak(events) == longest_run([n \in DOMAIN events |-> OutcomeFlag(events[n])])
completion_streak(events)   == longest_run([n \in DOMAIN events |-> ReleaseFlag(events[n])])
=============================================================================
