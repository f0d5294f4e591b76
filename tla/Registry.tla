------------------------------ MODULE Registry ------------------------------
(***************************************************************************)
(* Coordify Core's registry of agents and claims: everything behind the    *)
(* mutex Shared::state (packages/coordify-core/src/state.rs and claim.rs), *)
(* changed by the two threads of server.rs that take it: the one           *)
(* connection handler that is alive at a time, and the reaper.             *)
(*                                                                         *)
(* One step is one critical section.  What a thread read before it took    *)
(* the lock (the clock, the number of agents, the list of lost agents) is  *)
(* a variable of that thread, so the other thread may run in between.      *)
(*                                                                         *)
(* "agent-7" and "claim-7" are the number 7: the counters never reuse one. *)
(* A clock reading is a positive number of ticks; Never is Rust's None in  *)
(* orphaned_at_ms, and NoAgent is None in this_agent.                      *)
(***************************************************************************)
EXTENDS Naturals, FiniteSets, Functions

CONSTANTS
  MaxAgents,        \* MAX_AGENTS, 64 in the code
  Timeout,          \* timeout_ms of the reaper
  OrphanTTL,        \* orphan_ttl_ms
  Files,            \* the sanitized paths an agent may touch
  ReportedStates,   \* the states an AGENT_STATE_CHANGED may carry
  MaxRegistrations, MaxClaims, MaxGeneration, MaxTime   \* bounds of the model

VARIABLES
  agents,      \* State.agents: partial function id -> [seen, state, gen]
  claims,      \* ClaimStore.claims: id -> [owner, status, files, orphanedAt]
  nextAgent,   \* State.next_id
  nextClaim,   \* ClaimStore.next_id
  agentsSeen,  \* Shared.agents_seen
  conn,        \* connection thread: its place in the code, its `now`, its agent
  thisAgent,   \* handle_conn's this_agent
  reaper,      \* reaper thread: its place in the loop, its `now`, its `lost`
  joined, left, lostLogged,   \* ids in the AGENT_JOINED/LEFT/LOST log entries
  now          \* the system clock

registryVars == <<agents, claims, nextAgent, nextClaim>>
logVars      == <<joined, left, lostLogged>>
vars == <<registryVars, agentsSeen, conn, thisAgent, reaper, logVars, now>>

ASSUME RegistryAssumption ==
  /\ MaxAgents \in Nat \ {0}
  /\ Timeout \in Nat
  /\ OrphanTTL \in Nat
  /\ {MaxRegistrations, MaxClaims, MaxGeneration, MaxTime} \subseteq Nat

Never   == 0
NoAgent == 0

AgentStates == {"DISCOVERY", "IDLE", "ACTIVE", "SUBAGENT_WAITING", "TESTING",
                "BLOCKED", "NEGOTIATING", "WAITING_USER", "OFFLINE"}

ASSUME ReportedAssumption == ReportedStates \subseteq AgentStates

\* The statuses the code ever gives a claim; ClaimStatus has others unused.
LiveStatuses  == {"PROVISIONAL", "ACTIVE"}
ClaimStatuses == LiveStatuses \cup {"RELEASED", "ORPHANED", "RECLAIMABLE"}

ConnPlaces   == {"idle", "register", "counted", "inserted", "seen",
                 "heartbeat", "removed"}
ReaperPlaces == {"sleep", "reap", "orphan", "sweep", "log"}

\* The fields of state.rs's Agent and claim.rs's Claim that control anything.
AgentRecords == [seen : Nat, state : AgentStates, gen : Nat]
ClaimRecords(owners) == [owner : owners, status : ClaimStatuses,
                         files : SUBSET Files, orphanedAt : Nat]

AgentIds == 1 .. MaxRegistrations
ClaimIds == 1 .. MaxClaims

-----------------------------------------------------------------------------
(* State formulae of the stores                                            *)

Agents       == DOMAIN agents
Live(c)      == claims[c].status \in LiveStatuses
OwnedBy(a)   == {c \in DOMAIN claims : claims[c].owner = a}
LiveOf(a)    == {c \in OwnedBy(a) : Live(c)}

\* State::heartbeat, set_state, clear and promote_active refuse an unknown id.
Registered(a) == a \in Agents

\* can_transition: a same-state report is a no-op and OFFLINE is always open.
CanTransition(from, to) ==
  \/ from = to
  \/ to = "OFFLINE"
  \/ <<from, to>> \in
       ({"DISCOVERY"} \X {"ACTIVE", "IDLE"})
       \cup ({"ACTIVE"} \X {"IDLE", "SUBAGENT_WAITING", "TESTING",
                            "NEGOTIATING", "BLOCKED"})
       \cup ({"IDLE"} \X {"ACTIVE"})
       \cup ({"SUBAGENT_WAITING", "TESTING", "WAITING_USER"} \X {"ACTIVE", "IDLE"})
       \cup ({"NEGOTIATING", "BLOCKED"} \X {"ACTIVE", "WAITING_USER"})

\* Time differences saturate at zero.
Elapsed(from, to) == IF to > from THEN to - from ELSE 0

\* State::reap's filter.  (Mutants: at the timeout, not past it; the two times
\* of the saturating difference swapped.)
SilentEarly(a, at)   == Elapsed(agents[a].seen, at) >= Timeout
SilentSwapped(a, at) == Elapsed(at, agents[a].seen) > Timeout
Silent(a, at)        == Elapsed(agents[a].seen, at) > Timeout

\* ClaimStore::sweep_reclaimable's filter.  (Mutant: the times swapped.)
ExpiredSwapped(c, at) ==
  /\ claims[c].status = "ORPHANED"
  /\ claims[c].orphanedAt # Never
  /\ Elapsed(at, claims[c].orphanedAt) >= OrphanTTL

Expired(c, at) ==
  /\ claims[c].status = "ORPHANED"
  /\ claims[c].orphanedAt # Never
  /\ Elapsed(claims[c].orphanedAt, at) >= OrphanTTL

-----------------------------------------------------------------------------
(* Critical sections: what one holder of the state lock does to the stores *)

DoRegister(at) ==
  /\ agents' = [a \in Agents \cup {nextAgent} |->
                  IF a = nextAgent
                    THEN [seen |-> at, state |-> "DISCOVERY", gen |-> 1]
                    ELSE agents[a]]
  /\ nextAgent' = nextAgent + 1
  /\ UNCHANGED <<claims, nextClaim>>

DoHeartbeat(a, at) ==
  /\ agents' = IF Registered(a) THEN [agents EXCEPT ![a].seen = at] ELSE agents
  /\ UNCHANGED <<claims, nextAgent, nextClaim>>

DoRemove(S) ==
  /\ agents' = Restrict(agents, Agents \ S)
  /\ UNCHANGED <<claims, nextAgent, nextClaim>>

\* ClaimStore::propose.
NewClaim(a, status) ==
  [owner |-> a, status |-> status, files |-> {}, orphanedAt |-> Never]

StoreClaim(a, status) ==
  /\ nextClaim <= MaxClaims
  /\ claims' = [c \in DOMAIN claims \cup {nextClaim} |->
                  IF c = nextClaim THEN NewClaim(a, status) ELSE claims[c]]
  /\ nextClaim' = nextClaim + 1

\* State::promote_active, called for an ACTIVE claim only.
Promote(a, status) ==
  agents' = IF status = "ACTIVE" /\ Registered(a) /\ agents[a].state = "DISCOVERY"
              THEN [agents EXCEPT ![a].state = "ACTIVE"]
              ELSE agents

\* Mutants: the existence check under a lock of its own; no promotion; the
\* agent's earlier claims replaced.
ProposeUnchecked(a, status) ==
  StoreClaim(a, status) /\ Promote(a, status) /\ UNCHANGED nextAgent

ProposeUnpromoted(a, status) ==
  Registered(a) /\ StoreClaim(a, status) /\ UNCHANGED <<agents, nextAgent>>

ProposeReplacing(a, status) ==
  /\ Registered(a)
  /\ nextClaim <= MaxClaims
  /\ claims' = [c \in DOMAIN claims \cup {nextClaim} |->
                  IF c = nextClaim THEN NewClaim(a, status)
                  ELSE IF c \in LiveOf(a) THEN [claims[c] EXCEPT !.status = "RELEASED"]
                  ELSE claims[c]]
  /\ nextClaim' = nextClaim + 1
  /\ Promote(a, status)
  /\ UNCHANGED nextAgent

\* The existence check, propose and promote_active share one lock.  `status`
\* is what status_for_confidence made of the confidence; below 0.45 nothing
\* is stored and the step is a stutter.
DoPropose(a, status) ==
  /\ Registered(a)
  /\ StoreClaim(a, status)
  /\ Promote(a, status)
  /\ UNCHANGED nextAgent

\* Gives the claims of S the status s, stamping orphanedAt with t.
Mark(S, s, t) ==
  claims' = [c \in DOMAIN claims |->
               IF c \in S
                 THEN [owner |-> claims[c].owner, status |-> s,
                       files |-> claims[c].files, orphanedAt |-> t]
                 ELSE claims[c]]

\* Mutant: whatever the claim's status.
ReleaseAny(c) ==
  /\ c \in DOMAIN claims
  /\ Mark({c}, "RELEASED", Never)
  /\ UNCHANGED <<agents, nextAgent, nextClaim>>

DoRelease(c) ==
  /\ c \in DOMAIN claims
  /\ Live(c)
  /\ Mark({c}, "RELEASED", Never)
  /\ UNCHANGED <<agents, nextAgent, nextClaim>>

DoSetState(a, s) ==
  /\ Registered(a)
  /\ CanTransition(agents[a].state, s)
  /\ agents' = [agents EXCEPT ![a].state = s]
  /\ UNCHANGED <<claims, nextAgent, nextClaim>>

\* Mutant: PROVISIONAL claims forgotten.
ClearActiveOnly(a) ==
  /\ Registered(a)
  /\ agents[a].gen < MaxGeneration
  /\ Mark({c \in LiveOf(a) : claims[c].status = "ACTIVE"}, "RELEASED", Never)
  /\ agents' = [agents EXCEPT ![a] = [seen |-> @.seen, state |-> "DISCOVERY",
                                     gen |-> @.gen + 1]]
  /\ UNCHANGED <<nextAgent, nextClaim>>

DoClear(a) ==
  /\ Registered(a)
  /\ agents[a].gen < MaxGeneration
  /\ Mark(LiveOf(a), "RELEASED", Never)
  /\ agents' = [agents EXCEPT ![a] = [seen |-> @.seen, state |-> "DISCOVERY",
                                     gen |-> @.gen + 1]]
  /\ UNCHANGED <<nextAgent, nextClaim>>

\* record_touched adds to whichever live claim of a the hash map yields first.
DoTouch(a, F) ==
  /\ Registered(a)
  /\ \E c \in LiveOf(a) :
       claims' = [claims EXCEPT ![c].files = @ \cup F]
  /\ UNCHANGED <<agents, nextAgent, nextClaim>>

\* Mutant: the owner of the claim is not looked at.
OrphanAll(S, at) ==
  /\ Mark({c \in DOMAIN claims : Live(c)}, "ORPHANED", at)
  /\ UNCHANGED <<agents, nextAgent, nextClaim>>

DoOrphan(S, at) ==
  /\ Mark(UNION {LiveOf(a) : a \in S}, "ORPHANED", at)
  /\ UNCHANGED <<agents, nextAgent, nextClaim>>

DoSweep(at) ==
  /\ claims' = [c \in DOMAIN claims |->
                  IF Expired(c, at) THEN [claims[c] EXCEPT !.status = "RECLAIMABLE"]
                                    ELSE claims[c]]
  /\ UNCHANGED <<agents, nextAgent, nextClaim>>

-----------------------------------------------------------------------------
(* The connection thread.  run() joins each handler before it accepts the  *)
(* next connection, so a single `conn` stands for all of them; a handler   *)
(* of its own begins only when the thread is idle.                         *)

Idle     == [pc |-> "idle", at |-> 0, agent |-> NoAgent]
ConnIdle == conn.pc = "idle"

\* Moves the connection thread from one place to the next.
Goes(from, to) == conn.pc = from /\ conn' = [conn EXCEPT !.pc = to]

ReceiveRegister ==
  /\ ConnIdle
  /\ nextAgent <= MaxRegistrations
  /\ conn' = [pc |-> "register", at |-> now, agent |-> NoAgent]
  /\ UNCHANGED <<registryVars, agentsSeen, thisAgent, reaper, logVars, now>>

\* Mutant: one agent too many.
RegisterCountLax ==
  /\ conn.pc = "register"
  /\ conn' = IF Cardinality(Agents) > MaxAgents THEN Idle
                                                ELSE [conn EXCEPT !.pc = "counted"]
  /\ UNCHANGED <<registryVars, agentsSeen, thisAgent, reaper, logVars, now>>

\* The count check and the insertion take the state lock separately.
RegisterCount ==
  /\ conn.pc = "register"
  /\ conn' = IF Cardinality(Agents) >= MaxAgents THEN Idle
                                                 ELSE [conn EXCEPT !.pc = "counted"]
  /\ UNCHANGED <<registryVars, agentsSeen, thisAgent, reaper, logVars, now>>

RegisterInsert ==
  /\ conn.pc = "counted"
  /\ DoRegister(conn.at)
  /\ conn' = [pc |-> "inserted", at |-> conn.at, agent |-> nextAgent]
  /\ UNCHANGED <<agentsSeen, thisAgent, reaper, logVars, now>>

RegisterSeen ==
  /\ Goes("inserted", "seen")
  /\ agentsSeen' = agentsSeen + 1
  /\ UNCHANGED <<registryVars, thisAgent, reaper, logVars, now>>

\* Logs AGENT_JOINED and answers; handle_conn then remembers the last
\* agent registered on this connection.
RegisterLog ==
  /\ conn.pc = "seen"
  /\ conn' = Idle
  /\ joined' = joined \cup {conn.agent}
  /\ thisAgent' = conn.agent
  /\ UNCHANGED <<registryVars, agentsSeen, reaper, left, lostLogged, now>>

ReceiveHeartbeat(a) ==
  /\ ConnIdle
  /\ conn' = [pc |-> "heartbeat", at |-> now, agent |-> a]
  /\ UNCHANGED <<registryVars, agentsSeen, thisAgent, reaper, logVars, now>>

ApplyHeartbeat ==
  /\ conn.pc = "heartbeat"
  /\ DoHeartbeat(conn.agent, conn.at)
  /\ conn' = Idle
  /\ UNCHANGED <<agentsSeen, thisAgent, reaper, logVars, now>>

\* A CAP event as far as the state lock goes.  The agent and the claim it
\* names come from the client's JSON and need not be the connection's own.
\* What some of these handlers go on to do to heat and conflicts is Negotiation's.
Event(step) ==
  /\ ConnIdle
  /\ step
  /\ UNCHANGED <<agentsSeen, conn, thisAgent, reaper, logVars, now>>

ProposeClaim(a, s) == Event(DoPropose(a, s))
ReleaseClaim(c)    == Event(DoRelease(c))
ChangeState(a, s)  == Event(DoSetState(a, s))
ClearInvoked(a)    == Event(DoClear(a))
TouchFile(a, f)    == Event(DoTouch(a, {f}))

\* Mutant: AGENT_LEFT without asking whether remove found the agent.
DisconnectAlwaysLogs ==
  /\ ConnIdle
  /\ thisAgent # NoAgent
  /\ DoRemove({thisAgent})
  /\ conn' = [pc |-> "removed", at |-> 0, agent |-> thisAgent]
  /\ thisAgent' = NoAgent
  /\ UNCHANGED <<agentsSeen, reaper, logVars, now>>

\* End of handle_conn: only the agent in this_agent is removed, and its
\* claims are left as they are.
Disconnect ==
  /\ ConnIdle
  /\ thisAgent # NoAgent
  /\ DoRemove({thisAgent})
  /\ conn' = IF Registered(thisAgent)
               THEN [pc |-> "removed", at |-> 0, agent |-> thisAgent]
               ELSE Idle
  /\ thisAgent' = NoAgent
  /\ UNCHANGED <<agentsSeen, reaper, logVars, now>>

\* AGENT_LEFT is logged only for an agent that was still registered.
LogLeft ==
  /\ conn.pc = "removed"
  /\ conn' = Idle
  /\ left' = left \cup {conn.agent}
  /\ UNCHANGED <<registryVars, agentsSeen, thisAgent, reaper, joined, lostLogged, now>>

-----------------------------------------------------------------------------
(* The reaper thread                                                       *)

ReaperWake ==
  /\ reaper.pc = "sleep"
  /\ reaper' = [pc |-> "reap", at |-> now, lost |-> {}]
  /\ UNCHANGED <<registryVars, agentsSeen, conn, thisAgent, logVars, now>>

ReaperReap ==
  /\ reaper.pc = "reap"
  /\ LET lost == {a \in Agents : Silent(a, reaper.at)} IN
       /\ DoRemove(lost)
       /\ reaper' = [pc |-> IF lost = {} THEN "sweep" ELSE "orphan",
                     at |-> reaper.at, lost |-> lost]
  /\ UNCHANGED <<agentsSeen, conn, thisAgent, logVars, now>>

ReaperOrphan ==
  /\ reaper.pc = "orphan"
  /\ DoOrphan(reaper.lost, reaper.at)
  /\ reaper' = [reaper EXCEPT !.pc = "sweep"]
  /\ UNCHANGED <<agentsSeen, conn, thisAgent, logVars, now>>

ReaperSweep ==
  /\ reaper.pc = "sweep"
  /\ DoSweep(reaper.at)
  /\ reaper' = [reaper EXCEPT !.pc = "log"]
  /\ UNCHANGED <<agentsSeen, conn, thisAgent, logVars, now>>

ReaperLog ==
  /\ reaper.pc = "log"
  /\ lostLogged' = lostLogged \cup reaper.lost
  /\ reaper' = [pc |-> "sleep", at |-> 0, lost |-> {}]
  /\ UNCHANGED <<registryVars, agentsSeen, conn, thisAgent, joined, left, now>>

\* The clock does not run backwards.
Tick ==
  /\ now < MaxTime
  /\ now' = now + 1
  /\ UNCHANGED <<registryVars, agentsSeen, conn, thisAgent, reaper, logVars>>

-----------------------------------------------------------------------------

Init ==
  /\ agents = [a \in {} |-> [seen |-> 0, state |-> "DISCOVERY", gen |-> 1]]
  /\ claims = [c \in {} |-> [owner |-> NoAgent, status |-> "RELEASED",
                             files |-> {}, orphanedAt |-> Never]]
  /\ nextAgent = 1
  /\ nextClaim = 1
  /\ agentsSeen = 0
  /\ conn = Idle
  /\ thisAgent = NoAgent
  /\ reaper = [pc |-> "sleep", at |-> 0, lost |-> {}]
  /\ joined = {} /\ left = {} /\ lostLogged = {}
  /\ now = 1

RequestNext ==
  \/ ReceiveRegister \/ RegisterCount \/ RegisterInsert
  \/ RegisterSeen \/ RegisterLog
  \/ ApplyHeartbeat
  \/ \E a \in AgentIds :
       \/ ReceiveHeartbeat(a)
       \/ ClearInvoked(a)
       \/ \E s \in LiveStatuses : ProposeClaim(a, s)
       \/ \E s \in ReportedStates : ChangeState(a, s)
       \/ \E f \in Files : TouchFile(a, f)
  \/ \E c \in ClaimIds : ReleaseClaim(c)

ConnNext == RequestNext \/ Disconnect \/ LogLeft

ReaperNext ==
  ReaperWake \/ ReaperReap \/ ReaperOrphan \/ ReaperSweep \/ ReaperLog

Next == ConnNext \/ ReaperNext \/ Tick

Spec == Init /\ [][Next]_vars

-----------------------------------------------------------------------------
(* Properties                                                              *)

\* The shape of the registry: ids below their counters, statuses and states
\* the code uses, threads at places of their loops.
TypeOK ==
  /\ nextAgent \in 1 .. MaxRegistrations + 1
  /\ nextClaim \in 1 .. MaxClaims + 1
  /\ Agents \subseteq 1 .. nextAgent - 1
  /\ agents \in [Agents -> AgentRecords]
  /\ claims \in [1 .. nextClaim - 1 -> ClaimRecords(1 .. nextAgent - 1)]
  /\ agentsSeen \in Nat
  /\ conn \in [pc : ConnPlaces, at : Nat, agent : Nat]
  /\ thisAgent \in 0 .. nextAgent - 1
  /\ reaper \in [pc : ReaperPlaces, at : Nat, lost : SUBSET (1 .. nextAgent - 1)]
  /\ {joined, left, lostLogged} \subseteq SUBSET (1 .. nextAgent - 1)
  /\ now \in Nat \ {0}

\* The agent a Disconnect has removed and not yet logged.
Leaving == IF conn.pc = "removed" THEN {conn.agent} ELSE {}

\* Every agent ever registered is in exactly one place: in the store, about
\* to be or already logged as LEFT by the connection thread, or in the
\* reaper's lost list or already logged as LOST.  No id gets both an
\* AGENT_LEFT and an AGENT_LOST entry, although the two threads remove agents
\* independently (State::remove's boolean, State::reap's list).
EveryAgentAccounted ==
  /\ Agents \cup Leaving \cup left \cup reaper.lost \cup lostLogged = 1 .. nextAgent - 1
  /\ Agents \cap (Leaving \cup left \cup reaper.lost \cup lostLogged) = {}
  /\ (Leaving \cup left) \cap (reaper.lost \cup lostLogged) = {}

\* A claim is ORPHANED or RECLAIMABLE only when the agent that held it has
\* been reaped: it is in the reaper's current lost list or in an AGENT_LOST
\* entry, and it is not registered.  The reaper removes agents and orphans
\* their claims under two locks, between which the agent's own requests run.
TombstoneOwnerIsLost ==
  \A c \in DOMAIN claims :
    claims[c].status \in {"ORPHANED", "RECLAIMABLE"}
      => claims[c].owner \in (reaper.lost \cup lostLogged) \ Agents

\* Once the reaper is past its orphan step no lost agent holds a live claim:
\* nothing the agent's own, late requests do can give it one.  This is the
\* race that the single lock around the existence check and propose closes.
LostAgentsHoldNothing ==
  \A c \in DOMAIN claims :
    Live(c) => /\ claims[c].owner \notin lostLogged
               /\ reaper.pc \in {"sweep", "log"} => claims[c].owner \notin reaper.lost

\* An agent in DISCOVERY holds no ACTIVE claim: promotion, /clear and the
\* transition table agree, whatever the order of proposals and reports.
DiscoveryHoldsNoActiveClaim ==
  \A c \in DOMAIN claims :
    /\ claims[c].status = "ACTIVE"
    /\ claims[c].owner \in Agents
    => agents[claims[c].owner].state # "DISCOVERY"

\* The cap on agents holds although the count is read under one lock and the
\* agent inserted under another: the only registrar is the one connection
\* thread, and the reaper can only lower the count in between.
AgentCapHolds == Cardinality(Agents) <= MaxAgents

\* The claim life cycle: an id keeps its owner; a live claim may be released
\* or orphaned, an orphaned one may become reclaimable, anything else about a
\* status never changes, and a claim that is no longer live gets no files.
ClaimStep(c) ==
  /\ claims'[c].owner = claims[c].owner
  /\ claims'[c].files # claims[c].files => Live(c) /\ Live(c)'
  /\ claims'[c].status # claims[c].status =>
       \/ Live(c) /\ claims'[c].status \in {"RELEASED", "ORPHANED"}
       \/ claims[c].status = "ORPHANED" /\ claims'[c].status = "RECLAIMABLE"

ClaimLifeCycle ==
  [][/\ DOMAIN claims \subseteq DOMAIN claims'
     /\ \A c \in DOMAIN claims : ClaimStep(c)]_vars

\* "No /clear leaves ownership behind": whenever an agent's generation moves,
\* it holds no live claim afterwards, and it re-enters DISCOVERY in no other way.
ClearIsTotal ==
  [][\A a \in Agents \cap Agents' :
       /\ agents'[a].gen # agents[a].gen =>
            /\ agents'[a].gen = agents[a].gen + 1
            /\ agents'[a].state = "DISCOVERY"
            /\ LiveOf(a)' = {}
       /\ agents'[a].state = "DISCOVERY" /\ agents[a].state # "DISCOVERY"
            => agents'[a].gen # agents[a].gen]_vars

\* The reaper removes only agents that have really been silent for longer
\* than the timeout, and promotes only tombstones that have really aged a full
\* TTL, however late it runs and however stale its captured clock is.
ReaperIsPatient ==
  [][/\ \A a \in reaper'.lost \ reaper.lost : now > agents[a].seen + Timeout
     /\ \A c \in DOMAIN claims :
          claims[c].status # claims'[c].status /\ claims'[c].status = "RECLAIMABLE"
            => now >= claims[c].orphanedAt + OrphanTTL]_vars

\* "Its claims are marked `ORPHANED`" (README, of an agent that exited without
\* a clean shutdown): an agent that has left holds no live claim.  handle_conn
\* removes the agent and does nothing about its claims; the reaper orphans
\* those of agents it finds silent, and never finds this one.
LeaversHoldNothing ==
  \A c \in DOMAIN claims : Live(c) => claims[c].owner \notin left

-----------------------------------------------------------------------------
\* The registry implements the claim ledger: hide the threads, the clock and
\* what the ledger does not speak of, and every step is one of its steps.
Phase(status) == CASE status \in LiveStatuses  -> "live"
                   [] status = "RELEASED"      -> "released"
                   [] status = "ORPHANED"      -> "orphaned"
                   [] status = "RECLAIMABLE"   -> "reclaimable"

Ledger == INSTANCE ClaimLedger WITH
  AgentId <- AgentIds,
  ClaimId <- ClaimIds,
  known   <- 1 .. nextAgent - 1,
  present <- Agents,
  ledger  <- [c \in DOMAIN claims |-> [owner |-> claims[c].owner,
                                       phase |-> Phase(claims[c].status)]]

ImplementsLedger == Ledger!Spec

=============================================================================
