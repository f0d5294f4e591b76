---------------------------- MODULE Negotiation -----------------------------
(***************************************************************************)
(* Heat edges, conflicts and wait edges of Coordify Core, and the two      *)
(* threads that change them (packages/coordify-core/src/server.rs): the    *)
(* connection thread handles one request at a time, the reaper loses       *)
(* agents and sweeps conflicts whose proposals are late.                   *)
(*                                                                         *)
(* One step is one critical section of the state, conflicts or log lock.   *)
(* The heat and wait-graph locks are taken by the connection thread only,  *)
(* so their sections are joined to the neighbouring step.  Of the registry *)
(* there remain the agents that are registered and those that hold a live  *)
(* claim; Registry has their clocks, states and claims.  A heat is reduced *)
(* to whether its band is CONFLICT_CANDIDATE, and an age to whether the    *)
(* proposal timeout has passed.                                            *)
(***************************************************************************)
EXTENDS FiniteSets, Functions, ConflictRules, WaitGraph

CONSTANTS
  Agent,         \* the agents of the session, all registered when it begins
  Proposals,     \* the proposals they may submit
  MaxConflicts   \* bound on the conflict ids

VARIABLES
  present,     \* ids in State.agents
  holding,     \* agents with a live claim in State.claims
  heat,        \* HeatStore: partial function pair -> is the band the hottest?
  conflicts,   \* ConflictStore.open: id -> [pair, state, proposals]
  nextId,      \* ConflictStore.next_id + 1
  waits,       \* WaitGraph.edges
  conn,        \* the connection thread's place and what it carries
  reaper,      \* the reaper's place, the ages it sees, lost agents, late ids
  aged,        \* open conflicts that have outlived proposal_timeout_ms
  asked,       \* ids with a USER_ARBITRATION_REQUIRED entry in the log
  closings,    \* id -> number of CONFLICT_RESOLVED and CONFLICT_ABORTED entries
  strayed      \* holders of a claim that was released in another agent's name,
               \* since their own heat was last recomputed (history)

ASSUME NegotiationAssumption ==
  /\ IsFiniteSet(Agent)
  /\ Proposals \subseteq ProposalRecords
  /\ MaxConflicts \in Nat

stores == <<heat, conflicts, nextId, waits>>
logs   == <<asked, closings, strayed>>
vars   == <<present, holding, stores, conn, reaper, aged, logs>>

Ids   == 1 .. MaxConflicts
Pairs == {p \in SUBSET Agent : Cardinality(p) = 2}

AwaitingProposals == {"DETECTED", "NEGOTIATING"}
OpenStates        == AwaitingProposals \cup {"AWAITING_USER_DECISION"}

NoProposals == [a \in {} |-> a]
ConflictRecords ==
  [pair : Pairs, state : OpenStates, proposals : UNION {[S -> Proposals] : S \in SUBSET Agent}]

-----------------------------------------------------------------------------
(* State formulae                                                          *)

Working  == present \cap holding      \* heat_inputs_for is Some
Open     == DOMAIN conflicts
OpenOf(a)    == {i \in Open : a \in conflicts[i].pair}
OpenFor(p)   == {i \in Open : conflicts[i].pair = p}
BothProposed(i) == DOMAIN conflicts[i].proposals = conflicts[i].pair

\* Mutant: only a conflict that nobody has answered is late.
LateUnanswered(i, old) ==
  /\ i \in old
  /\ conflicts[i].proposals = NoProposals
  /\ conflicts[i].state \in AwaitingProposals

\* ConflictStore::timed_out, as of the ages `old`.
Late(i, old) ==
  /\ i \in old
  /\ ~BothProposed(i)
  /\ conflicts[i].state \in AwaitingProposals

\* The conflicts of S leave the store.
Close(S) == conflicts' = Restrict(conflicts, Open \ S)

SetState(S, s) ==
  conflicts' = [i \in Open |-> IF i \in S THEN [conflicts[i] EXCEPT !.state = s]
                                          ELSE conflicts[i]]

-----------------------------------------------------------------------------
(* The connection thread: requests.  A request that is refused (unknown    *)
(* agent, claim or conflict, low confidence) changes none of the state.    *)

Idle     == [pc |-> "idle"]
ConnIdle == conn = Idle

\* The handler goes on to recompute_current_heat for agent a.
Recompute(a) == conn' = [pc |-> "snapshot", agent |-> a]

ClaimProposed(a) ==
  /\ ConnIdle
  /\ a \in present
  /\ holding' = holding \cup {a}
  /\ Recompute(a)
  /\ UNCHANGED <<present, stores, reaper, aged, logs>>

\* The claim is found by its own id; the agent whose heat is recomputed is the
\* one the event names.  The holder may hold another live claim.
ClaimReleased(holder, a) ==
  /\ ConnIdle
  /\ holder \in holding
  /\ holding' \in {holding, holding \ {holder}}
  /\ strayed' = IF holder = a THEN strayed ELSE strayed \cup {holder}
  /\ Recompute(a)
  /\ UNCHANGED <<present, stores, reaper, aged, asked, closings>>

ClearInvoked(a) ==
  /\ ConnIdle
  /\ a \in present
  /\ holding' = holding \ {a}
  /\ Recompute(a)
  /\ UNCHANGED <<present, stores, reaper, aged, logs>>

FileTouched(a) ==
  /\ ConnIdle
  /\ a \in Working
  /\ Recompute(a)
  /\ UNCHANGED <<present, holding, stores, reaper, aged, logs>>

\* Only the agent store is changed when a connection closes.
Disconnect(a) ==
  /\ ConnIdle
  /\ a \in present
  /\ present' = present \ {a}
  /\ UNCHANGED <<holding, stores, conn, reaper, aged, logs>>

\* record_proposal, whatever the state of the conflict.
ProposalSubmitted(i, a, p) ==
  /\ ConnIdle
  /\ i \in Open
  /\ a \in conflicts[i].pair
  /\ conflicts' = [conflicts EXCEPT
       ![i] = [pair |-> @.pair, state |-> "NEGOTIATING",
               proposals |-> [x \in DOMAIN @.proposals \cup {a} |->
                                IF x = a THEN p ELSE @.proposals[x]]]]
  /\ conn' = [pc |-> "weigh", id |-> i]
  /\ UNCHANGED <<present, holding, heat, nextId, waits, reaper, aged, logs>>

ForgetWaits(g, pair) == Retain(g, {e \in ToSet(g) : {e.from, e.to} \cap pair = {}})

UserDecision(i) ==
  /\ ConnIdle
  /\ i \in Open
  /\ Close({i})
  /\ waits' = ForgetWaits(waits, conflicts[i].pair)
  /\ conn' = [pc |-> "log", closed |-> {i}]
  /\ UNCHANGED <<present, holding, heat, nextId, reaper, aged, logs>>

-----------------------------------------------------------------------------
(* The connection thread: recompute_current_heat                           *)

Snapshot ==
  /\ conn.pc = "snapshot"
  /\ conn' = IF conn.agent \in Working
               THEN [pc |-> "apply", agent |-> conn.agent,
                     others |-> Working \ {conn.agent}]
               ELSE [pc |-> "drop", agent |-> conn.agent]
  /\ strayed' = strayed \ {conn.agent}
  /\ UNCHANGED <<present, holding, stores, reaper, aged, asked, closings>>

\* Mutants: waits, or the log, forgotten when an agent's edges are dropped.
DropKeepsWaits ==
  /\ conn.pc = "drop"
  /\ heat' = Restrict(heat, {p \in DOMAIN heat : conn.agent \notin p})
  /\ Close(OpenOf(conn.agent))
  /\ conn' = [pc |-> "log", closed |-> OpenOf(conn.agent)]
  /\ UNCHANGED <<present, holding, waits, nextId, reaper, aged, logs>>

DropUnlogged ==
  /\ conn.pc = "drop"
  /\ heat' = Restrict(heat, {p \in DOMAIN heat : conn.agent \notin p})
  /\ waits' = RemoveAgent(waits, conn.agent)
  /\ Close(OpenOf(conn.agent))
  /\ conn' = Idle
  /\ UNCHANGED <<present, holding, nextId, reaper, aged, logs>>

\* No live claim: the agent's edges go and its conflicts are aborted.
DropEdges ==
  /\ conn.pc = "drop"
  /\ heat' = Restrict(heat, {p \in DOMAIN heat : conn.agent \notin p})
  /\ waits' = RemoveAgent(waits, conn.agent)
  /\ Close(OpenOf(conn.agent))
  /\ conn' = [pc |-> "log", closed |-> OpenOf(conn.agent)]
  /\ UNCHANGED <<present, holding, nextId, reaper, aged, logs>>

\* Which hot pairs get a conflict, and which conflicts end with the heat.
\* (Mutant: the cooled pairs are forgotten.)
Fresh(hot)              == {p \in hot : OpenFor(p) = {}}
CooledNever(pairs, hot) == {}
Cooled(pairs, hot)      == UNION {OpenFor(p) : p \in pairs \ hot}

\* The new heat of each pair is stored; a pair that is hot gets a conflict if
\* it has none, a pair that is not loses the one it has.  `hot` is what
\* compute_heat finds, and ids are given in the order of a hash map.
ApplyHeat(hot) ==
  /\ conn.pc = "apply"
  /\ LET pairs == {{conn.agent, b} : b \in conn.others}
         fresh == Fresh(hot)
         ended == Cooled(pairs, hot)
         ids   == nextId .. nextId + Cardinality(fresh) - 1
     IN  /\ hot \subseteq pairs
         /\ ids \subseteq Ids
         /\ heat' = [p \in DOMAIN heat \cup pairs |->
                       IF p \in pairs THEN p \in hot ELSE heat[p]]
         /\ \E pairOf \in Bijection(ids, fresh) :
              conflicts' = [i \in (Open \ ended) \cup ids |->
                IF i \in ids
                  THEN [pair |-> pairOf[i], state |-> "DETECTED",
                        proposals |-> NoProposals]
                  ELSE conflicts[i]]
         /\ nextId' = nextId + Cardinality(fresh)
         /\ conn' = [pc |-> "log", closed |-> ended]
  /\ UNCHANGED <<present, holding, waits, reaper, aged, logs>>

-----------------------------------------------------------------------------
(* The connection thread: finalize_negotiation                             *)

\* Mutant: a conflict that has been put to the user is not decided again.
WeighOnce ==
  /\ conn.pc = "weigh"
  /\ conn' = IF BothProposed(conn.id) /\ conn.id \notin asked
               THEN [pc |-> "queue", id |-> conn.id] ELSE Idle
  /\ UNCHANGED <<present, holding, stores, reaper, aged, logs>>

Weigh ==
  /\ conn.pc = "weigh"
  /\ conn' = IF BothProposed(conn.id) THEN [pc |-> "queue", id |-> conn.id] ELSE Idle
  /\ UNCHANGED <<present, holding, stores, reaper, aged, logs>>

\* The pair in the order of the agent ids.
InOrder(pair) == CHOOSE s \in SetToSeqs(pair) : TRUE

First  == InOrder(conflicts[conn.id].pair)[1]
Second == InOrder(conflicts[conn.id].pair)[2]
ProposalOf(a) == conflicts[conn.id].proposals[a]

\* The wait edges of the agents that queue, in the code's order.
QueueEdges ==
  LET one == IF ProposalOf(First).kind = "QUEUE_TASK"
               THEN AddEdge(waits, First, Second) ELSE waits
  IN  IF ProposalOf(Second).kind = "QUEUE_TASK" THEN AddEdge(one, Second, First) ELSE one

\* A cycle is looked for only when both queue.
Queue ==
  /\ conn.pc = "queue"
  /\ waits' = QueueEdges
  /\ conn' = [pc |-> "decide", id |-> conn.id,
               cycle |-> IF Both(ProposalOf(First), ProposalOf(Second), "QUEUE_TASK")
                           THEN FindCycle(waits') ELSE NoCycle]
  /\ UNCHANGED <<present, holding, heat, conflicts, nextId, reaper, aged, logs>>

Decide ==
  /\ conn.pc = "decide"
  /\ IF conn.cycle = NoCycle /\ Compare(ProposalOf(First), ProposalOf(Second), File).auto
       THEN /\ Close({conn.id})
            /\ waits' = ForgetWaits(waits, conflicts[conn.id].pair)
            /\ conn' = [pc |-> "log", closed |-> {conn.id}]
       ELSE /\ SetState({conn.id}, "AWAITING_USER_DECISION")
            /\ conn' = [conn EXCEPT !.pc = "ask"]
            /\ UNCHANGED waits
  /\ UNCHANGED <<present, holding, heat, nextId, reaper, aged, logs>>

-----------------------------------------------------------------------------
(* The connection thread: the log                                          *)

LogAsk ==
  /\ conn.pc = "ask"
  /\ asked' = asked \cup {conn.id}
  /\ conn' = Idle
  /\ UNCHANGED <<present, holding, stores, reaper, aged, closings, strayed>>

LogClosed ==
  /\ conn.pc = "log"
  /\ closings' = [i \in Ids |-> closings[i] + IF i \in conn.closed THEN 1 ELSE 0]
  /\ conn' = Idle
  /\ UNCHANGED <<present, holding, stores, reaper, aged, asked, strayed>>

-----------------------------------------------------------------------------
(* The reaper, and time                                                    *)

Asleep == [pc |-> "sleep", old |-> {}, lost |-> {}, late |-> {}]

ReaperWake ==
  /\ reaper.pc = "sleep"
  /\ reaper' = [Asleep EXCEPT !.pc = "reap", !.old = aged]
  /\ UNCHANGED <<present, holding, stores, conn, aged, logs>>

ReaperReap(lost) ==
  /\ reaper.pc = "reap"
  /\ lost \subseteq present
  /\ present' = present \ lost
  /\ reaper' = [reaper EXCEPT !.pc = IF lost = {} THEN "sweep" ELSE "orphan",
                              !.lost = lost]
  /\ UNCHANGED <<holding, stores, conn, aged, logs>>

ReaperOrphan ==
  /\ reaper.pc = "orphan"
  /\ holding' = holding \ reaper.lost
  /\ reaper' = [reaper EXCEPT !.pc = "sweep", !.lost = {}]
  /\ UNCHANGED <<present, stores, conn, aged, logs>>

\* Mutant: nothing is carried to the log.
ReaperSweepsSilently ==
  /\ reaper.pc = "sweep"
  /\ SetState({i \in Open : Late(i, reaper.old)}, "AWAITING_USER_DECISION")
  /\ reaper' = Asleep
  /\ UNCHANGED <<present, holding, heat, nextId, waits, conn, aged, logs>>

\* sweep_proposal_timeouts, under the conflicts lock...
ReaperSweep ==
  /\ reaper.pc = "sweep"
  /\ LET late == {i \in Open : Late(i, reaper.old)} IN
       /\ SetState(late, "AWAITING_USER_DECISION")
       /\ reaper' = IF late = {} THEN Asleep
                                 ELSE [Asleep EXCEPT !.pc = "ask", !.late = late]
  /\ UNCHANGED <<present, holding, heat, nextId, waits, conn, aged, logs>>

\* ...and then under the log lock.
ReaperAsk ==
  /\ reaper.pc = "ask"
  /\ asked' = asked \cup reaper.late
  /\ reaper' = Asleep
  /\ UNCHANGED <<present, holding, stores, conn, aged, closings, strayed>>

\* An open conflict outlives the proposal timeout.
GrowOld(i) ==
  /\ i \in Open \ aged
  /\ aged' = aged \cup {i}
  /\ UNCHANGED <<present, holding, stores, conn, reaper, logs>>

-----------------------------------------------------------------------------

Init ==
  /\ present = Agent
  /\ holding = {}
  /\ heat = [p \in {} |-> FALSE]
  /\ conflicts = [i \in {} |-> NoProposals]
  /\ nextId = 1
  /\ waits = <<>>
  /\ conn = Idle
  /\ reaper = Asleep
  /\ aged = {} /\ asked = {}
  /\ closings = [i \in Ids |-> 0]
  /\ strayed = {}

\* The rest of a handler that has begun.
HandlerNext ==
  \/ Snapshot \/ DropEdges \/ \E hot \in SUBSET Pairs : ApplyHeat(hot)
  \/ Weigh \/ Queue \/ Decide \/ LogAsk \/ LogClosed

RequestNext ==
  \/ \E a \in Agent : \/ ClaimProposed(a) \/ ClearInvoked(a)
                      \/ FileTouched(a) \/ Disconnect(a)
                      \/ \E holder \in Agent : ClaimReleased(holder, a)
  \/ \E i \in Ids : \/ UserDecision(i)
                    \/ \E a \in Agent, p \in Proposals : ProposalSubmitted(i, a, p)

ReaperNext ==
  \/ ReaperWake \/ \E lost \in SUBSET Agent : ReaperReap(lost)
  \/ ReaperOrphan \/ ReaperSweep \/ ReaperAsk

Next == RequestNext \/ HandlerNext \/ ReaperNext \/ \E i \in Ids : GrowOld(i)

Spec == Init /\ [][Next]_vars

\* A handler that has begun returns, the reaper loops, and a conflict that
\* stays open grows old.  No client need ever send anything.
FairSpec ==
  /\ Spec
  /\ WF_vars(HandlerNext)
  /\ WF_vars(ReaperNext)
  /\ \A i \in Ids : WF_vars(GrowOld(i))

-----------------------------------------------------------------------------
(* Properties                                                              *)

ConnPlaces   == {"idle", "snapshot", "apply", "drop", "weigh", "queue", "decide",
                 "ask", "log"}
ReaperPlaces == {"sleep", "reap", "orphan", "sweep", "ask"}

TypeOK ==
  /\ {present, holding} \subseteq SUBSET Agent
  /\ DOMAIN heat \subseteq Pairs /\ heat \in [DOMAIN heat -> BOOLEAN]
  /\ nextId \in 1 .. MaxConflicts + 1
  /\ Open \subseteq 1 .. nextId - 1
  /\ \A i \in Open : /\ conflicts[i] \in ConflictRecords
                     /\ DOMAIN conflicts[i].proposals \subseteq conflicts[i].pair
  /\ conn.pc \in ConnPlaces
  /\ reaper \in [pc : ReaperPlaces, old : SUBSET Ids, lost : SUBSET Agent, late : SUBSET Ids]
  /\ {aged, asked} \subseteq SUBSET Ids
  /\ closings \in [Ids -> Nat]
  /\ strayed \subseteq Agent

\* A registered agent that holds no claim is in nobody's way: once its request
\* has been handled, it has no heat edge, no wait edge and no open conflict,
\* whatever agents the reaper lost while the snapshot was in hand.  (/clear
\* promises it with "clearConflicts": true.)  Only a release that names another
\* agent than the holder, which sidecar.js never sends, can leave ties behind.
TiesNeedClaims ==
  ConnIdle => \A a \in present \ (holding \cup strayed) :
    /\ \A p \in DOMAIN heat : a \notin p
    /\ a \notin Nodes(waits)
    /\ OpenOf(a) = {}

\* Between requests every open conflict is backed by a stored heat in the
\* hottest band, and a pair has at most one: opening, resolving and aborting
\* follow the heat store although they are done under another lock.
OpenConflictIsHot ==
  ConnIdle => \A i \in Open :
    /\ conflicts[i].pair \in DOMAIN heat
    /\ heat[conflicts[i].pair]
    /\ OpenFor(conflicts[i].pair) = {i}

\* Between requests a conflict in which both agents have proposed has been
\* decided: it is closed or it waits for the user.  The sweep, a repeated
\* proposal and a proposal that comes after the timeout do not break this.
BothProposedDecided ==
  ConnIdle => \A i \in Open :
    BothProposed(i) => conflicts[i].state = "AWAITING_USER_DECISION"

\* A conflict that waits for the user has been put to the user, or the thread
\* that made it wait is about to do so.
UserIsAsked ==
  \A i \in Open :
    conflicts[i].state = "AWAITING_USER_DECISION" =>
      \/ i \in asked
      \/ i \in reaper.late
      \/ conn.pc = "ask" /\ conn.id = i

\* Every conflict ever opened is open, or its end is logged, exactly once;
\* between the two only while the thread that ended it is on its way to the log.
EndIsLoggedOnce ==
  \A i \in 1 .. nextId - 1 :
    closings[i] = IF i \in Open \/ (conn.pc = "log" /\ i \in conn.closed) THEN 0 ELSE 1

\* "No negotiation can run forever without timeout or user escalation": a
\* conflict is eventually closed or waiting for the user, even if its agents
\* never propose, propose over and over, or are lost.
NegotiationEnds ==
  \A i \in Ids :
    i \in Open ~> (i \notin Open \/ conflicts[i].state = "AWAITING_USER_DECISION")

-----------------------------------------------------------------------------
(* What the code's own words promise and the code does not do              *)

\* An edge "means agent `from` is waiting on agent `to`" (waitgraph.rs):
\* between requests there is an open conflict of the two agents to wait for.
WaitEdgesMeanWaiting ==
  ConnIdle => \A e \in ToSet(waits) : OpenFor({e.from, e.to}) # {}
=============================================================================
