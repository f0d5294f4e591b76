--------------------------- MODULE RegistryProofs ---------------------------
(***************************************************************************)
(* What holds of Registry for every number of agents and claims and every  *)
(* timeout: its type invariant, its safety invariants, what no step may do *)
(* to a claim or an agent, and its implementation of ClaimLedger.          *)
(***************************************************************************)
EXTENDS Registry, FiniteSetTheorems, TLAPS

\* What each thread knows at each place of its code.  The connection thread
\* holds an id it has registered or removed; the reaper's lost list is empty
\* outside the part of the loop that uses it.
ThreadInv ==
  /\ conn.pc \in {"register", "counted"} => nextAgent <= MaxRegistrations
  /\ conn.pc \in {"inserted", "seen", "removed"} => conn.agent \in 1 .. nextAgent - 1
  /\ reaper.pc \in {"sleep", "reap"} => reaper.lost = {}

TypeInv == TypeOK /\ ThreadInv

\* Between the count and the insertion there is room for one more agent.
CapInv ==
  /\ IsFiniteSet(Agents)
  /\ AgentCapHolds
  /\ conn.pc = "counted" => Cardinality(Agents) < MaxAgents

-----------------------------------------------------------------------------
(* Records                                                                 *)

\* A claim record stays one when its status is replaced, files are added, or
\* more agents become known.
LEMMA ClaimRecordFacts ==
  ASSUME NEW O, NEW P, O \subseteq P, NEW r \in ClaimRecords(O)
  PROVE  /\ r \in ClaimRecords(P)
         /\ r.owner \in O /\ r.status \in ClaimStatuses
         /\ r.files \subseteq Files /\ r.orphanedAt \in Nat
         /\ \A s \in ClaimStatuses, t \in Nat :
              [owner |-> r.owner, status |-> s, files |-> r.files, orphanedAt |-> t]
                \in ClaimRecords(O)
         /\ \A s \in ClaimStatuses : [r EXCEPT !.status = s] \in ClaimRecords(O)
         /\ \A f \in Files : [r EXCEPT !.files = @ \cup {f}] \in ClaimRecords(O)
BY DEF ClaimRecords

\* An agent record stays one when its clock, state or generation is replaced.
LEMMA AgentRecordFacts ==
  ASSUME NEW r \in AgentRecords
  PROVE  /\ \A t \in Nat : [r EXCEPT !.seen = t] \in AgentRecords
         /\ \A s \in AgentStates : [r EXCEPT !.state = s] \in AgentRecords
         /\ [seen |-> r.seen, state |-> "DISCOVERY", gen |-> r.gen + 1] \in AgentRecords
BY DEF AgentRecords, AgentStates

-----------------------------------------------------------------------------
(* The stores after a critical section                                     *)

LEMMA NextAgentIsId == TypeOK => nextAgent \in Nat \ {0}
<1> SUFFICES ASSUME TypeOK PROVE nextAgent \in Nat \ {0}
  OBVIOUS
<1>1. nextAgent \in 1 .. MaxRegistrations + 1
  BY DEF TypeOK
<1>2. MaxRegistrations \in Nat
  BY RegistryAssumption
<1>. QED
  BY <1>1, <1>2

\* Marking claims keeps the ids, owners and files, and touches only the
\* claims of the set.
LEMMA MarkFacts ==
  ASSUME TypeOK, NEW S, NEW s \in ClaimStatuses, NEW t \in Nat, Mark(S, s, t)
  PROVE  /\ claims' \in [1 .. nextClaim - 1 -> ClaimRecords(1 .. nextAgent - 1)]
         /\ DOMAIN claims' = DOMAIN claims
         /\ \A c \in DOMAIN claims :
              /\ claims'[c].owner = claims[c].owner
              /\ claims'[c].files = claims[c].files
              /\ claims'[c].status = IF c \in S THEN s ELSE claims[c].status
              /\ claims'[c].orphanedAt = IF c \in S THEN t ELSE claims[c].orphanedAt
<1> DEFINE R == ClaimRecords(1 .. nextAgent - 1)
           D == 1 .. nextClaim - 1
           N(c) == IF c \in S
                     THEN [owner |-> claims[c].owner, status |-> s,
                           files |-> claims[c].files, orphanedAt |-> t]
                     ELSE claims[c]
<1>1. claims \in [D -> R] /\ claims' = [c \in D |-> N(c)]
  BY DEF TypeOK, Mark
<1>2. \A c \in D : N(c) \in R
  BY <1>1, ClaimRecordFacts
<1>3. claims' \in [D -> R] /\ \A c \in D : claims'[c] = N(c)
  <2> HIDE DEF R, D, N
  <2>. QED BY <1>1, <1>2
<1>. QED
  BY <1>1, <1>3

\* Sweeping changes the status of expired claims and nothing else.
LEMMA SweepFacts ==
  ASSUME TypeOK, NEW at, DoSweep(at)
  PROVE  /\ claims' \in [1 .. nextClaim - 1 -> ClaimRecords(1 .. nextAgent - 1)]
         /\ DOMAIN claims' = DOMAIN claims
         /\ \A c \in DOMAIN claims :
              /\ claims'[c].owner = claims[c].owner
              /\ claims'[c].files = claims[c].files
              /\ claims'[c].orphanedAt = claims[c].orphanedAt
              /\ Expired(c, at) => claims'[c].status = "RECLAIMABLE"
              /\ ~Expired(c, at) => claims'[c].status = claims[c].status
<1> DEFINE R == ClaimRecords(1 .. nextAgent - 1)
           D == 1 .. nextClaim - 1
           N(c) == IF Expired(c, at) THEN [claims[c] EXCEPT !.status = "RECLAIMABLE"]
                                     ELSE claims[c]
<1>1. claims \in [D -> R] /\ claims' = [c \in D |-> N(c)]
  BY DEF TypeOK, DoSweep
<1>2. "RECLAIMABLE" \in ClaimStatuses
  BY DEF ClaimStatuses
<1>3. \A c \in D : N(c) \in R
  BY <1>1, <1>2, ClaimRecordFacts
<1>4. claims' \in [D -> R] /\ \A c \in D : claims'[c] = N(c)
  <2> HIDE DEF R, D, N
  <2>. QED BY <1>1, <1>3
<1>5. \A c \in D : claims[c] \in [owner : 1 .. nextAgent - 1, status : ClaimStatuses,
                                  files : SUBSET Files, orphanedAt : Nat]
  BY <1>1 DEF ClaimRecords
<1>. QED
  BY <1>1, <1>4, <1>5

\* A touch adds the file to one live claim of the agent.
LEMMA TouchFacts ==
  ASSUME TypeOK, NEW a, NEW f \in Files, DoTouch(a, {f})
  PROVE  /\ claims' \in [1 .. nextClaim - 1 -> ClaimRecords(1 .. nextAgent - 1)]
         /\ DOMAIN claims' = DOMAIN claims
         /\ \A c \in DOMAIN claims :
              /\ claims'[c].owner = claims[c].owner
              /\ claims'[c].status = claims[c].status
              /\ claims'[c].orphanedAt = claims[c].orphanedAt
              /\ ~Live(c) => claims'[c].files = claims[c].files
<1> DEFINE R == ClaimRecords(1 .. nextAgent - 1)
           D == 1 .. nextClaim - 1
<1>1. PICK c \in LiveOf(a) : claims' = [claims EXCEPT ![c].files = @ \cup {f}]
  BY DEF DoTouch
<1>2. claims \in [D -> R] /\ c \in D /\ Live(c)
  BY DEF TypeOK, LiveOf, OwnedBy
<1>3. [claims[c] EXCEPT !.files = @ \cup {f}] \in R
  BY <1>2, ClaimRecordFacts
<1>4. claims' = [claims EXCEPT ![c] = [claims[c] EXCEPT !.files = @ \cup {f}]]
  BY <1>1
<1>5. claims' \in [D -> R]
  <2> HIDE DEF R, D
  <2>. QED BY <1>2, <1>3, <1>4
<1>6. \A x \in D : claims[x] \in [owner : 1 .. nextAgent - 1, status : ClaimStatuses,
                                  files : SUBSET Files, orphanedAt : Nat]
  BY <1>2 DEF ClaimRecords
<1>7. \A x \in D : x # c => claims'[x] = claims[x]
  BY <1>2, <1>4
<1>8. claims'[c] = [claims[c] EXCEPT !.files = @ \cup {f}]
  BY <1>2, <1>4
<1>. QED
  BY <1>2, <1>5, <1>6, <1>7, <1>8

\* A proposal adds one claim, of the proposer, under the next id.
LEMMA ProposeFacts ==
  ASSUME TypeOK, NEW a, NEW s \in LiveStatuses, DoPropose(a, s)
  PROVE  /\ nextClaim' = nextClaim + 1 /\ nextClaim \in 1 .. MaxClaims
         /\ claims' \in [1 .. nextClaim -> ClaimRecords(1 .. nextAgent - 1)]
         /\ DOMAIN claims' = DOMAIN claims \cup {nextClaim}
         /\ nextClaim \notin DOMAIN claims
         /\ \A c \in DOMAIN claims : claims'[c] = claims[c]
         /\ claims'[nextClaim] = [owner |-> a, status |-> s, files |-> {},
                                  orphanedAt |-> Never]
         /\ a \in 1 .. nextAgent - 1
<1> DEFINE R == ClaimRecords(1 .. nextAgent - 1)
           new == [owner |-> a, status |-> s, files |-> {}, orphanedAt |-> Never]
<1>1. nextClaim' = nextClaim + 1 /\ nextClaim \in 1 .. MaxClaims
  BY RegistryAssumption
     DEF DoPropose, StoreClaim, NewClaim, Promote, Registered, TypeOK
<1>2. a \in 1 .. nextAgent - 1
  BY DEF DoPropose, StoreClaim, NewClaim, Promote, Registered, TypeOK
<1>3. new \in R
  BY <1>2 DEF ClaimRecords, ClaimStatuses, Never
<1>4. DOMAIN claims = 1 .. nextClaim - 1 /\ claims \in [1 .. nextClaim - 1 -> R]
  BY DEF TypeOK
<1>5. DOMAIN claims \cup {nextClaim} = 1 .. nextClaim /\ nextClaim \notin DOMAIN claims
  BY <1>1, <1>4
<1>6. claims' = [c \in 1 .. nextClaim |-> IF c = nextClaim THEN new ELSE claims[c]]
  BY <1>5 DEF DoPropose, StoreClaim, NewClaim, Promote, Registered
<1>7. claims' \in [1 .. nextClaim -> R]
  <2> HIDE DEF R, new
  <2>. QED BY <1>1, <1>3, <1>4, <1>5, <1>6
<1>. QED
  BY <1>1, <1>2, <1>4, <1>5, <1>6, <1>7

-----------------------------------------------------------------------------
(* Types                                                                   *)

LEMMA InitTypes == Init => TypeInv
<1> SUFFICES ASSUME Init PROVE TypeInv
  OBVIOUS
<1>1. agents \in [{} -> AgentRecords]
  BY DEF Init
<1>2. claims \in [{} -> ClaimRecords(1 .. nextAgent - 1)]
  BY DEF Init
<1>3. 1 .. 0 = {}
  OBVIOUS
<1>. QED
  BY <1>1, <1>2, <1>3, RegistryAssumption
  DEF Init, TypeInv, TypeOK, ThreadInv, Agents, Idle, ConnPlaces, ReaperPlaces,
      NoAgent

\* The parts of the type invariant that a critical section on the stores
\* can disturb; the thread variables are dealt with per action.
StoresOK ==
  /\ nextAgent \in 1 .. MaxRegistrations + 1
  /\ nextClaim \in 1 .. MaxClaims + 1
  /\ Agents \subseteq 1 .. nextAgent - 1
  /\ agents \in [Agents -> AgentRecords]
  /\ claims \in [1 .. nextClaim - 1 -> ClaimRecords(1 .. nextAgent - 1)]

LEMMA RegisterStores ==
  ASSUME TypeOK, NEW at \in Nat, nextAgent <= MaxRegistrations, DoRegister(at)
  PROVE  StoresOK'
<1>1. nextAgent' = nextAgent + 1 /\ nextAgent \in Nat
      /\ nextAgent' \in 1 .. MaxRegistrations + 1
  BY RegistryAssumption DEF DoRegister, TypeOK
<1>2. 1 .. nextAgent - 1 \subseteq 1 .. nextAgent' - 1 /\ nextAgent \in 1 .. nextAgent' - 1
  BY <1>1 DEF TypeOK
<1>3. [seen |-> at, state |-> "DISCOVERY", gen |-> 1] \in AgentRecords
  BY DEF AgentStates, AgentRecords
<1>4. agents' \in [Agents' -> AgentRecords]
  BY <1>3 DEF DoRegister, TypeOK, Agents
<1>5. Agents' \subseteq 1 .. nextAgent' - 1
  BY <1>1, <1>2 DEF DoRegister, TypeOK, Agents
<1>6. ClaimRecords(1 .. nextAgent - 1) \subseteq ClaimRecords(1 .. nextAgent' - 1)
  BY <1>2 DEF ClaimRecords
<1>7. claims' \in [1 .. nextClaim' - 1 -> ClaimRecords(1 .. nextAgent' - 1)]
  BY <1>6 DEF DoRegister, TypeOK
<1>. QED
  BY <1>1, <1>4, <1>5, <1>7 DEF DoRegister, TypeOK, StoresOK

LEMMA HeartbeatStores ==
  ASSUME TypeOK, NEW a, NEW at \in Nat, DoHeartbeat(a, at)
  PROVE  StoresOK'
<1>1. agents \in [Agents -> AgentRecords]
  BY DEF TypeOK
<1>2. a \in Agents => [agents[a] EXCEPT !.seen = at] \in AgentRecords
  BY <1>1, AgentRecordFacts
<1>3. agents' \in [Agents -> AgentRecords] /\ Agents' = Agents
  BY <1>1, <1>2 DEF DoHeartbeat, Registered, Agents
<1>. QED
  BY <1>3 DEF DoHeartbeat, TypeOK, StoresOK

LEMMA RemoveStores ==
  ASSUME TypeOK, NEW S, DoRemove(S)
  PROVE  StoresOK'
BY DEF DoRemove, Restrict, TypeOK, StoresOK, Agents

LEMMA ProposeStores ==
  ASSUME TypeOK, NEW a, NEW s \in LiveStatuses, DoPropose(a, s)
  PROVE  StoresOK'
<1>1. agents \in [Agents -> AgentRecords] /\ a \in Agents
  BY DEF TypeOK, DoPropose, StoreClaim, NewClaim, Promote, Registered
<1>2. [agents[a] EXCEPT !.state = "ACTIVE"] \in AgentRecords
  BY <1>1, AgentRecordFacts DEF AgentStates
<1>3. agents' \in [Agents -> AgentRecords] /\ Agents' = Agents
  BY <1>1, <1>2 DEF DoPropose, StoreClaim, NewClaim, Promote, Registered, Agents
<1>4. nextClaim' - 1 = nextClaim /\ nextClaim' \in 1 .. MaxClaims + 1
  <2>1. nextClaim \in 1 .. MaxClaims /\ nextClaim' = nextClaim + 1
    BY ProposeFacts
  <2>2. MaxClaims \in Nat
    BY RegistryAssumption
  <2>. QED
    BY <2>1, <2>2
<1>. QED
  BY <1>3, <1>4, ProposeFacts DEF DoPropose, TypeOK, StoresOK

LEMMA MarkStores ==
  ASSUME TypeOK, NEW S, NEW s \in ClaimStatuses, NEW t \in Nat, Mark(S, s, t),
         UNCHANGED <<agents, nextAgent, nextClaim>>
  PROVE  StoresOK'
BY MarkFacts DEF TypeOK, StoresOK, Agents

LEMMA SetStateStores ==
  ASSUME TypeOK, NEW a, NEW s \in ReportedStates, DoSetState(a, s)
  PROVE  StoresOK'
<1>1. agents \in [Agents -> AgentRecords] /\ a \in Agents
  BY DEF TypeOK, DoSetState, Registered
<1>2. [agents[a] EXCEPT !.state = s] \in AgentRecords
  BY <1>1, ReportedAssumption, AgentRecordFacts
<1>3. agents' \in [Agents -> AgentRecords] /\ Agents' = Agents
  BY <1>1, <1>2 DEF DoSetState, Agents
<1>. QED
  BY <1>3 DEF DoSetState, TypeOK, StoresOK

LEMMA ClearStores ==
  ASSUME TypeOK, NEW a, DoClear(a)
  PROVE  StoresOK'
<1>1. "RELEASED" \in ClaimStatuses /\ Never \in Nat
  BY DEF ClaimStatuses, Never
<1>2. claims' \in [1 .. nextClaim - 1 -> ClaimRecords(1 .. nextAgent - 1)]
  BY <1>1, MarkFacts DEF DoClear
<1>3. agents \in [Agents -> AgentRecords] /\ a \in Agents
  BY DEF TypeOK, DoClear, Registered
<1>4. [seen |-> agents[a].seen, state |-> "DISCOVERY", gen |-> agents[a].gen + 1]
        \in AgentRecords
  BY <1>3, AgentRecordFacts
<1>5. agents' \in [Agents -> AgentRecords] /\ Agents' = Agents
  BY <1>3, <1>4 DEF DoClear, Agents
<1>. QED
  BY <1>2, <1>5 DEF DoClear, TypeOK, StoresOK

LEMMA TouchStores ==
  ASSUME TypeOK, NEW a, NEW f \in Files, DoTouch(a, {f})
  PROVE  StoresOK'
BY TouchFacts DEF DoTouch, TypeOK, StoresOK, Agents

LEMMA SweepStores ==
  ASSUME TypeOK, NEW at, DoSweep(at)
  PROVE  StoresOK'
BY SweepFacts DEF DoSweep, TypeOK, StoresOK, Agents

LEMMA NextTypes == TypeInv /\ [Next]_vars => TypeInv'
<1> SUFFICES ASSUME TypeInv, [Next]_vars PROVE TypeInv'
  OBVIOUS
<1> USE DEF TypeInv
<1>a. TypeOK /\ ThreadInv /\ nextAgent \in Nat
  BY NextAgentIsId DEF TypeInv
<1>b. StoresOK
  BY DEF TypeOK, StoresOK
<1> DEFINE Rest == /\ agentsSeen \in Nat
                   /\ conn \in [pc : ConnPlaces, at : Nat, agent : Nat]
                   /\ thisAgent \in 0 .. nextAgent - 1
                   /\ reaper \in [pc : ReaperPlaces, at : Nat,
                                  lost : SUBSET (1 .. nextAgent - 1)]
                   /\ {joined, left, lostLogged} \subseteq SUBSET (1 .. nextAgent - 1)
                   /\ now \in Nat \ {0}
<1>c. Rest
  BY DEF TypeOK
<1>d. ASSUME StoresOK', Rest' PROVE TypeOK'
  BY <1>d DEF StoresOK, TypeOK, Agents
<1>e. ASSUME UNCHANGED registryVars PROVE StoresOK'
  BY <1>b, <1>e DEF StoresOK, registryVars, Agents
<1> HIDE DEF TypeInv
<1> SUFFICES StoresOK' /\ Rest' /\ ThreadInv'
  BY <1>d DEF TypeInv
<1>1. CASE ReceiveRegister
  BY <1>1, <1>a, <1>c, <1>e DEF ReceiveRegister, registryVars, logVars, ThreadInv,
     ConnPlaces, NoAgent
<1>2. CASE RegisterCount
  BY <1>2, <1>a, <1>c, <1>e DEF RegisterCount, registryVars, logVars, ThreadInv,
     ConnPlaces, NoAgent, Idle
<1>3. CASE RegisterInsert
  <2>1. nextAgent <= MaxRegistrations /\ conn.at \in Nat
    BY <1>3, <1>a, <1>c DEF RegisterInsert, ThreadInv
  <2>2. StoresOK'
    BY <1>3, <1>a, <2>1, RegisterStores DEF RegisterInsert
  <2>3. nextAgent' = nextAgent + 1 /\ nextAgent \in 1 .. nextAgent' - 1
    BY <1>3, <1>a DEF RegisterInsert, DoRegister, TypeOK
  <2>. QED
    BY <1>3, <1>a, <1>c, <2>1, <2>2, <2>3
    DEF RegisterInsert, logVars, ThreadInv, ConnPlaces
<1>4. CASE RegisterSeen
  BY <1>4, <1>a, <1>c, <1>e DEF RegisterSeen, Goes, registryVars, logVars, ThreadInv,
     ConnPlaces
<1>5. CASE RegisterLog
  BY <1>5, <1>a, <1>c, <1>e DEF RegisterLog, registryVars, ThreadInv, ConnPlaces,
     Idle, NoAgent
<1>6. CASE ApplyHeartbeat
  <2>1. StoresOK' /\ nextAgent' = nextAgent
    BY <1>6, <1>a, <1>c, HeartbeatStores DEF ApplyHeartbeat, DoHeartbeat
  <2>. QED
    BY <1>6, <1>a, <1>c, <2>1 DEF ApplyHeartbeat, logVars, ThreadInv, ConnPlaces,
       Idle, NoAgent
<1>7. CASE Disconnect
  <2>1. StoresOK' /\ nextAgent' = nextAgent
    BY <1>7, <1>a, RemoveStores DEF Disconnect, DoRemove
  <2>. QED
    BY <1>7, <1>a, <1>c, <2>1 DEF Disconnect, logVars, ThreadInv, ConnPlaces,
       Idle, NoAgent
<1>8. CASE LogLeft
  BY <1>8, <1>a, <1>c, <1>e DEF LogLeft, registryVars, ThreadInv, ConnPlaces,
     Idle, NoAgent
<1>9. ASSUME NEW a \in AgentIds, ReceiveHeartbeat(a)
      PROVE  StoresOK' /\ Rest' /\ ThreadInv'
  BY <1>9, <1>a, <1>c, <1>e DEF ReceiveHeartbeat, registryVars, logVars, ThreadInv,
     ConnPlaces, AgentIds
<1>10. ASSUME StoresOK', nextAgent' = nextAgent, ConnIdle,
              UNCHANGED <<agentsSeen, conn, thisAgent, reaper, logVars, now>>
       PROVE  StoresOK' /\ Rest' /\ ThreadInv'
  BY <1>10, <1>a, <1>c DEF logVars, ThreadInv
<1>11. ASSUME NEW a \in AgentIds, ClearInvoked(a)
       PROVE  StoresOK' /\ Rest' /\ ThreadInv'
  BY <1>11, <1>10, <1>a, ClearStores DEF ClearInvoked, Event, DoClear
<1>12. ASSUME NEW a \in AgentIds, NEW s \in LiveStatuses, ProposeClaim(a, s)
       PROVE  StoresOK' /\ Rest' /\ ThreadInv'
  BY <1>12, <1>10, <1>a, ProposeStores DEF ProposeClaim, Event, DoPropose
<1>13. ASSUME NEW a \in AgentIds, NEW s \in ReportedStates, ChangeState(a, s)
       PROVE  StoresOK' /\ Rest' /\ ThreadInv'
  BY <1>13, <1>10, <1>a, SetStateStores DEF ChangeState, Event, DoSetState
<1>14. ASSUME NEW a \in AgentIds, NEW f \in Files, TouchFile(a, f)
       PROVE  StoresOK' /\ Rest' /\ ThreadInv'
  BY <1>14, <1>10, <1>a, TouchStores DEF TouchFile, Event, DoTouch
<1>15. ASSUME NEW c \in ClaimIds, ReleaseClaim(c)
       PROVE  StoresOK' /\ Rest' /\ ThreadInv'
  <2>1. "RELEASED" \in ClaimStatuses /\ Never \in Nat
    BY DEF ClaimStatuses, Never
  <2>. QED
    BY <1>15, <1>10, <1>a, <2>1, MarkStores DEF ReleaseClaim, Event, DoRelease
<1>16. CASE ReaperWake
  BY <1>16, <1>a, <1>c, <1>e DEF ReaperWake, registryVars, logVars, ThreadInv,
     ReaperPlaces
<1>17. CASE ReaperReap
  <2> DEFINE lost == {a \in Agents : Silent(a, reaper.at)}
  <2>1. DoRemove(lost) /\ lost \subseteq 1 .. nextAgent - 1
    BY <1>17, <1>a DEF ReaperReap, TypeOK
  <2>2. StoresOK' /\ nextAgent' = nextAgent
    BY <2>1, <1>a, RemoveStores DEF DoRemove
  <2>. QED
    BY <1>17, <1>a, <1>c, <2>1, <2>2 DEF ReaperReap, logVars, ThreadInv, ReaperPlaces
<1>18. CASE ReaperOrphan
  <2>1. "ORPHANED" \in ClaimStatuses /\ reaper.at \in Nat
    BY <1>c DEF ClaimStatuses
  <2>2. StoresOK' /\ nextAgent' = nextAgent
    BY <1>18, <1>a, <2>1, MarkStores DEF ReaperOrphan, DoOrphan
  <2>. QED
    BY <1>18, <1>a, <1>c, <2>2 DEF ReaperOrphan, logVars, ThreadInv, ReaperPlaces
<1>19. CASE ReaperSweep
  <2>1. StoresOK' /\ nextAgent' = nextAgent
    BY <1>19, <1>a, SweepStores DEF ReaperSweep, DoSweep
  <2>. QED
    BY <1>19, <1>a, <1>c, <2>1 DEF ReaperSweep, logVars, ThreadInv, ReaperPlaces
<1>20. CASE ReaperLog
  BY <1>20, <1>a, <1>c, <1>e DEF ReaperLog, registryVars, ThreadInv, ReaperPlaces
<1>21. CASE Tick
  BY <1>21, <1>a, <1>c, <1>e DEF Tick, registryVars, logVars, ThreadInv
<1>22. CASE UNCHANGED vars
  BY <1>22, <1>a, <1>c, <1>e DEF vars, registryVars, logVars, ThreadInv
<1>. QED
  BY <1>1, <1>2, <1>3, <1>4, <1>5, <1>6, <1>7, <1>8, <1>9, <1>11, <1>12, <1>13,
     <1>14, <1>15, <1>16, <1>17, <1>18, <1>19, <1>20, <1>21, <1>22
  DEF Next, ConnNext, RequestNext, ReaperNext

\* The registry's state has the shape its type invariant states, whatever the
\* number of agents and claims, the timeouts and the reported states.
THEOREM TypeCorrect == Spec => []TypeOK
<1>1. TypeInv => TypeOK
  BY DEF TypeInv
<1>. QED
  BY <1>1, InitTypes, NextTypes, PTL DEF Spec

-----------------------------------------------------------------------------
(* What a step does to agents, lists and claims                            *)

SameAgents == Agents' = Agents /\ nextAgent' = nextAgent
SameLists  == /\ Leaving' = Leaving
              /\ left' = left
              /\ lostLogged' = lostLogged
              /\ reaper'.lost = reaper.lost
SameReaper == reaper'.pc = reaper.pc \/ reaper.lost = {}
SameClaims == /\ DOMAIN claims' = DOMAIN claims
              /\ \A c \in DOMAIN claims : /\ claims'[c].owner = claims[c].owner
                                          /\ claims'[c].status = claims[c].status

QuietEffect    == SameAgents /\ SameLists /\ SameReaper /\ SameClaims
JoinEffect     == /\ Agents' = Agents \cup {nextAgent} /\ nextAgent' = nextAgent + 1
                  /\ SameLists /\ SameReaper /\ SameClaims
ProposeEffect(a, s) == DoPropose(a, s) /\ SameAgents /\ SameLists /\ SameReaper
ReleaseEffect(S)    == /\ S \subseteq {c \in DOMAIN claims : Live(c)}
                       /\ Mark(S, "RELEASED", Never)
                       /\ UNCHANGED nextClaim
                       /\ SameAgents /\ SameLists /\ SameReaper
LeaveEffect    == /\ Leaving = {} /\ Leaving' \subseteq Agents
                  /\ Agents' = Agents \ Leaving'
                  /\ UNCHANGED <<nextAgent, left, lostLogged, reaper>>
                  /\ SameClaims
LogLeftEffect  == /\ Leaving' = {} /\ left' = left \cup Leaving
                  /\ UNCHANGED <<lostLogged, reaper>>
                  /\ SameAgents /\ SameClaims
ReapEffect     == /\ reaper.lost = {} /\ reaper'.lost \subseteq Agents
                  /\ Agents' = Agents \ reaper'.lost
                  /\ reaper'.lost # {} => reaper'.pc = "orphan"
                  /\ Leaving' = Leaving
                  /\ UNCHANGED <<nextAgent, left, lostLogged>>
                  /\ SameClaims
OrphanEffect   == /\ reaper.pc = "orphan"
                  /\ DoOrphan(reaper.lost, reaper.at)
                  /\ SameAgents /\ SameLists
SweepEffect    == /\ reaper.pc = "sweep"
                  /\ DoSweep(reaper.at)
                  /\ SameAgents /\ SameLists
LogLostEffect  == /\ reaper.pc = "log" /\ reaper'.lost = {}
                  /\ lostLogged' = lostLogged \cup reaper.lost
                  /\ Leaving' = Leaving /\ left' = left
                  /\ SameAgents /\ SameClaims

Effect ==
  \/ QuietEffect \/ JoinEffect \/ LeaveEffect \/ LogLeftEffect
  \/ \E a \in AgentIds, s \in LiveStatuses : ProposeEffect(a, s)
  \/ \E S \in SUBSET DOMAIN claims : ReleaseEffect(S)
  \/ ReapEffect \/ OrphanEffect \/ SweepEffect \/ LogLostEffect

\* Every step has one of these effects.
LEMMA StepEffect == TypeInv /\ [Next]_vars => Effect
<1> SUFFICES ASSUME TypeInv, [Next]_vars PROVE Effect
  OBVIOUS
<1>a. TypeOK /\ ThreadInv
  BY DEF TypeInv
<1> DEFINE SameThreads == UNCHANGED <<conn, reaper, logVars>>
<1>b. ASSUME SameThreads PROVE SameLists /\ SameReaper
  BY <1>b DEF SameLists, SameReaper, Leaving, logVars
<1>c. ASSUME UNCHANGED registryVars PROVE SameAgents /\ SameClaims
  BY <1>c DEF SameAgents, SameClaims, registryVars, Agents
<1>1. CASE ReceiveRegister
  BY <1>1, <1>c DEF ReceiveRegister, ConnIdle, SameLists, SameReaper, Leaving, logVars,
     registryVars, Effect, QuietEffect
<1>2. CASE RegisterCount
  BY <1>2, <1>a, <1>c DEF RegisterCount, SameLists, SameReaper, Leaving, logVars,
     registryVars, Effect, QuietEffect, Idle, TypeOK
<1>3. CASE RegisterInsert
  <2>1. SameLists /\ SameReaper
    BY <1>3 DEF RegisterInsert, SameLists, SameReaper, Leaving, logVars
  <2>2. Agents' = Agents \cup {nextAgent} /\ nextAgent' = nextAgent + 1 /\ SameClaims
    BY <1>3 DEF RegisterInsert, DoRegister, Agents, SameClaims
  <2>. QED
    BY <2>1, <2>2 DEF Effect, JoinEffect
<1>4. CASE RegisterSeen
  BY <1>4, <1>a, <1>c DEF RegisterSeen, Goes, SameLists, SameReaper, Leaving, logVars,
     registryVars, Effect, QuietEffect, TypeOK
<1>5. CASE RegisterLog
  BY <1>5, <1>c DEF RegisterLog, SameLists, SameReaper, Leaving, registryVars,
     Effect, QuietEffect, Idle
<1>6. CASE ApplyHeartbeat
  <2>1. SameLists /\ SameReaper
    BY <1>6 DEF ApplyHeartbeat, SameLists, SameReaper, Leaving, logVars, Idle
  <2>2. SameAgents /\ SameClaims
    BY <1>6, <1>a DEF ApplyHeartbeat, DoHeartbeat, SameAgents, SameClaims, Agents, TypeOK
  <2>. QED
    BY <2>1, <2>2 DEF Effect, QuietEffect
<1>7. CASE Disconnect
  <2>1. CASE Registered(thisAgent)
    BY <1>7, <2>1 DEF Disconnect, DoRemove, Restrict, Registered, ConnIdle, Leaving,
       logVars, SameClaims, Agents, Effect, LeaveEffect
  <2>2. CASE ~ Registered(thisAgent)
    BY <1>7, <2>2 DEF Disconnect, DoRemove, Restrict, Registered, ConnIdle, Leaving,
       logVars, SameClaims, Agents, Effect, LeaveEffect, Idle
  <2>. QED
    BY <2>1, <2>2
<1>8. CASE LogLeft
  BY <1>8, <1>c DEF LogLeft, Leaving, Idle, registryVars, Effect, LogLeftEffect
<1>9. ASSUME NEW a \in AgentIds, ReceiveHeartbeat(a) PROVE Effect
  BY <1>9, <1>c DEF ReceiveHeartbeat, ConnIdle, SameLists, SameReaper, Leaving, logVars,
     registryVars, Effect, QuietEffect
<1>10. ASSUME NEW a \in AgentIds, ClearInvoked(a) PROVE Effect
  <2>1. SameAgents
    BY <1>10, <1>a DEF ClearInvoked, Event, DoClear, SameAgents, Agents, TypeOK
  <2>2. ReleaseEffect(LiveOf(a)) /\ LiveOf(a) \in SUBSET DOMAIN claims
    BY <1>10, <1>b, <2>1 DEF ClearInvoked, Event, DoClear, ReleaseEffect, LiveOf, OwnedBy
  <2>. QED
    BY <2>2 DEF Effect
<1>11. ASSUME NEW a \in AgentIds, NEW s \in LiveStatuses, ProposeClaim(a, s) PROVE Effect
  <2>1. SameAgents
    BY <1>11, <1>a
       DEF ProposeClaim, Event, DoPropose, Promote, Registered, SameAgents, Agents, TypeOK
  <2>. QED
    BY <1>11, <1>b, <2>1 DEF ProposeClaim, Event, ProposeEffect, Effect
<1>12. ASSUME NEW a \in AgentIds, NEW s \in ReportedStates, ChangeState(a, s) PROVE Effect
  <2>1. SameAgents /\ SameClaims
    BY <1>12, <1>a DEF ChangeState, Event, DoSetState, SameAgents, SameClaims, Agents, TypeOK
  <2>. QED
    BY <1>12, <1>b, <2>1 DEF ChangeState, Event, Effect, QuietEffect
<1>13. ASSUME NEW a \in AgentIds, NEW f \in Files, TouchFile(a, f) PROVE Effect
  <2>1. SameAgents /\ SameClaims
    BY <1>13, <1>a, TouchFacts DEF TouchFile, Event, DoTouch, SameAgents, SameClaims, Agents
  <2>. QED
    BY <1>13, <1>b, <2>1 DEF TouchFile, Event, Effect, QuietEffect
<1>14. ASSUME NEW c \in ClaimIds, ReleaseClaim(c) PROVE Effect
  <2>1. ReleaseEffect({c}) /\ {c} \in SUBSET DOMAIN claims
    BY <1>14, <1>b DEF ReleaseClaim, Event, DoRelease, ReleaseEffect, SameAgents, Agents
  <2>. QED
    BY <2>1 DEF Effect
<1>15. CASE ReaperWake
  BY <1>15, <1>a, <1>c DEF ReaperWake, SameLists, SameReaper, Leaving, logVars,
     registryVars, ThreadInv, Effect, QuietEffect
<1>16. CASE ReaperReap
  <2> DEFINE lost == {a \in Agents : Silent(a, reaper.at)}
  <2>1. DoRemove(lost) /\ reaper'.lost = lost /\ (lost # {} => reaper'.pc = "orphan")
        /\ reaper.lost = {} /\ UNCHANGED <<conn, left, lostLogged>>
    BY <1>16, <1>a DEF ReaperReap, logVars, ThreadInv
  <2>2. lost \subseteq Agents
    OBVIOUS
  <2> HIDE DEF lost
  <2>. QED
    BY <2>1, <2>2 DEF DoRemove, Restrict, Leaving, SameClaims, Agents, Effect, ReapEffect
<1>17. CASE ReaperOrphan
  BY <1>17, <1>a DEF ReaperOrphan, DoOrphan, SameLists, Leaving, logVars, SameAgents,
     Agents, Effect, OrphanEffect, TypeOK
<1>18. CASE ReaperSweep
  BY <1>18, <1>a DEF ReaperSweep, DoSweep, SameLists, Leaving, logVars, SameAgents,
     Agents, Effect, SweepEffect, TypeOK
<1>19. CASE ReaperLog
  BY <1>19, <1>c DEF ReaperLog, Leaving, registryVars, Effect, LogLostEffect
<1>20. CASE Tick
  BY <1>20, <1>b, <1>c DEF Tick, registryVars, logVars, Effect, QuietEffect
<1>21. CASE UNCHANGED vars
  BY <1>21, <1>b, <1>c DEF vars, registryVars, logVars, Effect, QuietEffect
<1>. QED
  BY <1>1, <1>2, <1>3, <1>4, <1>5, <1>6, <1>7, <1>8, <1>9, <1>10, <1>11, <1>12, <1>13,
     <1>14, <1>15, <1>16, <1>17, <1>18, <1>19, <1>20, <1>21
  DEF Next, ConnNext, RequestNext, ReaperNext

-----------------------------------------------------------------------------
(* Every agent is in exactly one place                                     *)

LEMMA NextAccounted ==
  TypeInv /\ EveryAgentAccounted /\ [Next]_vars => EveryAgentAccounted'
<1> SUFFICES ASSUME TypeInv, EveryAgentAccounted, Effect PROVE EveryAgentAccounted'
  BY StepEffect
<1>a. TypeOK /\ nextAgent \in Nat \ {0}
  BY NextAgentIsId DEF TypeInv
<1>1. CASE QuietEffect
  BY <1>1 DEF QuietEffect, SameAgents, SameLists, EveryAgentAccounted
<1>2. CASE JoinEffect
  <2>1. 1 .. nextAgent' - 1 = (1 .. nextAgent - 1) \cup {nextAgent}
        /\ nextAgent \notin 1 .. nextAgent - 1
    BY <1>2, <1>a DEF JoinEffect
  <2>. QED
    BY <1>2, <2>1 DEF JoinEffect, SameLists, EveryAgentAccounted
<1>3. CASE LeaveEffect
  BY <1>3 DEF LeaveEffect, EveryAgentAccounted
<1>4. CASE LogLeftEffect
  BY <1>4 DEF LogLeftEffect, SameAgents, EveryAgentAccounted
<1>5. CASE ReapEffect
  BY <1>5 DEF ReapEffect, EveryAgentAccounted
<1>6. CASE LogLostEffect
  BY <1>6 DEF LogLostEffect, SameAgents, EveryAgentAccounted
<1>7. ASSUME SameAgents, SameLists PROVE EveryAgentAccounted'
  BY <1>7 DEF SameAgents, SameLists, EveryAgentAccounted
<1>. QED
  BY <1>1, <1>2, <1>3, <1>4, <1>5, <1>6, <1>7
  DEF Effect, ProposeEffect, ReleaseEffect, OrphanEffect, SweepEffect

\* No agent is forgotten, and none is both LEFT and LOST.
THEOREM AgentsAccounted == Spec => []EveryAgentAccounted
<1>1. Init => EveryAgentAccounted
  BY DEF Init, EveryAgentAccounted, Leaving, Agents, Idle
<1>. QED
  BY <1>1, InitTypes, NextTypes, NextAccounted, PTL DEF Spec

-----------------------------------------------------------------------------
(* Tombstones and their owners                                             *)

ClaimInv == TombstoneOwnerIsLost /\ LostAgentsHoldNothing

\* The reaper's list is still in use only where it is read.
LEMMA NextClaims ==
  TypeInv /\ EveryAgentAccounted /\ ClaimInv /\ [Next]_vars => ClaimInv'
<1> SUFFICES ASSUME TypeInv, EveryAgentAccounted, ClaimInv, [Next]_vars PROVE ClaimInv'
  OBVIOUS
<1>a. TypeOK /\ Effect
  BY StepEffect DEF TypeInv
<1>b. \A a \in Agents : a \notin reaper.lost \cup lostLogged
  BY DEF EveryAgentAccounted
<1>c. \A a \in reaper.lost \cup lostLogged : a # nextAgent
  BY <1>a, RegistryAssumption DEF TypeOK
<1>d. DOMAIN claims = 1 .. nextClaim - 1
  BY <1>a DEF TypeOK
<1>e. TombstoneOwnerIsLost /\ LostAgentsHoldNothing
  BY DEF ClaimInv
<1>1. CASE QuietEffect
  BY <1>1, <1>e DEF QuietEffect, SameAgents, SameLists, SameReaper, SameClaims, ClaimInv,
     TombstoneOwnerIsLost, LostAgentsHoldNothing, Live
<1>2. CASE JoinEffect
  BY <1>2, <1>c, <1>e DEF JoinEffect, SameLists, SameReaper, SameClaims, ClaimInv,
     TombstoneOwnerIsLost, LostAgentsHoldNothing, Live
<1>3. CASE LeaveEffect
  BY <1>3, <1>e DEF LeaveEffect, SameClaims, ClaimInv,
     TombstoneOwnerIsLost, LostAgentsHoldNothing, Live
<1>4. CASE LogLeftEffect
  BY <1>4, <1>e DEF LogLeftEffect, SameAgents, SameClaims, ClaimInv,
     TombstoneOwnerIsLost, LostAgentsHoldNothing, Live
<1>5. CASE ReapEffect
  BY <1>5, <1>e DEF ReapEffect, SameClaims, ClaimInv,
     TombstoneOwnerIsLost, LostAgentsHoldNothing, Live
<1>6. CASE LogLostEffect
  BY <1>6, <1>e DEF LogLostEffect, SameAgents, SameClaims, ClaimInv,
     TombstoneOwnerIsLost, LostAgentsHoldNothing, Live
<1>7. ASSUME NEW a \in AgentIds, NEW s \in LiveStatuses, ProposeEffect(a, s)
      PROVE  ClaimInv'
  <2>1. a \in Agents
    BY <1>7 DEF ProposeEffect, DoPropose, Registered
  <2>2. /\ DOMAIN claims' = DOMAIN claims \cup {nextClaim}
        /\ \A c \in DOMAIN claims : claims'[c] = claims[c]
        /\ claims'[nextClaim].owner = a
        /\ claims'[nextClaim].status = s
    <3>1. TypeOK /\ DoPropose(a, s)
      BY <1>7, <1>a DEF ProposeEffect
    <3>2. DOMAIN claims' = DOMAIN claims \cup {nextClaim}
      BY <3>1, ProposeFacts
    <3>3. \A c \in DOMAIN claims : claims'[c] = claims[c]
      BY <3>1, ProposeFacts
    <3>4. claims'[nextClaim] = [owner |-> a, status |-> s, files |-> {},
                                orphanedAt |-> Never]
      BY <3>1, ProposeFacts
    <3>. QED
      BY <3>2, <3>3, <3>4
  <2>3. s \notin {"ORPHANED", "RECLAIMABLE"}
    BY DEF LiveStatuses
  <2>. QED
    BY <1>7, <1>b, <1>e, <2>1, <2>2, <2>3 DEF ProposeEffect, SameAgents, SameLists,
       SameReaper, ClaimInv, TombstoneOwnerIsLost, LostAgentsHoldNothing, Live
<1>8. ASSUME NEW S \in SUBSET DOMAIN claims, ReleaseEffect(S) PROVE ClaimInv'
  <2>1. "RELEASED" \in ClaimStatuses /\ Never \in Nat /\ "RELEASED" \notin LiveStatuses
    BY DEF ClaimStatuses, Never, LiveStatuses
  <2>2. /\ DOMAIN claims' = DOMAIN claims
        /\ \A c \in DOMAIN claims : claims'[c].owner = claims[c].owner
        /\ \A c \in DOMAIN claims : claims'[c].status \in {claims[c].status, "RELEASED"}
    <3>1. TypeOK /\ Mark(S, "RELEASED", Never)
      BY <1>8, <1>a DEF ReleaseEffect
    <3>2. DOMAIN claims' = DOMAIN claims
      BY <3>1, <2>1, MarkFacts
    <3>3. \A c \in DOMAIN claims : claims'[c].owner = claims[c].owner
      BY <3>1, <2>1, MarkFacts
    <3>4. \A c \in DOMAIN claims :
            claims'[c].status = IF c \in S THEN "RELEASED" ELSE claims[c].status
      BY <3>1, <2>1, MarkFacts, ZenonT(30)
    <3>. QED
      BY <3>2, <3>3, <3>4
  <2>. QED
    BY <1>8, <1>e, <2>1, <2>2 DEF ReleaseEffect, SameAgents, SameLists, SameReaper,
       ClaimInv, TombstoneOwnerIsLost, LostAgentsHoldNothing, Live
<1>9. CASE OrphanEffect
  <2> DEFINE S == UNION {LiveOf(a) : a \in reaper.lost}
  <2>1. "ORPHANED" \in ClaimStatuses /\ reaper.at \in Nat /\ "ORPHANED" \notin LiveStatuses
    BY <1>a DEF ClaimStatuses, LiveStatuses, TypeOK
  <2>2. Mark(S, "ORPHANED", reaper.at)
    BY <1>9 DEF OrphanEffect, DoOrphan
  <2>3. \A c \in DOMAIN claims : c \in S <=> Live(c) /\ claims[c].owner \in reaper.lost
    BY DEF LiveOf, OwnedBy
  <2> HIDE DEF S
  <2>4. /\ DOMAIN claims' = DOMAIN claims
        /\ \A c \in DOMAIN claims : claims'[c].owner = claims[c].owner
        /\ \A c \in DOMAIN claims : c \in S => claims'[c].status = "ORPHANED"
        /\ \A c \in DOMAIN claims : c \notin S => claims'[c].status = claims[c].status
    <3>1. TypeOK
      BY <1>a
    <3>2. DOMAIN claims' = DOMAIN claims
      BY <3>1, <2>1, <2>2, MarkFacts
    <3>3. \A c \in DOMAIN claims : claims'[c].owner = claims[c].owner
      BY <3>1, <2>1, <2>2, MarkFacts
    <3>4. \A c \in DOMAIN claims : c \in S => claims'[c].status = "ORPHANED"
      BY <3>1, <2>1, <2>2, MarkFacts
    <3>5. \A c \in DOMAIN claims : c \notin S => claims'[c].status = claims[c].status
      BY <3>1, <2>1, <2>2, MarkFacts
    <3>. QED
      BY <3>2, <3>3, <3>4, <3>5
  <2>5. TombstoneOwnerIsLost'
    <3>1. \A x \in reaper.lost : x \notin Agents
      BY <1>b
    <3>. QED
      BY <1>9, <1>e, <2>3, <2>4, <3>1 DEF OrphanEffect, SameAgents, SameLists,
         TombstoneOwnerIsLost
  <2>6. \A c \in DOMAIN claims' :
          Live(c)' => claims'[c].owner \notin lostLogged' \cup reaper'.lost
    BY <1>9, <1>e, <2>1, <2>3, <2>4 DEF OrphanEffect, SameLists, LostAgentsHoldNothing, Live
  <2>. QED
    BY <2>5, <2>6 DEF ClaimInv, LostAgentsHoldNothing
<1>10. CASE SweepEffect
  <2>1. /\ DOMAIN claims' = DOMAIN claims
        /\ \A c \in DOMAIN claims :
             /\ claims'[c].owner = claims[c].owner
             /\ \/ claims'[c].status = claims[c].status
                \/ claims[c].status = "ORPHANED" /\ claims'[c].status = "RECLAIMABLE"
    BY <1>10, <1>a, SweepFacts DEF SweepEffect, Expired
  <2>2. "RECLAIMABLE" \notin LiveStatuses
    BY DEF LiveStatuses
  <2>. QED
    BY <1>10, <1>e, <2>1, <2>2 DEF SweepEffect, SameAgents, SameLists, ClaimInv,
       TombstoneOwnerIsLost, LostAgentsHoldNothing, Live
<1>. QED
  BY <1>a, <1>1, <1>2, <1>3, <1>4, <1>5, <1>6, <1>7, <1>8, <1>9, <1>10 DEF Effect

LEMMA InitClaims == Init => ClaimInv
BY DEF Init, ClaimInv, TombstoneOwnerIsLost, LostAgentsHoldNothing

\* ORPHANED and RECLAIMABLE are said only of agents the reaper has removed.
THEOREM TombstonesAreOfLostAgents == Spec => []TombstoneOwnerIsLost
<1>1. Init => EveryAgentAccounted
  BY DEF Init, EveryAgentAccounted, Leaving, Agents, Idle
<1>2. ClaimInv => TombstoneOwnerIsLost
  BY DEF ClaimInv
<1>. QED
  BY <1>1, <1>2, InitTypes, InitClaims, NextTypes, NextAccounted, NextClaims, PTL DEF Spec

\* A reaped agent never holds a live claim again, however late its requests.
THEOREM LostAgentsOwnNothing == Spec => []LostAgentsHoldNothing
<1>1. Init => EveryAgentAccounted
  BY DEF Init, EveryAgentAccounted, Leaving, Agents, Idle
<1>2. ClaimInv => LostAgentsHoldNothing
  BY DEF ClaimInv
<1>. QED
  BY <1>1, <1>2, InitTypes, InitClaims, NextTypes, NextAccounted, NextClaims, PTL DEF Spec

-----------------------------------------------------------------------------
(* DISCOVERY and ACTIVE claims                                             *)

\* The invariant survives a step that puts no agent into DISCOVERY and makes
\* no claim ACTIVE.
LEMMA DiscoveryKept ==
  ASSUME DiscoveryHoldsNoActiveClaim,
         \A a \in Agents' : a \in Agents /\ (agents'[a].state = "DISCOVERY" =>
                                             agents[a].state = "DISCOVERY"),
         \A c \in DOMAIN claims' :
           claims'[c].status = "ACTIVE" =>
             /\ c \in DOMAIN claims
             /\ claims[c].status = "ACTIVE" /\ claims[c].owner = claims'[c].owner
  PROVE  DiscoveryHoldsNoActiveClaim'
BY DEF DiscoveryHoldsNoActiveClaim

\* An agent record after the replacement of its state or clock.
LEMMA AgentStateFacts ==
  ASSUME NEW r \in AgentRecords
  PROVE  /\ \A t : [r EXCEPT !.seen = t].state = r.state
         /\ \A x : [r EXCEPT !.state = x].state = x
BY DEF AgentRecords

LEMMA NextDiscovery ==
  TypeInv /\ DiscoveryHoldsNoActiveClaim /\ [Next]_vars => DiscoveryHoldsNoActiveClaim'
<1> SUFFICES ASSUME TypeInv, DiscoveryHoldsNoActiveClaim, [Next]_vars
             PROVE  DiscoveryHoldsNoActiveClaim'
  OBVIOUS
<1>a. TypeOK /\ ThreadInv /\ nextAgent \in Nat
  BY NextAgentIsId DEF TypeInv
<1>b. /\ agents \in [Agents -> AgentRecords]
      /\ claims \in [1 .. nextClaim - 1 -> ClaimRecords(1 .. nextAgent - 1)]
  BY <1>a DEF TypeOK
<1>c. DOMAIN claims = 1 .. nextClaim - 1
  BY <1>b
<1>d. \A c \in DOMAIN claims : claims[c].owner \in 1 .. nextAgent - 1
  BY <1>b, <1>c DEF ClaimRecords
<1>1. ASSUME UNCHANGED registryVars PROVE DiscoveryHoldsNoActiveClaim'
  BY <1>1 DEF registryVars, Agents, DiscoveryHoldsNoActiveClaim
<1>2. CASE RegisterInsert
  <2>1. nextAgent \notin 1 .. nextAgent - 1
    BY <1>a
  <2>2. \A c \in DOMAIN claims : claims[c].owner # nextAgent
    BY <1>d, <2>1
  <2>3. claims' = claims /\ Agents' = Agents \cup {nextAgent}
        /\ \A a \in Agents : a # nextAgent => agents'[a] = agents[a]
    BY <1>2 DEF RegisterInsert, DoRegister, Agents
  <2>. QED
    BY <2>2, <2>3 DEF DiscoveryHoldsNoActiveClaim
<1>3. CASE ApplyHeartbeat
  <2>1. claims' = claims /\ Agents' = Agents
        /\ \A a \in Agents : \/ agents'[a] = agents[a]
                             \/ agents'[a] = [agents[a] EXCEPT !.seen = conn.at]
    BY <1>3, <1>b DEF ApplyHeartbeat, DoHeartbeat, Registered, Agents
  <2>2. ASSUME NEW a \in Agents PROVE agents'[a].state = agents[a].state
    <3>1. agents[a] \in AgentRecords
      BY <1>b DEF Agents
    <3>2. [agents[a] EXCEPT !.seen = conn.at].state = agents[a].state
      BY <3>1, AgentStateFacts
    <3>. QED
      BY <2>1, <3>2
  <2>. QED
    BY <2>1, <2>2, DiscoveryKept
<1>4. ASSUME NEW S, DoRemove(S) PROVE DiscoveryHoldsNoActiveClaim'
  <2>1. claims' = claims /\ Agents' \subseteq Agents
        /\ \A a \in Agents' : agents'[a] = agents[a]
    BY <1>4 DEF DoRemove, Restrict, Agents
  <2>. QED
    BY <2>1, DiscoveryKept
<1>5. ASSUME NEW a \in AgentIds, ClearInvoked(a) PROVE DiscoveryHoldsNoActiveClaim'
  <2>1. "RELEASED" \in ClaimStatuses /\ Never \in Nat
    BY DEF ClaimStatuses, Never
  <2>2. a \in Agents /\ Mark(LiveOf(a), "RELEASED", Never)
    BY <1>5 DEF ClearInvoked, Event, DoClear, Registered
  <2>3. DOMAIN claims' = DOMAIN claims
    BY <1>a, <2>1, <2>2, MarkFacts
  <2>4. \A c \in DOMAIN claims : claims'[c].owner = claims[c].owner
    BY <1>a, <2>1, <2>2, MarkFacts
  <2>5. \A c \in DOMAIN claims : c \in LiveOf(a) => claims'[c].status = "RELEASED"
    BY <1>a, <2>1, <2>2, MarkFacts, ZenonT(30)
  <2>6. \A c \in DOMAIN claims : c \notin LiveOf(a) => claims'[c].status = claims[c].status
    BY <1>a, <2>1, <2>2, MarkFacts
  <2>7. Agents' = Agents /\ \A b \in Agents : b # a => agents'[b] = agents[b]
    BY <1>5, <1>b DEF ClearInvoked, Event, DoClear, Agents
  <2>8. SUFFICES ASSUME NEW c \in DOMAIN claims', claims'[c].status = "ACTIVE",
                        claims'[c].owner \in Agents'
                 PROVE  agents'[claims'[c].owner].state # "DISCOVERY"
    BY DEF DiscoveryHoldsNoActiveClaim
  <2>9. c \notin LiveOf(a) /\ claims[c].status = "ACTIVE"
    BY <2>3, <2>5, <2>6, <2>8
  <2>10. claims[c].owner # a
    BY <2>3, <2>8, <2>9 DEF LiveOf, OwnedBy, Live, LiveStatuses
  <2>. QED
    BY <2>3, <2>4, <2>7, <2>8, <2>9, <2>10 DEF DiscoveryHoldsNoActiveClaim
<1>6. ASSUME NEW a \in AgentIds, NEW s \in LiveStatuses, ProposeClaim(a, s)
      PROVE  DiscoveryHoldsNoActiveClaim'
  <2>1. TypeOK /\ DoPropose(a, s) /\ a \in Agents
    BY <1>6, <1>a DEF ProposeClaim, Event, DoPropose, Registered
  <2>2. DOMAIN claims' = DOMAIN claims \cup {nextClaim}
    BY <2>1, ProposeFacts
  <2>3. \A c \in DOMAIN claims : claims'[c] = claims[c]
    BY <2>1, ProposeFacts
  <2>4. claims'[nextClaim] = [owner |-> a, status |-> s, files |-> {}, orphanedAt |-> Never]
    BY <2>1, ProposeFacts
  <2>5. Agents' = Agents /\ \A b \in Agents : b # a => agents'[b] = agents[b]
    BY <2>1, <1>b
       DEF DoPropose, StoreClaim, NewClaim, Promote, Registered, Agents
  <2>6. agents'[a].state = agents[a].state \/ agents'[a].state = "ACTIVE"
    BY <2>1, <1>b, AgentStateFacts
       DEF DoPropose, StoreClaim, NewClaim, Promote, Registered
  <2>7. s = "ACTIVE" => agents'[a].state # "DISCOVERY"
    <3>1. CASE agents[a].state = "DISCOVERY" /\ s = "ACTIVE"
      <4>1. agents'[a] = [agents[a] EXCEPT !.state = "ACTIVE"]
        BY <2>1, <1>b, <3>1
           DEF DoPropose, StoreClaim, NewClaim, Promote, Registered
      <4>. QED
        BY <4>1, <2>1, <1>b, AgentStateFacts
    <3>2. CASE agents[a].state # "DISCOVERY"
      BY <2>6, <3>2
    <3>. QED
      BY <3>1, <3>2
  <2>8. SUFFICES ASSUME NEW c \in DOMAIN claims', claims'[c].status = "ACTIVE",
                        claims'[c].owner \in Agents'
                 PROVE  agents'[claims'[c].owner].state # "DISCOVERY"
    BY DEF DiscoveryHoldsNoActiveClaim
  <2>9. CASE c = nextClaim
    BY <2>4, <2>7, <2>8, <2>9
  <2>10. CASE c \in DOMAIN claims
    BY <2>3, <2>5, <2>6, <2>8, <2>10 DEF DiscoveryHoldsNoActiveClaim
  <2>. QED
    BY <2>2, <2>8, <2>9, <2>10
<1>7. ASSUME NEW a \in AgentIds, NEW s \in ReportedStates, ChangeState(a, s)
      PROVE  DiscoveryHoldsNoActiveClaim'
  <2>1. a \in Agents /\ CanTransition(agents[a].state, s) /\ claims' = claims
        /\ agents' = [agents EXCEPT ![a].state = s] /\ Agents' = Agents
    BY <1>7 DEF ChangeState, Event, DoSetState, Registered, Agents
  <2>2. s = "DISCOVERY" => agents[a].state = "DISCOVERY"
    BY <2>1 DEF CanTransition
  <2>3. \A b \in Agents : b # a => agents'[b] = agents[b]
    BY <2>1, <1>b
  <2>4. agents'[a] = [agents[a] EXCEPT !.state = s]
    BY <2>1, <1>b
  <2>5. agents'[a].state = s
    BY <2>1, <2>4, <1>b, AgentStateFacts
  <2>. QED
    BY <2>1, <2>2, <2>3, <2>5, DiscoveryKept
<1>8. ASSUME Agents' = Agents, agents' = agents, DOMAIN claims' = DOMAIN claims,
             \A c \in DOMAIN claims : claims'[c].owner = claims[c].owner,
             \A c \in DOMAIN claims :
               claims'[c].status = "ACTIVE" => claims[c].status = "ACTIVE"
      PROVE  DiscoveryHoldsNoActiveClaim'
  BY <1>8 DEF DiscoveryHoldsNoActiveClaim
<1>9. ASSUME NEW a \in AgentIds, NEW f \in Files, TouchFile(a, f)
      PROVE  DiscoveryHoldsNoActiveClaim'
  <2>1. TypeOK /\ DoTouch(a, {f}) /\ agents' = agents /\ Agents' = Agents
    BY <1>9, <1>a DEF TouchFile, Event, DoTouch, Agents
  <2>2. DOMAIN claims' = DOMAIN claims
    BY <2>1, TouchFacts
  <2>3. \A c \in DOMAIN claims : claims'[c].owner = claims[c].owner
    BY <2>1, TouchFacts
  <2>4. \A c \in DOMAIN claims : claims'[c].status = claims[c].status
    BY <2>1, TouchFacts
  <2>. QED
    BY <1>8, <2>1, <2>2, <2>3, <2>4
<1>10. ASSUME NEW S, NEW s \in ClaimStatuses, NEW t \in Nat, Mark(S, s, t), s # "ACTIVE",
              agents' = agents
       PROVE  DiscoveryHoldsNoActiveClaim'
  <2>1. DOMAIN claims' = DOMAIN claims
    BY <1>a, <1>10, MarkFacts
  <2>2. \A c \in DOMAIN claims : claims'[c].owner = claims[c].owner
    BY <1>a, <1>10, MarkFacts
  <2>3. \A c \in DOMAIN claims : c \in S => claims'[c].status = s
    BY <1>a, <1>10, MarkFacts
  <2>4. \A c \in DOMAIN claims : c \notin S => claims'[c].status = claims[c].status
    BY <1>a, <1>10, MarkFacts
  <2>. QED
    BY <1>8, <1>10, <2>1, <2>2, <2>3, <2>4 DEF Agents
<1>11. ASSUME NEW c \in ClaimIds, ReleaseClaim(c) PROVE DiscoveryHoldsNoActiveClaim'
  <2>1. "RELEASED" \in ClaimStatuses /\ Never \in Nat
    BY DEF ClaimStatuses, Never
  <2>. QED
    BY <1>10, <1>11, <2>1 DEF ReleaseClaim, Event, DoRelease
<1>12. CASE ReaperOrphan
  <2>1. "ORPHANED" \in ClaimStatuses /\ reaper.at \in Nat
    BY <1>a DEF ClaimStatuses, TypeOK
  <2>. QED
    BY <1>10, <1>12, <2>1 DEF ReaperOrphan, DoOrphan
<1>13. CASE ReaperSweep
  <2>1. TypeOK /\ DoSweep(reaper.at) /\ agents' = agents /\ Agents' = Agents
    BY <1>13, <1>a DEF ReaperSweep, DoSweep, Agents
  <2>2. DOMAIN claims' = DOMAIN claims
    BY <2>1, SweepFacts
  <2>3. \A c \in DOMAIN claims : claims'[c].owner = claims[c].owner
    BY <2>1, SweepFacts
  <2>4. \A c \in DOMAIN claims : Expired(c, reaper.at) => claims'[c].status = "RECLAIMABLE"
    BY <2>1, SweepFacts
  <2>5. \A c \in DOMAIN claims :
          ~ Expired(c, reaper.at) => claims'[c].status = claims[c].status
    BY <2>1, SweepFacts
  <2>. QED
    BY <1>8, <2>1, <2>2, <2>3, <2>4, <2>5
<1>14. CASE Disconnect
  BY <1>4, <1>14 DEF Disconnect
<1>15. CASE ReaperReap
  BY <1>4, <1>15 DEF ReaperReap
<1>16. CASE \/ ReceiveRegister \/ RegisterCount \/ RegisterSeen \/ RegisterLog \/ LogLeft
            \/ (\E a \in AgentIds : ReceiveHeartbeat(a))
            \/ ReaperWake \/ ReaperLog \/ Tick
  BY <1>1, <1>16 DEF ReceiveRegister, RegisterCount, RegisterSeen, RegisterLog, LogLeft,
     ReceiveHeartbeat, ReaperWake, ReaperLog, Tick
<1>17. CASE UNCHANGED vars
  BY <1>1, <1>17 DEF vars
<1>. QED
  BY <1>2, <1>3, <1>5, <1>6, <1>7, <1>9, <1>11, <1>12, <1>13, <1>14, <1>15, <1>16, <1>17
  DEF Next, ConnNext, RequestNext, ReaperNext

\* No agent in DISCOVERY holds an ACTIVE claim.
THEOREM DiscoveryIsInactive == Spec => []DiscoveryHoldsNoActiveClaim
<1>1. Init => DiscoveryHoldsNoActiveClaim
  BY DEF Init, DiscoveryHoldsNoActiveClaim
<1>. QED
  BY <1>1, InitTypes, NextTypes, NextDiscovery, PTL DEF Spec

-----------------------------------------------------------------------------
(* The cap on agents                                                       *)

\* Removing agents keeps the cap and the room below it.
LEMMA FewerAgents ==
  ASSUME CapInv, Agents' \subseteq Agents, conn'.pc = "counted" => conn.pc = "counted"
  PROVE  CapInv'
<1>1. IsFiniteSet(Agents') /\ Cardinality(Agents') <= Cardinality(Agents)
  BY FS_Subset DEF CapInv
<1>2. Cardinality(Agents) \in Nat /\ Cardinality(Agents') \in Nat /\ MaxAgents \in Nat
  BY <1>1, FS_CardinalityType, RegistryAssumption DEF CapInv
<1>. QED
  BY <1>1, <1>2 DEF CapInv, AgentCapHolds

LEMMA NextCap == TypeInv /\ CapInv /\ [Next]_vars => CapInv'
<1> SUFFICES ASSUME TypeInv, CapInv, [Next]_vars PROVE CapInv'
  OBVIOUS
<1>a. TypeOK /\ nextAgent \in Nat
  BY NextAgentIsId DEF TypeInv
<1>b. Cardinality(Agents) \in Nat /\ MaxAgents \in Nat
  BY FS_CardinalityType, RegistryAssumption DEF CapInv
<1>1. CASE RegisterCount
  <2>1. Agents' = Agents
    BY <1>1 DEF RegisterCount, registryVars, Agents
  <2>2. conn'.pc = "counted" => ~ (Cardinality(Agents) >= MaxAgents)
    BY <1>1 DEF RegisterCount, Idle
  <2>. QED
    BY <1>b, <2>1, <2>2 DEF CapInv, AgentCapHolds
<1>2. CASE RegisterInsert
  <2>1. Agents' = Agents \cup {nextAgent} /\ conn.pc = "counted" /\ conn'.pc = "inserted"
    BY <1>2 DEF RegisterInsert, DoRegister, Agents
  <2>2. nextAgent \notin Agents
    BY <1>a DEF TypeOK
  <2>3. IsFiniteSet(Agents') /\ Cardinality(Agents') = Cardinality(Agents) + 1
    BY <2>1, <2>2, FS_AddElement DEF CapInv
  <2>. QED
    BY <1>b, <2>1, <2>3 DEF CapInv, AgentCapHolds
<1>3. ASSUME Agents' \subseteq Agents, conn'.pc \notin {"counted"} \/ conn' = conn
      PROVE  CapInv'
  BY <1>3, FewerAgents
<1>4. CASE ApplyHeartbeat
  BY <1>3, <1>4 DEF ApplyHeartbeat, DoHeartbeat, Agents, Idle
<1>5. CASE \E a \in AgentIds : \/ ClearInvoked(a)
                               \/ \E s \in LiveStatuses : ProposeClaim(a, s)
                               \/ \E s \in ReportedStates : ChangeState(a, s)
                               \/ \E f \in Files : TouchFile(a, f)
  BY <1>3, <1>5 DEF Event, ClearInvoked, ProposeClaim, ChangeState, TouchFile,
     DoClear, DoPropose, StoreClaim, NewClaim, Promote, Registered, DoSetState,
     DoTouch, Agents
<1>6. CASE (\E c \in ClaimIds : ReleaseClaim(c)) \/ ReaperOrphan \/ ReaperSweep
  BY <1>3, <1>6 DEF ReleaseClaim, Event, DoRelease, ReaperOrphan, DoOrphan, ReaperSweep,
     DoSweep, Agents
<1>7. CASE Disconnect
  BY <1>3, <1>7 DEF Disconnect, DoRemove, Restrict, Agents, Idle
<1>8. CASE ReaperReap
  BY <1>3, <1>8 DEF ReaperReap, DoRemove, Restrict, Agents
<1>9. CASE \/ ReceiveRegister \/ RegisterLog \/ LogLeft
           \/ \E a \in AgentIds : ReceiveHeartbeat(a)
  BY <1>3, <1>9 DEF ReceiveRegister, RegisterLog, LogLeft, ReceiveHeartbeat, registryVars,
     Agents, Idle
<1>10. CASE RegisterSeen
  <2>1. conn'.pc = "seen" /\ Agents' = Agents
    BY <1>10, <1>a DEF RegisterSeen, Goes, registryVars, Agents, TypeOK
  <2>. QED
    BY <1>3, <2>1
<1>11. CASE ReaperWake \/ ReaperLog \/ Tick \/ UNCHANGED vars
  BY <1>3, <1>11 DEF ReaperWake, ReaperLog, Tick, vars, registryVars, Agents
<1>. QED
  BY <1>1, <1>2, <1>4, <1>5, <1>6, <1>7, <1>8, <1>9, <1>10, <1>11
  DEF Next, ConnNext, RequestNext, ReaperNext

\* The registry never holds more agents than its cap, although it is checked
\* and filled under two separate locks.
THEOREM CapIsKept == Spec => []AgentCapHolds
<1>1. Init => CapInv
  <2>1. Init => Agents = {} /\ conn.pc # "counted"
    BY DEF Init, Agents, Idle
  <2>. QED
    BY <2>1, FS_EmptySet, RegistryAssumption DEF CapInv, AgentCapHolds
<1>2. CapInv => AgentCapHolds
  BY DEF CapInv
<1>. QED
  BY <1>1, <1>2, InitTypes, NextTypes, NextCap, PTL DEF Spec

-----------------------------------------------------------------------------
(* The registry implements the claim ledger                                *)

\* The ledger's view of a claim, and of all of them.
Entry(r)   == [owner |-> r.owner, phase |-> Phase(r.status)]
TheLedger  == [c \in DOMAIN claims |-> Entry(claims[c])]

LEMMA PhaseFacts ==
  /\ \A s \in LiveStatuses : Phase(s) = "live"
  /\ Phase("RELEASED") = "released"
  /\ Phase("ORPHANED") = "orphaned"
  /\ Phase("RECLAIMABLE") = "reclaimable"
BY DEF Phase, LiveStatuses

\* A step that keeps owners and statuses keeps the ledger.
LEMMA SameLedger == ASSUME SameClaims PROVE TheLedger' = TheLedger
BY DEF SameClaims, TheLedger, Entry

\* A step that gives the claims of S the status s, and keeps the others,
\* moves S to the phase of s.
LEMMA MovedLedger ==
  ASSUME NEW S, NEW s, NEW p, Phase(s) = p,
         DOMAIN claims' = DOMAIN claims,
         \A c \in DOMAIN claims : claims'[c].owner = claims[c].owner,
         \A c \in DOMAIN claims : c \in S => claims'[c].status = s,
         \A c \in DOMAIN claims : c \notin S => claims'[c].status = claims[c].status
  PROVE  Ledger!Move(S, p)
<1> DEFINE moved(c) == IF c \in S THEN [Entry(claims[c]) EXCEPT !.phase = p]
                                  ELSE Entry(claims[c])
<1>1. ASSUME NEW c \in DOMAIN claims PROVE Entry(claims'[c]) = moved(c)
  BY <1>1 DEF Entry
<1>2. TheLedger' = [c \in DOMAIN claims |-> moved(c)]
  BY <1>1 DEF TheLedger
<1>3. DOMAIN TheLedger = DOMAIN claims /\ \A c \in DOMAIN claims : TheLedger[c] = Entry(claims[c])
  BY DEF TheLedger
<1>4. TheLedger' = [c \in DOMAIN TheLedger |->
                      IF c \in S THEN [TheLedger[c] EXCEPT !.phase = p] ELSE TheLedger[c]]
  BY <1>2, <1>3
<1>. QED
  BY <1>4 DEF Ledger!Move, TheLedger, Entry

LEMMA NextLedger ==
  TypeInv /\ EveryAgentAccounted /\ [Next]_vars => Ledger!Next \/ UNCHANGED Ledger!ledgerVars
<1> SUFFICES ASSUME TypeInv, EveryAgentAccounted, [Next]_vars
             PROVE  Ledger!Next \/ UNCHANGED Ledger!ledgerVars
  OBVIOUS
<1>a. TypeOK /\ TypeOK'
  BY NextTypes DEF TypeInv
<1>b. /\ Effect
      /\ nextAgent \in Nat \ {0} /\ MaxRegistrations \in Nat /\ nextAgent <= MaxRegistrations + 1
  BY <1>a, StepEffect, RegistryAssumption DEF TypeOK
<1>c. TheLedger = [c \in DOMAIN claims |-> [owner |-> claims[c].owner,
                                            phase |-> Phase(claims[c].status)]]
  BY DEF TheLedger, Entry
<1>d. DOMAIN TheLedger = DOMAIN claims /\ \A c \in DOMAIN claims : TheLedger[c] = Entry(claims[c])
  BY DEF TheLedger
<1>e. \A c \in DOMAIN claims : TheLedger[c].phase = Phase(claims[c].status)
                               /\ TheLedger[c].owner = claims[c].owner
  BY <1>d DEF Entry
<1>f. ASSUME SameClaims PROVE UNCHANGED TheLedger
  BY <1>f, SameLedger
<1>1. CASE QuietEffect \/ LogLeftEffect \/ LogLostEffect
  BY <1>1, <1>f DEF QuietEffect, LogLeftEffect, LogLostEffect, SameAgents, Ledger!ledgerVars,
     TheLedger, Entry
<1>2. CASE JoinEffect
  <2>1. nextAgent \in AgentIds
    BY <1>2, <1>a, <1>b DEF JoinEffect, TypeOK, AgentIds
  <2>2. nextAgent \notin 1 .. nextAgent - 1 /\ 1 .. nextAgent' - 1 = (1 .. nextAgent - 1) \cup {nextAgent}
    BY <1>2, <1>b DEF JoinEffect
  <2>3. Ledger!Join(nextAgent)
    BY <1>2, <1>f, <2>2 DEF JoinEffect, Ledger!Join, TheLedger, Entry
  <2>. QED
    BY <2>1, <2>3 DEF Ledger!Next
<1>3. ASSUME NEW S, S \subseteq Agents, Agents' = Agents \ S, nextAgent' = nextAgent, SameClaims
      PROVE  Ledger!Next
  <2>1. Ledger!Depart(S)
    BY <1>3, <1>f DEF Ledger!Depart, TheLedger, Entry
  <2>. QED
    BY <1>3, <2>1 DEF Ledger!Next
<1>4. CASE LeaveEffect
  BY <1>3, <1>4 DEF LeaveEffect
<1>5. CASE ReapEffect
  BY <1>3, <1>5 DEF ReapEffect
<1>6. ASSUME NEW a \in AgentIds, NEW s \in LiveStatuses, ProposeEffect(a, s) PROVE Ledger!Next
  <2>1. DoPropose(a, s) /\ SameAgents /\ a \in Agents
    BY <1>6 DEF ProposeEffect, DoPropose, Registered
  <2>2. nextClaim \in ClaimIds
    BY <1>a, <2>1, ProposeFacts DEF ClaimIds
  <2>3. nextClaim \notin DOMAIN claims
    BY <1>a, <2>1, ProposeFacts
  <2>4. DOMAIN claims' = DOMAIN claims \cup {nextClaim}
    BY <1>a, <2>1, ProposeFacts
  <2>5. \A c \in DOMAIN claims : claims'[c] = claims[c]
    BY <1>a, <2>1, ProposeFacts
  <2>6. claims'[nextClaim] = [owner |-> a, status |-> s, files |-> {}, orphanedAt |-> Never]
    BY <1>a, <2>1, ProposeFacts
  <2>7. Entry(claims'[nextClaim]) = [owner |-> a, phase |-> "live"]
    BY <2>6, PhaseFacts DEF Entry
  <2>8. TheLedger' = [x \in DOMAIN claims \cup {nextClaim} |->
                        IF x = nextClaim THEN [owner |-> a, phase |-> "live"]
                                         ELSE TheLedger[x]]
    BY <1>d, <2>3, <2>4, <2>5, <2>7 DEF TheLedger
  <2>9. PICK c \in ClaimIds : c = nextClaim
    BY <2>2
  <2>10. Ledger!Grant(a, c)
    BY <1>c, <1>d, <2>1, <2>3, <2>8, <2>9 DEF Ledger!Grant, SameAgents, TheLedger, Entry
  <2>. QED
    BY <1>6, <2>10 DEF Ledger!Next
<1>7. ASSUME NEW S \in SUBSET DOMAIN claims, ReleaseEffect(S) PROVE Ledger!Next
  <2>1. "RELEASED" \in ClaimStatuses /\ Never \in Nat /\ Mark(S, "RELEASED", Never) /\ SameAgents
        /\ \A c \in S : Live(c)
    BY <1>7 DEF ClaimStatuses, Never, ReleaseEffect
  <2>2. DOMAIN claims' = DOMAIN claims
    BY <1>a, <2>1, MarkFacts
  <2>3. \A c \in DOMAIN claims : claims'[c].owner = claims[c].owner
    BY <1>a, <2>1, MarkFacts
  <2>4. \A c \in DOMAIN claims : c \in S => claims'[c].status = "RELEASED"
    BY <1>a, <2>1, MarkFacts
  <2>5. \A c \in DOMAIN claims : c \notin S => claims'[c].status = claims[c].status
    BY <1>a, <2>1, MarkFacts
  <2>6. Ledger!Move(S, "released")
    BY <2>2, <2>3, <2>4, <2>5, MovedLedger, PhaseFacts
  <2>7. \A c \in S : TheLedger[c].phase = "live"
    BY <1>e, <2>1, PhaseFacts DEF Live
  <2>8. S \in SUBSET Ledger!In("live")
    BY <1>c, <1>d, <2>7 DEF Ledger!In
  <2>9. Ledger!Release(S)
    BY <2>1, <2>6, <2>8 DEF Ledger!Release, SameAgents
  <2>. QED
    BY <2>8, <2>9 DEF Ledger!Next
<1>8. CASE OrphanEffect
  <2> DEFINE S == UNION {LiveOf(a) : a \in reaper.lost}
  <2>1. "ORPHANED" \in ClaimStatuses /\ reaper.at \in Nat /\ Mark(S, "ORPHANED", reaper.at)
        /\ SameAgents
    BY <1>8, <1>a DEF ClaimStatuses, OrphanEffect, DoOrphan, TypeOK
  <2> HIDE DEF S
  <2>2. DOMAIN claims' = DOMAIN claims
    BY <1>a, <2>1, MarkFacts
  <2>3. \A c \in DOMAIN claims : claims'[c].owner = claims[c].owner
    BY <1>a, <2>1, MarkFacts
  <2>4. \A c \in DOMAIN claims : c \in S => claims'[c].status = "ORPHANED"
    BY <1>a, <2>1, MarkFacts
  <2>5. \A c \in DOMAIN claims : c \notin S => claims'[c].status = claims[c].status
    BY <1>a, <2>1, MarkFacts
  <2>6. Ledger!Move(S, "orphaned")
    BY <2>2, <2>3, <2>4, <2>5, MovedLedger, PhaseFacts
  <2>7. \A c \in DOMAIN claims : claims[c].status \in ClaimStatuses
    BY <1>a DEF TypeOK, ClaimRecords
  <2>8. \A c \in DOMAIN claims : Live(c) <=> TheLedger[c].phase = "live"
    BY <1>e, <2>7, PhaseFacts DEF Live, ClaimStatuses, LiveStatuses
  <2>9. S = {c \in Ledger!In("live") : TheLedger[c].owner \in reaper.lost}
    BY <1>c, <1>d, <1>e, <2>8 DEF S, LiveOf, OwnedBy, Ledger!In
  <2>10. reaper.lost \subseteq (1 .. nextAgent - 1) \ Agents
    BY DEF EveryAgentAccounted
  <2>11. PICK A \in SUBSET (1 .. nextAgent - 1) : A = reaper.lost
    BY <2>10
  <2>12. Ledger!Orphan(A)
    BY <1>c, <2>1, <2>6, <2>9, <2>10, <2>11 DEF Ledger!Orphan, SameAgents
  <2>. QED
    BY <2>12 DEF Ledger!Next
<1>9. CASE SweepEffect
  <2> DEFINE S == {c \in DOMAIN claims : Expired(c, reaper.at)}
  <2>1. DoSweep(reaper.at) /\ SameAgents
    BY <1>9 DEF SweepEffect
  <2>2. DOMAIN claims' = DOMAIN claims
    BY <1>a, <2>1, SweepFacts
  <2>3. \A c \in DOMAIN claims : claims'[c].owner = claims[c].owner
    BY <1>a, <2>1, SweepFacts
  <2>4. \A c \in DOMAIN claims : c \in S => claims'[c].status = "RECLAIMABLE"
    BY <1>a, <2>1, SweepFacts
  <2>5. \A c \in DOMAIN claims : c \notin S => claims'[c].status = claims[c].status
    BY <1>a, <2>1, SweepFacts
  <2>6. Ledger!Move(S, "reclaimable")
    BY <2>2, <2>3, <2>4, <2>5, MovedLedger, PhaseFacts
  <2>7. \A c \in S : TheLedger[c].phase = "orphaned"
    BY <1>e, PhaseFacts DEF Expired
  <2>8. S \in SUBSET Ledger!In("orphaned")
    BY <1>c, <1>d, <2>7 DEF Ledger!In
  <2> HIDE DEF S
  <2>9. PICK E \in SUBSET Ledger!In("orphaned") : E = S
    BY <2>8
  <2>10. Ledger!Expire(E)
    BY <2>1, <2>6, <2>9 DEF Ledger!Expire, SameAgents
  <2>. QED
    BY <2>10 DEF Ledger!Next
<1>. QED
  BY <1>b, <1>1, <1>2, <1>4, <1>5, <1>6, <1>7, <1>8, <1>9 DEF Effect

\* The registry, with its threads and clock hidden, is a claim ledger.
THEOREM RegistryImplementsLedger == Spec => ImplementsLedger
<1>1. Init => Ledger!Init
  BY DEF Init, Ledger!Init, Agents
<1>2. Init => EveryAgentAccounted
  BY DEF Init, EveryAgentAccounted, Leaving, Agents, Idle
<1>. QED
  BY <1>1, <1>2, InitTypes, NextTypes, NextAccounted, NextLedger, PTL
  DEF Spec, ImplementsLedger, Ledger!Spec

-----------------------------------------------------------------------------
(* What a step may do to the claims                                        *)

\* Every step keeps the claims, adds one, gives live ones a status that is not
\* live, adds a file to a live one, or sweeps at the time the reaper woke.
ClaimsEffect ==
  \/ UNCHANGED claims
  \/ \E a \in AgentIds, s \in LiveStatuses : DoPropose(a, s)
  \/ \E S \in SUBSET {c \in DOMAIN claims : Live(c)},
        s \in {"RELEASED", "ORPHANED"}, t \in {Never, reaper.at} : Mark(S, s, t)
  \/ \E a \in AgentIds, f \in Files : DoTouch(a, {f})
  \/ reaper.pc = "sweep" /\ DoSweep(reaper.at) /\ reaper'.at = reaper.at

LEMMA StepClaims == [Next]_vars => ClaimsEffect
<1> SUFFICES ASSUME [Next]_vars PROVE ClaimsEffect
  OBVIOUS
<1>1. CASE \/ ReceiveRegister \/ RegisterCount \/ RegisterSeen \/ RegisterLog \/ LogLeft
           \/ (\E a \in AgentIds : ReceiveHeartbeat(a))
           \/ ReaperWake \/ ReaperLog \/ Tick \/ UNCHANGED vars
  BY <1>1 DEF ReceiveRegister, RegisterCount, RegisterSeen, RegisterLog, LogLeft,
     ReceiveHeartbeat, ReaperWake, ReaperLog, Tick, registryVars, vars, ClaimsEffect
<1>2. CASE RegisterInsert \/ ApplyHeartbeat \/ Disconnect \/ ReaperReap
  BY <1>2 DEF RegisterInsert, ApplyHeartbeat, Disconnect, ReaperReap, DoRegister,
     DoHeartbeat, DoRemove, ClaimsEffect
<1>3. ASSUME NEW S \in SUBSET {c \in DOMAIN claims : Live(c)},
             NEW s \in {"RELEASED", "ORPHANED"}, NEW t \in {Never, reaper.at}, Mark(S, s, t)
      PROVE  ClaimsEffect
  BY <1>3 DEF ClaimsEffect
<1>4. ASSUME NEW a \in AgentIds, ClearInvoked(a) PROVE ClaimsEffect
  <2>1. LiveOf(a) \in SUBSET {c \in DOMAIN claims : Live(c)}
    BY DEF LiveOf, OwnedBy
  <2>. QED
    BY <1>3, <1>4, <2>1 DEF ClearInvoked, Event, DoClear
<1>5. ASSUME NEW a \in AgentIds, NEW s \in LiveStatuses, ProposeClaim(a, s)
      PROVE  ClaimsEffect
  BY <1>5 DEF ProposeClaim, Event, ClaimsEffect
<1>6. ASSUME NEW a \in AgentIds, NEW s \in ReportedStates, ChangeState(a, s)
      PROVE  ClaimsEffect
  BY <1>6 DEF ChangeState, Event, DoSetState, ClaimsEffect
<1>7. ASSUME NEW a \in AgentIds, NEW f \in Files, TouchFile(a, f) PROVE ClaimsEffect
  BY <1>7 DEF TouchFile, Event, ClaimsEffect
<1>8. ASSUME NEW c \in ClaimIds, ReleaseClaim(c) PROVE ClaimsEffect
  BY <1>3, <1>8 DEF ReleaseClaim, Event, DoRelease
<1>9. CASE ReaperOrphan
  <2>1. UNION {LiveOf(a) : a \in reaper.lost} \in SUBSET {c \in DOMAIN claims : Live(c)}
    BY DEF LiveOf, OwnedBy
  <2>. QED
    BY <1>3, <1>9, <2>1 DEF ReaperOrphan, DoOrphan
<1>10. CASE ReaperSweep
  <2>1. reaper'.at = reaper.at
    BY <1>10 DEF ReaperSweep
  <2>. QED
    BY <1>10, <2>1 DEF ReaperSweep, ClaimsEffect
<1>. QED
  BY <1>1, <1>2, <1>4, <1>5, <1>6, <1>7, <1>8, <1>9, <1>10
  DEF Next, ConnNext, RequestNext, ReaperNext

\* What a marking or a sweep does to one claim is a step of the life cycle.
LEMMA ClaimSteps ==
  TypeInv /\ [Next]_vars =>
    /\ DOMAIN claims \subseteq DOMAIN claims'
    /\ \A c \in DOMAIN claims : ClaimStep(c)
<1> SUFFICES ASSUME TypeInv, ClaimsEffect
             PROVE  /\ DOMAIN claims \subseteq DOMAIN claims'
                    /\ \A c \in DOMAIN claims : ClaimStep(c)
  BY StepClaims
<1>a. TypeOK
  BY DEF TypeInv
<1>1. CASE UNCHANGED claims
  BY <1>1 DEF ClaimStep
<1>2. ASSUME NEW a \in AgentIds, NEW s \in LiveStatuses, DoPropose(a, s)
      PROVE  DOMAIN claims \subseteq DOMAIN claims' /\ \A c \in DOMAIN claims : ClaimStep(c)
  <2>1. DOMAIN claims \subseteq DOMAIN claims'
    BY <1>a, <1>2, ProposeFacts
  <2>2. \A c \in DOMAIN claims : claims'[c] = claims[c]
    BY <1>a, <1>2, ProposeFacts
  <2>. QED
    BY <2>1, <2>2 DEF ClaimStep
<1>3. ASSUME NEW S \in SUBSET {c \in DOMAIN claims : Live(c)},
             NEW s \in {"RELEASED", "ORPHANED"}, NEW t \in {Never, reaper.at}, Mark(S, s, t)
      PROVE  DOMAIN claims \subseteq DOMAIN claims' /\ \A c \in DOMAIN claims : ClaimStep(c)
  <2>1. s \in ClaimStatuses /\ t \in Nat
    BY <1>a, <1>3 DEF ClaimStatuses, Never, TypeOK
  <2>2. DOMAIN claims' = DOMAIN claims
    BY <1>a, <1>3, <2>1, MarkFacts
  <2>3. ASSUME NEW c \in DOMAIN claims PROVE ClaimStep(c)
    <3>1. claims'[c].owner = claims[c].owner /\ claims'[c].files = claims[c].files
      BY <1>a, <1>3, <2>1, MarkFacts
    <3>2. claims'[c].status = IF c \in S THEN s ELSE claims[c].status
      BY <1>a, <1>3, <2>1, MarkFacts
    <3>. QED
      BY <1>3, <3>1, <3>2 DEF ClaimStep
  <2>. QED
    BY <2>2, <2>3
<1>4. ASSUME NEW a \in AgentIds, NEW f \in Files, DoTouch(a, {f})
      PROVE  DOMAIN claims \subseteq DOMAIN claims' /\ \A c \in DOMAIN claims : ClaimStep(c)
  <2>1. DOMAIN claims' = DOMAIN claims
    BY <1>a, <1>4, TouchFacts
  <2>2. ASSUME NEW c \in DOMAIN claims PROVE ClaimStep(c)
    <3>1. claims'[c].owner = claims[c].owner /\ claims'[c].status = claims[c].status
          /\ (~Live(c) => claims'[c].files = claims[c].files)
      BY <1>a, <1>4, TouchFacts
    <3>. QED
      BY <3>1 DEF ClaimStep, Live
  <2>. QED
    BY <2>1, <2>2
<1>5. CASE DoSweep(reaper.at)
  <2>1. DOMAIN claims' = DOMAIN claims
    BY <1>a, <1>5, SweepFacts
  <2>2. ASSUME NEW c \in DOMAIN claims PROVE ClaimStep(c)
    <3>1. claims'[c].owner = claims[c].owner /\ claims'[c].files = claims[c].files
      BY <1>a, <1>5, SweepFacts
    <3>2. /\ Expired(c, reaper.at) => claims'[c].status = "RECLAIMABLE"
          /\ ~Expired(c, reaper.at) => claims'[c].status = claims[c].status
      BY <1>a, <1>5, SweepFacts
    <3>. QED
      BY <3>1, <3>2 DEF ClaimStep, Expired
  <2>. QED
    BY <2>1, <2>2
<1>. QED
  BY <1>1, <1>2, <1>3, <1>4, <1>5 DEF ClaimsEffect

LEMMA TypesKept == Spec => []TypeInv
BY InitTypes, NextTypes, PTL DEF Spec

\* An id keeps its owner for ever, what is released or reclaimable stays so, an
\* orphan becomes nothing but reclaimable, and only live claims gather files:
\* whatever the two threads do and in whatever order.
THEOREM ClaimsAgeOneWay == Spec => ClaimLifeCycle
BY TypesKept, ClaimSteps, PTL DEF Spec, ClaimLifeCycle

-----------------------------------------------------------------------------
(* What a step may do to an agent                                          *)

\* Every step but a /clear leaves the generations of agents as they are and
\* puts no agent back into DISCOVERY.
GenerationsKept ==
  \A a \in Agents \cap Agents' :
    /\ agents'[a].gen = agents[a].gen
    /\ agents'[a].state = "DISCOVERY" => agents[a].state = "DISCOVERY"

\* An agent record after the replacement of one of its fields.
LEMMA AgentFieldFacts ==
  ASSUME NEW r \in AgentRecords
  PROVE  /\ \A t : [r EXCEPT !.seen = t].state = r.state /\ [r EXCEPT !.seen = t].gen = r.gen
         /\ \A x : [r EXCEPT !.state = x].state = x /\ [r EXCEPT !.state = x].gen = r.gen
BY DEF AgentRecords

\* The same for the whole store: one agent gets a new clock or a new state.
LEMMA OneFieldChanged ==
  ASSUME agents \in [Agents -> AgentRecords], NEW b \in Agents,
         \/ \E t : agents' = [agents EXCEPT ![b].seen = t]
         \/ \E x : /\ x = "DISCOVERY" => agents[b].state = "DISCOVERY"
                   /\ agents' = [agents EXCEPT ![b].state = x]
  PROVE  GenerationsKept
<1>1. agents[b] \in AgentRecords
  OBVIOUS
<1>2. \A a \in Agents : a # b => agents'[a] = agents[a]
  OBVIOUS
<1>3. agents'[b].gen = agents[b].gen
      /\ (agents'[b].state = "DISCOVERY" => agents[b].state = "DISCOVERY")
  <2>1. CASE \E t : agents' = [agents EXCEPT ![b].seen = t]
    <3>1. PICK t : agents' = [agents EXCEPT ![b].seen = t]
      BY <2>1
    <3>2. agents'[b] = [agents[b] EXCEPT !.seen = t]
      BY <3>1
    <3>. QED
      BY <1>1, <3>2, AgentFieldFacts
  <2>2. CASE \E x : /\ x = "DISCOVERY" => agents[b].state = "DISCOVERY"
                    /\ agents' = [agents EXCEPT ![b].state = x]
    <3>1. PICK x : /\ x = "DISCOVERY" => agents[b].state = "DISCOVERY"
                   /\ agents' = [agents EXCEPT ![b].state = x]
      BY <2>2
    <3>2. agents'[b] = [agents[b] EXCEPT !.state = x]
      BY <3>1
    <3>. QED
      BY <1>1, <3>1, <3>2, AgentFieldFacts
  <2>. QED
    BY <2>1, <2>2
<1>. QED
  BY <1>2, <1>3 DEF GenerationsKept

LEMMA StepGenerations ==
  TypeInv /\ [Next]_vars => GenerationsKept \/ \E a \in AgentIds : DoClear(a)
<1> SUFFICES ASSUME TypeInv, [Next]_vars
             PROVE  GenerationsKept \/ \E a \in AgentIds : DoClear(a)
  OBVIOUS
<1>a. agents \in [Agents -> AgentRecords] /\ Agents \subseteq 1 .. nextAgent - 1
      /\ nextAgent \in Nat
  BY NextAgentIsId DEF TypeInv, TypeOK
<1>b. ASSUME UNCHANGED agents PROVE GenerationsKept
  BY <1>b DEF GenerationsKept
<1>1. CASE \/ ReceiveRegister \/ RegisterCount \/ RegisterSeen \/ RegisterLog \/ LogLeft
           \/ (\E a \in AgentIds : ReceiveHeartbeat(a))
           \/ ReaperWake \/ ReaperLog \/ Tick \/ UNCHANGED vars
  BY <1>1, <1>b DEF ReceiveRegister, RegisterCount, RegisterSeen, RegisterLog, LogLeft,
     ReceiveHeartbeat, ReaperWake, ReaperLog, Tick, registryVars, vars
<1>2. CASE RegisterInsert
  <2>1. nextAgent \notin Agents
    BY <1>a
  <2>2. \A a \in Agents : agents'[a] = agents[a]
    BY <1>2, <2>1 DEF RegisterInsert, DoRegister
  <2>. QED
    BY <2>2 DEF GenerationsKept
<1>3. CASE ApplyHeartbeat
  BY <1>3, <1>a, <1>b, OneFieldChanged DEF ApplyHeartbeat, DoHeartbeat, Registered
<1>4. ASSUME NEW S, DoRemove(S) PROVE GenerationsKept
  BY <1>4 DEF DoRemove, Restrict, Agents, GenerationsKept
<1>5. CASE Disconnect \/ ReaperReap
  BY <1>4, <1>5 DEF Disconnect, ReaperReap
<1>6. ASSUME NEW a \in AgentIds, ClearInvoked(a) PROVE \E b \in AgentIds : DoClear(b)
  BY <1>6 DEF ClearInvoked, Event
<1>7. ASSUME NEW a \in AgentIds, NEW s \in LiveStatuses, ProposeClaim(a, s)
      PROVE  GenerationsKept
  <2>1. Registered(a) /\ Promote(a, s)
    BY <1>7 DEF ProposeClaim, Event, DoPropose
  <2>2. CASE s = "ACTIVE" /\ agents[a].state = "DISCOVERY"
    <3>1. agents' = [agents EXCEPT ![a].state = "ACTIVE"]
      BY <2>1, <2>2 DEF Promote
    <3>. QED
      BY <1>a, <2>1, <3>1, OneFieldChanged DEF Registered
  <2>3. CASE ~(s = "ACTIVE" /\ agents[a].state = "DISCOVERY")
    BY <1>b, <2>1, <2>3 DEF Promote
  <2>. QED
    BY <2>2, <2>3
<1>8. ASSUME NEW a \in AgentIds, NEW s \in ReportedStates, ChangeState(a, s)
      PROVE  GenerationsKept
  <2>1. Registered(a) /\ CanTransition(agents[a].state, s)
        /\ agents' = [agents EXCEPT ![a].state = s]
    BY <1>8 DEF ChangeState, Event, DoSetState
  <2>2. s = "DISCOVERY" => agents[a].state = "DISCOVERY"
    BY <2>1 DEF CanTransition
  <2>. QED
    BY <1>a, <2>1, <2>2, OneFieldChanged DEF Registered
<1>9. ASSUME NEW a \in AgentIds, NEW f \in Files, TouchFile(a, f) PROVE GenerationsKept
  BY <1>9, <1>b DEF TouchFile, Event, DoTouch
<1>10. ASSUME NEW c \in ClaimIds, ReleaseClaim(c) PROVE GenerationsKept
  BY <1>10, <1>b DEF ReleaseClaim, Event, DoRelease
<1>11. CASE ReaperOrphan \/ ReaperSweep
  BY <1>11, <1>b DEF ReaperOrphan, DoOrphan, ReaperSweep, DoSweep
<1>. QED
  BY <1>1, <1>2, <1>3, <1>5, <1>6, <1>7, <1>8, <1>9, <1>10, <1>11
  DEF Next, ConnNext, RequestNext, ReaperNext

\* A /clear moves the agent's generation by one, puts it into DISCOVERY and
\* leaves it no live claim; other agents keep their records.
LEMMA ClearFacts ==
  ASSUME TypeInv, NEW b, DoClear(b)
  PROVE  /\ agents'[b].gen = agents[b].gen + 1 /\ agents'[b].gen # agents[b].gen
         /\ agents'[b].state = "DISCOVERY"
         /\ LiveOf(b)' = {}
         /\ \A a \in Agents : a # b => agents'[a] = agents[a]
<1>1. TypeOK /\ b \in Agents /\ agents \in [Agents -> AgentRecords]
  BY DEF TypeInv, TypeOK, DoClear, Registered
<1>2. agents' = [agents EXCEPT ![b] = [seen |-> agents[b].seen, state |-> "DISCOVERY",
                                       gen |-> agents[b].gen + 1]]
  BY DEF DoClear
<1>3. agents'[b] = [seen |-> agents[b].seen, state |-> "DISCOVERY", gen |-> agents[b].gen + 1]
  BY <1>1, <1>2
<1>4. agents[b].gen \in Nat
  BY <1>1 DEF AgentRecords
<1>5. "RELEASED" \in ClaimStatuses /\ Never \in Nat /\ Mark(LiveOf(b), "RELEASED", Never)
  BY DEF ClaimStatuses, Never, DoClear
<1>6. \A c \in DOMAIN claims' : c \in DOMAIN claims /\ claims'[c].owner = claims[c].owner
  BY <1>1, <1>5, MarkFacts
<1>7. \A c \in DOMAIN claims' :
        claims'[c].status = IF c \in LiveOf(b) THEN "RELEASED" ELSE claims[c].status
  BY <1>1, <1>5, MarkFacts
<1>8. ASSUME NEW c \in DOMAIN claims', claims'[c].owner = b PROVE ~ Live(c)'
  BY <1>6, <1>7, <1>8 DEF LiveOf, OwnedBy, Live, LiveStatuses
<1>9. LiveOf(b)' = {}
  BY <1>8 DEF LiveOf, OwnedBy
<1>10. \A a \in Agents : a # b => agents'[a] = agents[a]
  BY <1>1, <1>2
<1>. QED
  BY <1>3, <1>4, <1>9, <1>10

\* A generation moves by one, on /clear only, which leaves the agent with no
\* live claim; and nothing but a /clear takes an agent back to DISCOVERY.
THEOREM ClearLeavesNothingBehind == Spec => ClearIsTotal
<1> DEFINE Total == \A a \in Agents \cap Agents' :
             /\ agents'[a].gen # agents[a].gen =>
                  /\ agents'[a].gen = agents[a].gen + 1
                  /\ agents'[a].state = "DISCOVERY"
                  /\ LiveOf(a)' = {}
             /\ agents'[a].state = "DISCOVERY" /\ agents[a].state # "DISCOVERY"
                  => agents'[a].gen # agents[a].gen
<1>1. TypeInv /\ [Next]_vars => Total
  <2> SUFFICES ASSUME TypeInv, [Next]_vars PROVE Total
    OBVIOUS
  <2>1. CASE GenerationsKept
    BY <2>1 DEF GenerationsKept
  <2>2. ASSUME NEW b \in AgentIds, DoClear(b) PROVE Total
    <3> SUFFICES ASSUME NEW a \in Agents \cap Agents'
                 PROVE  /\ agents'[a].gen # agents[a].gen =>
                             /\ agents'[a].gen = agents[a].gen + 1
                             /\ agents'[a].state = "DISCOVERY"
                             /\ LiveOf(a)' = {}
                        /\ agents'[a].state = "DISCOVERY" /\ agents[a].state # "DISCOVERY"
                             => agents'[a].gen # agents[a].gen
      OBVIOUS
    <3>1. CASE a = b
      BY <2>2, <3>1, ClearFacts
    <3>2. CASE a # b
      BY <2>2, <3>2, ClearFacts
    <3>. QED
      BY <3>1, <3>2
  <2>. QED
    BY <2>1, <2>2, StepGenerations
<1>. QED
  BY <1>1, TypesKept, PTL DEF Spec, ClearIsTotal

-----------------------------------------------------------------------------
(* The reaper's clock                                                      *)

\* What the reaper and the tombstones know of the time lies in the past.
ClockInv ==
  /\ reaper.at <= now
  /\ \A c \in DOMAIN claims : claims[c].orphanedAt <= now

LEMMA StepTime ==
  TypeInv /\ [Next]_vars =>
    /\ now' \in Nat /\ now <= now'
    /\ reaper'.at \in {reaper.at, now, 0}
    /\ reaper'.lost # reaper.lost =>
         reaper'.lost \subseteq {a \in Agents : Silent(a, reaper.at)}
<1> SUFFICES ASSUME TypeInv, [Next]_vars
             PROVE  /\ now' \in Nat /\ now <= now'
                    /\ reaper'.at \in {reaper.at, now, 0}
                    /\ reaper'.lost # reaper.lost =>
                         reaper'.lost \subseteq {a \in Agents : Silent(a, reaper.at)}
  OBVIOUS
<1>a. now \in Nat
  BY DEF TypeInv, TypeOK
<1> DEFINE Goal == /\ now' \in Nat /\ now <= now'
                   /\ reaper'.at \in {reaper.at, now, 0}
                   /\ reaper'.lost # reaper.lost =>
                         reaper'.lost \subseteq {a \in Agents : Silent(a, reaper.at)}
<1>1. ASSUME UNCHANGED <<reaper, now>> PROVE Goal
  BY <1>1, <1>a
<1>2. CASE ConnNext
  BY <1>1, <1>2
  DEF ConnNext, RequestNext, ReceiveRegister, RegisterCount, RegisterInsert, RegisterSeen,
      RegisterLog, ApplyHeartbeat, ReceiveHeartbeat, ClearInvoked, ProposeClaim, ChangeState,
      TouchFile, ReleaseClaim, Event, Disconnect, LogLeft
<1>3. CASE ReaperReap
  BY <1>3, <1>a DEF ReaperReap
<1>4. CASE ReaperWake \/ ReaperLog
  BY <1>4, <1>a DEF ReaperWake, ReaperLog
<1>5. CASE ReaperOrphan \/ ReaperSweep
  <2>1. now' = now /\ reaper'.at = reaper.at /\ reaper'.lost = reaper.lost
    BY <1>5 DEF ReaperOrphan, ReaperSweep, TypeInv, TypeOK
  <2>. QED
    BY <2>1, <1>a
<1>6. CASE Tick
  BY <1>6, <1>a DEF Tick
<1>7. CASE UNCHANGED vars
  BY <1>1, <1>7 DEF vars
<1>. QED
  BY <1>2, <1>3, <1>4, <1>5, <1>6, <1>7 DEF Next, ReaperNext

LEMMA NextClock == TypeInv /\ ClockInv /\ [Next]_vars => ClockInv'
<1> SUFFICES ASSUME TypeInv, ClockInv, [Next]_vars PROVE ClockInv'
  OBVIOUS
<1>a. TypeOK /\ now \in Nat /\ reaper.at \in Nat
  BY DEF TypeInv, TypeOK
<1>b. now' \in Nat /\ now <= now' /\ reaper'.at \in {reaper.at, now, 0}
  BY StepTime
<1>c. \A c \in DOMAIN claims : claims[c].orphanedAt \in Nat
  BY <1>a DEF TypeOK, ClaimRecords
<1>1. reaper'.at <= now'
  BY <1>a, <1>b DEF ClockInv
<1>2. ASSUME \A c \in DOMAIN claims' : \/ claims'[c].orphanedAt \in {Never, reaper.at}
                                       \/ /\ c \in DOMAIN claims
                                          /\ claims'[c].orphanedAt = claims[c].orphanedAt
      PROVE  ClockInv'
  <2>1. ASSUME NEW c \in DOMAIN claims' PROVE claims'[c].orphanedAt <= now'
    <3>1. CASE claims'[c].orphanedAt = Never
      BY <1>b, <3>1 DEF Never
    <3>2. CASE claims'[c].orphanedAt = reaper.at
      BY <1>a, <1>b, <3>2 DEF ClockInv
    <3>3. CASE c \in DOMAIN claims /\ claims'[c].orphanedAt = claims[c].orphanedAt
      BY <1>a, <1>b, <1>c, <3>3 DEF ClockInv
    <3>. QED
      BY <1>2, <3>1, <3>2, <3>3
  <2>. QED
    BY <1>1, <2>1 DEF ClockInv
<1>3. CASE UNCHANGED claims
  BY <1>2, <1>3
<1>4. ASSUME NEW a \in AgentIds, NEW s \in LiveStatuses, DoPropose(a, s) PROVE ClockInv'
  <2>1. DOMAIN claims' = DOMAIN claims \cup {nextClaim}
    BY <1>a, <1>4, ProposeFacts
  <2>2. \A c \in DOMAIN claims : claims'[c] = claims[c]
    BY <1>a, <1>4, ProposeFacts
  <2>3. claims'[nextClaim] = [owner |-> a, status |-> s, files |-> {}, orphanedAt |-> Never]
    BY <1>a, <1>4, ProposeFacts
  <2>4. claims'[nextClaim].orphanedAt = Never
    BY <2>3
  <2>. QED
    BY <1>2, <2>1, <2>2, <2>4
<1>5. ASSUME NEW S \in SUBSET {c \in DOMAIN claims : Live(c)},
             NEW s \in {"RELEASED", "ORPHANED"}, NEW t \in {Never, reaper.at}, Mark(S, s, t)
      PROVE  ClockInv'
  <2>1. s \in ClaimStatuses /\ t \in Nat
    BY <1>a, <1>5 DEF ClaimStatuses, Never
  <2>2. DOMAIN claims' = DOMAIN claims
    BY <1>a, <1>5, <2>1, MarkFacts
  <2>3. \A c \in DOMAIN claims :
          claims'[c].orphanedAt = IF c \in S THEN t ELSE claims[c].orphanedAt
    BY <1>a, <1>5, <2>1, MarkFacts, ZenonT(30)
  <2>. QED
    BY <1>2, <1>5, <2>2, <2>3
<1>6. ASSUME NEW a \in AgentIds, NEW f \in Files, DoTouch(a, {f}) PROVE ClockInv'
  <2>1. DOMAIN claims' = DOMAIN claims
    BY <1>a, <1>6, TouchFacts
  <2>2. \A c \in DOMAIN claims : claims'[c].orphanedAt = claims[c].orphanedAt
    BY <1>a, <1>6, TouchFacts
  <2>. QED
    BY <1>2, <2>1, <2>2
<1>7. CASE DoSweep(reaper.at)
  <2>1. DOMAIN claims' = DOMAIN claims
    BY <1>a, <1>7, SweepFacts
  <2>2. \A c \in DOMAIN claims : claims'[c].orphanedAt = claims[c].orphanedAt
    BY <1>a, <1>7, SweepFacts
  <2>. QED
    BY <1>2, <2>1, <2>2
<1>. QED
  BY StepClaims, <1>3, <1>4, <1>5, <1>6, <1>7 DEF ClaimsEffect

LEMMA InitClock == Init => ClockInv
BY DEF Init, ClockInv

LEMMA ClockKept == Spec => []ClockInv
BY InitClock, NextClock, TypesKept, PTL DEF Spec

LEMMA MarkReclaimsNothing ==
  ASSUME TypeOK, NEW S, NEW s \in {"RELEASED", "ORPHANED"}, NEW t \in Nat, Mark(S, s, t),
         NEW c \in DOMAIN claims
  PROVE  claims'[c].status = "RECLAIMABLE" => claims[c].status = "RECLAIMABLE"
<1>1. s \in ClaimStatuses /\ s # "RECLAIMABLE"
  BY DEF ClaimStatuses
<1>2. claims'[c].status = IF c \in S THEN s ELSE claims[c].status
  BY <1>1, MarkFacts
<1>. QED
  BY <1>1, <1>2

\* A claim becomes RECLAIMABLE in a sweep only, and only an expired one.
LEMMA StepReclaims ==
  ASSUME TypeInv, [Next]_vars, NEW c \in DOMAIN claims,
         claims[c].status # claims'[c].status, claims'[c].status = "RECLAIMABLE"
  PROVE  Expired(c, reaper.at)
<1>a. TypeOK
  BY DEF TypeInv
<1>1. ASSUME NEW a \in AgentIds, NEW s \in LiveStatuses, DoPropose(a, s) PROVE FALSE
  <2>1. claims'[c] = claims[c]
    BY <1>a, <1>1, ProposeFacts
  <2>. QED
    BY <2>1
<1>2. ASSUME NEW S \in SUBSET {x \in DOMAIN claims : Live(x)},
             NEW s \in {"RELEASED", "ORPHANED"}, NEW t \in {Never, reaper.at}, Mark(S, s, t)
      PROVE  FALSE
  <2>1. t \in Nat
    BY <1>a, <1>2 DEF Never, TypeOK
  <2>. QED
    BY <1>a, <1>2, <2>1, MarkReclaimsNothing
<1>3. ASSUME NEW a \in AgentIds, NEW f \in Files, DoTouch(a, {f}) PROVE FALSE
  <2>1. claims'[c].status = claims[c].status
    BY <1>a, <1>3, TouchFacts
  <2>. QED
    BY <2>1
<1>4. ASSUME DoSweep(reaper.at) PROVE Expired(c, reaper.at)
  <2>1. ~Expired(c, reaper.at) => claims'[c].status = claims[c].status
    BY <1>a, <1>4, SweepFacts
  <2>. QED
    BY <2>1
<1>. QED
  BY StepClaims, <1>1, <1>2, <1>3, <1>4 DEF ClaimsEffect

LEMMA StepIsPatient ==
  TypeInv /\ ClockInv /\ [Next]_vars =>
    /\ \A a \in reaper'.lost \ reaper.lost : now > agents[a].seen + Timeout
    /\ \A c \in DOMAIN claims :
         claims[c].status # claims'[c].status /\ claims'[c].status = "RECLAIMABLE"
           => now >= claims[c].orphanedAt + OrphanTTL
<1> SUFFICES ASSUME TypeInv, ClockInv, [Next]_vars
             PROVE  /\ \A a \in reaper'.lost \ reaper.lost : now > agents[a].seen + Timeout
                    /\ \A c \in DOMAIN claims :
                         claims[c].status # claims'[c].status
                           /\ claims'[c].status = "RECLAIMABLE"
                         => now >= claims[c].orphanedAt + OrphanTTL
  OBVIOUS
<1>a. /\ now \in Nat /\ reaper.at \in Nat /\ reaper.at <= now
      /\ Timeout \in Nat /\ OrphanTTL \in Nat
  BY RegistryAssumption DEF TypeInv, TypeOK, ClockInv
<1>1. ASSUME NEW a \in reaper'.lost \ reaper.lost PROVE now > agents[a].seen + Timeout
  <2>1. a \in Agents /\ Silent(a, reaper.at)
    BY <1>1, StepTime
  <2>2. agents[a].seen \in Nat
    BY <2>1 DEF TypeInv, TypeOK, AgentRecords
  <2>. QED
    BY <1>a, <2>1, <2>2 DEF Silent, Elapsed
<1>2. ASSUME NEW c \in DOMAIN claims, claims[c].status # claims'[c].status,
             claims'[c].status = "RECLAIMABLE"
      PROVE  now >= claims[c].orphanedAt + OrphanTTL
  <2>1. Expired(c, reaper.at)
    BY <1>2, StepReclaims
  <2>2. claims[c].orphanedAt \in Nat /\ claims[c].orphanedAt <= now
    BY DEF TypeInv, TypeOK, ClaimRecords, ClockInv
  <2>. QED
    BY <1>a, <2>1, <2>2 DEF Expired, Elapsed
<1>. QED
  BY <1>1, <1>2

\* The reaper takes no agent that has been heard of within the timeout, and no
\* tombstone younger than the TTL, for every timeout and TTL, however late it
\* runs after it looked at the clock.
THEOREM ReaperWaitsLongEnough == Spec => ReaperIsPatient
BY TypesKept, ClockKept, StepIsPatient, PTL DEF Spec, ReaperIsPatient
=============================================================================
