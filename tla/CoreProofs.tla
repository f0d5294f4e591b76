----------------------------- MODULE CoreProofs -----------------------------
(***************************************************************************)
(* What holds of Core for every number of agents, claims and conflicts:    *)
(* the registry behaves in it as it does on its own, the rest as           *)
(* Negotiation says, and every two agents that work have been weighed.     *)
(***************************************************************************)
EXTENDS Core, RegistryProofs

-----------------------------------------------------------------------------
(* The registry in Core                                                    *)

\* Every step of Core is one of the registry's or leaves the registry alone.
LEMMA StepsOfRegistry == [CoreNext]_coreVars => [Next]_vars
<1> SUFFICES ASSUME [CoreNext]_coreVars PROVE [Next]_vars
  OBVIOUS
<1>0. ASSUME RequestNext PROVE Next
  BY <1>0 DEF Next, ConnNext
<1>1. CASE CorePlain
  BY <1>1, <1>0 DEF CorePlain, RequestNext, Next, ConnNext
<1>2. CASE \E a \in AgentIds : \/ CoreClear(a)
                               \/ \E s \in LiveStatuses : CorePropose(a, s)
                               \/ \E f \in Files : CoreTouch(a, f)
                               \/ \E c \in ClaimIds : CoreRelease(c, a)
  BY <1>2, <1>0 DEF CoreClear, CorePropose, CoreTouch, CoreRelease, RequestNext
<1>3. CASE CoreDisconnect
  BY <1>3 DEF CoreDisconnect, Next, ConnNext
<1>4. CASE CoreNegotiate \/ CoreHandler \/ SweepLate \/ AskAboutLate \/ UNCHANGED coreVars
  BY <1>4 DEF CoreNegotiate, CoreHandler, SweepLate, AskAboutLate, coreVars
<1>5. CASE CoreWake \/ CoreReap
  BY <1>5 DEF CoreWake, CoreReap, Next, ReaperNext
<1>6. CASE CoreTime
  BY <1>6 DEF CoreTime, Next
<1>. QED
  BY <1>1, <1>2, <1>3, <1>4, <1>5, <1>6 DEF CoreNext, CoreRequest

\* The registry behaves in Core as it does on its own, so what RegistryProofs
\* shows of it holds of Core.
THEOREM CoreKeepsRegistry == CoreSpec => Spec
<1>1. CoreInit => Init
  BY DEF CoreInit
<1>. QED
  BY <1>1, StepsOfRegistry, PTL DEF CoreSpec, Spec

\* While the reaper is about the registry's part of its round, the other part is
\* still to come.
SweepInv == reaper.pc # "sleep" => sweep.pc = "sweep"

\* The strengthening that the refinement needs.
TieInv == TypeInv /\ SweepInv

LEMMA TieInvHolds == CoreSpec => []TieInv
<1>1. CoreInit => TieInv
  BY InitTypes DEF CoreInit, Init, TieInv, SweepInv
<1>2. TieInv /\ [CoreNext]_coreVars => TieInv'
  <2> SUFFICES ASSUME TieInv, [CoreNext]_coreVars PROVE SweepInv'
    BY StepsOfRegistry, NextTypes DEF TieInv
  <2> USE DEF SweepInv
  <2>0. SweepInv
    BY DEF TieInv
  <2>1. CASE CorePlain \/ CoreDisconnect
    BY <2>0, <2>1 DEF CorePlain, CoreDisconnect, tieVars, ReceiveRegister, RegisterCount,
       RegisterInsert, RegisterSeen, RegisterLog, ApplyHeartbeat, ReceiveHeartbeat,
       ChangeState, Event, LogLeft, Disconnect
  <2>2. CASE \E a \in AgentIds : \/ CoreClear(a)
                                 \/ \E s \in LiveStatuses : CorePropose(a, s)
                                 \/ \E f \in Files : CoreTouch(a, f)
                                 \/ \E c \in ClaimIds : CoreRelease(c, a)
    BY <2>0, <2>2 DEF CoreClear, CorePropose, CoreTouch, CoreRelease, RecomputesFor,
       ClearInvoked, ProposeClaim, TouchFile, ReleaseClaim, Event
  <2>3. CASE CoreNegotiate \/ CoreHandler \/ CoreTime \/ UNCHANGED coreVars
    BY <2>0, <2>3 DEF CoreNegotiate, CoreHandler, CoreTime, Tick, coreVars, vars, tieVars
  <2>4. CASE CoreWake
    BY <2>0, <2>4 DEF CoreWake
  <2>5. CASE CoreReap
    BY <2>0, <2>5 DEF CoreReap, tieVars, ReaperReap, ReaperOrphan, ReaperSweep, ReaperLog
  <2>6. CASE SweepLate \/ AskAboutLate
    BY <2>0, <2>6 DEF SweepLate, AskAboutLate, vars
  <2>. QED
    BY <2>1, <2>2, <2>3, <2>4, <2>5, <2>6 DEF CoreNext, CoreRequest
<1>. QED
  BY <1>1, <1>2, PTL DEF CoreSpec

-----------------------------------------------------------------------------
(* Who is registered and who holds a live claim, after a step              *)

LEMMA HoldingIs ==
  ASSUME TypeOK
  PROVE  /\ \A a : a \in Holding <=> \E c \in DOMAIN claims : Live(c) /\ claims[c].owner = a
         /\ Holding \subseteq AgentIds
         /\ Agents \subseteq Present /\ Present \subseteq AgentIds
<1>1. nextAgent \in 1 .. MaxRegistrations + 1 /\ MaxRegistrations \in Nat
  BY RegistryAssumption DEF TypeOK
<1>2. 1 .. nextAgent - 1 \subseteq AgentIds
  BY <1>1 DEF AgentIds
<1>3. \A c \in DOMAIN claims : claims[c].owner \in 1 .. nextAgent - 1
  BY DEF TypeOK, ClaimRecords
<1>. QED
  BY <1>2, <1>3 DEF Holding, Present, TypeOK

\* No claim comes to life or ends, and nobody changes hands.
LEMMA HoldingStays ==
  ASSUME DOMAIN claims' = DOMAIN claims,
         \A c \in DOMAIN claims : claims'[c].owner = claims[c].owner /\ (Live(c)' <=> Live(c))
  PROVE  Holding' = Holding
BY DEF Holding

\* Removing registered agents.
LEMMA PresentAfterRemove ==
  ASSUME TypeOK, NEW S, DoRemove(S)
  PROVE  /\ S \subseteq Agents => Present' = Present \ S
         /\ S \cap Agents = {} => Present' = Present
         /\ Holding' = Holding
<1>1. nextAgent' = nextAgent /\ claims' = claims /\ Agents' = Agents \ S
  BY DEF DoRemove, Agents, Restrict
<1>2. \A a \in Agents : ~(a >= nextAgent)
  BY NextAgentIsId DEF TypeOK
<1>. QED
  BY <1>1, <1>2 DEF Present, Holding, Live

\* Marking a set of claims RELEASED or ORPHANED takes away just those.
LEMMA HoldingAfterMark ==
  ASSUME TypeOK, NEW S, NEW s \in {"RELEASED", "ORPHANED"}, NEW t \in Nat, Mark(S, s, t),
         NEW a
  PROVE  a \in Holding' <=> \E c \in DOMAIN claims \ S : Live(c) /\ claims[c].owner = a
<1>1. s \in ClaimStatuses /\ s \notin LiveStatuses
  BY DEF ClaimStatuses, LiveStatuses
<1>2. DOMAIN claims' = DOMAIN claims
      /\ \A c \in DOMAIN claims : /\ claims'[c].owner = claims[c].owner
                                  /\ claims'[c].status = IF c \in S THEN s ELSE claims[c].status
  BY <1>1, MarkFacts
<1>3. \A c \in DOMAIN claims : Live(c)' <=> Live(c) /\ c \notin S
  BY <1>1, <1>2 DEF Live
<1>. QED
  BY <1>2, <1>3 DEF Holding

\* The ids of the agents and their counter decide who is present.
LEMMA PresentStays ==
  ASSUME Agents' = Agents, nextAgent' = nextAgent
  PROVE  Present' = Present
BY DEF Present

\* A registration is the arrival of an agent that was yet to come.
LEMMA PresentAfterRegister ==
  ASSUME TypeOK, NEW at, DoRegister(at)
  PROVE  Present' = Present /\ Holding' = Holding
<1>1. Agents' = Agents \cup {nextAgent} /\ nextAgent' = nextAgent + 1 /\ claims' = claims
  BY DEF DoRegister, Agents
<1>2. \A a \in AgentIds : a \in Int
  BY DEF AgentIds
<1>3. \A a \in AgentIds : a >= nextAgent <=> a = nextAgent \/ a >= nextAgent + 1
  BY <1>2, NextAgentIsId
<1>. QED
  BY <1>1, <1>3 DEF Present, Holding, Live

-----------------------------------------------------------------------------
(* Requests, as Negotiation sees them                                      *)

\* The variables of Negotiation that are not the registry's, and its reaper.
LEMMA TiesStay ==
  ASSUME UNCHANGED tieVars, UNCHANGED <<Present, Holding, ReaperView>>
  PROVE  UNCHANGED N!vars
BY DEF tieVars, stores, records, N!vars, N!stores, N!logs

LEMMA ViewStays ==
  ASSUME UNCHANGED <<reaper, sweep>>
  PROVE  UNCHANGED ReaperView
BY DEF ReaperView

\* Heartbeats, registrations, reports and the log of a departure.
LEMMA PlainIsStutter == TieInv /\ CorePlain => UNCHANGED N!vars
<1> SUFFICES ASSUME TieInv, CorePlain PROVE UNCHANGED N!vars
  OBVIOUS
<1>a. UNCHANGED tieVars
  BY DEF CorePlain
<1>b. UNCHANGED reaper
  BY DEF CorePlain, ReceiveRegister, RegisterCount, RegisterInsert,
     RegisterSeen, RegisterLog, ApplyHeartbeat, ReceiveHeartbeat, ChangeState, Event,
     LogLeft
<1> SUFFICES UNCHANGED <<Present, Holding>>
  BY <1>a, <1>b, TiesStay, ViewStays DEF tieVars
<1>0. TypeOK
  BY DEF TieInv, TypeInv
<1>1. ASSUME UNCHANGED <<Agents, nextAgent, claims>> PROVE UNCHANGED <<Present, Holding>>
  BY <1>1, PresentStays DEF Holding, Live
<1>2. CASE RegisterInsert
  BY <1>0, <1>2, PresentAfterRegister DEF RegisterInsert
<1>3. CASE ApplyHeartbeat
  BY <1>1, <1>3 DEF ApplyHeartbeat, DoHeartbeat, Agents
<1>4. CASE \E a \in AgentIds, s \in ReportedStates : ChangeState(a, s)
  BY <1>1, <1>4 DEF ChangeState, Event, DoSetState, Agents
<1>5. CASE \/ ReceiveRegister \/ RegisterCount \/ RegisterSeen \/ RegisterLog \/ LogLeft
           \/ \E a \in AgentIds : ReceiveHeartbeat(a)
  BY <1>1, <1>5 DEF ReceiveRegister, RegisterCount, RegisterSeen, RegisterLog, LogLeft,
     ReceiveHeartbeat, Goes, registryVars, Agents
<1>. QED
  BY <1>2, <1>3, <1>4, <1>5 DEF CorePlain

LEMMA ProposeMaps ==
  ASSUME TieInv, NEW a \in AgentIds, NEW s \in LiveStatuses, CorePropose(a, s)
  PROVE  N!ClaimProposed(a)
<1>0. TypeOK /\ DoPropose(a, s) /\ UNCHANGED reaper
  BY DEF TieInv, TypeInv, CorePropose, ProposeClaim, Event
<1>1. a \in Present
  BY <1>0, HoldingIs DEF DoPropose, Registered
<1>2. UNCHANGED Present
  BY <1>0, PresentStays DEF DoPropose, Promote, Agents
<1>3. Holding' = Holding \cup {a}
  <2>1. DOMAIN claims' = DOMAIN claims \cup {nextClaim} /\ nextClaim \notin DOMAIN claims
        /\ (\A c \in DOMAIN claims : claims'[c] = claims[c])
        /\ claims'[nextClaim] = [owner |-> a, status |-> s, files |-> {},
                                 orphanedAt |-> Never]
    BY <1>0, ProposeFacts
  <2>2. \A c \in DOMAIN claims' : Live(c)' <=> c = nextClaim \/ Live(c)
    BY <2>1 DEF Live
  <2>3. claims'[nextClaim].owner = a
    BY <2>1
  <2>. QED
    BY <2>1, <2>2, <2>3 DEF Holding
<1>. QED
  BY <1>0, <1>1, <1>2, <1>3, ViewStays
  DEF CorePropose, RecomputesFor, stores, N!ClaimProposed, N!ConnIdle, N!Recompute,
      N!stores, N!logs

LEMMA ClearMaps ==
  ASSUME TieInv, NEW a \in AgentIds, CoreClear(a)
  PROVE  N!ClearInvoked(a)
<1>0. TypeOK /\ DoClear(a) /\ UNCHANGED reaper
  BY DEF TieInv, TypeInv, CoreClear, ClearInvoked, Event
<1>1. a \in Present
  BY <1>0, HoldingIs DEF DoClear, Registered
<1>2. UNCHANGED Present
  BY <1>0, PresentStays DEF DoClear, Agents
<1>3. Holding' = Holding \ {a}
  <2>1. \A b : b \in Holding' <=> \E c \in DOMAIN claims \ LiveOf(a) :
                                     Live(c) /\ claims[c].owner = b
    BY <1>0, HoldingAfterMark DEF DoClear, Never
  <2>2. \A b : b \in Holding' <=> b \in Holding /\ b # a
    BY <1>0, <2>1, HoldingIs DEF LiveOf, OwnedBy
  <2>. QED
    BY <2>2
<1>. QED
  BY <1>0, <1>1, <1>2, <1>3, ViewStays
  DEF CoreClear, RecomputesFor, stores, N!ClearInvoked, N!ConnIdle, N!Recompute,
      N!stores, N!logs

LEMMA TouchMaps ==
  ASSUME TieInv, NEW a \in AgentIds, NEW f \in Files, CoreTouch(a, f)
  PROVE  N!FileTouched(a)
<1>0. TypeOK /\ DoTouch(a, {f}) /\ UNCHANGED reaper
  BY DEF TieInv, TypeInv, CoreTouch, TouchFile, Event
<1>1. a \in Present /\ a \in Holding
  BY <1>0, HoldingIs DEF DoTouch, Registered, LiveOf, OwnedBy
<1>2. UNCHANGED Present
  BY <1>0, PresentStays DEF DoTouch, Agents
<1>3. UNCHANGED Holding
  BY <1>0, TouchFacts, HoldingStays DEF Live
<1>. QED
  BY <1>0, <1>1, <1>2, <1>3, ViewStays
  DEF CoreTouch, RecomputesFor, stores, N!FileTouched, N!ConnIdle, N!Recompute,
      N!Working, N!stores, N!logs

LEMMA ReleaseMaps ==
  ASSUME TieInv, NEW c \in ClaimIds, NEW a \in AgentIds, CoreRelease(c, a)
  PROVE  \E holder \in AgentIds : N!ClaimReleased(holder, a)
<1> DEFINE holder == claims[c].owner
<1>0. TypeOK /\ DoRelease(c) /\ UNCHANGED reaper
  BY DEF TieInv, TypeInv, CoreRelease, ReleaseClaim, Event
<1>1. holder \in Holding /\ holder \in AgentIds /\ c \in DOMAIN claims
  BY <1>0, HoldingIs DEF DoRelease
<1>2. UNCHANGED Present
  BY <1>0, PresentStays DEF DoRelease, Agents
<1>3. Holding' \in {Holding, Holding \ {holder}}
  <2>1. \A b : b \in Holding' <=> \E d \in DOMAIN claims \ {c} : Live(d) /\ claims[d].owner = b
    BY <1>0, HoldingAfterMark DEF DoRelease, Never
  <2>2. \A b : b # holder => (b \in Holding' <=> b \in Holding)
    BY <1>0, <2>1, HoldingIs
  <2>. QED
    BY <1>1, <2>2
<1>4. N!ClaimReleased(holder, a)
  BY <1>0, <1>1, <1>2, <1>3, ViewStays
  DEF CoreRelease, RecomputesFor, stores, N!ClaimReleased, N!ConnIdle, N!Recompute,
      N!stores, N!logs
<1>. QED
  BY <1>1, <1>4

LEMMA DisconnectMaps ==
  ASSUME TieInv, CoreDisconnect
  PROVE  (\E a \in AgentIds : N!Disconnect(a)) \/ UNCHANGED N!vars
<1>0. TypeOK /\ DoRemove({thisAgent}) /\ UNCHANGED <<reaper, tieVars>>
  BY DEF TieInv, TypeInv, CoreDisconnect, Disconnect
<1>1. UNCHANGED <<Holding, ReaperView>>
  BY <1>0, PresentAfterRemove, ViewStays DEF tieVars
<1>2. CASE thisAgent \in Agents
  <2>1. Present' = Present \ {thisAgent} /\ thisAgent \in Present /\ thisAgent \in AgentIds
    BY <1>0, <1>2, PresentAfterRemove, HoldingIs
  <2>2. N!Disconnect(thisAgent)
    BY <1>0, <1>1, <2>1 DEF CoreDisconnect, tieVars, stores, records, N!Disconnect,
       N!ConnIdle, N!stores, N!logs
  <2>. QED
    BY <2>1, <2>2
<1>3. CASE thisAgent \notin Agents
  BY <1>0, <1>1, <1>3, PresentAfterRemove, TiesStay
<1>. QED
  BY <1>2, <1>3

-----------------------------------------------------------------------------
(* The reaper, as Negotiation sees it                                      *)

\* A record of Negotiation's reaper is what its fields are.
View(p, o, l, t) == [pc |-> p, old |-> o, lost |-> l, late |-> t]

LEMMA ViewFields ==
  ASSUME NEW q, NEW o, NEW l, NEW t, NEW r \in [pc : {q}, old : {o}, lost : {l}, late : {t}]
  PROVE  r = View(q, o, l, t)
BY DEF View

LEMMA WakeMaps == TieInv /\ CoreWake => N!ReaperWake
<1> SUFFICES ASSUME TieInv, CoreWake PROVE N!ReaperWake
  OBVIOUS
<1>1. UNCHANGED <<Agents, nextAgent, claims>>
  BY DEF CoreWake, ReaperWake, registryVars, Agents
<1>2. UNCHANGED <<Present, Holding>>
  BY <1>1, PresentStays DEF Holding, Live
<1>3. ReaperView.pc = "sleep"
  BY DEF CoreWake, ReaperWake, ReaperView
<1>4. ReaperView' = View("reap", aged, {}, {})
  BY DEF CoreWake, ReaperWake, ReaperView, View
<1>5. [N!Asleep EXCEPT !.pc = "reap", !.old = aged] = View("reap", aged, {}, {})
  <2>1. N!Asleep = View("sleep", {}, {}, {})
    BY DEF N!Asleep, View
  <2>2. [N!Asleep EXCEPT !.pc = "reap", !.old = aged]
          \in [pc : {"reap"}, old : {aged}, lost : {{}}, late : {{}}]
    BY <2>1 DEF View
  <2>. QED
    BY <2>2, ViewFields
<1>. QED
  BY <1>2, <1>3, <1>4, <1>5
  DEF CoreWake, stores, records, N!ReaperWake, N!stores, N!logs

LEMMA ReapMaps == TieInv /\ ReaperReap /\ UNCHANGED tieVars
                    => \E lost \in SUBSET AgentIds : N!ReaperReap(lost)
<1> SUFFICES ASSUME TieInv, ReaperReap, UNCHANGED tieVars
             PROVE  \E lost \in SUBSET AgentIds : N!ReaperReap(lost)
  OBVIOUS
<1> DEFINE lost == {a \in Agents : Silent(a, reaper.at)}
<1>0. TypeOK /\ reaper.pc = "reap" /\ sweep.pc = "sweep"
  BY DEF TieInv, TypeInv, SweepInv, ReaperReap
<1>1. /\ DoRemove(lost) /\ lost \subseteq Agents
      /\ reaper' = [pc |-> IF lost = {} THEN "sweep" ELSE "orphan",
                    at |-> reaper.at, lost |-> lost]
  BY DEF ReaperReap
<1> HIDE DEF lost
<1>2. Present' = Present \ lost /\ Holding' = Holding
  BY <1>0, <1>1, PresentAfterRemove
<1>3. lost \subseteq Present /\ lost \subseteq AgentIds
  BY <1>0, <1>1, HoldingIs
<1>4. ReaperView = View("reap", sweep.old, {}, sweep.late)
  BY <1>0 DEF ReaperView, View
<1>5. ReaperView' = View(IF lost = {} THEN "sweep" ELSE "orphan", sweep.old, lost, sweep.late)
  BY <1>0, <1>1 DEF ReaperView, View, tieVars
<1>6. ReaperView' = [ReaperView EXCEPT !.pc = IF lost = {} THEN "sweep" ELSE "orphan",
                                       !.lost = lost]
  <2> DEFINE next == IF lost = {} THEN "sweep" ELSE "orphan"
  <2> HIDE DEF next
  <2>1. [ReaperView EXCEPT !.pc = next, !.lost = lost]
          \in [pc : {next}, old : {sweep.old}, lost : {lost}, late : {sweep.late}]
    BY <1>4 DEF View
  <2>2. [ReaperView EXCEPT !.pc = next, !.lost = lost] = View(next, sweep.old, lost, sweep.late)
    BY <2>1, ViewFields
  <2>. QED
    BY <1>5, <2>2 DEF next
<1>7. ReaperView.pc = "reap"
  BY <1>4 DEF View
<1>8. N!ReaperReap(lost)
  BY <1>2, <1>3, <1>6, <1>7 DEF tieVars, stores, records, N!ReaperReap, N!stores, N!logs
<1>. QED
  BY <1>3, <1>8

LEMMA OrphanMaps == TieInv /\ ReaperOrphan /\ UNCHANGED tieVars => N!ReaperOrphan
<1> SUFFICES ASSUME TieInv, ReaperOrphan, UNCHANGED tieVars PROVE N!ReaperOrphan
  OBVIOUS
<1>0. TypeOK /\ reaper.pc = "orphan" /\ sweep.pc = "sweep" /\ UNCHANGED sweep
      /\ DoOrphan(reaper.lost, reaper.at) /\ reaper' = [reaper EXCEPT !.pc = "sweep"]
  BY DEF TieInv, TypeInv, SweepInv, ReaperOrphan, tieVars
<1>1. UNCHANGED Present
  BY <1>0, PresentStays DEF DoOrphan, Agents
<1>2. Holding' = Holding \ reaper.lost
  <2> DEFINE S == UNION {LiveOf(a) : a \in reaper.lost}
  <2>1. reaper.at \in Nat
    BY <1>0 DEF TypeOK
  <2>2. Mark(S, "ORPHANED", reaper.at)
    BY <1>0 DEF DoOrphan
  <2>3. \A c \in DOMAIN claims : c \in S <=> Live(c) /\ claims[c].owner \in reaper.lost
    BY DEF LiveOf, OwnedBy
  <2> HIDE DEF S
  <2>4. \A b : b \in Holding' <=> \E c \in DOMAIN claims \ S : Live(c) /\ claims[c].owner = b
    BY <1>0, <2>1, <2>2, HoldingAfterMark
  <2>5. \A b : b \in Holding' <=> b \in Holding /\ b \notin reaper.lost
    BY <1>0, <2>3, <2>4, HoldingIs
  <2>. QED
    BY <2>5
<1>3. ReaperView = View("orphan", sweep.old, reaper.lost, sweep.late)
  BY <1>0 DEF ReaperView, View
<1>4. ReaperView' = View("sweep", sweep.old, {}, sweep.late)
  <2>1. reaper'.pc = "sweep"
    BY <1>0 DEF TypeOK
  <2>. QED
    BY <1>0, <2>1 DEF ReaperView, View
<1>5. ReaperView' = [ReaperView EXCEPT !.pc = "sweep", !.lost = {}]
  <2>1. [ReaperView EXCEPT !.pc = "sweep", !.lost = {}]
          \in [pc : {"sweep"}, old : {sweep.old}, lost : {{}}, late : {sweep.late}]
    BY <1>3 DEF View
  <2>. QED
    BY <1>4, <2>1, ViewFields
<1>6. ReaperView.pc = "orphan" /\ ReaperView.lost = reaper.lost
  BY <1>3 DEF View
<1>. QED
  BY <1>0, <1>1, <1>2, <1>5, <1>6
  DEF tieVars, stores, records, N!ReaperOrphan, N!stores, N!logs

\* Promoting tombstones and logging the lost is nothing to Negotiation.
LEMMA AfterOrphanStutters == TieInv /\ (ReaperSweep \/ ReaperLog) /\ UNCHANGED tieVars
                               => UNCHANGED N!vars
<1> SUFFICES ASSUME TieInv, ReaperSweep \/ ReaperLog, UNCHANGED tieVars
             PROVE  UNCHANGED <<Present, Holding, ReaperView>>
  BY TiesStay
<1>0. TypeOK /\ sweep.pc = "sweep" /\ UNCHANGED sweep
  BY DEF TieInv, TypeInv, SweepInv, ReaperSweep, ReaperLog, tieVars
<1>1. UNCHANGED ReaperView
  <2>1. reaper.pc \in {"sweep", "log"} /\ reaper'.pc \in {"log", "sleep"}
    BY <1>0 DEF ReaperSweep, ReaperLog, TypeOK
  <2>. QED
    BY <1>0, <2>1 DEF ReaperView
<1>2. UNCHANGED Present
  BY PresentStays DEF ReaperSweep, ReaperLog, DoSweep, registryVars, Agents
<1>3. CASE ReaperLog
  BY <1>1, <1>2, <1>3 DEF ReaperLog, registryVars, Holding, Live
<1>4. CASE ReaperSweep
  <2>1. DoSweep(reaper.at)
    BY <1>4 DEF ReaperSweep
  <2>2. DOMAIN claims' = DOMAIN claims
        /\ \A c \in DOMAIN claims :
             /\ claims'[c].owner = claims[c].owner
             /\ Expired(c, reaper.at) => claims'[c].status = "RECLAIMABLE"
             /\ ~Expired(c, reaper.at) => claims'[c].status = claims[c].status
    BY <1>0, <2>1, SweepFacts
  <2>3. \A c \in DOMAIN claims : Live(c)' <=> Live(c)
    BY <2>2 DEF Live, Expired, LiveStatuses
  <2>. QED
    BY <1>1, <1>2, <2>2, <2>3, HoldingStays
<1>. QED
  BY <1>3, <1>4

LEMMA SweepLateMaps == TieInv /\ SweepLate => N!ReaperSweep
<1> SUFFICES ASSUME TieInv, SweepLate PROVE N!ReaperSweep
  OBVIOUS
<1>1. UNCHANGED <<Present, Holding>> /\ UNCHANGED reaper
  BY PresentStays DEF SweepLate, vars, registryVars, Agents, Holding, Live
<1>2. ReaperView = [pc |-> "sweep", old |-> sweep.old, lost |-> {}, late |-> sweep.late]
  BY DEF SweepLate, ReaperView
<1> DEFINE late == {i \in N!Open : N!Late(i, sweep.old)}
<1>3. sweep' = IF late = {} THEN SweepAsleep
                            ELSE [SweepAsleep EXCEPT !.pc = "ask", !.late = late]
  BY DEF SweepLate
<1> HIDE DEF late
<1>4. ReaperView' = IF late = {} THEN N!Asleep
                                 ELSE [N!Asleep EXCEPT !.pc = "ask", !.late = late]
  <2>2. ReaperView' = View(sweep'.pc, sweep'.old, {}, sweep'.late)
    BY <1>1 DEF SweepLate, ReaperView, View
  <2>3. N!Asleep = View("sleep", {}, {}, {})
    BY DEF N!Asleep, View
  <2>4. CASE late = {}
    BY <1>3, <2>2, <2>3, <2>4 DEF SweepAsleep
  <2>5. CASE late # {}
    <3>1. sweep'.pc = "ask" /\ sweep'.old = {} /\ sweep'.late = late
      BY <1>3, <2>5 DEF SweepAsleep
    <3>2. ReaperView' = View("ask", {}, {}, late)
      BY <2>2, <3>1
    <3>3. [N!Asleep EXCEPT !.pc = "ask", !.late = late]
            \in [pc : {"ask"}, old : {{}}, lost : {{}}, late : {late}]
      BY <2>3 DEF View
    <3>4. [N!Asleep EXCEPT !.pc = "ask", !.late = late] = View("ask", {}, {}, late)
      BY <3>3, ViewFields
    <3>. QED
      BY <2>5, <3>2, <3>4
  <2>. QED
    BY <2>4, <2>5
<1>. QED
  BY <1>1, <1>2, <1>4 DEF late, SweepLate, records, N!ReaperSweep, N!logs

LEMMA AskMaps == TieInv /\ AskAboutLate => N!ReaperAsk
<1> SUFFICES ASSUME TieInv, AskAboutLate PROVE N!ReaperAsk
  OBVIOUS
<1>1. UNCHANGED <<Present, Holding>> /\ UNCHANGED reaper
  BY PresentStays DEF AskAboutLate, vars, registryVars, Agents, Holding, Live
<1>2. reaper.pc = "sleep"
  BY DEF TieInv, SweepInv, AskAboutLate
<1>3. ReaperView.pc = "ask" /\ ReaperView.late = sweep.late
  BY <1>2 DEF AskAboutLate, ReaperView
<1>4. ReaperView' = N!Asleep
  BY <1>1, <1>2 DEF AskAboutLate, ReaperView, SweepAsleep, N!Asleep
<1>. QED
  BY <1>1, <1>3, <1>4 DEF AskAboutLate, stores, N!ReaperAsk, N!stores

-----------------------------------------------------------------------------
(* Heat, conflicts and wait edges in Core                                  *)

LEMMA CoreInitMaps == CoreInit => N!Init
<1> SUFFICES ASSUME CoreInit PROVE N!Init
  OBVIOUS
<1>1. Present = AgentIds /\ Holding = {}
  BY DEF CoreInit, Init, Present, Holding, AgentIds
<1>2. ReaperView = N!Asleep
  BY DEF CoreInit, Init, ReaperView, SweepAsleep, N!Asleep
<1>. QED
  BY <1>1, <1>2 DEF CoreInit, N!Init

LEMMA CoreStepsMap == TieInv /\ [CoreNext]_coreVars => [N!Next]_N!vars
<1> SUFFICES ASSUME TieInv, [CoreNext]_coreVars PROVE [N!Next]_N!vars
  OBVIOUS
<1>1. CASE CorePlain
  BY <1>1, PlainIsStutter
<1>2. CASE CoreDisconnect
  BY <1>2, DisconnectMaps DEF N!Next, N!RequestNext
<1>3. ASSUME NEW a \in AgentIds, CoreClear(a) PROVE N!Next
  BY <1>3, ClearMaps DEF N!Next, N!RequestNext
<1>4. ASSUME NEW a \in AgentIds, NEW s \in LiveStatuses, CorePropose(a, s) PROVE N!Next
  BY <1>4, ProposeMaps DEF N!Next, N!RequestNext
<1>5. ASSUME NEW a \in AgentIds, NEW f \in Files, CoreTouch(a, f) PROVE N!Next
  BY <1>5, TouchMaps DEF N!Next, N!RequestNext
<1>6. ASSUME NEW a \in AgentIds, NEW c \in ClaimIds, CoreRelease(c, a) PROVE N!Next
  BY <1>6, ReleaseMaps DEF N!Next, N!RequestNext
<1>7. CASE CoreNegotiate \/ CoreHandler
  BY <1>7 DEF CoreNegotiate, CoreHandler, N!Next, N!RequestNext
<1>8. CASE CoreWake
  BY <1>8, WakeMaps DEF N!Next, N!ReaperNext
<1>9. CASE CoreReap
  <2>1. CASE ReaperReap
    BY <1>9, <2>1, ReapMaps DEF CoreReap, N!Next, N!ReaperNext
  <2>2. CASE ReaperOrphan
    BY <1>9, <2>2, OrphanMaps DEF CoreReap, N!Next, N!ReaperNext
  <2>3. CASE ReaperSweep \/ ReaperLog
    BY <1>9, <2>3, AfterOrphanStutters DEF CoreReap
  <2>. QED
    BY <1>9, <2>1, <2>2, <2>3 DEF CoreReap
<1>10. CASE SweepLate \/ AskAboutLate
  BY <1>10, SweepLateMaps, AskMaps DEF N!Next, N!ReaperNext
<1>11. CASE CoreTime
  <2>1. CASE Tick /\ UNCHANGED tieVars
    <3>1. UNCHANGED <<Present, Holding, ReaperView>>
      BY <2>1, PresentStays, ViewStays DEF Tick, tieVars, registryVars, Agents, Holding, Live
    <3>. QED
      BY <2>1, <3>1, TiesStay
  <2>2. CASE \E i \in N!Ids : N!GrowOld(i)
    BY <2>2 DEF N!Next
  <2>. QED
    BY <1>11, <2>1, <2>2 DEF CoreTime
<1>12. CASE UNCHANGED coreVars
  <2>1. UNCHANGED <<Present, Holding, ReaperView>>
    BY <1>12, PresentStays, ViewStays
    DEF coreVars, vars, tieVars, registryVars, Agents, Holding, Live
  <2>. QED
    BY <1>12, <2>1, TiesStay DEF coreVars
<1>. QED
  BY <1>1, <1>2, <1>3, <1>4, <1>5, <1>6, <1>7, <1>8, <1>9, <1>10, <1>11, <1>12
  DEF CoreNext, CoreRequest

\* Negotiation's abstraction of the registry is sound: for every number of
\* agents, claims and conflicts and every timeout, the heat, the conflicts and the
\* wait edges of Core behave as Negotiation says, whatever the registry does.
THEOREM CoreImplementsNegotiation == CoreSpec => ImplementsNegotiation
<1>1. CoreSpec => N!Init /\ [][N!Next]_N!vars
  BY CoreInitMaps, CoreStepsMap, TieInvHolds, PTL DEF CoreSpec
<1>. QED
  BY <1>1 DEF ImplementsNegotiation, N!Spec

-----------------------------------------------------------------------------
(* Every two agents that work have been weighed                            *)

\* What EveryPairIsWeighed needs to be inductive, in Negotiation's terms: two agents
\* that work are weighed unless the thread is about to weigh one of them; the others
\* it will weigh it against are all that work; and the one it drops does not.
WeighInv ==
  /\ "pc" \in DOMAIN handler
  /\ \A a, b \in N!Working : a # b =>
       \/ {a, b} \in DOMAIN heat
       \/ handler.pc \in {"snapshot", "apply"} /\ handler.agent \in {a, b}
  /\ handler.pc = "apply" => N!Working \subseteq handler.others \cup {handler.agent}
  /\ handler.pc = "drop" => handler.agent \notin N!Working

\* Fewer agents work, and the thread stays away from the heat store.
LEMMA FewerWork ==
  ASSUME WeighInv, N!Working' \subseteq N!Working, UNCHANGED heat,
         \/ UNCHANGED handler
         \/ /\ handler.pc \notin {"snapshot", "apply"}
            /\ "pc" \in DOMAIN handler' /\ handler'.pc \notin {"apply", "drop"}
  PROVE  WeighInv'
BY DEF WeighInv

LEMMA SnapshotWeighs == WeighInv /\ N!Snapshot => WeighInv'
<1> SUFFICES ASSUME WeighInv, N!Snapshot PROVE WeighInv'
  OBVIOUS
<1>1. handler.pc = "snapshot" /\ UNCHANGED heat /\ N!Working' = N!Working
  BY DEF N!Snapshot, N!stores, N!Working
<1>2. CASE handler.agent \in N!Working
  <2>1. handler' = [pc |-> "apply", agent |-> handler.agent,
                    others |-> N!Working \ {handler.agent}]
    BY <1>2 DEF N!Snapshot
  <2>2. handler'.pc = "apply" /\ handler'.agent = handler.agent
        /\ handler'.others = N!Working \ {handler.agent} /\ "pc" \in DOMAIN handler'
    BY <2>1
  <2>. QED
    BY <1>1, <2>2 DEF WeighInv
<1>3. CASE handler.agent \notin N!Working
  <2>1. handler' = [pc |-> "drop", agent |-> handler.agent]
    BY <1>3 DEF N!Snapshot
  <2>2. handler'.pc = "drop" /\ handler'.agent = handler.agent /\ "pc" \in DOMAIN handler'
    BY <2>1
  <2>. QED
    BY <1>1, <1>3, <2>2 DEF WeighInv
<1>. QED
  BY <1>2, <1>3

LEMMA ApplyWeighs ==
  ASSUME WeighInv, NEW hot, N!ApplyHeat(hot)
  PROVE  WeighInv'
<1> DEFINE pairs == {{handler.agent, b} : b \in handler.others}
<1>1. handler.pc = "apply" /\ N!Working' = N!Working
      /\ DOMAIN heat' = DOMAIN heat \cup pairs
  BY DEF N!ApplyHeat, N!Working
<1>2. handler'.pc = "log" /\ "pc" \in DOMAIN handler'
  BY DEF N!ApplyHeat
<1>3. \A a, b \in N!Working : a # b /\ handler.agent \in {a, b} => {a, b} \in pairs
  BY <1>1 DEF WeighInv
<1> HIDE DEF pairs
<1>. QED
  BY <1>1, <1>2, <1>3 DEF WeighInv

LEMMA DropWeighs == WeighInv /\ N!DropEdges => WeighInv'
<1> SUFFICES ASSUME WeighInv, N!DropEdges PROVE WeighInv'
  OBVIOUS
<1>1. handler.pc = "drop" /\ N!Working' = N!Working
      /\ handler'.pc = "log" /\ "pc" \in DOMAIN handler'
  BY DEF N!DropEdges, N!Working
<1>2. DOMAIN heat' = {p \in DOMAIN heat : handler.agent \notin p}
  BY DEF N!DropEdges, Restrict, N!Restrict
<1>. QED
  BY <1>1, <1>2 DEF WeighInv

LEMMA StepsWeigh == WeighInv /\ [N!Next]_N!vars => WeighInv'
<1> SUFFICES ASSUME WeighInv, [N!Next]_N!vars PROVE WeighInv'
  OBVIOUS
<1>1. ASSUME NEW a, N!ClaimProposed(a) PROVE WeighInv'
  <2>1. N!Working' \subseteq N!Working \cup {a} /\ UNCHANGED heat
        /\ handler.pc = "idle" /\ handler'.pc = "snapshot" /\ handler'.agent = a
        /\ "pc" \in DOMAIN handler'
    BY <1>1 DEF N!ClaimProposed, N!ConnIdle, N!Idle, N!Recompute, N!Working, N!stores
  <2>. QED
    BY <2>1 DEF WeighInv
<1>2. ASSUME NEW a, N!ClearInvoked(a) \/ N!FileTouched(a) \/ N!Disconnect(a)
      PROVE  WeighInv'
  <2>1. N!Working' \subseteq N!Working /\ UNCHANGED heat /\ handler.pc = "idle"
    BY <1>2 DEF N!ClearInvoked, N!FileTouched, N!Disconnect, N!ConnIdle, N!Idle,
       N!Working, N!stores
  <2>2. \/ UNCHANGED handler
        \/ handler'.pc = "snapshot" /\ "pc" \in DOMAIN handler'
    BY <1>2 DEF N!ClearInvoked, N!FileTouched, N!Disconnect, N!Recompute
  <2>. QED
    BY <2>1, <2>2, FewerWork
<1>3. ASSUME NEW holder, NEW a, N!ClaimReleased(holder, a) PROVE WeighInv'
  <2>1. N!Working' \subseteq N!Working /\ UNCHANGED heat /\ handler.pc = "idle"
        /\ handler'.pc = "snapshot" /\ "pc" \in DOMAIN handler'
    BY <1>3 DEF N!ClaimReleased, N!ConnIdle, N!Idle, N!Recompute, N!Working, N!stores
  <2>. QED
    BY <2>1, FewerWork
<1>4. ASSUME NEW i, N!UserDecision(i) \/ \E a \in AgentIds, p \in Proposals :
                                           N!ProposalSubmitted(i, a, p)
      PROVE  WeighInv'
  <2>2. CASE N!UserDecision(i)
    <3>1. N!Working' = N!Working /\ UNCHANGED heat /\ handler.pc = "idle"
          /\ handler' = [pc |-> "log", closed |-> {i}]
      BY <2>2 DEF N!UserDecision, N!ConnIdle, N!Idle, N!Working
    <3>. QED
      BY <3>1, FewerWork
  <2>3. ASSUME NEW a, NEW p, N!ProposalSubmitted(i, a, p) PROVE WeighInv'
    <3>1. N!Working' = N!Working /\ UNCHANGED heat /\ handler.pc = "idle"
          /\ handler' = [pc |-> "weigh", id |-> i]
      BY <2>3 DEF N!ProposalSubmitted, N!ConnIdle, N!Idle, N!Working
    <3>. QED
      BY <3>1, FewerWork
  <2>. QED
    BY <1>4, <2>2, <2>3
<1>5. CASE N!Weigh \/ N!Queue \/ N!Decide \/ N!LogAsk \/ N!LogClosed
  <2>1. N!Working' = N!Working /\ UNCHANGED heat
        /\ handler.pc \in {"weigh", "queue", "decide", "ask", "log"}
    BY <1>5 DEF N!Weigh, N!Queue, N!Decide, N!LogAsk, N!LogClosed, N!Working, N!stores
  <2>2. "pc" \in DOMAIN handler' /\ handler'.pc \notin {"apply", "drop"}
    <3>1. CASE N!Weigh
      BY <3>1 DEF N!Weigh, N!Idle
    <3>2. CASE N!Queue
      BY <3>2 DEF N!Queue
    <3>3. CASE N!Decide
      <4>1. "pc" \in DOMAIN handler
        BY DEF WeighInv
      <4>2. handler' = [pc |-> "log", closed |-> {handler.id}]
            \/ handler' = [handler EXCEPT !.pc = "ask"]
        BY <3>3 DEF N!Decide
      <4>. QED
        BY <4>1, <4>2
    <3>4. CASE N!LogAsk \/ N!LogClosed
      BY <3>4 DEF N!LogAsk, N!LogClosed, N!Idle
    <3>. QED
      BY <1>5, <3>1, <3>2, <3>3, <3>4
  <2>. QED
    BY <2>1, <2>2, FewerWork
<1>6. CASE N!Snapshot \/ N!DropEdges \/ \E hot : N!ApplyHeat(hot)
  BY <1>6, SnapshotWeighs, DropWeighs, ApplyWeighs
<1>7. CASE N!ReaperNext \/ (\E i \in N!Ids : N!GrowOld(i)) \/ UNCHANGED N!vars
  <2>1. N!Working' \subseteq N!Working /\ UNCHANGED <<heat, handler>>
    BY <1>7 DEF N!ReaperNext, N!ReaperWake, N!ReaperReap, N!ReaperOrphan, N!ReaperSweep,
       N!ReaperAsk, N!GrowOld, N!vars, N!Working, N!stores
  <2>. QED
    BY <2>1, FewerWork
<1>. QED
  BY <1>1, <1>2, <1>3, <1>4, <1>5, <1>6, <1>7 DEF N!Next, N!RequestNext, N!HandlerNext

\* The agents that Negotiation takes to be working are those that hold live claims.
LEMMA BusyWork == TypeOK => Busy \subseteq N!Working
BY HoldingIs DEF Busy, LiveOf, OwnedBy, N!Working

\* For every number of agents and claims, and every timeout: between requests Core
\* has weighed every two registered agents that hold live claims against each other
\* and has their heat, although the snapshot and the heat store have locks of their
\* own, the reaper runs between them, and claims are released in anybody's name.
THEOREM CoreWeighsEveryPair == CoreSpec => []EveryPairIsWeighed
<1>1. CoreInit => WeighInv
  <2> SUFFICES ASSUME CoreInit PROVE WeighInv
    OBVIOUS
  <2>1. Holding = {} /\ handler.pc = "idle" /\ "pc" \in DOMAIN handler
    BY DEF CoreInit, Init, Holding, N!Idle
  <2>. QED
    BY <2>1 DEF WeighInv, N!Working
<1>2. TieInv /\ WeighInv => EveryPairIsWeighed
  <2> SUFFICES ASSUME TieInv, WeighInv, Free,
                      NEW a \in Busy, NEW b \in Busy, a # b
               PROVE  {a, b} \in DOMAIN heat
    BY DEF EveryPairIsWeighed
  <2>1. handler.pc = "idle"
    BY DEF Free, N!Idle
  <2>2. a \in N!Working /\ b \in N!Working
    BY BusyWork DEF TieInv, TypeInv
  <2>. QED
    BY <2>1, <2>2 DEF WeighInv
<1>3. TieInv /\ WeighInv /\ [CoreNext]_coreVars => WeighInv'
  BY CoreStepsMap, StepsWeigh
<1>. QED
  BY <1>1, <1>2, <1>3, TieInvHolds, PTL DEF CoreSpec

-----------------------------------------------------------------------------
(* What Negotiation's theorems say of Core                                 *)

\* Negotiation again, with its theorems; its definitions are those of N.
NP == INSTANCE NegotiationProofs WITH
        Agent <- AgentIds, present <- Present, holding <- Holding,
        conn <- handler, reaper <- ReaperView

LEMMA SameHelpers ==
  /\ \A S : N!Cardinality(S) = NP!Cardinality(S)
  /\ \A g : N!FindCycle(g) = NP!FindCycle(g)
  /\ \A g, S : N!Retain(g, S) = NP!Retain(g, S)
  /\ \A g : N!Nodes(g) = NP!Nodes(g) /\ N!ToSet(g) = NP!ToSet(g)
  /\ \A p, q, f : N!Compare(p, q, f) = NP!Compare(p, q, f)
  /\ \A S : N!InOrder(S) = NP!InOrder(S)
<1>1. \A S : N!Cardinality(S) = NP!Cardinality(S)
  BY DEF N!Cardinality, NP!Cardinality, N!IsFiniteSet, NP!IsFiniteSet
<1>2. \A g : N!FindCycle(g) = NP!FindCycle(g)
  BY DEF N!FindCycle, NP!FindCycle, N!Starts, NP!Starts, N!Unvisited, NP!Unvisited,
     N!SearchFrom, NP!SearchFrom, N!Visit, NP!Visit, N!Enter, NP!Enter, N!Searches,
     NP!Searches, N!NoCycle, NP!NoCycle, N!CycleOf, NP!CycleOf, N!Nodes, NP!Nodes,
     N!Edges, NP!Edges, N!Edge, NP!Edge, N!ToSet, NP!ToSet
<1>3. \A g, S : N!Retain(g, S) = NP!Retain(g, S)
  BY DEF N!Retain, NP!Retain
<1>4. \A g : N!Nodes(g) = NP!Nodes(g) /\ N!ToSet(g) = NP!ToSet(g)
  BY DEF N!Nodes, NP!Nodes, N!ToSet, NP!ToSet
<1>5. \A p, q, f : N!Compare(p, q, f) = NP!Compare(p, q, f)
  BY DEF N!Compare, NP!Compare, N!Either, NP!Either, N!OneEnough, NP!OneEnough, N!Both,
     NP!Both, N!AutoResolve, NP!AutoResolve, N!Escalate, NP!Escalate, N!FirstOnly,
     NP!FirstOnly, N!StepAside, NP!StepAside
<1>6. \A S : N!InOrder(S) = NP!InOrder(S)
  BY DEF N!InOrder, NP!InOrder, N!SetToSeqs, NP!SetToSeqs, N!Cardinality,
     NP!Cardinality, N!IsFiniteSet, NP!IsFiniteSet
<1>. QED
  BY <1>1, <1>2, <1>3, <1>4, <1>5, <1>6

LEMMA SameRequests ==
  ASSUME NEW a, NEW b, NEW p, NEW i
  PROVE  /\ N!ClaimProposed(a) => NP!ClaimProposed(a)
         /\ N!ClaimReleased(b, a) => NP!ClaimReleased(b, a)
         /\ N!ClearInvoked(a) => NP!ClearInvoked(a)
         /\ N!FileTouched(a) => NP!FileTouched(a)
         /\ N!Disconnect(a) => NP!Disconnect(a)
         /\ N!ProposalSubmitted(i, a, p) => NP!ProposalSubmitted(i, a, p)
         /\ N!UserDecision(i) => NP!UserDecision(i)
         /\ N!GrowOld(i) => NP!GrowOld(i)
<1>1. N!ClaimProposed(a) => NP!ClaimProposed(a)
  BY DEF N!ClaimProposed, NP!ClaimProposed, N!ConnIdle, NP!ConnIdle, N!Idle, NP!Idle,
     N!Recompute, NP!Recompute, N!Working, NP!Working, N!stores, NP!stores, N!logs,
     NP!logs, N!Open, NP!Open
<1>2. N!ClaimReleased(b, a) => NP!ClaimReleased(b, a)
  BY DEF N!ClaimReleased, NP!ClaimReleased, N!ConnIdle, NP!ConnIdle, N!Idle, NP!Idle,
     N!Recompute, NP!Recompute, N!Working, NP!Working, N!stores, NP!stores, N!logs,
     NP!logs, N!Open, NP!Open
<1>3. N!ClearInvoked(a) => NP!ClearInvoked(a)
  BY DEF N!ClearInvoked, NP!ClearInvoked, N!ConnIdle, NP!ConnIdle, N!Idle, NP!Idle,
     N!Recompute, NP!Recompute, N!Working, NP!Working, N!stores, NP!stores, N!logs,
     NP!logs, N!Open, NP!Open
<1>4. N!FileTouched(a) => NP!FileTouched(a)
  BY DEF N!FileTouched, NP!FileTouched, N!ConnIdle, NP!ConnIdle, N!Idle, NP!Idle,
     N!Recompute, NP!Recompute, N!Working, NP!Working, N!stores, NP!stores, N!logs,
     NP!logs, N!Open, NP!Open
<1>5. N!Disconnect(a) => NP!Disconnect(a)
  BY DEF N!Disconnect, NP!Disconnect, N!ConnIdle, NP!ConnIdle, N!Idle, NP!Idle,
     N!Recompute, NP!Recompute, N!Working, NP!Working, N!stores, NP!stores, N!logs,
     NP!logs, N!Open, NP!Open
<1>6. N!ProposalSubmitted(i, a, p) => NP!ProposalSubmitted(i, a, p)
  BY DEF N!ProposalSubmitted, NP!ProposalSubmitted, N!ConnIdle, NP!ConnIdle, N!Idle,
     NP!Idle, N!Recompute, NP!Recompute, N!Working, NP!Working, N!stores, NP!stores,
     N!logs, NP!logs, N!Open, NP!Open
<1>7. N!UserDecision(i) => NP!UserDecision(i)
  BY DEF N!UserDecision, NP!UserDecision, N!Close, NP!Close, N!ForgetWaits,
     NP!ForgetWaits, N!Restrict, NP!Restrict, N!ToSet, NP!ToSet, N!Retain, NP!Retain,
     N!ConnIdle, NP!ConnIdle, N!Idle, NP!Idle, N!Recompute, NP!Recompute, N!Working,
     NP!Working, N!stores, NP!stores, N!logs, NP!logs, N!Open, NP!Open
<1>8. N!GrowOld(i) => NP!GrowOld(i)
  BY DEF N!GrowOld, NP!GrowOld, N!ConnIdle, NP!ConnIdle, N!Idle, NP!Idle, N!Recompute,
     NP!Recompute, N!Working, NP!Working, N!stores, NP!stores, N!logs, NP!logs, N!Open,
     NP!Open
<1>. QED
  BY <1>1, <1>2, <1>3, <1>4, <1>5, <1>6, <1>7, <1>8

LEMMA SameHandler ==
  /\ N!Snapshot => NP!Snapshot
  /\ N!DropEdges => NP!DropEdges
  /\ \A hot : N!ApplyHeat(hot) => NP!ApplyHeat(hot)
  /\ N!Weigh => NP!Weigh
  /\ N!Queue => NP!Queue
  /\ N!Decide => NP!Decide
  /\ N!LogAsk => NP!LogAsk
  /\ N!LogClosed => NP!LogClosed
<1>1. N!Snapshot => NP!Snapshot
  BY DEF N!Snapshot, NP!Snapshot, N!Working, NP!Working, N!stores, NP!stores
<1>2. N!DropEdges => NP!DropEdges
  BY DEF N!DropEdges, NP!DropEdges, N!Restrict, NP!Restrict, N!RemoveAgent,
     NP!RemoveAgent, N!Retain, NP!Retain, N!ToSet, NP!ToSet, N!Close, NP!Close, N!Open,
     NP!Open, N!OpenOf, NP!OpenOf, N!logs, NP!logs
<1>3. ASSUME NEW hot PROVE N!ApplyHeat(hot) => NP!ApplyHeat(hot)
  BY DEF N!ApplyHeat, NP!ApplyHeat, N!Fresh, NP!Fresh, N!Cooled, NP!Cooled, N!OpenFor,
     NP!OpenFor, N!Open, NP!Open, N!Ids, NP!Ids, N!logs, NP!logs, N!NoProposals,
     NP!NoProposals, N!Bijection, NP!Bijection, N!Injection, NP!Injection, N!Surjection,
     NP!Surjection, N!IsInjective, NP!IsInjective, N!Cardinality, NP!Cardinality,
     N!IsFiniteSet, NP!IsFiniteSet
<1>4. N!Weigh => NP!Weigh
  BY DEF N!Weigh, NP!Weigh, N!BothProposed, NP!BothProposed, N!Idle, NP!Idle, N!stores,
     NP!stores, N!logs, NP!logs
<1>5. N!Queue => NP!Queue
  BY SameHelpers DEF N!Queue, NP!Queue, N!QueueEdges, NP!QueueEdges, N!First, NP!First,
     N!Second, NP!Second, N!ProposalOf, NP!ProposalOf, N!AddEdge, NP!AddEdge, N!Edge,
     NP!Edge, N!NoCycle, NP!NoCycle, N!Both, NP!Both, N!logs, NP!logs
<1>6. N!Decide => NP!Decide
  BY SameHelpers DEF N!Decide, NP!Decide, N!NoCycle, NP!NoCycle, N!First, NP!First,
     N!Second, NP!Second, N!ProposalOf, NP!ProposalOf, N!Close, NP!Close, N!SetState,
     NP!SetState, N!Restrict, NP!Restrict, N!Open, NP!Open, N!ForgetWaits,
     NP!ForgetWaits, N!logs, NP!logs
<1>7. (N!LogAsk => NP!LogAsk) /\ (N!LogClosed => NP!LogClosed)
  BY DEF N!LogAsk, NP!LogAsk, N!LogClosed, NP!LogClosed, N!Idle, NP!Idle, N!stores,
     NP!stores, N!Ids, NP!Ids
<1>. QED
  BY <1>1, <1>2, <1>3, <1>4, <1>5, <1>6, <1>7

LEMMA ReaperIsSame ==
  /\ N!ReaperWake => NP!ReaperWake
  /\ \A lost : N!ReaperReap(lost) => NP!ReaperReap(lost)
  /\ N!ReaperOrphan => NP!ReaperOrphan
  /\ N!ReaperSweep => NP!ReaperSweep
  /\ N!ReaperAsk => NP!ReaperAsk
<1>1. N!ReaperWake => NP!ReaperWake
  BY DEF N!ReaperWake, NP!ReaperWake, N!Asleep, NP!Asleep, N!stores, NP!stores, N!logs,
     NP!logs
<1>2. ASSUME NEW lost PROVE N!ReaperReap(lost) => NP!ReaperReap(lost)
  BY DEF N!ReaperReap, NP!ReaperReap, N!stores, NP!stores, N!logs, NP!logs
<1>3. N!ReaperOrphan => NP!ReaperOrphan
  BY DEF N!ReaperOrphan, NP!ReaperOrphan, N!stores, NP!stores, N!logs, NP!logs
<1>4. N!ReaperSweep => NP!ReaperSweep
  BY DEF N!ReaperSweep, NP!ReaperSweep, N!Asleep, NP!Asleep, N!Late, NP!Late,
     N!BothProposed, NP!BothProposed, N!AwaitingProposals, NP!AwaitingProposals,
     N!SetState, NP!SetState, N!Open, NP!Open, N!logs, NP!logs
<1>5. N!ReaperAsk => NP!ReaperAsk
  BY DEF N!ReaperAsk, NP!ReaperAsk, N!Asleep, NP!Asleep, N!stores, NP!stores
<1>. QED
  BY <1>1, <1>2, <1>3, <1>4, <1>5

LEMMA SameInit == N!Init => NP!Init
BY DEF N!Init, NP!Init, N!NoProposals, NP!NoProposals, N!Asleep, NP!Asleep, N!Idle,
     NP!Idle, N!Ids, NP!Ids

LEMMA SameSteps == [N!Next]_N!vars => [NP!Next]_NP!vars
<1> SUFFICES ASSUME [N!Next]_N!vars PROVE [NP!Next]_NP!vars
  OBVIOUS
<1>1. N!Pairs = NP!Pairs /\ N!Ids = NP!Ids
  BY SameHelpers DEF N!Pairs, NP!Pairs, N!Ids, NP!Ids
<1>2. CASE N!RequestNext \/ \E i \in N!Ids : N!GrowOld(i)
  BY <1>1, <1>2, SameRequests DEF N!RequestNext, NP!RequestNext, NP!Next
<1>3. CASE N!HandlerNext
  BY <1>1, <1>3, SameHandler DEF N!HandlerNext, NP!HandlerNext, NP!Next
<1>4. CASE N!ReaperNext
  BY <1>4, ReaperIsSame DEF N!ReaperNext, NP!ReaperNext, NP!Next
<1>5. CASE UNCHANGED N!vars
  BY <1>5 DEF N!vars, NP!vars, N!stores, NP!stores, N!logs, NP!logs
<1>. QED
  BY <1>2, <1>3, <1>4, <1>5 DEF N!Next

\* Core is an instance of what NegotiationProofs assumes.
LEMMA NegotiationApplies ==
  /\ NP!IsFiniteSet(AgentIds) /\ Proposals \subseteq NP!ProposalRecords /\ MaxConflicts \in Nat
  /\ Protected \subseteq File /\ AllowCoOwn \in BOOLEAN
<1>1. IsFiniteSet(AgentIds)
  BY FS_Interval, RegistryAssumption DEF AgentIds
<1>2. NP!IsFiniteSet(AgentIds)
  BY <1>1 DEF NP!IsFiniteSet, IsFiniteSet
<1>3. N!ProposalRecords = NP!ProposalRecords
  BY DEF N!ProposalRecords, NP!ProposalRecords, N!Kinds, NP!Kinds, N!StepAside,
     NP!StepAside
<1>. QED
  BY <1>2, <1>3, CoreAssumption

\* What Negotiation promises of heat, conflicts, wait edges and the log.
NegotiationHolds ==
  /\ N!OpenConflictIsHot /\ N!BothProposedDecided
  /\ N!UserIsAsked /\ N!EndIsLoggedOnce /\ N!TiesNeedClaims

LEMMA SamePromises ==
  NP!OpenConflictIsHot /\ NP!BothProposedDecided /\ NP!UserIsAsked
    /\ NP!EndIsLoggedOnce /\ NP!TiesNeedClaims => NegotiationHolds
<1>1. NP!OpenConflictIsHot => N!OpenConflictIsHot
  BY DEF N!OpenConflictIsHot, NP!OpenConflictIsHot, N!ConnIdle, NP!ConnIdle, N!Idle,
     NP!Idle, N!Open, NP!Open, N!OpenFor, NP!OpenFor
<1>2. NP!BothProposedDecided => N!BothProposedDecided
  BY DEF N!BothProposedDecided, NP!BothProposedDecided, N!BothProposed, NP!BothProposed,
     N!ConnIdle, NP!ConnIdle, N!Idle, NP!Idle, N!Open, NP!Open
<1>3. NP!UserIsAsked => N!UserIsAsked
  BY DEF N!UserIsAsked, NP!UserIsAsked, N!Open, NP!Open
<1>4. NP!EndIsLoggedOnce => N!EndIsLoggedOnce
  BY DEF N!EndIsLoggedOnce, NP!EndIsLoggedOnce, N!Open, NP!Open
<1>5. NP!TiesNeedClaims => N!TiesNeedClaims
  BY SameHelpers DEF N!TiesNeedClaims, NP!TiesNeedClaims, N!ConnIdle, NP!ConnIdle,
     N!Idle, NP!Idle, N!OpenOf, NP!OpenOf, N!Open, NP!Open
<1>. QED
  BY <1>1, <1>2, <1>3, <1>4, <1>5 DEF NegotiationHolds

\* What NegotiationProofs shows with the registry abstracted away holds with the
\* registry in place: in Core every open conflict is hot, every answered one decided,
\* the user is asked, every end is logged once, and an agent without claims has no
\* ties, whatever the clocks, timeouts, registrations and claims.
THEOREM CoreNegotiates == CoreSpec => []NegotiationHolds
<1>1. CoreSpec => NP!Spec
  <2>1. CoreSpec => NP!Init /\ [][NP!Next]_NP!vars
    BY CoreInitMaps, CoreStepsMap, SameInit, SameSteps, TieInvHolds, PTL DEF CoreSpec
  <2>. QED
    BY <2>1 DEF NP!Spec
<1>2. NP!IsFiniteSet(AgentIds) /\ Proposals \subseteq NP!ProposalRecords /\ MaxConflicts \in Nat
  BY NegotiationApplies
<1>3. Protected \subseteq File /\ AllowCoOwn \in BOOLEAN
  BY NegotiationApplies
<1>4. NP!Spec => [](NP!OpenConflictIsHot)
  BY <1>2, <1>3, NP!OpenConflictsAreHot
<1>5. NP!Spec => [](NP!BothProposedDecided)
  BY <1>2, <1>3, NP!AnsweredConflictsAreDecided
<1>6. NP!Spec => [](NP!UserIsAsked)
  BY <1>2, <1>3, NP!TheUserIsAsked
<1>7. NP!Spec => [](NP!EndIsLoggedOnce)
  BY <1>2, <1>3, NP!EveryEndIsLoggedOnce
<1>8. NP!Spec => [](NP!TiesNeedClaims)
  BY <1>2, <1>3, NP!NoClaimNoTies
<1>. QED
  BY <1>1, <1>4, <1>5, <1>6, <1>7, <1>8, SamePromises, PTL
=============================================================================
