-------------------------------- MODULE Core --------------------------------
(***************************************************************************)
(* Registry and Negotiation under one connection thread and one reaper, as *)
(* server.rs has them.  A request first changes agents and claims, which   *)
(* are Registry's; what its handler then does to heat, conflicts and wait  *)
(* edges is Negotiation's, and looks at the agents and claims as they are  *)
(* by then.  A round of the reaper goes on, after the agents it loses, to  *)
(* the conflicts whose proposals are late.                                 *)
(*                                                                         *)
(* Who is registered and who holds a live claim are not variables here:    *)
(* they are what the registry's stores say.                                *)
(***************************************************************************)
EXTENDS Registry

CONSTANTS
  File, Protected, AllowCoOwn,   \* as in ConflictRules
  Proposals, MaxConflicts,       \* as in Negotiation
  MaxDetours                     \* bounds clears and touches

VARIABLES
  heat, conflicts, nextId, waits,     \* the stores of Negotiation
  handler,     \* what the connection thread goes on to once it has let go of the state lock
  sweep,       \* the reaper's second half: its place, the ages it sees, late ids
  aged, asked, closings, strayed      \* as in Negotiation

stores    == <<heat, conflicts, nextId, waits>>
records   == <<aged, asked, closings, strayed>>
tieVars   == <<stores, handler, sweep, records>>
coreVars  == <<vars, tieVars>>

\* The agents that are registered or have yet to be, and those with a live claim.
Present == {a \in AgentIds : a \in Agents \/ a >= nextAgent}
Holding == {claims[c].owner : c \in {d \in DOMAIN claims : Live(d)}}

\* Negotiation's view of the reaper: it has nothing to look at in the registry's
\* sweep and log, and the agents lost are of interest until their claims are orphaned.
ReaperView ==
  [pc   |-> IF reaper.pc \in {"reap", "orphan"} THEN reaper.pc ELSE sweep.pc,
   old  |-> sweep.old,
   lost |-> IF reaper.pc = "orphan" THEN reaper.lost ELSE {},
   late |-> sweep.late]

N == INSTANCE Negotiation WITH
       Agent <- AgentIds, present <- Present, holding <- Holding,
       conn <- handler, reaper <- ReaperView

ASSUME CoreAssumption ==
  /\ Proposals \subseteq N!ProposalRecords
  /\ MaxConflicts \in Nat
  /\ Protected \subseteq File
  /\ AllowCoOwn \in BOOLEAN

Busy == {a \in Agents : LiveOf(a) # {}}
Free == ConnIdle /\ handler = N!Idle

-----------------------------------------------------------------------------
(* Requests                                                                *)

\* The handlers that are done with the state lock, and registration.
CorePlain ==
  /\ handler = N!Idle
  /\ \/ ReceiveRegister \/ RegisterCount \/ RegisterInsert \/ RegisterSeen \/ RegisterLog
     \/ ApplyHeartbeat
     \/ \E a \in AgentIds : \/ ReceiveHeartbeat(a)
                            \/ \E s \in ReportedStates : ChangeState(a, s)
     \/ LogLeft
  /\ UNCHANGED tieVars

\* A handler that has made its step in the registry and will recompute a's heat.
RecomputesFor(a) ==
  /\ handler = N!Idle
  /\ handler' = [pc |-> "snapshot", agent |-> a]
  /\ UNCHANGED <<stores, sweep, aged, asked, closings>>

\* Mutant: the accepted claim's heat is only forecast.
CoreProposeForecast(a, s) ==
  /\ ProposeClaim(a, s)
  /\ handler = N!Idle
  /\ UNCHANGED tieVars

CorePropose(a, s) == ProposeClaim(a, s) /\ RecomputesFor(a) /\ UNCHANGED strayed

\* Bound: MaxDetours agents that were cleared and claims that were touched.
Detours ==
  Cardinality({a \in Agents : agents[a].gen > 1})
    + Cardinality({c \in DOMAIN claims : claims[c].files # {}})

CoreClear(a) ==
  /\ Detours < MaxDetours
  /\ ClearInvoked(a)
  /\ RecomputesFor(a)
  /\ UNCHANGED strayed

CoreTouch(a, f) ==
  /\ Detours < MaxDetours
  /\ TouchFile(a, f)
  /\ RecomputesFor(a)
  /\ UNCHANGED strayed

\* a is whom the event names, c the claim, which may be another agent's.
CoreRelease(c, a) ==
  /\ ReleaseClaim(c)
  /\ RecomputesFor(a)
  /\ strayed' = IF claims[c].owner = a THEN strayed ELSE strayed \cup {claims[c].owner}

CoreDisconnect == Disconnect /\ handler = N!Idle /\ UNCHANGED tieVars

\* Requests about conflicts do not look at the registry.
CoreNegotiate ==
  /\ ConnIdle
  /\ UNCHANGED <<vars, sweep>>
  /\ \E i \in N!Ids : \/ N!UserDecision(i)
                      \/ \E a \in AgentIds, p \in Proposals : N!ProposalSubmitted(i, a, p)

\* The rest of a handler, from its snapshot of the registry on.
CoreHandler == UNCHANGED <<vars, sweep>> /\ N!HandlerNext

-----------------------------------------------------------------------------
(* The reaper, and time                                                    *)

SweepAsleep == [pc |-> "sleep", old |-> {}, late |-> {}]

CoreWake ==
  /\ sweep.pc = "sleep"
  /\ ReaperWake
  /\ sweep' = [pc |-> "sweep", old |-> aged, late |-> {}]
  /\ UNCHANGED <<stores, handler, records>>

CoreReap ==
  /\ ReaperReap \/ ReaperOrphan \/ ReaperSweep \/ ReaperLog
  /\ UNCHANGED tieVars

\* sweep_proposal_timeouts, when the lost agents have been logged.
SweepLate ==
  /\ reaper.pc = "sleep" /\ sweep.pc = "sweep"
  /\ LET late == {i \in N!Open : N!Late(i, sweep.old)} IN
       /\ N!SetState(late, "AWAITING_USER_DECISION")
       /\ sweep' = IF late = {} THEN SweepAsleep
                                ELSE [SweepAsleep EXCEPT !.pc = "ask", !.late = late]
  /\ UNCHANGED <<vars, heat, nextId, waits, handler, records>>

AskAboutLate ==
  /\ sweep.pc = "ask"
  /\ asked' = asked \cup sweep.late
  /\ sweep' = SweepAsleep
  /\ UNCHANGED <<vars, stores, handler, aged, closings, strayed>>

CoreTime ==
  \/ Tick /\ UNCHANGED tieVars
  \/ UNCHANGED <<vars, sweep>> /\ \E i \in N!Ids : N!GrowOld(i)

-----------------------------------------------------------------------------

CoreInit ==
  /\ Init
  /\ heat = [p \in {} |-> FALSE]
  /\ conflicts = [i \in {} |-> N!NoProposals]
  /\ nextId = 1
  /\ waits = <<>>
  /\ handler = N!Idle
  /\ sweep = SweepAsleep
  /\ aged = {} /\ asked = {} /\ strayed = {}
  /\ closings = [i \in N!Ids |-> 0]

CoreRequest ==
  \/ CorePlain
  \/ \E a \in AgentIds : \/ CoreClear(a)
                         \/ \E s \in LiveStatuses : CorePropose(a, s)
                         \/ \E f \in Files : CoreTouch(a, f)
                         \/ \E c \in ClaimIds : CoreRelease(c, a)
  \/ CoreDisconnect
  \/ CoreNegotiate
  \/ CoreHandler

CoreNext ==
  CoreRequest \/ CoreWake \/ CoreReap \/ SweepLate \/ AskAboutLate \/ CoreTime

CoreSpec == CoreInit /\ [][CoreNext]_coreVars

-----------------------------------------------------------------------------
(* Properties                                                              *)

\* Negotiation's abstraction of the registry is sound: whatever the registry and
\* the two threads do, heat, conflicts and wait edges behave as they do there.
ImplementsNegotiation == N!Spec

\* Between requests Core has weighed every two registered agents that hold live
\* claims against each other, and has their heat, whatever the reaper did while
\* the snapshots were in hand and in whose name claims were released.
EveryPairIsWeighed ==
  Free => \A a, b \in Busy : a # b => {a, b} \in DOMAIN heat
=============================================================================
