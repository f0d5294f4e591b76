--------------------------- MODULE LifecycleProofs ---------------------------
(***************************************************************************)
(* The end of a session, for every number of agents and every timeout: the *)
(* two threads keep to the registry's steps, one of them finalizes, and    *)
(* what it writes and removes is right.                                    *)
(***************************************************************************)
EXTENDS Lifecycle, RegistryProofs

-----------------------------------------------------------------------------
(* Lifecycle keeps to Registry                                             *)

\* A thread's step in its loop is a step of the registry or leaves it alone.
LEMMA StepsAreRegistrySteps == [LNext]_lvars => [Next]_vars
<1> SUFFICES ASSUME [LNext]_lvars
             PROVE  [Next]_vars
  OBVIOUS
<1>1. CASE Serve
  BY <1>1 DEF Serve, Next, ConnNext
<1>2. CASE HandlerEnds \/ HandlerLogs
  BY <1>2 DEF HandlerEnds, HandlerLogs, Next, ConnNext
<1>3. CASE ReaperWorks
  BY <1>3 DEF ReaperWorks, Next
<1>4. CASE TimePasses
  BY <1>4 DEF TimePasses, Next
<1>5. CASE MainDecides \/ MainReturns \/ ReaperSeesEmpty \/ ReaperCounts \/ ReaperSwaps
  BY <1>5 DEF MainDecides, MainReturns, ReaperSeesEmpty, ReaperCounts, ReaperSwaps
<1>6. ASSUME NEW t \in Threads, Finalize(t) PROVE UNCHANGED vars
  BY <1>6 DEF Finalize, Persist, WriteSummary, Exit
<1>7. CASE UNCHANGED lvars
  BY <1>7 DEF lvars
<1>. QED
  BY <1>1, <1>2, <1>3, <1>4, <1>5, <1>6, <1>7
  DEF LNext, MainThread, ReaperThread, Threads

\* Placing the registry's steps in the loops of the two threads, and stopping
\* them when the process ends, adds no behaviour to the registry: all that is
\* proved of Spec holds of LSpec.
THEOREM LifecycleKeepsRegistry == LSpec => Spec
<1>1. LInit => Init
  BY DEF LInit
<1>. QED
  BY <1>1, StepsAreRegistrySteps, PTL DEF LSpec, Spec

-----------------------------------------------------------------------------
(* The invariant                                                           *)

\* The types of what Lifecycle adds.
LifeTypes ==
  /\ main \in [pc : {"serving", "joined", "finalizing"}, empty : BOOLEAN]
  /\ round \in {"working", "check", "empty", "swap", "finalizing"}
  /\ fin \in [Threads -> FinPlaces]
  /\ seenBy \in [Threads -> Nat]
  /\ written \subseteq Artifacts
  /\ summary \in Nat
  /\ {finalized, runtimeFiles, exited} \subseteq BOOLEAN

\* agents_seen counts the ids given out; between the insertion and the
\* increment it lags behind by one.
SeenCounts ==
  agentsSeen = IF conn.pc = "inserted" THEN nextAgent - 2 ELSE nextAgent - 1

\* While run is between two connections no handler is at work but for the last
\* line of the one that ended, and what it saw of the network is still so.
MainKnows ==
  /\ main.pc # "serving" => conn.pc \in {"idle", "removed"}
  /\ main.pc = "joined" /\ main.empty => Agents = {}
  /\ fin["main"] # "no" => /\ main.pc = "finalizing"
                           /\ Agents = {}
                           /\ seenBy["main"] = nextAgent - 1

\* A thread that swaps, or has swapped, has counted at least one agent.
SeenIsCredible ==
  /\ \A t \in Threads : seenBy[t] <= nextAgent - 1
  /\ round = "swap" => seenBy["reaper"] > 0
  /\ \A t \in Threads : fin[t] # "no" => seenBy[t] > 0
  /\ fin["reaper"] # "no" => round = "finalizing"

LifeInv ==
  /\ LifeTypes
  /\ SeenCounts
  /\ MainKnows
  /\ SeenIsCredible
  /\ FinalizedOnce
  /\ SummaryIsCredible
  /\ MainLeavesNoRuntimeFiles

LEMMA InitLife == LInit => LifeInv
<1>. SUFFICES ASSUME LInit PROVE LifeInv
  OBVIOUS
<1>1. nextAgent = 1 /\ agentsSeen = 0 /\ conn.pc = "idle" /\ \A t \in Threads : seenBy[t] = 0
  BY DEF LInit, Init, Idle
<1>2. LifeTypes
  BY DEF LInit, LifeTypes, FinPlaces, Threads
<1>3. SeenCounts /\ MainKnows /\ SeenIsCredible
  BY <1>1 DEF LInit, SeenCounts, MainKnows, SeenIsCredible, Threads
<1>4. FinalizedOnce /\ SummaryIsCredible /\ MainLeavesNoRuntimeFiles
  BY DEF LInit, FinalizedOnce, SummaryIsCredible, MainLeavesNoRuntimeFiles, Threads
<1>. QED
  BY <1>2, <1>3, <1>4 DEF LifeInv

-----------------------------------------------------------------------------
(* What the registry's steps do to what the invariant speaks of            *)

\* A request may add an agent, and counts it.
LEMMA RequestsCount ==
  ASSUME TypeOK, SeenCounts, RequestNext
  PROVE  SeenCounts' /\ nextAgent' >= nextAgent
<1>1. nextAgent \in Nat /\ agentsSeen \in Nat
  BY RegistryAssumption DEF TypeOK
<1>2. CASE ReceiveRegister \/ RegisterCount \/ RegisterLog
  BY <1>1, <1>2 DEF ReceiveRegister, RegisterCount, RegisterLog, ConnIdle, Idle,
     registryVars, SeenCounts, TypeOK
<1>3. CASE RegisterInsert
  BY <1>1, <1>3 DEF RegisterInsert, DoRegister, SeenCounts
<1>4. CASE RegisterSeen
  BY <1>1, <1>4 DEF RegisterSeen, Goes, registryVars, SeenCounts, TypeOK
<1>5. CASE ApplyHeartbeat
  BY <1>1, <1>5 DEF ApplyHeartbeat, DoHeartbeat, Idle, SeenCounts
<1>6. ASSUME NEW a \in AgentIds, ReceiveHeartbeat(a) PROVE SeenCounts' /\ nextAgent' >= nextAgent
  BY <1>1, <1>6 DEF ReceiveHeartbeat, ConnIdle, Idle, registryVars, SeenCounts
<1>8. ASSUME NEW a \in AgentIds,
             \/ ClearInvoked(a)
             \/ \E s \in LiveStatuses : ProposeClaim(a, s)
             \/ \E s \in ReportedStates : ChangeState(a, s)
             \/ \E f \in Files : TouchFile(a, f)
      PROVE  UNCHANGED <<nextAgent, agentsSeen, conn>>
  BY <1>8 DEF ClearInvoked, ProposeClaim, ChangeState, TouchFile, Event, DoClear,
     DoPropose, DoSetState, DoTouch
<1>9. ASSUME NEW c \in ClaimIds, ReleaseClaim(c)
      PROVE  UNCHANGED <<nextAgent, agentsSeen, conn>>
  BY <1>9 DEF ReleaseClaim, Event, DoRelease
<1>10. ASSUME UNCHANGED <<nextAgent, agentsSeen, conn>>
       PROVE  SeenCounts' /\ nextAgent' >= nextAgent
  BY <1>1, <1>10 DEF SeenCounts
<1>. QED
  BY <1>2, <1>3, <1>4, <1>5, <1>6, <1>8, <1>9, <1>10 DEF RequestNext

\* Outside a request the registry only ever loses agents.
LEMMA OtherStepsOnlyRemove ==
  ASSUME TypeOK, Disconnect \/ LogLeft \/ ReaperNext \/ Tick
  PROVE  Agents' \subseteq Agents /\ UNCHANGED <<nextAgent, agentsSeen>>
<1>1. ASSUME NEW S, DoRemove(S)
      PROVE  Agents' \subseteq Agents /\ UNCHANGED nextAgent
  BY <1>1 DEF DoRemove, Restrict, Agents
<1>2. CASE Disconnect
  BY <1>1, <1>2 DEF Disconnect
<1>3. CASE ReaperReap
  BY <1>1, <1>3 DEF ReaperReap
<1>4. CASE LogLeft \/ ReaperWake \/ ReaperLog \/ Tick
  BY <1>4 DEF LogLeft, ReaperWake, ReaperLog, Tick, registryVars, Agents
<1>5. CASE ReaperOrphan \/ ReaperSweep
  BY <1>5 DEF ReaperOrphan, ReaperSweep, DoOrphan, DoSweep, Agents
<1>. QED
  BY <1>2, <1>3, <1>4, <1>5 DEF ReaperNext

-----------------------------------------------------------------------------
(* The invariant is inductive                                              *)

\* The parts that only speak of the end of a session survive a step of the
\* registry, which can only raise the bounds they state.
LEMMA EndKept ==
  ASSUME TypeOK, LifeInv, nextAgent' \in Nat, nextAgent' >= nextAgent,
         UNCHANGED <<fin, seenBy, finalized, written, summary, runtimeFiles, exited>>,
         round' = "swap" => round = "swap",
         round = "finalizing" => round' = "finalizing"
  PROVE  SeenIsCredible' /\ FinalizedOnce' /\ SummaryIsCredible' /\ MainLeavesNoRuntimeFiles'
<1>1. nextAgent \in Nat
  BY RegistryAssumption DEF TypeOK
<1>2. SeenIsCredible'
  BY <1>1 DEF LifeInv, SeenIsCredible, LifeTypes
<1>3. FinalizedOnce' /\ MainLeavesNoRuntimeFiles'
  BY DEF LifeInv, FinalizedOnce, MainLeavesNoRuntimeFiles
<1>4. ASSUME NEW n \in 1 .. nextAgent - 1 PROVE n \in 1 .. nextAgent' - 1
  <2>1. ASSUME NEW i \in Nat, NEW j \in Nat, j >= i, NEW m \in 1 .. i - 1
        PROVE  m \in 1 .. j - 1
    BY <2>1
  <2>. QED
    BY <1>1, <2>1
<1>5. SummaryIsCredible'
  BY <1>4 DEF LifeInv, SummaryIsCredible
<1>. QED
  BY <1>2, <1>3, <1>5

LEMMA NextLife == TypeOK /\ TypeOK' /\ LifeInv /\ [LNext]_lvars => LifeInv'
<1>. SUFFICES ASSUME TypeOK, TypeOK', LifeInv, [LNext]_lvars
              PROVE  LifeInv'
  OBVIOUS
<1>a. nextAgent \in Nat /\ nextAgent' \in Nat /\ agentsSeen \in Nat
  BY RegistryAssumption DEF TypeOK
<1>b. /\ LifeTypes /\ SeenCounts /\ MainKnows /\ SeenIsCredible
      /\ FinalizedOnce /\ SummaryIsCredible /\ MainLeavesNoRuntimeFiles
  BY DEF LifeInv
<1>1. CASE Serve
  <2>1. main.pc = "serving" /\ UNCHANGED lifeVars /\ RequestNext
    BY <1>1 DEF Serve, Serving
  <2>2. SeenCounts' /\ nextAgent' >= nextAgent
    BY <2>1, <1>b, RequestsCount
  <2>3. LifeTypes'
    BY <2>1, <1>b DEF LifeTypes, lifeVars
  <2>4. MainKnows'
    BY <2>1, <1>b DEF MainKnows, lifeVars
  <2>. QED
    BY <2>1, <2>2, <2>3, <2>4, <1>a, EndKept DEF LifeInv, lifeVars
<1>2. CASE HandlerEnds
  <2>1. /\ main.pc = "serving" /\ Disconnect /\ conn.pc = "idle"
        /\ main' = [pc |-> "joined", empty |-> Agents' = {}]
        /\ UNCHANGED <<round, finalized, fin, seenBy, written, summary, runtimeFiles, exited>>
    BY <1>2 DEF HandlerEnds, Serving, Disconnect, ConnIdle
  <2>2. conn'.pc \in {"idle", "removed"}
    BY <2>1 DEF Disconnect, Idle
  <2>3. Agents' \subseteq Agents /\ UNCHANGED <<nextAgent, agentsSeen>>
    BY <2>1, OtherStepsOnlyRemove
  <2>4. LifeTypes'
    BY <2>1, <1>b DEF LifeTypes
  <2>5. SeenCounts'
    BY <2>1, <2>2, <2>3, <1>b DEF SeenCounts
  <2>6. MainKnows'
    BY <2>1, <2>2, <1>b DEF MainKnows
  <2>. QED
    BY <2>1, <2>3, <2>4, <2>5, <2>6, <1>a, EndKept DEF LifeInv
<1>3. CASE HandlerLogs
  <2>1. LogLeft /\ UNCHANGED lifeVars /\ conn.pc = "removed" /\ conn'.pc = "idle"
    BY <1>3 DEF HandlerLogs, LogLeft, Idle
  <2>2. Agents' \subseteq Agents /\ UNCHANGED <<nextAgent, agentsSeen>>
    BY <2>1, OtherStepsOnlyRemove
  <2>3. LifeTypes'
    BY <2>1, <1>b DEF LifeTypes, lifeVars
  <2>4. SeenCounts'
    BY <2>1, <2>2, <1>b DEF SeenCounts
  <2>5. MainKnows'
    BY <2>1, <2>2, <1>b DEF MainKnows, lifeVars
  <2>. QED
    BY <2>1, <2>2, <2>3, <2>4, <2>5, <1>a, EndKept DEF LifeInv, lifeVars
<1>4. CASE ReaperWorks \/ TimePasses
  <2>1. /\ ReaperNext \/ Tick
        /\ round' = "swap" => round = "swap"
        /\ round = "finalizing" => round' = "finalizing"
        /\ round' \in {"working", "check", round}
        /\ UNCHANGED <<main, finalized, fin, seenBy, written, summary, runtimeFiles, exited>>
    BY <1>4 DEF ReaperWorks, TimePasses, lifeVars
  <2>2. conn' = conn
    BY <2>1 DEF ReaperNext, ReaperWake, ReaperReap, ReaperOrphan, ReaperSweep, ReaperLog, Tick
  <2>3. Agents' \subseteq Agents /\ UNCHANGED <<nextAgent, agentsSeen>>
    BY <2>1, OtherStepsOnlyRemove
  <2>4. LifeTypes'
    BY <2>1, <1>b DEF LifeTypes
  <2>5. SeenCounts'
    BY <2>2, <2>3, <1>b DEF SeenCounts
  <2>6. MainKnows'
    BY <2>1, <2>2, <2>3, <1>b DEF MainKnows
  <2>. QED
    BY <2>1, <2>3, <2>4, <2>5, <2>6, <1>a, EndKept DEF LifeInv
<1>5. CASE MainDecides
  <2>1. CASE main.empty /\ agentsSeen > 0
    <3>1. /\ conn.pc = "idle" /\ main.pc = "joined" /\ ~finalized /\ finalized' = TRUE
          /\ fin' = [fin EXCEPT !["main"] = "knowledge"]
          /\ seenBy' = [seenBy EXCEPT !["main"] = agentsSeen]
          /\ main' = [main EXCEPT !.pc = "finalizing"]
          /\ UNCHANGED <<vars, round, written, summary, runtimeFiles, exited>>
      BY <1>5, <2>1 DEF MainDecides, ConnIdle
    <3>2. /\ fin'["main"] = "knowledge" /\ fin'["reaper"] = fin["reaper"]
          /\ seenBy'["main"] = agentsSeen /\ seenBy'["reaper"] = seenBy["reaper"]
          /\ main'.pc = "finalizing"
      BY <3>1, <1>b DEF LifeTypes, Threads
    <3>3. UNCHANGED <<agents, nextAgent, agentsSeen, conn>>
      BY <3>1 DEF vars, registryVars
    <3>4. LifeTypes'
      BY <3>1, <1>a, <1>b DEF LifeTypes, FinPlaces, Threads
    <3>5. SeenCounts' /\ agentsSeen = nextAgent - 1
      BY <3>1, <3>3, <1>b DEF SeenCounts
    <3>6. MainKnows'
      BY <3>1, <3>2, <3>3, <3>5, <2>1, <1>b DEF MainKnows, Agents
    <3>7. SeenIsCredible'
      BY <3>1, <3>2, <3>3, <3>5, <2>1, <1>a, <1>b DEF SeenIsCredible, Threads
    <3>8. fin["main"] = "no" /\ fin["reaper"] = "no"
      BY <3>1, <1>b DEF FinalizedOnce, Threads
    <3>9. FinalizedOnce'
      BY <3>1, <3>2, <3>8 DEF FinalizedOnce, Threads
    <3>10. SummaryIsCredible'
      BY <3>1, <3>3, <1>b DEF SummaryIsCredible
    <3>11. MainLeavesNoRuntimeFiles'
      BY <1>5, <3>1 DEF MainDecides, MainLeavesNoRuntimeFiles
    <3>. QED
      BY <3>4, <3>5, <3>6, <3>7, <3>9, <3>10, <3>11 DEF LifeInv
  <2>2. CASE ~(main.empty /\ agentsSeen > 0)
    <3>1. /\ main' = [pc |-> "serving", empty |-> FALSE]
          /\ fin["main"] = "no"
          /\ UNCHANGED <<vars, finalized, fin, seenBy, round, written, summary, runtimeFiles, exited>>
      BY <1>5, <2>2, <1>b DEF MainDecides, MainKnows
    <3>2. UNCHANGED <<agents, nextAgent, agentsSeen, conn>>
      BY <3>1 DEF vars, registryVars
    <3>3. LifeTypes' /\ SeenCounts' /\ MainKnows'
      BY <3>1, <3>2, <1>b DEF LifeTypes, SeenCounts, MainKnows
    <3>. QED
      BY <3>1, <3>2, <3>3, <1>a, EndKept DEF LifeInv
  <2>. QED
    BY <2>1, <2>2
<1>6. CASE MainReturns
  <2>1. /\ main.pc = "joined" /\ exited' = TRUE /\ fin["main"] = "no"
        /\ UNCHANGED <<vars, main, round, finalized, fin, seenBy, written, summary, runtimeFiles>>
    BY <1>6, <1>b DEF MainReturns, MainKnows
  <2>2. UNCHANGED <<agents, nextAgent, agentsSeen, conn>>
    BY <2>1 DEF vars, registryVars
  <2>3. LifeTypes' /\ SeenCounts'
    BY <2>1, <2>2, <1>b DEF LifeTypes, SeenCounts
  <2>4. MainKnows' /\ SeenIsCredible'
    BY <2>1, <2>2, <1>b DEF MainKnows, Agents, SeenIsCredible
  <2>5. FinalizedOnce' /\ SummaryIsCredible' /\ MainLeavesNoRuntimeFiles'
    BY <2>1, <2>2, <1>b DEF FinalizedOnce, SummaryIsCredible, MainLeavesNoRuntimeFiles
  <2>. QED
    BY <2>3, <2>4, <2>5 DEF LifeInv
<1>7. CASE ReaperSeesEmpty
  <2>1. /\ round = "check" /\ round' \in {"empty", "working"}
        /\ UNCHANGED <<vars, main, finalized, fin, seenBy, written, summary, runtimeFiles, exited>>
    BY <1>7 DEF ReaperSeesEmpty
  <2>2. UNCHANGED <<agents, nextAgent, agentsSeen, conn>>
    BY <2>1 DEF vars, registryVars
  <2>3. LifeTypes' /\ SeenCounts' /\ MainKnows'
    BY <2>1, <2>2, <1>b DEF LifeTypes, SeenCounts, MainKnows, Agents
  <2>. QED
    BY <2>1, <2>2, <2>3, <1>a, EndKept DEF LifeInv
<1>8. CASE ReaperCounts
  <2>1. /\ seenBy' = [seenBy EXCEPT !["reaper"] = agentsSeen]
        /\ round' \in {"swap", "working"} /\ (round' = "swap" => agentsSeen > 0)
        /\ UNCHANGED <<vars, main, finalized, fin, written, summary, runtimeFiles, exited>>
        /\ round = "empty"
    BY <1>8 DEF ReaperCounts
  <2>2. UNCHANGED <<agents, nextAgent, agentsSeen, conn>>
    BY <2>1 DEF vars, registryVars
  <2>3. seenBy'["reaper"] = agentsSeen /\ seenBy'["main"] = seenBy["main"]
    BY <2>1, <1>b DEF LifeTypes, Threads
  <2>4. LifeTypes'
    BY <2>1, <1>a, <1>b DEF LifeTypes, Threads
  <2>5. SeenCounts' /\ MainKnows'
    BY <2>1, <2>2, <2>3, <1>b DEF SeenCounts, MainKnows, Agents
  <2>6. SeenIsCredible'
    BY <2>1, <2>2, <2>3, <1>a, <1>b DEF SeenIsCredible, SeenCounts, Threads
  <2>7. FinalizedOnce' /\ SummaryIsCredible' /\ MainLeavesNoRuntimeFiles'
    BY <2>1, <2>2, <1>b DEF FinalizedOnce, SummaryIsCredible, MainLeavesNoRuntimeFiles
  <2>. QED
    BY <2>4, <2>5, <2>6, <2>7 DEF LifeInv
<1>9. CASE ReaperSwaps
  <2>1. /\ round = "swap" /\ finalized' = TRUE
        /\ UNCHANGED <<vars, main, seenBy, written, summary, runtimeFiles, exited>>
        /\ ~exited
    BY <1>9 DEF ReaperSwaps
  <2>2. UNCHANGED <<agents, nextAgent, agentsSeen, conn>>
    BY <2>1 DEF vars, registryVars
  <2>3. seenBy["reaper"] > 0 /\ fin["reaper"] = "no"
    BY <2>1, <1>b DEF SeenIsCredible
  <2>4. CASE finalized
    <3>1. round' = "working" /\ fin' = fin /\ finalized' = finalized
      BY <1>9, <2>1, <2>4, <1>b DEF ReaperSwaps, LifeTypes
    <3>2. LifeTypes' /\ SeenCounts' /\ MainKnows'
      BY <2>1, <2>2, <3>1, <1>b DEF LifeTypes, SeenCounts, MainKnows, Agents
    <3>3. SeenIsCredible'
      BY <2>1, <2>2, <2>3, <3>1, <1>b DEF SeenIsCredible
    <3>4. FinalizedOnce' /\ SummaryIsCredible' /\ MainLeavesNoRuntimeFiles'
      BY <2>1, <2>2, <3>1, <1>b DEF FinalizedOnce, SummaryIsCredible, MainLeavesNoRuntimeFiles
    <3>. QED
      BY <3>2, <3>3, <3>4 DEF LifeInv
  <2>5. CASE ~finalized
    <3>1. /\ round' = "finalizing"
          /\ fin' = [fin EXCEPT !["reaper"] = "knowledge"]
          /\ fin["main"] = "no"
      BY <1>9, <2>5, <1>b DEF ReaperSwaps, FinalizedOnce, Threads
    <3>2. fin'["reaper"] = "knowledge" /\ fin'["main"] = "no"
      BY <3>1, <1>b DEF LifeTypes, Threads
    <3>3. LifeTypes'
      BY <2>1, <3>1, <1>b DEF LifeTypes, FinPlaces, Threads
    <3>4. SeenCounts' /\ MainKnows'
      BY <2>1, <2>2, <3>2, <1>b DEF SeenCounts, MainKnows, Agents
    <3>5. SeenIsCredible'
      BY <2>1, <2>2, <2>3, <3>1, <3>2, <1>b DEF SeenIsCredible, Threads
    <3>6. FinalizedOnce' /\ SummaryIsCredible' /\ MainLeavesNoRuntimeFiles'
      BY <2>1, <2>2, <3>2, <1>b
      DEF FinalizedOnce, SummaryIsCredible, MainLeavesNoRuntimeFiles, Threads
    <3>. QED
      BY <3>3, <3>4, <3>5, <3>6 DEF LifeInv
  <2>. QED
    BY <2>4, <2>5
<1>10. ASSUME NEW t \in Threads, Finalize(t) PROVE LifeInv'
  <2>1. /\ ~exited /\ fin[t] # "no"
        /\ UNCHANGED <<vars, main, round, finalized, seenBy>>
    BY <1>10 DEF Finalize, Persist, WriteSummary, Exit
  <2>2. UNCHANGED <<agents, nextAgent, agentsSeen, conn>>
    BY <2>1 DEF vars, registryVars
  <2>3. CASE Exit(t)
    <3>1. /\ runtimeFiles' = (runtimeFiles /\ fin[t] = "failed" /\ t = "reaper")
          /\ exited' = TRUE
          /\ UNCHANGED <<fin, written, summary>>
      BY <2>3 DEF Exit
    <3>2. LifeTypes' /\ SeenCounts' /\ MainKnows'
      BY <2>1, <2>2, <3>1, <1>b DEF LifeTypes, SeenCounts, MainKnows, Agents
    <3>3. SeenIsCredible' /\ FinalizedOnce' /\ SummaryIsCredible'
      BY <2>1, <2>2, <3>1, <1>b DEF SeenIsCredible, FinalizedOnce, SummaryIsCredible
    <3>4. fin["main"] # "no" => t = "main"
      BY <2>1, <1>b DEF FinalizedOnce, Threads
    <3>5. MainLeavesNoRuntimeFiles'
      BY <3>1, <3>4 DEF MainLeavesNoRuntimeFiles
    <3>. QED
      BY <3>2, <3>3, <3>5 DEF LifeInv
  <2>4. CASE ~Exit(t)
    <3>1. PICK place \in FinPlaces \ {"no"} : fin' = [fin EXCEPT ![t] = place]
      BY <1>10, <2>4 DEF Finalize, Persist, WriteSummary, FinPlaces
    <3>2. /\ UNCHANGED <<runtimeFiles, exited>>
          /\ written' \subseteq written \cup Artifacts
          /\ \/ summary' = seenBy[t]
             \/ /\ summary' = summary
                /\ "network-final" \in written' => "network-final" \in written
      BY <1>10, <2>4 DEF Finalize, Persist, WriteSummary, Artifacts
    <3>3. \A u \in Threads : fin'[u] # "no" <=> fin[u] # "no"
      BY <2>1, <3>1, <1>b DEF LifeTypes
    <3>4. LifeTypes'
      BY <2>1, <3>1, <3>2, <1>b DEF LifeTypes
    <3>5. SeenCounts' /\ MainKnows'
      BY <2>1, <2>2, <3>3, <1>b DEF SeenCounts, MainKnows, Agents, Threads
    <3>6. SeenIsCredible' /\ FinalizedOnce'
      BY <2>1, <2>2, <3>3, <1>b DEF SeenIsCredible, FinalizedOnce, Threads
    <3>7. seenBy[t] \in 1 .. nextAgent - 1
      BY <2>1, <1>a, <1>b DEF SeenIsCredible, LifeTypes
    <3>8. SummaryIsCredible' /\ MainLeavesNoRuntimeFiles'
      BY <2>1, <2>2, <3>2, <3>7, <1>b DEF SummaryIsCredible, MainLeavesNoRuntimeFiles
    <3>. QED
      BY <3>4, <3>5, <3>6, <3>8 DEF LifeInv
  <2>. QED
    BY <2>3, <2>4
<1>11. CASE UNCHANGED lvars
  <2>1. UNCHANGED <<agents, nextAgent, agentsSeen, conn>> /\ UNCHANGED lifeVars
    BY <1>11 DEF lvars, vars, registryVars
  <2>2. LifeTypes' /\ SeenCounts' /\ MainKnows'
    BY <2>1, <1>b DEF LifeTypes, SeenCounts, MainKnows, lifeVars, Agents
  <2>. QED
    BY <2>1, <2>2, <1>a, EndKept DEF LifeInv, lifeVars
<1>. QED
  BY <1>1, <1>2, <1>3, <1>4, <1>5, <1>6, <1>7, <1>8, <1>9, <1>10, <1>11
  DEF LNext, MainThread, ReaperThread, Threads

-----------------------------------------------------------------------------

LEMMA LifeInvariant == LSpec => [](TypeOK /\ LifeInv)
<1>1. LInit => LifeInv
  BY InitLife
<1>2. TypeOK /\ TypeOK' /\ LifeInv /\ [LNext]_lvars => LifeInv'
  BY NextLife
<1>. QED
  BY <1>1, <1>2, LifecycleKeepsRegistry, TypeCorrect, PTL DEF LSpec

\* The shape of the registry and of the two threads' ends, for every value of
\* the constants.
THEOREM LifeTypeCorrect == LSpec => []LTypeOK
<1>1. TypeOK /\ LifeInv => LTypeOK
  BY DEF LifeInv, LifeTypes, LTypeOK
<1>. QED
  BY <1>1, LifeInvariant, PTL

\* The swap of Shared.finalized lets one thread finalize: never both.
THEOREM OneThreadFinalizes == LSpec => []FinalizedOnce
<1>1. LifeInv => FinalizedOnce
  BY DEF LifeInv
<1>. QED
  BY <1>1, LifeInvariant, PTL

\* What the handler saw of the network is still so when run acts on it.
THEOREM MainActsOnEmptyNetwork == LSpec => []MainFinalizesEmptyNetwork
<1>1. LifeInv => MainFinalizesEmptyNetwork
  BY DEF LifeInv, MainKnows, MainFinalizesEmptyNetwork
<1>. QED
  BY <1>1, LifeInvariant, PTL

\* No runtime file outlives a process that the accept loop finalized.
THEOREM MainCleansUp == LSpec => []MainLeavesNoRuntimeFiles
<1>1. LifeInv => MainLeavesNoRuntimeFiles
  BY DEF LifeInv
<1>. QED
  BY <1>1, LifeInvariant, PTL

\* network-final.json counts at least one agent and none that did not join.
THEOREM SummaryIsRight == LSpec => []SummaryIsCredible
<1>1. LifeInv => SummaryIsCredible
  BY DEF LifeInv
<1>. QED
  BY <1>1, LifeInvariant, PTL

-----------------------------------------------------------------------------
(* What the registry's steps promise holds of the loops as well            *)

\* Placed in its loop, the reaper is as patient: the sweep and the reaping keep
\* to the timeout and the TTL in every Core process, up to its end.
THEOREM ReaperWaitsInItsLoop == LSpec => ReaperIsPatient
BY LifecycleKeepsRegistry, ReaperWaitsLongEnough
=============================================================================
