----------------------------- MODULE Lifecycle ------------------------------
(***************************************************************************)
(* How a Core process ends (packages/coordify-core/src/server.rs run and   *)
(* spawn_reaper, session.rs finalize, main.rs).  Two threads may decide    *)
(* that the network is empty and finalize the session: the accept loop,    *)
(* after the handler of a connection that had registered an agent, and the *)
(* reaper, at the end of each round.  The swap of Shared.finalized         *)
(* picks one.  Either thread's return from its part ends the process, and  *)
(* the other thread with it, wherever that one is.                         *)
(*                                                                         *)
(* The registry's own steps are those of Registry; here they are placed    *)
(* in the loops of the two threads and stop when the process does.         *)
(***************************************************************************)
EXTENDS Registry

VARIABLES
  main,         \* accept loop: its place, and the `network_empty` it was given
  round,        \* where the reaper is at the end of its round
  finalized,    \* Shared.finalized
  fin,          \* thread -> its place in the finalize sequence, "no" before it
  seenBy,       \* thread -> the agents_seen it read before its swap
  written,      \* the artifacts of the session that are on disk
  summary,      \* agentsSeen in network-final.json
  runtimeFiles, \* are core.sock, core.lock, session.token and core.pid there?
  exited        \* the process is gone

lifeVars == <<main, round, finalized, fin, seenBy, written, summary,
              runtimeFiles, exited>>
lvars == <<vars, lifeVars>>

Threads   == {"main", "reaper"}
Artifacts == {"knowledge", "stats", "network-final"}

Serving == ~exited /\ main.pc = "serving"

-----------------------------------------------------------------------------
(* The accept loop                                                         *)

\* A request is handled, or the connection of a client with no agent ends.
Serve ==
  /\ Serving
  /\ RequestNext
  /\ UNCHANGED lifeVars

\* Mutant: the agent's own departure taken for an empty network.
HandlerEndsEmpty ==
  /\ Serving
  /\ Disconnect
  /\ main' = [pc |-> "joined", empty |-> TRUE]
  /\ UNCHANGED <<round, finalized, fin, seenBy, written, summary, runtimeFiles, exited>>

\* handle_conn removes the agent and looks at the count under one lock...
HandlerEnds ==
  /\ Serving
  /\ Disconnect
  /\ main' = [pc |-> "joined", empty |-> Agents' = {}]
  /\ UNCHANGED <<round, finalized, fin, seenBy, written, summary, runtimeFiles, exited>>

HandlerLogs ==
  /\ ~exited
  /\ LogLeft
  /\ UNCHANGED lifeVars

\* ...and run, having joined the handler, acts on what it returned.  Only the
\* connection thread adds to agents_seen, so reading it and the swap are one
\* step here.
MainDecides ==
  /\ ~exited
  /\ main.pc = "joined"
  /\ ConnIdle
  /\ IF main.empty /\ agentsSeen > 0
       THEN /\ ~finalized
            /\ finalized' = TRUE
            /\ fin' = [fin EXCEPT !["main"] = "knowledge"]
            /\ seenBy' = [seenBy EXCEPT !["main"] = agentsSeen]
            /\ main' = [main EXCEPT !.pc = "finalizing"]
       ELSE /\ main' = [pc |-> "serving", empty |-> FALSE]
            /\ UNCHANGED <<finalized, fin, seenBy>>
  /\ UNCHANGED <<vars, round, written, summary, runtimeFiles, exited>>

\* The swap failed: the reaper has finalized or is about to.  run returns.
MainReturns ==
  /\ ~exited
  /\ main.pc = "joined"
  /\ ConnIdle
  /\ main.empty /\ agentsSeen > 0
  /\ finalized
  /\ exited' = TRUE
  /\ UNCHANGED <<vars, main, round, finalized, fin, seenBy, written, summary, runtimeFiles>>

-----------------------------------------------------------------------------
(* The reaper's round                                                      *)

\* The part of a round before the empty check; its last step is ReaperLog.
ReaperWorks ==
  /\ ~exited
  /\ round = "working"
  /\ ReaperNext
  /\ round' = IF reaper.pc = "log" THEN "check" ELSE "working"
  /\ UNCHANGED <<main, finalized, fin, seenBy, written, summary, runtimeFiles, exited>>

\* Mutant: the network is left to the accept loop.
ReaperNeverLooks ==
  /\ ~exited
  /\ round = "check"
  /\ round' = "working"
  /\ UNCHANGED <<vars, main, finalized, fin, seenBy, written, summary, runtimeFiles, exited>>

ReaperSeesEmpty ==
  /\ ~exited
  /\ round = "check"
  /\ round' = IF Agents = {} THEN "empty" ELSE "working"
  /\ UNCHANGED <<vars, main, finalized, fin, seenBy, written, summary, runtimeFiles, exited>>

\* Mutant: a network that nobody has joined yet is finalized too.
ReaperCountsNothing ==
  /\ ~exited
  /\ round = "empty"
  /\ seenBy' = [seenBy EXCEPT !["reaper"] = agentsSeen]
  /\ round' = "swap"
  /\ UNCHANGED <<vars, main, finalized, fin, written, summary, runtimeFiles, exited>>

ReaperCounts ==
  /\ ~exited
  /\ round = "empty"
  /\ seenBy' = [seenBy EXCEPT !["reaper"] = agentsSeen]
  /\ round' = IF agentsSeen > 0 THEN "swap" ELSE "working"
  /\ UNCHANGED <<vars, main, finalized, fin, written, summary, runtimeFiles, exited>>

\* Mutant: the outcome of the swap ignored.
ReaperAlwaysFinalizes ==
  /\ ~exited
  /\ round = "swap"
  /\ round' = "finalizing"
  /\ fin' = [fin EXCEPT !["reaper"] = "knowledge"]
  /\ finalized' = TRUE
  /\ UNCHANGED <<vars, main, seenBy, written, summary, runtimeFiles, exited>>

ReaperSwaps ==
  /\ ~exited
  /\ round = "swap"
  /\ IF finalized
       THEN round' = "working" /\ UNCHANGED fin
       ELSE round' = "finalizing" /\ fin' = [fin EXCEPT !["reaper"] = "knowledge"]
  /\ finalized' = TRUE
  /\ UNCHANGED <<vars, main, seenBy, written, summary, runtimeFiles, exited>>

-----------------------------------------------------------------------------
(* The finalize sequence, the same code in both threads                    *)

\* persist_knowledge and persist_stats swallow their errors.
Persist(t, artifact, next) ==
  /\ ~exited
  /\ fin[t] = artifact
  /\ written' \in {written, written \cup {artifact}}
  /\ fin' = [fin EXCEPT ![t] = next]
  /\ UNCHANGED <<vars, main, round, finalized, seenBy, summary, runtimeFiles, exited>>

\* finalize writes network-final.json, or returns the error at once.
WriteSummary(t) ==
  /\ ~exited
  /\ fin[t] = "summary"
  /\ \/ /\ written' = written \cup {"network-final"}
        /\ summary' = seenBy[t]
        /\ fin' = [fin EXCEPT ![t] = "cleanup"]
     \/ /\ fin' = [fin EXCEPT ![t] = "failed"]
        /\ UNCHANGED <<written, summary>>
  /\ UNCHANGED <<vars, main, round, finalized, seenBy, runtimeFiles, exited>>

\* Mutant: no cleanup after a failed finalize.
ExitWithoutCleanup(t) ==
  /\ ~exited
  /\ fin[t] \in {"cleanup", "failed"}
  /\ runtimeFiles' = (runtimeFiles /\ fin[t] = "failed")
  /\ exited' = TRUE
  /\ UNCHANGED <<vars, main, round, finalized, fin, seenBy, written, summary>>

\* finalize removes the runtime files and the thread ends the process.  When
\* finalize failed, main.rs removes them itself; the reaper ignores the error.
Exit(t) ==
  /\ ~exited
  /\ fin[t] \in {"cleanup", "failed"}
  /\ runtimeFiles' = (runtimeFiles /\ fin[t] = "failed" /\ t = "reaper")
  /\ exited' = TRUE
  /\ UNCHANGED <<vars, main, round, finalized, fin, seenBy, written, summary>>

Finalize(t) ==
  \/ Persist(t, "knowledge", "stats")
  \/ Persist(t, "stats", "summary")
  \/ WriteSummary(t)
  \/ Exit(t)

TimePasses == ~exited /\ Tick /\ UNCHANGED lifeVars

-----------------------------------------------------------------------------

LInit ==
  /\ Init
  /\ main = [pc |-> "serving", empty |-> FALSE]
  /\ round = "working"
  /\ finalized = FALSE
  /\ fin = [t \in Threads |-> "no"]
  /\ seenBy = [t \in Threads |-> 0]
  /\ written = {}
  /\ summary = 0
  /\ runtimeFiles = TRUE
  /\ exited = FALSE

MainThread   == MainDecides \/ MainReturns \/ Finalize("main")
ReaperThread == \/ ReaperWorks \/ ReaperSeesEmpty \/ ReaperCounts \/ ReaperSwaps
                \/ Finalize("reaper")

LNext == Serve \/ HandlerEnds \/ HandlerLogs \/ MainThread \/ ReaperThread \/ TimePasses

LSpec == LInit /\ [][LNext]_lvars

\* Both threads run until the process ends, a handler that has removed its
\* agent returns, and time passes.  Nothing is assumed of the clients: none
\* need ever connect, ask, or close its connection.
FairLSpec ==
  /\ LSpec
  /\ WF_lvars(ReaperThread)
  /\ WF_lvars(MainThread)
  /\ WF_lvars(HandlerLogs)
  /\ WF_lvars(TimePasses)

-----------------------------------------------------------------------------
(* Properties                                                              *)

FinPlaces == {"no", "knowledge", "stats", "summary", "cleanup", "failed"}

LTypeOK ==
  /\ TypeOK
  /\ main \in [pc : {"serving", "joined", "finalizing"}, empty : BOOLEAN]
  /\ round \in {"working", "check", "empty", "swap", "finalizing"}
  /\ fin \in [Threads -> FinPlaces]
  /\ seenBy \in [Threads -> Nat]
  /\ written \subseteq Artifacts
  /\ summary \in Nat
  /\ {finalized, runtimeFiles, exited} \subseteq BOOLEAN

\* The session is finalized by one thread only, and only after the swap:
\* Core's two ways of noticing an empty network never both write the session's
\* artifacts and never both remove the runtime files.
FinalizedOnce ==
  /\ fin["main"] = "no" \/ fin["reaper"] = "no"
  /\ finalized <=> \E t \in Threads : fin[t] # "no"

\* When it is the accept loop that finalizes, no agent is registered and every
\* agent that ever joined has been counted, although the emptiness it acts on
\* was observed by the handler, under a lock long released.
MainFinalizesEmptyNetwork ==
  fin["main"] # "no" => Agents = {} /\ seenBy["main"] = nextAgent - 1

\* A process that main ends after its own swap leaves no runtime files behind,
\* whichever write failed on the way.
MainLeavesNoRuntimeFiles ==
  exited /\ fin["main"] # "no" => ~runtimeFiles

\* The number in network-final.json never exceeds the agents that joined, and
\* never says that a finalized session had none.
SummaryIsCredible ==
  "network-final" \in written => summary \in 1 .. nextAgent - 1

\* Once agents have joined and all have gone, the process ends or another
\* agent joins: an empty network does not linger ("When the last terminal
\* closes, the network dies").
EmptyNetworkEnds ==
  (Agents = {} /\ agentsSeen > 0) ~> (exited \/ Agents # {})

\* An agent that stops heartbeating does not stay registered for ever (for
\* agents whose timeout falls before the last instant of the bounded clock).
SilentAgentIsRemoved ==
  \A a \in AgentIds, t \in 1 .. MaxTime :
    t + Timeout < MaxTime =>
      ~ <>[](~exited /\ a \in Agents /\ agents[a].seen = t)

\* A tombstone does not stay ORPHANED for ever in a session that goes on
\* (same proviso on the clock).
OrphanBecomesReclaimable ==
  \A c \in ClaimIds, t \in 1 .. MaxTime :
    t + OrphanTTL <= MaxTime =>
      ~ <>[](/\ ~exited
             /\ c \in DOMAIN claims
             /\ claims[c].status = "ORPHANED"
             /\ claims[c].orphanedAt = t)

-----------------------------------------------------------------------------
(* What the code's own words promise and the code does not do              *)

\* "Reaper already finalized + is exiting; just stop the loop" (server.rs):
\* whenever the process is gone, the session's summary is on disk or its
\* writing has failed.
ExitMeansFinalized ==
  exited => \/ "network-final" \in written
            \/ \E t \in Threads : fin[t] = "failed"
=============================================================================
