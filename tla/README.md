# Coordify: a verification project

Coordify coordinates the coding agents that run in the terminals of one project.
Each terminal has a sidecar process (`packages/coordify-hook`) that turns the
agent's hooks into requests; one daemon per project, **Coordify Core**
(`packages/coordify-core`, Rust), keeps the network's live state: who is there,
who claims which work, whose work is in whose way, and which conflicts are being
negotiated. This directory models Core and its sidecars in TLA+, checks small
instances with TLC, and proves the main results for every value of the constants
with TLAPS.

## 1. Inventory

### How the parts interact

Core is one process with two threads that matter. The **accept loop**
(`server.rs` `run`) starts a handler thread for a connection and *joins it before
it accepts the next one*, so exactly one handler is alive at a time: the models
call it the connection thread. It reads one request per line, runs the handler to
its end, answers, and, when the connection closes, removes the last agent that
registered on it. The **reaper** (`spawn_reaper`) wakes every two seconds, removes
silent agents, orphans their claims, ages tombstones, escalates late conflicts
and ends an empty session. They share the structure `Shared`, each of whose
fields has a mutex of its own; no handler holds two of them at once. What one
thread learns under a lock it therefore uses after the lock, and the other thread
runs in between.

Around this process there are others. Cores of one project are started by any
sidecar that finds no socket, and arbitrate with files in `.coordify/runtime`;
a Core that ends hands what it has learned to the next one through files in
`.coordify/project`; sidecars send requests and wait for answers on a connection
that Core may not be reading. Here the difficulty is in what a file contains
between two system calls, and in who waits for whom.

### Components

| component | state | operations | hard part | what makes it correct |
|---|---|---|---|---|
| agent registry, `state.rs` | agents with their last heartbeat, state, generation; `next_id` | register, heartbeat, set_state, clear, promote_active, remove, reap | two threads remove agents; the count is checked under another lock than the insertion | nobody lost or logged twice, cap kept, only silent agents reaped |
| claim store, `claim.rs` | claims with owner, status, files, orphan stamp | propose, record_touched, release, release_for_agent, orphan_for_agent, sweep_reclaimable | claims and their owners are changed in separate critical sections | the claim life cycle; no live claim of a lost agent; `/clear` is total |
| request dispatch, `server.rs` | position of the connection thread, `this_agent`, `agents_seen`, rate buckets | one handler per request | interleaving with the reaper | each handler keeps the stores' invariants |
| reaper thread, `server.rs` | position, captured clock, list of lost agents | reap, orphan, sweep, log, time out, end | stale clock and list | patient, and eventually does its work |
| session life cycle, `server.rs`, `session.rs`, `main.rs` | `finalized`, session artifacts, runtime files | start, finalize by either thread, clean up, exit | two finalizers, process exit at any place of the other thread | finalized once, of an empty network, files removed |
| conflict store, `conflict.rs` | open conflict per pair, its state and proposals | open, resolve, abort_for_agent, record_proposal, set_state, resolve_by_id, timed_out | follows the heat store, under another lock; timeouts against late proposals | open only if hot; decided once both proposed; never undecided for ever |
| proposal comparison, `conflict.rs` `compare` | none | compare | order of the rules | symmetric; resolves exactly what is agreed and needs no user |
| wait-for graph, `waitgraph.rs` | list of edges | add_edge, remove_agent, find_cycle | search order, edges that lead into a cycle | finds a cycle iff there is a deadlock, and a real one |
| heat store, `heatstore.rs` | heat per pair | upsert, remove_agent | stale edges | no edge of an agent without a claim |
| heat scoring, `heat.rs` | none | compute_heat, band_for, the forecast | weights, rounding, inclusive bounds | a hot pair shares a file; what is learned in between only warms |
| knowledge store, `knowledge.rs` | counters, two files | record_conflict, record_comodification, save_atomic, load | repeated touches; crash during a save | each pair counted once; a save that breaks off loses nothing |
| statistics, `stats.rs` | files of the finished session, agents' profiles | summarize, merge, save | writer and reader share words; rotation | every end of a conflict is counted |
| event log, `eventlog.rs` | file, size | append, rotate | rotation at its limit | the log's readers see what is left, and know no more |
| recap, `entertainment.rs` | none | build_entertainment | several passes over one log, ties | what it says is true of the log |
| bootstrap, `bootstrap.rs` | lock, token, pid, socket files | acquire_lock, write_token, write_pid, bind | several Cores starting, ending and dying | one Core at a time, which keeps its files; stale files stop nobody |
| sidecar and client, `coordify-hook` | live claims, pending requests | start Core, connect, register, claim, release, shutdown | answers racing shutdown, Core gone, one connection served at a time | every claim it knows of released, the end reached |
| IPC and CAP decoding; hook installer; command line; simulator | none that others depend on | | | |

`PROJECT.json` gives the status of each, and the hazards of this code at the line
where each bites.

## 2. The modules

| module | models | state and actions against the code |
|---|---|---|
| `Registry` | everything behind `Shared::state`, the two threads that take it | `agents`, `claims` and the counters are the stores; `conn` and `reaper` hold the place of each thread and what it carries from one lock to the next (`now`, the id, `lost`). `DoX` is what one critical section does to the stores; the action `X` places it in its thread. `joined`, `left`, `lostLogged` are the ids in the log entries of those kinds. |
| `ClaimLedger` | the promise about claims, without threads, locks or clock | agents join and depart; a claim is granted, released, orphaned when its owner is gone, and expires |
| `Lifecycle` | how the process ends; extends `Registry` and schedules its steps | `main` and `round` are the accept loop and the end of a reaper round, `fin` the finalize sequence in either thread; an exit stops both |
| `ConflictRules` | `compare` | one operator, rule by rule, and what it is for, said without rules |
| `WaitGraph` | the wait-for graph and its depth-first search | a sequence of edges; the colours and the path as in `dfs` |
| `Negotiation` | heat edges, conflicts, wait edges; uses `ConflictRules` and `WaitGraph` | each handler that recomputes heat or handles a proposal is followed lock by lock (`Snapshot`, `ApplyHeat` or `DropEdges`, `Weigh`, `Queue`, `Decide`, the log); the reaper's part likewise |
| `Core` | `Registry` and `Negotiation` under one connection thread and one reaper; extends `Registry` | a handler is the registry's step, then what it goes on to (`handler`) with the stores of `Negotiation`; a round of the reaper is the registry's, then the late proposals (`sweep`). `Present` and `Holding` are read off the registry's stores |
| `Knowledge`, `Heat` | the counts of conflicts and co-modifications and what events add to them; the eight components, weights, percentage, band and advice | pure operators named after the functions; a component is an exact fraction |
| `Statistics`, `Recap` | the log with its rotation, `summarize`, `build_entertainment` | a log is a pair of sequences of events; each pass takes the events one after the other |
| `RateLimit` | the counters of `submit_event` | one counter with the start of its window for each bucket |
| `Bootstrap` | how Core processes of one project start, serve and end | `at` is where each process is, `file` who wrote each runtime file; every system call on a shared file is a step, and a process may die, or a write fail, at any of them |
| `Sessions` | what outlives a session; extends `Bootstrap` | `disk` has every file with its `.tmp` and `.prev`; loading, quarantine, merging and the four steps of `write_atomic` are steps of the Core that saves |
| `Terminals` | terminals, sidecars, the backlog and Core's accept loop | requests and answers are queues; `known` is `liveClaims`, `asking` those its shutdown has begun to release |
| `MC...` | instances for TLC | `MCConflictRules`, `MCWaitGraph`, `MCHeat` and `MCRecap` also hold the properties of the pure modules; `MCAlgorithms` checks them in one run |
| `...Proofs` | the theorems about `Registry`, `Lifecycle`, `Core`, `Sessions`, `Negotiation` and `Terminals`; `SessionsProofs` has those about `Bootstrap` too, `WaitGraphProofs` the lemmas on the wait-for graph, and `AlgorithmsProofs` the theorems about `ConflictRules`, `Knowledge`, `Heat`, `Statistics`, `Recap`, `WaitGraph` and `RateLimit` | |

`Lifecycle` composes `Registry` with the two loops, and `Sessions` composes
`Bootstrap` with the project's files: in both the larger module's steps are the
smaller one's, scheduled or joined with more, and a theorem says so
(`LifecycleKeepsRegistry`, `SessionsKeepBootstrap`). `Negotiation` keeps of the
registry only who is registered and who holds a live claim, and abstracts each of
its actions; `Core` joins the two again as `server.rs` has them. Its registry is
`Registry`'s (`CoreKeepsRegistry`), and the rest is shown to implement
`Negotiation` (`CoreImplementsNegotiation`), so that what holds of the abstraction
holds of the code's own stores (`CoreNegotiates`). `Terminals` keeps of Core only what a sidecar can tell.

Each property is also tried on faulty code: an operator whose comment says
"Mutant" is a variant of a definition with a plausible bug (a guard dropped, a
comparison off by one, a store forgotten), used by no specification, and
`PROJECT.json` names the property that TLC finds violated when it takes the
definition's place.

### What is abstracted

* A step is one critical section of a lock that two threads take, or one system
  call on a file that two processes use. A lock that only the connection thread
  takes (`heat`, `waitgraph`, `knowledge`) gives no interleaving, so its section is
  joined to the neighbouring step.
* Ids are numbers; the code's counters never reuse one. A clock is a number of
  ticks. The system clock is assumed not to run backwards; the code's saturating
  subtraction is kept.
* A claim is its owner, status, touched files and stamp in `Registry`, and what
  heat reads of it in `Heat`. The confidence is the status `status_for_confidence`
  makes of it; a rejected proposal changes nothing.
* Requests are decoded ones with a valid token. A request that is refused changes
  nothing the models keep. The agent, claim or conflict a request names need not be
  the connection's own: the server does not compare them.
* A `CLAIM_RELEASED` may name another agent than the claim's holder, since the
  server does not look. The holder then keeps its heat edges and conflicts until its
  own heat is recomputed; `TiesNeedClaims` exempts such holders (`strayed`) until
  then. `sidecar.js` always names the holder.
* In `Negotiation` the heat of a pair is whether its band is the hottest;
  `compute_heat` may return either at any time, which covers every scoring. The
  age of a conflict is whether it has passed the proposal timeout, and the reaper
  loses any agents it likes. Agents do not join later: in `Core` an id that was not
  given out yet counts as present (it holds no claim, so nothing comes of it).
* `Lifecycle` lets each artifact fail to be written, and assumes, as `Bootstrap`
  does, that removing a runtime file does not fail.
* In `Bootstrap` a process id is not given to another process. In `Sessions` a
  file's content is the set of sessions that have gone into it; a file is damaged
  from outside only while no Core runs; rotating a file and putting an unreadable
  one aside are best-effort in the code and succeed in the model.
* In `Terminals` Core has no reaper and sidecars send no heartbeats: its agents leave
  with their connections. The hooks that forward touches, subagents and `/clear`
  add nothing to `liveClaims` and are left out.
* Panics (and the poisoned locks they leave) are not modelled.

## 3. The checks

`tlc -config <cfg> <module>` runs each one.

| run | module, configuration | asks |
|---|---|---|
| `registry` | `MCRegistry`, `MCRegistry.cfg` | are agents accounted for and the cap kept; do claims follow their life cycle, is `/clear` total, is the ledger implemented? |
| `lifecycle` | `MCLifecycle`, `MCLifecycle.cfg` | is the session finalized once, rightly and cleanly; is the reaper patient; does an empty network end, is a silent agent removed, does a tombstone become reclaimable? |
| `negotiation` | `MCNegotiation`, `MCNegotiation.cfg` | do heat, conflicts, waits, decisions and log agree; does every negotiation end? |
| `core` | `MCCore`, `MCCore.cfg` | with the registry's own stores and threads in the place of its abstraction, is every step still one of `Negotiation`; are any two agents at work weighed against each other? |
| `algorithms` | `MCAlgorithms`, `MCAlgorithms.cfg` | do `compare`, `find_cycle`, `compute_heat`, the knowledge counts, `summarize`, the recap and the rate limiter do what they are for? |
| `sessions` | `Sessions`, `MCSessions.cfg` | does the lock arbitrate, do files survive, does what was learned add up, do stale files stop nobody? |
| `terminals` | `Terminals`, `MCTerminals.cfg` | are claims released when a terminal ends, does its end complete, does the network die? |
| `owner_leaves`, `cut_off_finalize`, `stale_waits`, `two_cores`, `terminals_join` | section 4 | does the code do what its own words say? TLC shows that it does not. |

### What the properties say

*Registry.* `EveryAgentAccounted`: an id that ever registered is in the store, on
its way to `AGENT_LEFT`, on its way to `AGENT_LOST`, or in one of these logs, and
in one place only, although two threads remove agents independently.
`AgentCapHolds`: the cap survives its check and use being under two locks (because
there is one registrar). `LostAgentsHoldNothing`, and `TombstoneOwnerIsLost`, which is
proved and not in the run (the ledger nearly says it): between reaping an agent and orphaning its claims the agent's own requests may run, and can
neither make a tombstone of a living agent's claim nor give a lost agent a live
claim. This is what the one lock around the existence check and `propose` is for.
`DiscoveryHoldsNoActiveClaim`, `ClaimLifeCycle`, `ClearIsTotal`: agreement of states
and claims over any sequence of requests. `ImplementsLedger`: all of that is a claim
ledger.

*Lifecycle.* `FinalizedOnce`, `MainFinalizesEmptyNetwork`,
`MainLeavesNoRuntimeFiles`, `SummaryIsCredible`; `ReaperIsPatient`: however stale the
reaper's clock, it removes nobody who has been heard from within the timeout; and
the liveness properties `EmptyNetworkEnds`, `SilentAgentIsRemoved`,
`OrphanBecomesReclaimable`.

*Negotiation.* `OpenConflictIsHot`, `TiesNeedClaims`: three stores behind three
locks, updated from one snapshot, agree whenever no request is being handled.
`BothProposedDecided`, `UserIsAsked`: a conflict that both agents have answered is
decided, and one that waits for the user has been put to the user, even when a
proposal comes after the timeout or after an escalation. `EndIsLoggedOnce`: every
conflict that ends is logged as ended, once, at whichever of the four places it
ends. `NegotiationEnds`: none stays undecided for ever.

*Core.* `ImplementsNegotiation`: whatever the registry and the two threads do, the
other stores see no more of it than `Negotiation` allows. It would fail if the
reaper orphaned claims of an agent that is still registered, or looked at
conflicts before it has orphaned. `EveryPairIsWeighed`: no heat is missing. Two
agents that hold live claims have been weighed against each other when the request
of the later one was answered, although the reaper runs while the snapshot is in
hand, and a release recomputes the heat of an agent whom it merely names. Without
this a conflict would never be opened, and no other property would notice.

*Algorithms.* `DecisionIsSymmetric`, `DecisionIsJust`: the order in which proposals
arrive does not matter, and a conflict is resolved without the user exactly when
nobody needs the user and the proposals agree. `CycleIffDeadlocked`: the search finds
a cycle exactly when there is a deadlock, and what it returns is such a cycle.
`HotPairsShareAFile`: weights, rounding and the inclusive bound of 75 never make a
conflict of two agents that have no file in common, which would have no path in
it. `LearningOnlyWarms`: knowledge gained between a forecast and the heat of the
accepted claim never cools it. `TouchesCountOnce`: touching files again and again
couples two files of a claim once. `EveryEndIsCounted`: what the server writes into
the log and what `summarize` looks for are the same words, so no conflict falls out
of the statistics before the log is rotated. `RecapIsTrue`: spike, streaks and
badges against their definitions over the whole log. `AtMostTwiceTheRate`: the
limiter's window is fixed although its comment calls it sliding; twice the rate, and
no more, gets through in any window.

*Sessions.* `MutualExclusion`, `StartersDoNoHarm`: of Cores that die or fail to write
at any system call, one holds the lock at a time and none that starts takes away a
file of one that serves (the one loss the code allows is to a Core that is just
removing its own files, `session.rs:38`). This run starts them one after the other;
what is left of the two properties when any number start together is in section 5
(`RemovalsBoundHolders`, `OnlyRemoversDoHarm`). `LastGoodKept`: at every step of every save
the last good content is on disk. `NothingForgotten`: over any number of Cores what
was saved is never less than before, except where a save was broken off or a file
damaged: there `load` starts from nothing, although `ARCHITECTURE.md:562` has it use
`.prev`. `StaleFilesDoNotBlock`: whatever a dead Core has left, the next one that
starts alone gets to serve. It begins with a Core that has been started: whether a
sidecar starts one is another matter (section 4).

*Terminals.* `OnlyLateClaimsSurvive`: a session that ends releases every claim but
those whose answer was on its way when nothing else was to be released, or that
were proposed later still. `SessionEndCompletes`: the release loop, which looks at
`liveClaims` again after each answer, ends, unless Core goes away under it (then it
waits for ever). `NetworkDies`: when the sidecars of all terminals have gone, so
does Core.

### Bounds, and why they are enough

* `registry`: cap 2 and three registrations, so that the cap is met and a slot is
  freed and taken again; three clock instants; two claims, so that one agent's claims
  can be treated apart from the other's, and one agent can hold two; two generations.
* `lifecycle`: two registrations, on one connection or two, one claim, five
  instants with timeout 1: enough for one agent to leave or be lost while another
  stays, comes or is lost too, and for an agent to be silent, heard from in time, or
  heard from after the reaper looked at the clock. The bounded clock means that an
  agent heard from at the very last instant can never be silent; the liveness
  properties say so in their premiss.
* `negotiation`: one pair, two successive conflicts, so that what the first one
  leaves behind meets the second; two kinds of proposals reach the four outcomes
  (queued, co-owned, escalated, deadlocked); the agents release claims in each
  other's name too.
* `core`: two registrations, two claims and one conflict, with two instants and a
  timeout and TTL of 0, so that an agent that sends no heartbeat is lost while the other
  goes on, and a tombstone meets a sweep. One agent is cleared or one claim touched
  (`MaxDetours`), since both lead to the same recomputation. Nobody proposes: requests
  about conflicts do not look at the registry, and `negotiation` is about them. A late
  conflict still goes to the user.
* `algorithms`: one topic at a time. All proposals over two files, one protected.
  Four agents and four edges give every shape of a cycle with edges leading into it
  and out of it, self-loops too, in every insertion order. Two files, two intents
  and one of everything else make every component of the heat zero, partial or full,
  with counts of zero, one and so many that the score is nearly 1. Logs of four
  events over two agents, two conflicts and one claim, rotated after three: every
  pass meets a rise, a tie, an interrupted streak and a lost line. Six submissions at
  a rate of two in a window of three ticks fill two windows and overflow both.
* `sessions`: three Cores, each started when the one before has got past its start
  (`Starters = 1`), one fault at any system call and one damaged file. Three Cores are
  needed for a loss to be seen by one that was not there when it happened. `two_cores`
  shows why `Starters` is 1: with 2 the lock does not arbitrate, although `sidecar.js`
  may well start two. What is promised of several starters is proved, not run.
* `terminals`: two terminals, three prompts each, two crashes of Core or sidecars. Two
  terminals put one in the backlog; three claims let one be released while the next
  is asked for and the third is proposed.
* `MaxRegistrations`, `MaxClaims`, `MaxGeneration`, `MaxTime`, `MaxConflicts`,
  `MaxDetours`, `MaxEdges`, `MaxEvents`, `MaxSubmits`, `Starters`, `MaxFaults`,
  `MaxDamages`, `Prompts` and `MaxCrashes` are the only bounds; each stands in the guard of the
  action that would exceed it.

Deadlock is checked where the system cannot stop (`registry`, `negotiation` and
`stale_waits`); the others may: a process exits, a comparison is made once, users
open no more terminals, and in `core` the instants and ids run out.

### Fairness

All of it is weak. The reaper and the accept loop are threads that never block on
anything but locks, which every holder releases; so is a handler that has begun; and
time passes. A Core or a sidecar process that can go on does. Nothing is assumed of
clients and users: none need connect, send, heartbeat, propose, give a prompt, close
a connection or start a Core, and nothing need fail. In `Negotiation` an open
conflict grows old because time passes.

## 4. What the code promises and does not do

Each of these runs checks one sentence of the repository, and TLC finds a
behaviour of the code that contradicts it.

* `owner_leaves` (`LeaversHoldNothing`). The README says of an agent that exited
  without a clean shutdown that its claims are marked `ORPHANED`. An agent whose
  connection closes is removed at once by `handle_conn`, its claims stay live, and
  since it is no longer registered the reaper never finds it.
* `cut_off_finalize` (`ExitMeansFinalized`). "Reaper already finalized + is exiting;
  just stop the loop": the failed swap shows only that the reaper has *won*. When
  `run` returns, `main` ends the process under a reaper that may not have written
  `network-final.json` yet.
* `stale_waits` (`WaitEdgesMeanWaiting`). A mutual queue leaves two wait edges; when
  the heat drops the conflict is resolved and the edges stay. Later deadlock checks
  see them: `find_cycle` searches the whole graph, so another pair may then be
  reported as deadlocked with the edges of this one.
* `two_cores` (`MutualExclusion`). "A loser exits 0", says `sidecar.js` of Cores that
  are started twice. The lock file is created before it is written; a second Core
  that reads it in between cannot parse it, takes it for stale, removes it and
  creates its own.
* `terminals_join` (`EveryTerminalJoins`). "Additional terminals join the same network
  automatically." The accept loop joins the handler of the first connection, so the
  second terminal's registration is read when the first terminal has closed.

Some more things the models show, or leave out, that a reader should know of. The reaper's count of agents and its swap are not one step either
(`server.rs:1166`): an agent may register in between, is answered, and the process
exits. And a conflict whose participant is lost stays as it is until the proposal
timeout, although "conflict updates" (`CAP_SPEC.md:814`) may be meant to be sooner.
A save that is broken off after the good file has been moved to `.prev` is forgotten
by the next Core, although `ARCHITECTURE.md:562` has it load `.prev`: that is the
exemption (`gap`) of `NothingForgotten`. And `ensureCore` (`sidecar.js:42`) only looks
whether the socket and the token exist: after a Core that died while it served, a
sidecar starts none, cannot connect and exits, and so does every later one.

## 5. The proofs

TLAPS checks every proof to the last leaf; each module takes a few minutes or less.
Assumptions on constants are the named `...Assumption`s, as weak as the code has
them (caps, times and heats are natural numbers; sets of agents, paths, domains, words and
Cores are finite; the agents and files of a log are numbered from 1; a log is rotated when it has at least one event); the theorems hold
for any number of agents, claims, conflicts, terminals, Cores and faults. The
invariant properties are seldom inductive by themselves.

*Registry* (`RegistryProofs`).

* `EveryAgentAccounted` needs to know where an agent may be while a registration
  or a disconnect is under way (the agent a thread carries is in the place its
  program counter says). With that it carries over each of the actions that
  move an agent.
* `LostAgentsHoldNothing` needs `EveryAgentAccounted`: a lost agent is not
  registered, so no handler that checks for existence can give it a claim.
* `AgentCapHolds` needs that a counted registration still has room: while the
  connection thread is past the count, the store is below the cap, since only the
  reaper changes it and only downwards.
* `ImplementsLedger` is a step refinement: `Init` maps to the ledger's `Init`, and
  each action maps to one ledger step (register to `Join`, propose to `Grant`,
  release and `/clear` to `Release`, disconnect and reap to `Depart`, orphan to
  `Orphan`, sweep to `Expire`) or to a stutter. The orphan step uses that its
  agents are gone. `TombstonesAreOfLostAgents` is what no ledger says: tombstones are
  of agents that were reaped, not of those that left.
* `ClaimLifeCycle` and `ClearIsTotal` are action properties, shown of each critical
  section that changes a claim or a generation. `ReaperIsPatient` is one too, and
  needs the invariant: the clock a thread carries is never ahead of the real one.

*Lifecycle* (`LifecycleProofs`). `LifecycleKeepsRegistry` shows that every behaviour
of `LSpec` is one of `Spec`, so all registry theorems hold there. `LifeInv` then
ties the two threads' places to `finalized`: a thread is in the finalize sequence
only if it won the swap. While the accept loop has an `empty` result in hand no
handler runs, and the reaper only removes agents, so the network is still empty
when it acts; and with the connection thread idle, the agents seen are all the
agents that registered. `ReaperIsPatient` holds of the scheduled reaper as well.

*ConflictRules* (`AlgorithmsProofs`). Symmetry and justice of `compare` for any
set of files and any configuration, as lemmas on the operator and as theorems of
the specification.

*Negotiation* (`NegotiationProofs`). `NegInv` states the properties at every place
of the two threads, not only between requests: the conflict in hand stays open
(`ConnCarries`: nothing else closes a conflict while one is weighed, the reaper only
changes its state); conflicts are hot after every step, because one step applies the
heat and another never takes a pair's heat away without its conflict
(`ConflictsAreHot`); a conflict that both have answered is decided or in hand
(`AnsweredIsDecided`); ids that were not given out have no log entries
(`NothingLoggedAhead`). Every step is one of seven kinds (quiet, a proposal, a
closing, a marking for the user, asking, logging an end, applying heat: `StepKinds`),
and each kind keeps the invariant.

`TiesNeedClaims` has an invariant of its own, `TiesInv`. An agent without a claim may
be tied while its request is still being handled, but only if the connection thread
is about to look at that very agent or to drop what it has (`Due`). The race is
between the snapshot and the reaper: heat is applied to agents that held a claim
when the snapshot was taken. They still do, or are no longer registered, because the
reaper removes an agent from the registry before it orphans its claims
(`SnapshotInv`). Of the wait edges the proof needs what `Vec::retain` leaves
(`RetainFacts`) and that `add_edge` adds no other node (`AddEdgeFacts`), both from
`WaitGraphProofs`.

*Core* (`CoreProofs`).

* `CoreKeepsRegistry`: every step of `Core` is the registry's or leaves it alone, so
  the registry's invariants hold and may be used below.
* `CoreImplementsNegotiation` is a step refinement under the mapping of `Present`,
  `Holding` and `ReaperView`. Each handler has its counterpart (`ProposeMaps`,
  `ClearMaps`, `TouchMaps`, `ReleaseMaps`, `DisconnectMaps`), and so has each lock of
  the reaper (`WakeMaps`, `ReapMaps`, `OrphanMaps`, `SweepLateMaps`, `AskMaps`); its
  sweep of tombstones and its log stutter. It needs the registry's types, since an id
  in use is below the counter, and `SweepInv`: while the reaper is about the
  registry's part of its round, the other part is still to come.
* `CoreNegotiates` applies the theorems of `NegotiationProofs` through the refinement:
  `OpenConflictIsHot`, `BothProposedDecided`, `UserIsAsked`, `EndIsLoggedOnce` and
  `TiesNeedClaims`, of the registry's own agents and claims.
* `CoreWeighsEveryPair`. `WeighInv` says it at every place of the connection thread:
  two agents at work have their heat, or one of them is the agent whose heat is being
  computed; then, once the snapshot is taken, every agent at work is in it; and an
  agent whose edges are about to be dropped is not at work. The reaper only takes
  agents and live claims away, so it cannot break this. It is shown of
  `Negotiation`'s steps and used of `Core`'s.

*Bootstrap* (in `SessionsProofs`), for any number of Cores that start at the same
time. `StepOnLock` reads every step as one of four: it keeps the lock, takes it where
there is no file, removes a file that was taken for stale, or gives up the lock that
it holds. `CountInv` counts: the holders, and one more if there is no lock file, are
at most one more than the processes that have removed a lock. A removal adds one to
both sides, because nobody removes twice (`RemoverIsNew`: `acquire_lock` retries
once); an ending Core removes the lock as it stops to hold it, since it removes each
file once (`RemovesOnce`).

* `RemovalsBound`: `RemovalsBoundHolders` follows. It is what is true of the code where
  `MutualExclusion` is not. Without removals there is one holder however many start,
  so `create_new` does arbitrate; and the damage of the removal that `two_cores` shows
  is bounded by the number of processes that made one.
* `ServersKeepFiles`: `OnlyRemoversDoHarm`. Who takes a file from a Core that serves is
  ending, or holds the lock too, or is removing it (`TakersOfFiles`); the second needs
  an earlier removal.

`RemovalIsTheOnlyGap` looks at it from the other side. If starters remove no lock that
is held (`RemovesStale`), then `MutualExclusion` and `StartersDoNoHarm` hold, however many
start: who holds the lock can be read in it once it is written (`HolderIsWritten`), so
nobody creates or removes it meanwhile. The code does not guarantee `RemovesStale`, so
this is a lemma and no result about the code: it says where a repair has to be made.
One starter at a time keeps to it (`OneStarterRemovesStale`): what a starter has read is
still so, since a holder may go but none can come while it is the only starter
(`ReaderSawHolder`).

*Sessions* (`SessionsProofs`), for any number of starters that keep to `RemovesStale`,
in particular for one at a time. `SessionsKeepBootstrap` brings `HolderInv`; hence one
Core at a time loads, serves or saves (`OneAtWork`).
`StoreInv` follows a save through its steps: the last good content is in its place,
or nothing is and it is the spare (`SaveIsThere`); what replaces it is whole and was
merged with what it replaces (`ReplacementIsWhole`, `MemoryIsComplete`).
`LastGoodKept`, `NeverHalfWritten` and `NothingForgotten` follow, for any number of
crashes, failed writes and damaged files. The argument needs the condition: two Cores
that save at the same time rotate each other's files, so `two_cores` is a hazard to the
knowledge of a project too.

*Terminals* (`TerminalsProofs`). `TermInv` holds of each terminal by itself, whatever
the others do. What is under way between a sidecar and Core is one queue, in the
order in which the sidecar will hear of it. A claim under way is not yet known and is
under way once (`QueueInv`); every live claim is known or its answer is on its way
(`LiveInv`); a claim whose release has been asked for is not live or its release has
not been read (`AskingInv`); and while the session ends, the answer to a claim that
must not be overlooked comes before the answer to a release, or before the first
release is asked for (`LeaveInv`). Since the release loop looks at what is known after
each answer, it cannot stop before that answer has come: `GoneInv`, which is
`OnlyLateClaimsSurvive` with the queues.

*The pure parts* (`AlgorithmsProofs`, with `WaitGraphProofs`).

* Rate limiter. A window's length meets at most two windows of the counter. `WindowInv`
  says that each of them lets the rate through: the one the counter counts, and those
  before it as far back as a window's length can reach. `TwiceInv` then follows for the
  spans that meet two windows, and is kept for all earlier ones.
* `TouchesCountOnce` is inductive with the files touched so far: what a touch couples
  are pairs with a file that was not among them.
* Heat. Each component is a fraction of at most 1 (`ComponentFacts`); agents that share
  no file have two of the eight components at zero, file and hotzone, which leaves
  weights of 70 (`TotalAtMost`), while the last band begins at 76
  (`ConflictsNameAFile`). Counts only grow, the score n/(n+k) grows with the greatest
  of them, and the weighted sum and its rounding are monotone (`TotalGrows`,
  `RoundFacts`), so what is learned only warms (`LearningNeverCools`).
* Passes over the log. A pass over a longer log goes on where the shorter one's ended:
  of the statistics, the recap's marks and its streaks alike (`PassGoesOn`,
  `OneMoreEvent`), so what is said of a log is shown of one event more.
* Statistics. Every event moves the account of conflicts by a known amount
  (`BalanceFacts`); and every word the server writes for a resolution, those of
  `compare` included, is one that `summarize` looks for (`ResolutionsAreKnown`).
* Recap. `StreakInv`: the counter holds the row of good ends that the log ends with and
  the longest so far (`RunIs`); a hit makes the last row longer, a miss begins a new one,
  other events change neither (`HitGoesOn`, `MissBreaksOff`, `NoFlagKeeps`). `SpikeInv`:
  for each pair the heat that is kept is that of its latest update (`LastHeats`), so the
  rises of a longer log are the old ones and at most one that ends at the new event
  (`MoreRises`). `PeakInv`: some agent took part in heat exactly if a peak was recorded,
  although sums and peak are kept apart; what the badges need besides is that the first
  of those who deserve one is one of them (`FirstFacts`, `SomebodyHasMost`).
* Wait-for graph. The recursion ends, because each call has fewer unvisited nodes or
  fewer edges to look at (`Size`), so that the search is a function of its arguments
  (`SearchExists`). `SearchIsRight` is its contract: begun with a path on which the
  nodes of colour 1 are exactly those passed, and with done nodes that lead only to
  done nodes (`Before`), it returns a cycle, or has made its node and perhaps others
  done, and none else (`Found`). A back edge closes a cycle since the path from where
  it leads is one (`BackEdgeCloses`). When no start finds a cycle every node is done, and of
  any set of done nodes one, the first that was done, waits for none of the others: no
  deadlock (`SearchSettles`).

Induction over numbers, sizes and finite sets is by a least counterexample
(`LeastElement`): the library's induction theorems have an operator for a parameter,
which the provers at hand cannot instantiate.

*Only model-checked.* The liveness properties (`EmptyNetworkEnds`,
`SilentAgentIsRemoved`, `OrphanBecomesReclaimable`, `NegotiationEnds`,
`StaleFilesDoNotBlock`, `SessionEndCompletes`, `NetworkDies`): fairness is beyond the
proof system. Every invariant and action property of a passing run has its theorem.

## 6. What is not modelled

* The token check and its limit of bad attempts, `get_state`, JSON and CAP decoding,
  the hook installer, the command line and the simulator: they keep no state that
  the coordination depends on, or only read it.
* Of the statistics the duration, the heat history and the two derived views; of the
  recap the leaderboards, the bloodiest minute and the wording.
* Reuse of process ids, failures to remove a file, two sessions that begin in the
  same second and share a log's name, panics.
* What `DEADLOCK_DETECTED` shows when three agents queue, and the order of
  `CONFLICT_TIMEOUT` and `CONFLICT_RESOLVED` in the log (`server.rs:912`): no document
  says what it should be.
* `Core` under the accept loop: `Core` and `Lifecycle` both extend `Registry`, and the
  end of the process only stops what `Core` does.

## 7. The plan

1. Three agents that queue, with the record that `DEADLOCK_DETECTED` shows, once the
   documents say which cycle it should be.
2. The readers of the event log (the command line, the recap of a running session),
   with the order in which they may find `CONFLICT_TIMEOUT` and `CONFLICT_RESOLVED`.
