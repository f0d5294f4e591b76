------------------------------ MODULE Terminals -----------------------------
(***************************************************************************)
(* Claude Code terminals, the sidecar process of each (packages/           *)
(* coordify-hook: sidecar.js, lib/core-client.js, lib/mapping.js) and the  *)
(* accept loop of the Core they share (server.rs `run', `handle_conn').    *)
(*                                                                         *)
(* A sidecar starts Core unless its files are there, connects, registers   *)
(* and only then listens to hooks; prompts become claims, the end of the   *)
(* terminal releases the claims whose ids it has been told.  Core serves   *)
(* one connection until it closes and then takes the next; connections     *)
(* wait in the backlog.  When the network is empty Core ends.              *)
(***************************************************************************)
EXTENDS Integers, FiniteSets, SequencesExt

CONSTANTS
  Terminal,      \* numbered in the order in which they are opened
  Prompts,       \* bound: prompts given in one terminal
  MaxCrashes     \* bound: how often Core or a sidecar is killed

ASSUME TerminalsAssumption ==
  Terminal \subseteq Nat \ {0} /\ IsFiniteSet(Terminal) /\ Prompts \in Nat /\ MaxCrashes \in Nat

VARIABLES
  open,      \* terminals: "no", "yes", "closed"
  sidecar,   \* where each sidecar is
  linked,    \* sidecars whose connection stands
  core,      \* "none", "boot", "serve", "ending"
  files,     \* socket and token are on disk
  backlog,   \* connections that nobody has accepted
  conn,      \* the one that is being handled
  agent,     \* the terminal that this connection has registered
  asked,     \* requests on their way to Core
  told,      \* answers on their way back
  prompts,   \* how many prompts each terminal was given
  live,      \* claims Core holds as live
  known,     \* liveClaims: claim ids a sidecar was told
  asking,    \* liveClaims it has begun to release
  late,      \* claims that its end may overlook (history)
  crashes

termVars == <<open, sidecar, linked, prompts, known, asking, late>>
coreVars == <<core, files, backlog, conn, agent, live>>
vars == <<termVars, coreVars, asked, told, crashes>>

NoOne == 0

Requests == [kind : {"register"}, n : {0}] \cup [kind : {"claim", "release"}, n : 1 .. Prompts]
Register   == [kind |-> "register", n |-> 0]
Claim(n)   == [kind |-> "claim", n |-> n]
Release(n) == [kind |-> "release", n |-> n]

TypeOK ==
  /\ open \in [Terminal -> {"no", "yes", "closed"}]
  /\ sidecar \in [Terminal -> {"none", "boot", "poll", "dial", "queued", "up", "leaving", "gone", "failed"}]
  /\ linked \subseteq Terminal
  /\ core \in {"none", "boot", "serve", "ending"} /\ files \in BOOLEAN
  /\ ToSet(backlog) \subseteq Terminal
  /\ conn \in Terminal \cup {NoOne} /\ agent \in {conn, NoOne}
  /\ \A t \in Terminal :
       /\ ToSet(asked[t]) \cup ToSet(told[t]) \subseteq Requests
       /\ prompts[t] \in 0 .. Prompts
       /\ live[t] \cup late[t] \cup known[t] \subseteq 1 .. prompts[t]
       /\ asking[t] \subseteq known[t]
  /\ crashes \in 0 .. MaxCrashes

Init ==
  /\ open = [t \in Terminal |-> "no"]
  /\ sidecar = [t \in Terminal |-> "none"]
  /\ linked = {}
  /\ core = "none" /\ files = FALSE
  /\ backlog = <<>> /\ conn = NoOne /\ agent = NoOne
  /\ asked = [t \in Terminal |-> <<>>]
  /\ told = [t \in Terminal |-> <<>>]
  /\ prompts = [t \in Terminal |-> 0]
  /\ live = [t \in Terminal |-> {}]
  /\ known = [t \in Terminal |-> {}]
  /\ asking = [t \in Terminal |-> {}]
  /\ late = [t \in Terminal |-> {}]
  /\ crashes = 0

Goto(t, p)  == sidecar' = [sidecar EXCEPT ![t] = p]
Ask(t, r)   == asked' = [asked EXCEPT ![t] = Append(@, r)]
Tell(t, r)  == told' = [told EXCEPT ![t] = Append(@, r)]

-----------------------------------------------------------------------------
(* A sidecar starts                                                        *)

\* SessionStart: hook-runner spawns the sidecar.
OpenTerminal(t) ==
  /\ open[t] = "no"
  /\ \A s \in Terminal : s < t => open[s] # "no"
  /\ open' = [open EXCEPT ![t] = "yes"]
  /\ Goto(t, "boot")
  /\ UNCHANGED <<linked, prompts, known, asking, late, coreVars, asked, told, crashes>>

\* ensureCore: only the files are looked at, not whether anybody listens.  Of
\* several Cores that are spawned one gets past the lock.
EnsureCore(t) ==
  /\ sidecar[t] = "boot"
  /\ IF files THEN Goto(t, "dial") /\ UNCHANGED core
     ELSE Goto(t, "poll") /\ core' = IF core = "none" THEN "boot" ELSE core
  /\ UNCHANGED <<open, linked, prompts, known, asking, late, files, backlog, conn, agent, live,
                 asked, told, crashes>>

\* The files appear, or BOOT_TIMEOUT_MS is over.
Poll(t) ==
  /\ sidecar[t] = "poll"
  /\ files /\ Goto(t, "dial")
  /\ UNCHANGED <<open, linked, prompts, known, asking, late, coreVars, asked, told, crashes>>

GiveUp(t) ==
  /\ sidecar[t] = "poll"
  /\ ~files /\ Goto(t, "failed")
  /\ UNCHANGED <<open, linked, prompts, known, asking, late, coreVars, asked, told, crashes>>

Listening == files /\ core \in {"serve", "ending"}

\* The kernel takes the connection as long as Core has the socket open.
Dial(t) ==
  /\ sidecar[t] = "dial"
  /\ IF Listening
       THEN /\ Goto(t, "queued")
            /\ linked' = linked \cup {t}
            /\ backlog' = Append(backlog, t)
            /\ Ask(t, Register)
       ELSE Goto(t, "failed") /\ UNCHANGED <<linked, backlog, asked>>
  /\ UNCHANGED <<open, prompts, known, asking, late, core, files, conn, agent, live, told, crashes>>

-----------------------------------------------------------------------------
(* Hooks and answers                                                       *)

\* UserPromptSubmit: the hook finds the sidecar's socket only once it is up.
\* Without a connection the request fails at once.
Prompt(t) ==
  LET n == prompts[t] + 1
  IN  /\ open[t] = "yes" \/ sidecar[t] = "leaving"
      /\ sidecar[t] \in {"up", "leaving"}
      /\ n <= Prompts
      /\ t \in linked
      /\ prompts' = [prompts EXCEPT ![t] = n]
      /\ Ask(t, Claim(n))
      /\ late' = IF sidecar[t] = "leaving" THEN [late EXCEPT ![t] = @ \cup {n}] ELSE late
      /\ UNCHANGED <<open, sidecar, linked, known, asking, coreVars, told, crashes>>

\* SessionEnd, or the terminal just closes: then no hook runs, and a hook that
\* comes before the sidecar listens is dropped.
CloseTerminal(t) ==
  /\ open[t] = "yes"
  /\ open' = [open EXCEPT ![t] = "closed"]
  /\ \/ /\ sidecar[t] = "up"
        /\ Goto(t, "leaving")
        /\ late' = [late EXCEPT ![t] = IF known[t] = {} THEN 1 .. prompts[t] ELSE {}]
     \/ UNCHANGED <<sidecar, late>>
  /\ UNCHANGED <<linked, prompts, known, asking, coreVars, asked, told, crashes>>

\* Mutant: the ids are not kept once the session is ending.
HearUnlessLeaving(t, r) ==
  known' = IF r.kind = "claim" /\ sidecar[t] = "up"
             THEN [known EXCEPT ![t] = @ \cup {r.n}] ELSE known

Learn(t, r) ==
  known' = IF r.kind = "claim" THEN [known EXCEPT ![t] = @ \cup {r.n}] ELSE known

\* Mutant: answers are not heard once the session is ending.
HearUntilLeaving(t) ==
  /\ told[t] # <<>>
  /\ sidecar[t] \in {"queued", "up"}
  /\ told' = [told EXCEPT ![t] = Tail(@)]
  /\ Learn(t, Head(told[t]))
  /\ IF Head(told[t]) = Register THEN Goto(t, "up") ELSE UNCHANGED sidecar
  /\ UNCHANGED <<open, linked, prompts, asking, late, coreVars, asked, crashes>>

\* The answers arrive in order, and each resumes the handler that waits for it.
Hear(t) ==
  /\ told[t] # <<>>
  /\ sidecar[t] \in {"queued", "up", "leaving"}
  /\ told' = [told EXCEPT ![t] = Tail(@)]
  /\ Learn(t, Head(told[t]))
  /\ IF Head(told[t]) = Register THEN Goto(t, "up") ELSE UNCHANGED sidecar
  /\ UNCHANGED <<open, linked, prompts, asking, late, coreVars, asked, crashes>>

\* A release that is under way: asked, or answered and not heard of.
Waits(t) == \E q \in {asked[t], told[t]} : \E i \in DOMAIN q : q[i].kind = "release"

\* SessionEnd: the loop over liveClaims, one release after the other.  The ids
\* that are added to the set while it waits are visited too.
ReleaseNext(t) ==
  /\ sidecar[t] = "leaving"
  /\ ~Waits(t)
  /\ \E n \in known[t] \ asking[t] :
       /\ \A m \in known[t] \ asking[t] : n <= m
       /\ asking' = [asking EXCEPT ![t] = @ \cup {n}]
       /\ IF t \in linked THEN Ask(t, Release(n)) ELSE UNCHANGED asked
  /\ UNCHANGED <<open, sidecar, linked, prompts, known, late, coreVars, told, crashes>>

Shutdown(t) ==
  /\ sidecar[t] = "leaving"
  /\ ~Waits(t)
  /\ known[t] = asking[t]
  /\ Goto(t, "gone")
  /\ told' = [told EXCEPT ![t] = <<>>]
  /\ UNCHANGED <<open, linked, prompts, known, asking, late, coreVars, asked, crashes>>

-----------------------------------------------------------------------------
(* Core                                                                    *)

\* A new Core has a new session: it holds no claims.
CoreStarts ==
  /\ core = "boot"
  /\ core' = "serve" /\ files' = TRUE
  /\ live' = [t \in Terminal |-> {}]
  /\ UNCHANGED <<termVars, backlog, conn, agent, asked, told, crashes>>

Accept ==
  /\ core = "serve" /\ conn = NoOne /\ backlog # <<>>
  /\ conn' = Head(backlog)
  /\ backlog' = Tail(backlog)
  /\ UNCHANGED <<termVars, core, files, agent, live, asked, told, crashes>>

\* handle_conn: one request is read, handled and answered.  An answer that the
\* client no longer reads is lost.
Handle(t) ==
  LET r == Head(asked[t])
  IN  /\ core = "serve" /\ conn = t /\ asked[t] # <<>>
      /\ asked' = [asked EXCEPT ![t] = Tail(@)]
      /\ IF sidecar[t] = "gone" THEN UNCHANGED told ELSE Tell(t, r)
      /\ agent' = IF r.kind = "register" THEN t ELSE agent
      /\ live' = CASE r.kind = "claim"   -> [live EXCEPT ![t] = @ \cup {r.n}]
                   [] r.kind = "release" -> [live EXCEPT ![t] = @ \ {r.n}]
                   [] OTHER              -> live
      /\ UNCHANGED <<termVars, core, files, backlog, conn, crashes>>

\* Mutant: the loop goes on whatever the handler says.
CloseConnForEver(t) ==
  /\ core = "serve" /\ conn = t /\ sidecar[t] = "gone"
  /\ conn' = NoOne /\ agent' = NoOne
  /\ asked' = [asked EXCEPT ![t] = <<>>]
  /\ linked' = linked \ {t}
  /\ UNCHANGED <<open, sidecar, prompts, known, asking, late, core, files, backlog, live, told, crashes>>

\* The connection is closed; requests that were still in it are read or, if it
\* was reset, not.  If its agent was the last one Core saves, and ends.
CloseConn(t) ==
  /\ core = "serve" /\ conn = t /\ sidecar[t] = "gone"
  /\ conn' = NoOne /\ agent' = NoOne
  /\ core' = IF agent = t THEN "ending" ELSE core
  /\ asked' = [asked EXCEPT ![t] = <<>>]
  /\ linked' = linked \ {t}
  /\ UNCHANGED <<open, sidecar, prompts, known, asking, late, files, backlog, live, told, crashes>>

RemoveFiles ==
  /\ core = "ending" /\ files
  /\ files' = FALSE
  /\ UNCHANGED <<termVars, core, backlog, conn, agent, live, asked, told, crashes>>

\* With the process every connection ends.  A sidecar that waits for the answer
\* to its registration has nothing else to do and ends too; one that is up stays.
CutOff ==
  /\ core' = "none"
  /\ backlog' = <<>> /\ conn' = NoOne /\ agent' = NoOne
  /\ linked' = {}
  /\ sidecar' = [t \in Terminal |->
                   IF t \in linked /\ sidecar[t] = "queued" THEN "failed" ELSE sidecar[t]]
  /\ UNCHANGED <<open, prompts, known, asking, late, live>>

CoreExits ==
  /\ core = "ending" /\ ~files
  /\ CutOff
  /\ asked' = [t \in Terminal |-> IF sidecar[t] = "queued" THEN <<>> ELSE asked[t]]
  /\ told' = [t \in Terminal |-> IF sidecar[t] = "queued" THEN <<>> ELSE told[t]]
  /\ UNCHANGED <<files, crashes>>

\* Killed: the files stay.  What was asked is never answered; the promises of
\* requests under way are not settled.
CoreCrashes ==
  /\ core \in {"serve", "ending"}
  /\ crashes < MaxCrashes
  /\ crashes' = crashes + 1
  /\ CutOff
  /\ UNCHANGED <<files, asked, told>>

\* A sidecar is killed: its connection closes and nothing is released.
SidecarDies(t) ==
  /\ crashes < MaxCrashes
  /\ crashes' = crashes + 1
  /\ sidecar[t] \in {"queued", "up", "leaving"}
  /\ Goto(t, "gone")
  /\ late' = [late EXCEPT ![t] = 1 .. prompts[t]]
  /\ told' = [told EXCEPT ![t] = <<>>]
  /\ UNCHANGED <<open, linked, prompts, known, asking, coreVars, asked>>

-----------------------------------------------------------------------------

\* What processes do by themselves.
SidecarRuns(t) ==
  EnsureCore(t) \/ Poll(t) \/ Dial(t) \/ Hear(t) \/ ReleaseNext(t) \/ Shutdown(t)
CoreRuns ==
  CoreStarts \/ Accept \/ RemoveFiles \/ CoreExits \/ \E t \in Terminal : Handle(t) \/ CloseConn(t)

Next ==
  \/ CoreRuns \/ CoreCrashes
  \/ \E t \in Terminal : \/ SidecarRuns(t) \/ GiveUp(t) \/ SidecarDies(t)
                         \/ OpenTerminal(t) \/ Prompt(t) \/ CloseTerminal(t)

\* Processes that can go on do; terminals are opened and closed as users like.
Spec ==
  /\ Init /\ [][Next]_vars
  /\ WF_vars(CoreRuns)
  /\ \A t \in Terminal : WF_vars(SidecarRuns(t))

-----------------------------------------------------------------------------

\* A session that ended properly leaves no live claim in Core but those whose
\* answer was under way when it ended and nothing else was to be released, and
\* those of prompts that came later still.
OnlyLateClaimsSurvive ==
  \A t \in Terminal :
    sidecar[t] = "gone" /\ t \in linked => live[t] \subseteq late[t]

\* SessionEnd gets to its end, however many claims there are to release and
\* whatever is proposed meanwhile, unless Core goes away under it.
SessionEndCompletes ==
  \A t \in Terminal : sidecar[t] = "leaving" ~> sidecar[t] = "gone" \/ t \notin linked

\* "When the last terminal closes, the network dies" (README.md:204), if "closes"
\* means that the sidecars of all terminals have ended.
NetworkDies ==
  (agent # NoOne /\ \A t \in Terminal : sidecar[t] \in {"none", "gone", "failed"})
    ~> (core = "none" \/ \E t \in Terminal : sidecar[t] \notin {"none", "gone", "failed"})

\* "Additional terminals join the same network automatically" (README.md:204):
\* a sidecar that has connected registers while every terminal stays open.
EveryTerminalJoins ==
  \A t \in Terminal :
    LET undisturbed == \A s \in Terminal : open[s] # "closed"
    IN  sidecar[t] = "queued" /\ undisturbed ~> sidecar[t] # "queued" \/ ~undisturbed
=============================================================================
