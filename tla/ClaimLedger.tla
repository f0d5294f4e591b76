---------------------------- MODULE ClaimLedger -----------------------------
(***************************************************************************)
(* What Coordify promises about claims, with no thread, lock or clock in   *)
(* sight: who is in the network, and what has become of each claim ever    *)
(* made.  Registry implements it (ImplementsLedger there).                 *)
(***************************************************************************)
EXTENDS Functions

CONSTANTS AgentId, ClaimId

VARIABLES
  known,     \* agents that ever joined; an id joins once
  present,   \* agents in the network
  ledger     \* claim -> [owner, phase], for the claims made so far

ledgerVars == <<known, present, ledger>>

Phases == {"live", "released", "orphaned", "reclaimable"}

TypeOK ==
  /\ known \subseteq AgentId
  /\ present \subseteq known
  /\ DOMAIN ledger \subseteq ClaimId
  /\ ledger \in [DOMAIN ledger -> [owner : known, phase : Phases]]

Init == known = {} /\ present = {} /\ DOMAIN ledger = {}

In(phase) == {c \in DOMAIN ledger : ledger[c].phase = phase}

Move(S, phase) ==
  ledger' = [c \in DOMAIN ledger |->
               IF c \in S THEN [ledger[c] EXCEPT !.phase = phase] ELSE ledger[c]]

\* A new agent joins.
Join(a) ==
  /\ a \notin known
  /\ known' = known \cup {a}
  /\ present' = present \cup {a}
  /\ UNCHANGED ledger

\* Agents leave or are lost; their claims stay in the ledger.
Depart(S) ==
  /\ S \subseteq present
  /\ present' = present \ S
  /\ UNCHANGED <<known, ledger>>

\* A claim is made under a fresh id, by an agent of the network.
Grant(a, c) ==
  /\ a \in present
  /\ c \notin DOMAIN ledger
  /\ ledger' = [x \in DOMAIN ledger \cup {c} |->
                  IF x = c THEN [owner |-> a, phase |-> "live"] ELSE ledger[x]]
  /\ UNCHANGED <<known, present>>

\* Live claims are given up: one by its id, or all of an agent's by /clear.
Release(S) ==
  /\ S \subseteq In("live")
  /\ Move(S, "released")
  /\ UNCHANGED <<known, present>>

\* The live claims of agents that are gone become tombstones, all of them.
Orphan(A) ==
  /\ A \subseteq known \ present
  /\ Move({c \in In("live") : ledger[c].owner \in A}, "orphaned")
  /\ UNCHANGED <<known, present>>

\* Tombstones become reclaimable.
Expire(S) ==
  /\ S \subseteq In("orphaned")
  /\ Move(S, "reclaimable")
  /\ UNCHANGED <<known, present>>

Next ==
  \/ \E a \in AgentId : Join(a) \/ \E c \in ClaimId : Grant(a, c)
  \/ \E S \in SUBSET present : Depart(S)
  \/ \E S \in SUBSET In("live") : Release(S)
  \/ \E A \in SUBSET known : Orphan(A)
  \/ \E S \in SUBSET In("orphaned") : Expire(S)

Spec == Init /\ [][Next]_ledgerVars

-----------------------------------------------------------------------------
\* A tombstone's owner is out of the network and stays out of it.
TombstonesAreOwnerless ==
  \A c \in In("orphaned") \cup In("reclaimable") :
    ledger[c].owner \in known \ present

\* Nothing in the ledger is lost, reassigned or revived.
LedgerIsFaithful ==
  [][\A c \in DOMAIN ledger :
       /\ c \in DOMAIN ledger'
       /\ ledger'[c].owner = ledger[c].owner
       /\ ledger'[c].phase = "live" => ledger[c].phase = "live"]_ledgerVars
=============================================================================
