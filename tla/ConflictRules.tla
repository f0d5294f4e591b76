--------------------------- MODULE ConflictRules ----------------------------
(***************************************************************************)
(* The deterministic comparison of two proposals for one conflict          *)
(* (packages/coordify-core/src/conflict.rs, `compare`).  A proposal is its *)
(* kind, its requiresUserApproval flag, and the files its claim changes    *)
(* would keep or take.                                                     *)
(***************************************************************************)
CONSTANTS
  File,          \* the paths proposals and conflicts may name
  Protected,     \* those under a prefix of cfg.protected_paths
  AllowCoOwn     \* cfg.allow_co_own

ASSUME ConfigAssumption == Protected \subseteq File /\ AllowCoOwn \in BOOLEAN

StepAside == {"YIELD_CLAIM", "ABORT_TASK", "TRANSFER_TASK"}
Kinds     == StepAside \cup {"CO_OWN", "SPLIT_SCOPE", "QUEUE_TASK", "ASK_USER"}

ProposalRecords == [kind : Kinds, approval : BOOLEAN, files : SUBSET File]

AutoResolve(resolution) == [auto |-> TRUE, reason |-> resolution]
Escalate(why)           == [auto |-> FALSE, reason |-> why]

\* (Mutants: only the first proposal looked at; one proposal enough.)
FirstOnly(a, b, kinds) == a.kind \in kinds
Either(a, b, kinds)    == a.kind \in kinds \/ b.kind \in kinds
OneEnough(a, b, kind)  == a.kind = kind \/ b.kind = kind
Both(a, b, kind)       == a.kind = kind /\ b.kind = kind

\* The rules are tried in order; the first that applies decides.
Compare(a, b, paths) ==
  IF a.approval \/ b.approval THEN Escalate("USER_APPROVAL_REQUIRED")
  ELSE IF Either(a, b, {"ASK_USER"}) THEN Escalate("AGENT_REQUESTED_USER")
  ELSE IF paths \cap Protected # {} THEN Escalate("PROTECTED_PATH")
  ELSE IF Either(a, b, StepAside) THEN AutoResolve("PARTICIPANT_STEPPED_ASIDE")
  ELSE IF Either(a, b, {"QUEUE_TASK"}) /\ ~Both(a, b, "QUEUE_TASK")
    THEN AutoResolve("QUEUED")
  ELSE IF Both(a, b, "SPLIT_SCOPE")
    THEN IF a.files \cap b.files = {} THEN AutoResolve("SCOPE_SPLIT")
                                      ELSE Escalate("OVERLAPPING_SPLIT")
  ELSE IF Both(a, b, "CO_OWN")
    THEN IF AllowCoOwn THEN AutoResolve("CO_OWNERSHIP")
                       ELSE Escalate("CO_OWN_DISALLOWED")
  ELSE Escalate("INCOMPATIBLE_PROPOSALS")

-----------------------------------------------------------------------------
(* What the comparison is for, said without an order of rules              *)

\* Somebody has to ask the user: an agent, an agent's approval flag, or the
\* configuration.
NeedsUser(a, b, paths) ==
  \/ TRUE \in {a.approval, b.approval}
  \/ "ASK_USER" \in {a.kind, b.kind}
  \/ \E f \in paths : f \in Protected

\* The two agents can both go on: one gives way, one waits for the other, or
\* what they would hold is disjoint or may be shared.
Agree(a, b) ==
  LET kinds == {a.kind, b.kind} IN
    \/ kinds \cap StepAside # {}
    \/ "QUEUE_TASK" \in kinds /\ kinds # {"QUEUE_TASK"}
    \/ kinds = {"SPLIT_SCOPE"} /\ \A f \in a.files : f \notin b.files
    \/ kinds = {"CO_OWN"} /\ AllowCoOwn
=============================================================================
