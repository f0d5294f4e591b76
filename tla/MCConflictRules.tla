-------------------------- MODULE MCConflictRules ---------------------------
(***************************************************************************)
(* Every pair of proposals over two files, every set of conflict paths and *)
(* both settings of what the user protects, compared once.                 *)
(***************************************************************************)
EXTENDS ConflictRules

VARIABLES mine, theirs, contested, decision

Undecided == [auto |-> FALSE, reason |-> "NONE"]

rulesVars == <<mine, theirs, contested, decision>>

RulesInit ==
  /\ mine \in ProposalRecords
  /\ theirs \in ProposalRecords
  /\ contested \in SUBSET File
  /\ decision = Undecided

Decide ==
  /\ decision = Undecided
  /\ decision' = Compare(mine, theirs, contested)
  /\ UNCHANGED <<mine, theirs, contested>>

RulesSpec == RulesInit /\ [][Decide]_rulesVars

\* compare is symmetric: which agent's proposal is stored first (the pair is
\* ordered by agent id, not by who is right) has no say in the outcome.
DecisionIsSymmetric ==
  decision # Undecided => decision = Compare(theirs, mine, contested)

\* A conflict is resolved without the user exactly when nobody needs the user
\* and the proposals agree ("do not silently auto-resolve high-risk conflict").
DecisionIsJust ==
  decision # Undecided =>
    (decision.auto <=> ~NeedsUser(mine, theirs, contested) /\ Agree(mine, theirs))
=============================================================================
