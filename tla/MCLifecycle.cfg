\* The end of a session: two registrations on one or more connections, the
\* accept loop and the reaper racing to finalize, both fair.  The process may
\* exit.
SPECIFICATION FairLSpec
CONSTANTS
  MaxAgents = 2
  Timeout = 1
  OrphanTTL = 1
  Files = {}
  ReportedStates = {}
  MaxRegistrations = 2
  MaxClaims = 1
  MaxGeneration = 1
  MaxTime = 4
INVARIANTS
  FinalizedOnce
  MainFinalizesEmptyNetwork
  MainLeavesNoRuntimeFiles
  SummaryIsCredible
PROPERTIES
  ReaperIsPatient
  EmptyNetworkEnds
  SilentAgentIsRemoved
  OrphanBecomesReclaimable
CHECK_DEADLOCK FALSE
