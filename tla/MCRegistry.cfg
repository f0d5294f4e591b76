\* Three registrations under a cap of two, two claims and a clock of three
\* instants: proposals, releases, /clear, touches, reports and departures
\* against the reaper's reap, orphan and sweep steps.
SPECIFICATION Spec
CONSTANTS
  MaxAgents = 2
  Timeout = 0
  OrphanTTL = 1
  Files <- MCFiles
  ReportedStates <- MCReportedStates
  MaxRegistrations = 3
  MaxClaims = 2
  MaxGeneration = 2
  MaxTime = 2
INVARIANTS
  EveryAgentAccounted
  AgentCapHolds
  LostAgentsHoldNothing
  DiscoveryHoldsNoActiveClaim
PROPERTIES
  ClaimLifeCycle
  ClearIsTotal
  ImplementsLedger
