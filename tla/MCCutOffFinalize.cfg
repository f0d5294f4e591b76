\* The accept loop ends the process while the reaper is finalizing.
SPECIFICATION LSpec
CONSTANTS
  MaxAgents = 2
  Timeout = 1
  OrphanTTL = 1
  Files = {}
  ReportedStates = {}
  MaxRegistrations = 2
  MaxClaims = 0
  MaxGeneration = 1
  MaxTime = 4
INVARIANTS
  ExitMeansFinalized
CHECK_DEADLOCK FALSE
