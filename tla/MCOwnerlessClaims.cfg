\* A connection closes and the claims of its agent stay live.
SPECIFICATION Spec
CONSTANTS
  MaxAgents = 1
  Timeout = 1
  OrphanTTL = 1
  Files = {}
  ReportedStates = {}
  MaxRegistrations = 1
  MaxClaims = 1
  MaxGeneration = 2
  MaxTime = 3
INVARIANTS
  LeaversHoldNothing
