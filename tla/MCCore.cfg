\* Two agents, two claims, a file, /clear and a conflict that is put to the user;
\* losses, and tombstones that expire at once.
SPECIFICATION CoreSpec
CONSTANTS
  MaxAgents = 2
  Timeout = 0
  OrphanTTL = 0
  Files <- OneFile
  ReportedStates <- SameState
  MaxRegistrations = 2
  MaxClaims = 2
  MaxGeneration = 2
  MaxTime = 2
  File = {}
  Protected = {}
  AllowCoOwn = TRUE
  Proposals <- NobodyProposes
  MaxConflicts = 1
  MaxDetours = 1
INVARIANTS
  EveryPairIsWeighed
PROPERTIES
  ImplementsNegotiation
CHECK_DEADLOCK FALSE
