\* A wait edge outlives the conflict it came from.
SPECIFICATION Spec
CONSTANTS
  Agent = {a1, a2}
  File = {}
  Protected = {}
  AllowCoOwn = TRUE
  Proposals <- QueueAndOwn
  MaxConflicts = 2
INVARIANTS
  WaitEdgesMeanWaiting
