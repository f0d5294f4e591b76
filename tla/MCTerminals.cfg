\* Two terminals, three prompts, two crashes.
SPECIFICATION Spec
CONSTANTS
  Terminal = {1, 2}
  Prompts = 3
  MaxCrashes = 2
INVARIANTS
  OnlyLateClaimsSurvive
PROPERTIES
  SessionEndCompletes
  NetworkDies
CHECK_DEADLOCK FALSE
