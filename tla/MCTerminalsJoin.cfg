\* Two terminals that stay open.
SPECIFICATION Spec
CONSTANTS
  Terminal = {1, 2}
  Prompts = 0
  MaxCrashes = 0
PROPERTY EveryTerminalJoins
CHECK_DEADLOCK FALSE
