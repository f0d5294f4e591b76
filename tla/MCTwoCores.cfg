\* Two Cores are started at the same moment.
SPECIFICATION BootSpec
CONSTANTS
  Core = {1, 2}
  Starters = 2
  MaxFaults = 0
INVARIANTS
  MutualExclusion
CHECK_DEADLOCK FALSE
