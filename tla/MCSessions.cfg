\* Three Cores one after the other, with one fault and one damaged file.
SPECIFICATION Spec
CONSTANTS
  Core = {1, 2, 3}
  Starters = 1
  MaxFaults = 1
  MaxDamages = 1
INVARIANTS
  MutualExclusion
  LastGoodKept
PROPERTIES
  StartersDoNoHarm
  NothingForgotten
  StaleFilesDoNotBlock
CHECK_DEADLOCK FALSE
