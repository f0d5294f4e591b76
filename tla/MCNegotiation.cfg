\* Two agents who may queue or share, and releases in anybody's name; two
\* conflicts are opened and ended.
SPECIFICATION FairSpec
CONSTANTS
  Agent = {a1, a2}
  File = {}
  Protected = {}
  AllowCoOwn = TRUE
  Proposals <- QueueAndOwn
  MaxConflicts = 2
INVARIANTS
  TiesNeedClaims
  OpenConflictIsHot
  BothProposedDecided
  UserIsAsked
  EndIsLoggedOnce
PROPERTIES
  NegotiationEnds
