\* One topic at a time; the numbers are small enough for every input and log.
SPECIFICATION Spec
CONSTANTS
  File = {f1, f2}
  Protected = {f2}
  AllowCoOwn = TRUE
  Agent = {"a", "b", "c", "d"}
  MaxEdges = 4
  Path = {"p", "q", "r"}
  Worked = {"p", "q"}
  KnowledgeK = 5
  Intents = {"i", "j"}
  Domains = {"d"}
  Tokens = {"t"}
  Branches = {"x"}
  Window = 2
  Instants = {0, 1, 2}
  Often = 1000
  Agents = {1, 2}
  LogFiles = {1, 2}
  MaxLines = 3
  ConflictIds = {1, 2}
  LogClaims = {1}
  Heats = {1, 3, 4}
  MaxEvents = 4
  Senders = {"agent-1"}
  Rate = 2
  RateWindow = 3
  MaxSubmits = 6
INVARIANTS
  DecisionIsSymmetric
  DecisionIsJust
  CycleIffDeadlocked
  HotPairsShareAFile
  LearningOnlyWarms
  TouchesCountOnce
  EveryEndIsCounted
  RecapIsTrue
  AtMostTwiceTheRate
CHECK_DEADLOCK FALSE
