CONSTANTS
  Worker = {w1, w2, w3}
  Launchable = {w1}
  Nobody = Nobody
  Commands = {}
  ExitOnLast = FALSE
  UniqueNames = FALSE
  MaxGeneration = 1
  MaxCommand = 0
  MaxCrash = 0
  MaxRestart = 1
SPECIFICATION FairSpec
CHECK_DEADLOCK FALSE
INVARIANTS
  CoordinatorSurvives
  RestartWaitsForPeers
PROPERTIES
  RestartEnds
