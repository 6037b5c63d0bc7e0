CONSTANTS
  Worker = {w1, w2}
  Launchable = {w1, w2}
  Nobody = Nobody
  Commands = {}
  ExitOnLast = FALSE
  UniqueNames = FALSE
  MaxGeneration = 1
  MaxCommand = 0
  MaxCrash = 0
  MaxRestart = 0
SPECIFICATION FairSpec
CHECK_DEADLOCK FALSE
PROPERTIES
  CheckpointEnds
