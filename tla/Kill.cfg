CONSTANTS
  Worker = {w1, w2}
  Launchable = {w1}
  Nobody = Nobody
  Commands = {"k", "c", "b", "f", "q"}
  ExitOnLast = FALSE
  UniqueNames = TRUE
  MaxGeneration = 2
  MaxCommand = 1
  MaxCrash = 1
  MaxRestart = 1
SPECIFICATION FairSpec
CHECK_DEADLOCK FALSE
INVARIANTS
  ConsistentRestart
  ScriptImagesExist
PROPERTIES
  KillEnds
