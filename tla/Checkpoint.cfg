CONSTANTS
  Worker = {w1, w2, w3}
  Launchable = {w1}
  Nobody = Nobody
  Commands = {}
  ExitOnLast = TRUE
  UniqueNames = FALSE
  MaxGeneration = 1
  MaxCommand = 0
  MaxCrash = 1
  MaxRestart = 0
SPECIFICATION FairSpec
CHECK_DEADLOCK FALSE
INVARIANTS
  TypeOK
  BarriersHold
  ResumeHolds
PROPERTIES
  CheckpointEnds
