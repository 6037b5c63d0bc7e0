CONSTANTS
  Thread = {t1, t2}
  Main = t1
  Ckpt = Ckpt
  Nobody = Nobody
  Exits = TRUE
  MainReturns = FALSE
  Abandons = TRUE
  PipeFails = FALSE
  SlowSuspend = FALSE
  MaxCkpt = 2
  MaxRestart = 1
SPECIFICATION FairSpec
CHECK_DEADLOCK FALSE
INVARIANTS
  StoppedSafely
PROPERTIES
  CheckpointReturns
  RestoredTogether
