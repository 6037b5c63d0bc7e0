CONSTANTS
  Worker = {w1, w2, w3}
  Launchable = {w1, w2}
  Nobody = Nobody
  Commands = {}
  ExitOnLast = FALSE
  UniqueNames = FALSE
  MaxGeneration = 2
  MaxCommand = 0
  MaxCrash = 0
  MaxRestart = 0
SPECIFICATION Spec
CHECK_DEADLOCK FALSE
INVARIANTS
  NoUnexpectedMessage
  ImageOfThisCheckpoint
PROPERTIES
  ScriptNamesEveryPeer
