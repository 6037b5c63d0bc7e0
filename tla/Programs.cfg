CONSTANTS
  Parts = {"phoenix", "words", "means", "containers", "lock", "pool"}
  NumThreads = 4
  Programs <- SafePrograms
  MaxThreads = 4
  ExtendedTasks = 4
  DefaultTasks = 4
  ValsLen = 2
  UnsafeSizes = FALSE
  Texts <- McTexts
  Counters = {"seq", "pthread", "setenvs", "phoenix++"}
  CountThreads = 2
  Unit = 2
  SafeBorders = TRUE
  Remainders = FALSE
  Versions = {"seq", "pthread", "kmeans2", "kmeans++"}
  Clouds <- McClouds
  NumProcs = 2
  PointsPerTask = 3
  NoneEmpty = TRUE
  Kinds = {"hash", "common", "array", "fixed"}
  Mappers = 2
  Cells = 3
  TableSize = 2
  KeyHash <- McKeyHash
  Emissions <- McEmissions
  ChunksOf <- McChunks
  Lockers = {1, 2, 3}
  NoLocker = 0
SPECIFICATION McSpec
CHECK_DEADLOCK FALSE
INVARIANTS
  JobsCorrect
  AnswersRight
  EachKeyReducedOnce
  LockExclusive
  PoolBarrier
PROPERTIES
  JobsImplementPhases
  PoolImplementsPhases
  ProgramsEnd
