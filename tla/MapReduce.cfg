CONSTANTS
  NumThreads = 2
  NumKeys = 2
  TasksPerThread = 2
  Jobs <- MCJobs
SPECIFICATION FairSpec
CHECK_DEADLOCK FALSE
INVARIANTS
  PhaseBarrier
  ResultComplete
PROPERTIES
  SafePhases
  JobEnds
