CONSTANTS
  NumThreads = 2
  NumKeys = 2
  TasksPerThread = 2
  Jobs <- SortedJobs
SPECIFICATION Spec
CHECK_DEADLOCK FALSE
INVARIANTS
  MergeBarrier
