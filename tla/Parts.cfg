CONSTANTS
  Parts = {"tree", "pids", "events", "signals", "timers", "launch", "loop"}
  Tasks = {1, 2, 3, 4}
  Launched = {1, 2}
  DeepSessions = FALSE
  GroupSize = 1
  MaxExits = 1
  Progs = {1, 2, 3}
  Numbers = 4
  MaxExecs = 1
  MaxFailures = 1
  MaxRestarts = 1
  NewCoordinators = TRUE
  LateExecs = FALSE
  Reuse = FALSE
  LateAsks = FALSE
  HandlerWaits = FALSE
  EventKinds = {"epoll", "eventfd", "signalfd", "poll"}
  Watched = {3, 4}
  MaxOpens = 3
  Sizes = {1}
  DeletesFirst = TRUE
  MaxCount = 3
  IntRange = 4
  EventSignals = {10, 12}
  MaxEventCkpt = 2
  SigThreads = {1}
  UserSignals = {"a", "b"}
  StopSignal = "stop"
  ToProcess = {"a"}
  Masks <- McMasks
  MaxFrames = 1
  WhileStopped = FALSE
  MaxSignals = 1
  MaxSigCkpt = 2
  TimerThreads = {1}
  RealTimers = {1, 2}
  RealClocks = {1, 2}
  Owners <- McOwners
  MaxTimers = 2
  MaxClocks = 1
  MaxNow = 2
  Settings <- McSettings
  TicksWhileStopped = FALSE
  MaxTimerCkpt = 1
  LaunchOptions <- McOptions
  UserPreloads <- McPreloads
  Copies = {TRUE}
  OwnPreloads <- McOwnPreloads
  ClearsEnv = FALSE
  Executed = {"program", "command", "static", "ssh"}
  Paths = {"plain", "setuid", "library"}
  SetuidFails = FALSE
  StaticForks = FALSE
  StaleErrno = FALSE
  MaxLaunches = 2
  MaxExecTries = 2
  MaxPids = 3
  Clients = {1, 2, 3}
  MaxFds = 3
  MaxSent <- McMaxSent
  Leaving = {2}
  PeerRoom = 2
  MaxPerPass = 1
  MaxBroadcasts = 2
SPECIFICATION Spec
CHECK_DEADLOCK FALSE
INVARIANTS
  ProcessesKept
  
  SignalsKept
  TimersTrue
  ControlKept
  OwnMessagesInOrder
PROPERTIES
  WaitNamesChild
