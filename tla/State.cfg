CONSTANTS
  Proc = {p1, p2}
  Addr = {1, 2}
  Message = {m1}
  Id = {1}
  NewIds = {1}
  VirtualId <- Inherited
  Removal = {"sem"}
  MaxOps = 2
  MaxSysVCkpt = 2
  AfterRestart = FALSE
  t1 = t1
  t2 = t2
  t3 = t3
  Task = {t1, t2, t3}
  Connection = {1, 2}
  Holders <- SharedEnd
  Room = 2
  MaxData <- OneEach
  Closes <- ClosedEnd
  Backlog = 1
  QueueLength = 1
  MaxSockCkpt = 1
  MaxSockRestart = 1
  Parts = {"objects", "sockets", "files", "image", "memory", "terminals"}
  Conns = {1, 2, 3}
  PathOf <- TwoNames
  Mode <- Modes
  Owned = {1, 2}
  CkptOpenFiles = {TRUE, FALSE}
  MaxSize = 1
  MaxFileCkpt = 1
  MaxFileRestart = 1
  Reuse = TRUE
  Images = 3
  Pieces = 3
  PipeRoom = 2
  Compressions = {TRUE, FALSE}
  Forked = FALSE
  Failures = {"disk", "pipe"}
  Procs = {1, 2}
  Layouts <- McLayouts
  LibLow = 2
  LibHigh = 4
  Top = 9
  Files = {"f", "g"}
  FileData <- McFileData
  Deleted = {"f"}
  Leavings <- McLeavings
  d1 = d1
  d2 = d2
  Term = {1, 2}
  Device = {d1, d2}
  MasterProc <- TwoMasters
  SlaveProc <- TwoSlaves
  LeaderOf <- OneSession
  FifoProcs = {1, 2}
  PacketTerms = {1}
  NoDevice = NoDevice
  MaxVirtual = 2
  FifoRoom = 1
  MaxPtyCkpt = 1
  MaxPtyRestart = 1
SPECIFICATION Spec
CHECK_DEADLOCK FALSE
INVARIANTS
  ObjectsRestored
  ConnectionsKept
  FilesKept
  ImageKept
PROPERTIES
  SocketsResume
