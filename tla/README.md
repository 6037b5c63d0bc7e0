# A verification development of HadooPhoenix

HadooPhoenix puts together several systems that each answer one weakness of running map-reduce on one
large machine: **Phoenix++** (`src/sop1_parallelism/phoenix++`), a shared-memory map-reduce runtime
to which this repository adds the ingestion of its input in chunks; **DMTCP** with MTCP
(`src/sop2_fault-tolerance`), transparent checkpoint and restart of a distributed computation;
**Phoenix 2** (`src/sop3_portability`), the older C runtime; and scripts that measure storage and
draw graphs. This directory holds TLA+ models of the parts whose correctness rests on protocols and
interleavings, TLC configurations that check them on small instances, and TLAPS proofs.

`PROJECT.json` is the machine-readable index: components, runs, mutants, the source lines behind
every definition, findings, hazards and theorems.

## 1. Inventory

### The distributed checkpoint
**Coordinator** (`dmtcp/src/dmtcp_coordinator.cpp`, `lookup_service.cpp`). *State*: the list of client
sockets with the `WorkerState` of each, `workersRunningAndSuspendMsgSent`, `killInProgress`, `isRestarting`,
`numPeers`, `compId` and its generation, `blockUntilDone`(`Remote`), `_restartFilenames`, the name service, the map of
virtual pids. *Operations*: `onConnect`, `onData`, `onDisconnect`, `onTimeoutInterval`, `handleUserCommand`, each run
to its end by one thread in a `select` loop (`jalib/jsocket.cpp`). *Hard*: it learns what happened from messages that are
under way while it decides; its globals outlive the computation they describe; workers join and die between
any two barriers; its write queue is edited while it is walked. *Correct when*: barriers hold, a checkpoint ends, late
joiners take part, a kill empties the computation, the script is consistent, messages of one connection keep their order.

**Worker** (`dmtcpworker.cpp`, `coordinatorapi.cpp`, `mtcpinterface.cpp`, `execwrappers.cpp`). *State*: where the
checkpoint thread is, the computation and generation the process believes in, its peers, the image it was restored
from. *Operations*: launch, fork, exec, exit; the stages suspended - leader election - drained - checkpointed - name
service - queries - refilled - running. *Correct when*: it only ever sees the message it waits for, writes the image of the
checkpoint that is running, and runs no user code before its peers have finished.

**Restart** (`dmtcp_restart.cpp`, `uniquepid.cpp`, `ckptserializer.cpp`, `processinfo.cpp`). *State*: the images on
disk, the list in `dmtcp_restart_script.sh`, the tree of processes in them. *Correct when*: what is restored together
belongs to one checkpoint, every process comes back once with its parent, session and group, and everybody comes
back or nobody goes on.

### One process under checkpoint control
**Threads** (`mtcp/mtcp.c`, `threadsync.cpp`, `threadwrappers.cpp`): the checkpoint thread stops user threads with a signal,
outside the wrappers they may be in, while they create, join and end threads, load libraries or call `exit()`.
*Correct when*: all are stopped, none in a wrapper, nobody waits for whom he keeps waiting, all come back.

**Image** (`mtcp_writeckpt.c`, `mtcp_restart_nolibc.c`): areas of memory go through an optional `gzip` process into a temporary file
that is renamed; restored processes map and fill the files they share. *Correct when*: the named image is whole at every moment and
each page comes back.

**ipc plugin** (`plugin/ipc/**`): System V objects, sockets, files, event descriptors, timers. Descriptors and objects that
processes share are saved by one elected process; data under way is drained and refilled; after a restart
connections are made anew and handed to those that shared them. Pseudo-terminals are opened again under other names of the kernel, which the program never sees. *Correct when*: nothing is lost, repeated or left without
an owner, and nobody waits for ever.

**pid plugin** (`plugin/pid/**`): virtual pids in place of real ones, in a table that fork copies, exec carries, wait prunes and a
restart rebuilds. *Correct when*: no two processes have one pid and every table names the right ones.

**Wrappers and command line** (`signalwrappers.cpp`, `execwrappers.cpp`, `dmtcp_checkpoint.cpp`, `popen.cpp`): the checkpoint's signal
is kept out of the masks a program sets with the calls DMTCP wraps for it, not out of those of its handlers; the environment that carries the library and its settings is taken through `exec`, shells and
`ssh`. *Correct when*: the program sees its own masks, environment and pids, and every program of it is under control with its settings.

### The runtimes
**Phoenix++** (`src/thread_pool.cpp`, `src/task_queue.cpp`, `include/map_reduce.h`, `read_chunk.h`, `container.h`, `combiner.h`,
`synch.h`). *State*: the pool's semaphores and counts, a queue of tasks per thread, a table per worker, the
container the tables are added to, lists of results. *Hard*: the phases share one pool, whose threads report the end of a
phase with a count read after it was made; a reader thread fills the next chunk meanwhile; queues are stolen from; tables
grow. *Correct when*: phases do not overlap, every key is counted completely whatever the chunking and scheduling, the job ends.

**Phoenix 2** (`src/map_reduce.c`, `taskQ.c`, `tpool.c`, `mcs.c`, ...): the same in C, with keys kept in sorted arrays that are merged
in rounds, and several jobs on one pool. *Correct when*: as above, and nothing undefined in C happens on the way.

**Applications** (`word_count*`, `kmeans*`): share the text they cut into words, and the means they move. *Correct when*: all versions give
the answer of a direct count.

### Not modelled
- *ptrace plugin*: translates the kernel's ptrace states call by call; what it must preserve is the kernel's rules, which nothing in
  `src/` states. *Torque*: calls a batch system's library. *OpenMP sort*: one library call. *Scripts and graphs*: launch programs outside the
  repository. *The other example programs* have no state of their own between phases.
- *Per-call forwarding* (`syscallsreal.c`, most of `miscwrappers.cpp`, `pidwrappers.cpp`, `sysvipcwrappers.cpp`): a wrapper translates one id and calls
  through. What matters is the lock it holds (`CkptThreads`) and the id (`VirtualPids`, `SysV`).
- *ipc plugin*: POSIX message queues, raw sockets, inotify, the connections of ssh, terminals of BSD names; the data in terminals; `SEM_UNDO` and message sizes; a socket with
  more than one connection waiting to be accepted; data larger than the buffers while refilling; `mkstemp` and `tmpfile`.
- *MTCP*: register and TLS formats, the vdso, the program break, `mprotect` details below the areas' permissions.
- *Data of a TCP reset, the coordinator's own restart, commands through `dmtcpaware`, prefix directories, `--no-coordinator`.*
- *Phoenix*: NUMA groups and thread binding, memory placement, statistics, HDFS input, the locked enqueue nothing calls.

## 2. The modules

| module | models |
|---|---|
| `DmtcpState`, `DmtcpCoordinator`, `DmtcpWorker`, `Dmtcp` | the checkpoint protocol: state and messages; one action per callback and command; checkpoint and main threads, fork, crash, restart script; their composition, fairness and properties |
| `CkptThreads` | one process: user threads, checkpoint thread, wrapper locks, thread creation, exit, restoration of threads |
| `SysV` | System V segments, semaphores, queues and their election, drain, restoration |
| `Sockets` | stream sockets: election, drain, handshakes, reconnection, passing of descriptors, refill |
| `Files` | open files: sharing, copies, deleted files, offsets |
| `Terminals` | pseudo-terminals with their virtual names, controlling terminals, packet mode, `/dev/tty`, and FIFOs |
| `CkptFile` | the image's way to its name: temporary file, gzip, forked checkpoints, rename, crashes |
| `MemoryImage` | the areas written to an image and restored beside other processes that map the same files |
| `ProcessTree` | fork, sessions and groups, what images save of them, the order in which `dmtcp_restart` creates processes |
| `VirtualPids` | virtual pids at the coordinator and in each process, with exec, wait and restart |
| `Events`, `Signals`, `Timers` | epoll, eventfd, signalfd, poll; masks, handlers, pauses and pending signals; timers and CPU clocks |
| `Launch` | environment and settings from `dmtcp_checkpoint` through exec, fork, shells and ssh |
| `EventLoop` | `monitorSockets` with its lists of sockets and writes |
| `ThreadPool`, `Phases` | Phoenix++'s pool; what a pool promises: phases that open for some threads, which each run it once, and close when all have |
| `MapReduce` | a job of `MapReduce` or `MapReduceSort` on that pool |
| `Containers` | containers and combiners between map and reduce |
| `McsLock` | the MCS lock of both runtimes, one access to shared memory per step |
| `Phoenix2` | jobs of Phoenix 2: pool, task queues, key arrays, phases, merge rounds; its pool implements `Phases` too, for phases of safe sizes |
| `WordCount`, `KMeans` | the programs, in four versions each |
| `MCDmtcp`, `MCMapReduce`, `MCState`, `MCParts`, `MCPrograms` | what TLC runs |
| `DmtcpRounds` | the invariants of `Dmtcp` that its theorems need: rounds, names of images, messages that are due |
| `DmtcpProofs`, `DmtcpRoundProofs`, `DmtcpRestartProofs` | the theorems about `Dmtcp`: disk and types; barriers; restarts and messages |
| `EventLoopProofs`, `CkptProofs` | the theorems about `EventLoop`; about `CkptThreads` and `CkptFile` |
| `PidProofs`, `PartsProofs` | the theorems about `VirtualPids`; about `Signals`, `Events`, `Timers` and `Launch` |
| `RuntimeProofs` | the theorems about `ThreadPool`, `MapReduce` and `McsLock` |

`MCState`, `MCParts` and `MCPrograms` compose modules that share nothing: `part` says which of them a behaviour is about, the others
stay as they began, so that one run explores the union of their behaviours. Their properties are conjunctions of the
properties the modules name. `MCPrograms` composes the programs that a checkpoint would stop, `MCState` what an image holds and
`MCParts` what a process takes along.

Definitions called `...Mutant` are deliberate bugs no action uses; each stands next to the definition it
replaces, and shows that a property can tell the code from that mistake.

### One process: state and actions against the code
- `CkptThreads`. `at[t]` is a thread's place in its program and the wrappers, `hand[t]` its place in `stopthisthread` and the restoration,
  `tstate` and `threads` are `Thread.state` and the list. The wrapper-execution lock is the set of those inside a wrapper against the
  checkpoint thread that asks for it; `AcquireLocks` takes the locks of `ThreadSync::acquireLocks` in its order. `Visit`, `ScanEnds`, `Rescan` are the loop of
  `checkpointhread` with `needrescan`; `LockForZombies` and `ReapZombies` the loop after it. `Exit` goes through `CloseConnection`, `DestroyTryLock`,
  `KillCkpthread`, `DestroyLock`. `Adopted` is what the end of a thread does to the list and the tree of threads. A restart copies what the image holds and begins with `RestoreStep` of the first thread; each thread clones its children.
- `CkptFile`, `MemoryImage`. `Images` checkpoints of one process, written in `Pieces`; a death (`KillProgram`) may come between any two steps, but not in the middle
  of a `write`. A page of memory stands for the megabyte in which `mtcp_writeckpt.c` looks for zeros. Each system call of a restore is a step where other processes
  share its file (`OpenShared`, `CreateShared`, `LockShared`, `FillShared`, `GrowShared`, `MapShared`).
- `SysV`, `Sockets`, `Files`, `Events`, `Timers` go through the events a plugin gets: suspended, leader election, drain, checkpoint, register, query, refill, resume.
  The barriers between them are those of `Dmtcp`: a process begins a stage when all have ended the one before it. In `Sockets` an end is elected through `F_SETOWN`, a
  drainer reads until its peer's cookie, a restored process queries, connects, accepts and hands descriptors on. Programs run until the signal stops them and
  from the moment they are resumed, while others are not.
- `Terminals`. `ptyNameMap` is SharedData's table of names, first match first; a program knows the virtual one (`PtsName`). `OpenMaster`, `OpenSlave`, `OpenTty` and the closes are the program's; `DrainPtys` is
  `drain` with `ptmxTestPacketMode`; after `CrashPtys` a process opens its masters (`ReopenMaster`, `preRefill`) and, when all have, its slaves (`ReopenSlave`) under the devices the table has now.
- `ProcessTree` has one action for each call that changes the tree, one for the checkpoint (`CheckpointAndRestart` saves `pInfo` and kills all), and then
  `CreateProcess`, which walks `dmtcp_restart`'s loops over dependent processes, and `RestoreProcessGroupInfo`. The first process is `dmtcp_restart` itself (`made[].start`): its `setsid()` is refused when a
  shell has made it the leader of a group, with a warning, and then its session stays the shell's; `SessionsMade` says which processes a session is restored for.
- `VirtualPids` splits fork into asking for a pid, the real fork, and the parent's `UpdateMapping`, and a connection's end from its being read by the coordinator
  (`OnPidDisconnect`), since exec overlaps with it. The coordinator gives numbers at any time, also between restored processes' connections (`AskVirtualPid`), and refuses programs until all are back (`RefuseProgram`).
  A restart keeps the coordinator with its `_nextVirtualPid`, or has a new one that counts from the start (`NewCoordinators`, `renumbered`).
- `Signals`. `mask` is a thread's mask in the kernel, `asked` what it asked for, `frames` its handlers and pauses that have not returned, with the masks to return to. `SetAction`, `SigPause` and `SigPauseWithout` hand their
  masks to the kernel as the code does, unpatched; the checkpoint signal waits while one of these covers it.
- `Launch` follows one line of processes. An environment is the set of variables that are set, with values where it matters (`LD_PRELOAD`, the
  virtual pid, the table file). `Exec` and `ExecFails` are the whole of the wrapper, with what a failed exec leaves behind.
- `EventLoop` has one step per element a pass of `monitorSockets` looks at; `HandlerQueues` is what a callback may broadcast.

### DMTCP: state and actions against the code
- `cstate[w]` is `NamedChunkReader::state`; `pc[w]` is where a checkpoint thread is. A *waiting point*
  is one call of `waitForCoordinatorMsg`, a *working point* the `processEvent` calls that follow it.
- `toCoord[w]` and `toWorker[w]` are the two directions of one TCP connection. Messages of one
  connection keep their order, those of different connections do not; `EventLoopProofs` proves that the write queue justifies the first for a
  coordinator that queues one broadcast per pass of its loop. `backlog` are connections the coordinator has not accepted.
- `OnConnect` is the whole of `onConnect`: reading the hello, refusing during a kill, `initializeComputation`
  when no client is left, the validation of a restarting (`ConnectRestarting`) or new (`ConnectNew`)
  worker. `OnOk`, `OnCkptFilename`, `OnRegister`, `OnQuery` are the cases of `onData`; `UpdateMinimumState`
  with its broadcasts, the end of a checkpoint, the script and blocked commands is part of each action
  that calls it. `OnTimeoutInterval` may fire whenever a checkpoint may start, so the interval's value does
  not matter. `Command*` are the commands of `handleUserCommand` that change the state.
- `fork` is two steps: `BeginFork` opens the child's connection and says hello in the parent, and
  `FinishFork` creates the child; a process is not suspended in between (`Forking`), which is what the
  wrapper-execution lock is for (`CkptThreads`).
- `Launch` leaves the worker to a race the code has: its main thread reports RUNNING
  (`InformCoordinatorOfRUNNINGState`) while its checkpoint thread may receive DO_SUSPEND first.
- `WriteImage` is one step: MTCP writes to a temporary file and renames it (`CkptFile`).

Abstractions. A worker is one `UniquePid`; after its death only a restart brings it back, and only when
the coordinator's end of its old connection is read or readable (`Gone`). `exec` is an exit and a
launch. `dmtcp_restart` opens the connection and the restored process says hello on it
(`DmtcpWorker::postRestart`); nothing in the code sends DMT_RESTART_PROCESS. A restored process registers at
most one key and asks for at most one. The script is run when no process is alive, as its users do.

### The runtimes: state and actions against the code
- The owner's `set`, `begin` (one post per step) and `wait`, the destructor (`Destroy`, `Kill`, `Join`), and the
  threads' `Wake`, `Finish`, `Compare`, `Leave`, `Exit`. `fetch_and_inc` and the comparison with
  `num_workers` are two steps, as they are in the code: `mine` is the local variable between them. After
  the destructor has freed the pool, what a thread compares with is any value.
- The pool is used twice. `MapReduce` composes its operations with a job. `PoolSpec` composes them with a client that
  may ask for any sequence of phases whose size is safe: `SafeSize(n)` says that no thread which has
  counted itself and has still to compare its count would find it equal to `n`. The code does not check
  this; `SafePhases` says that jobs of `MapReduce` satisfy it (a reduce phase has at least as many workers as the map
  phases before it, and the map phases of a job have one size), and finding 2 that `MapReduceSort` does not.
- `MapReduce` adds the master (`Start` ... `Delete`), the reader thread (`Read`), and for each worker
  `Dequeue` (one probe of one queue, under that queue's lock), `Perform` (one task) and `Return`. `run` is
  `run_ingest_chunks` with a single chunk. `PhaseBarrier` is about phases the master waits for;
  `stage` is `thread_function`. A line is one key and a length in bytes; a key is its own hash. There are as many processors as
  threads, without NUMA: `loc_mem_to_lgrp` is -1, and a thread's own queue is that of its number. The tasks per thread (16 in the code) are a constant.
- `Phoenix2` has the pool of `tpool.c` (`Tpool...`), with the master as worker 0, and a job's arrays of keys: `Insert`, `InsertMerged` with their doubling,
  `Reduce` over the arrays of all threads with the iterator, `Merge` of two slices. `SafeSizeOf(n)` is `PoolSpec`'s `SafeSize` for this pool: unless
  `UnsafeSizes`, a phase begins when no thread that has still to compare holds the phase's size. `RunsDefined` says that a run reads and writes inside its arrays and passes its assertions.
- `Containers` emits into each thread's own table, adds the tables and reduces; growth, the iterators' strides and the shared cells of the common
  array are those of the code. `McsLock` has a step for each load, store, swap and compare-and-swap.
- `WordCount`: a word is the place where it begins, and ends where the program wrote a null byte; the text is shared. `KMeans`: a
  round of assignments and one of means, with tasks as the versions cut them.

## 3. What the runs check

| run | instance | states | shows |
|---|---|---|---|
| `checkpoint` | 3 workers, 1 checkpoint, 1 crash | 23 500 | `BarriersHold`: nobody leaves a barrier before all have reached it; `ResumeHolds`: no user code beside a process that is refilling; `CheckpointEnds`; `TypeOK` |
| `joiners` | 3 workers, 2 of them launched, 2 checkpoints | 114 462 | `NoUnexpectedMessage`, `ImageOfThisCheckpoint`, `ScriptNamesEveryPeer` while processes join |
| `restart` | 3 workers, 1 checkpoint, 1 restart | 14 478 | `CoordinatorSurvives`, `RestartWaitsForPeers`, `RestartEnds` |
| `kill` | 2 workers, all commands, 2 checkpoints, 1 crash, 1 restart, one file name per generation | 160 004 | `ConsistentRestart`, `ScriptImagesExist`, `KillEnds` |
| `map_reduce` | 2 threads, 2 keys, 7 jobs | 39 484 | `PhaseBarrier`, `ResultComplete`, `JobEnds`; `SafePhases`: unsorted jobs use the pool as `PoolSpec` does |
| `process` | 2 user threads, 2 checkpoints, 1 restart | 31 148 | `StoppedSafely`: at a checkpoint every thread is stopped, none in a wrapper, no assertion fails; `CheckpointReturns`: no deadlock of the locks; `RestoredTogether` |
| `process_state` | 2 or 3 processes, 1 or 2 checkpoints, 1 restart, 3 images, 2 terminals | 275 594 | `ObjectsRestored`, `ConnectionsKept`, `FilesKept` (with terminals, the FIFO and memory), `ImageKept`; `SocketsResume`: drain, reconnection and refill end |
| `process_parts` | 4 tasks of a tree, 3 processes with pids, 2 checkpoints of each kind of descriptor, 3 clients | 1 050 779 | `ProcessesKept`, `EventsTrue`, `SignalsKept`, `TimersTrue`, `ControlKept`, `OwnMessagesInOrder`; `WaitNamesChild`: what wait returns is the child's virtual pid |
| `programs` | 7 programs of Phoenix 2 on 4 threads, all texts of 4 characters, 3 points and 2 means, 6 emissions of 2 threads, 3 threads at a lock, a pool of 4 | 509 796 | `JobsCorrect`, `AnswersRight`, `EachKeyReducedOnce`, `LockExclusive`, `PoolBarrier`; `JobsImplementPhases` and `PoolImplementsPhases`: both pools implement `Phases` for phases of safe sizes; `ProgramsEnd` |
| `late_joiner_hang` | 2 launched workers, 1 checkpoint | | `CheckpointEnds` fails: finding 1 |
| `merge_barrier` | 2 threads, a sorted job | | `MergeBarrier` fails: finding 2 |
| `poll_interrupted` | a poll at any time | | `PollRestarted` fails: finding 3 |

Deadlock is not checked: a computation or a job may end, and a user may do nothing more.

**Bounds.** `MaxGeneration` bounds the checkpoints of one computation, `MaxCommand`, `MaxCrash` and
`MaxRestart` what users and the environment do; they are guards of those actions only. Three workers
are a process, a child and a third that joins or dies while the other two are on both sides of a barrier. Two
checkpoints are enough for anything left over from the first to meet the second. With one crash a
barrier can lose a member at any point. In `checkpoint` no second process is launched, and in
`restart` nothing crashes: with those, finding 1 and the early death listed below are what TLC reports. `kill` has two workers, since all
commands multiply its states. Two threads already have an own queue and another's, a first and a last to
finish, and a smaller next phase; the jobs have chunks that are empty, of one and of several lines,
and line breaks at and after a nominal chunk end. `process` has two user threads of which one makes the other and joins it: creation, end and exit() of one against a wrapper
of the other and the scan of the checkpoint thread. `SysV` has two processes, each with one object of a kind, and two addresses, so that a segment is attached twice. `Sockets` has three processes,
two of which share an end, and two connections, one of which is closed at one side; one item of data is on its way in each direction. `Files` has two connections to one file and one that only
writes another user's. `Terminals` has two processes that each open a terminal whose slave the other opens, two devices that come back in either order, and one FIFO both have open. `CkptFile`'s three images let a good one, a failed one and a third meet; `MemoryImage`'s two layouts have areas around libmtcp's pages, zeros in and out of ranges, private, shared, read-only
and unreadable areas. `ProcessTree` needs four tasks for a parent, a child, an orphan and a session of its own. `Containers`' keys collide and one makes the table grow. `PoolSpec` has four threads, and its theorems any number; `Phoenix2`
has four, so that a reduce phase of three pool threads comes before a merge of one.
A signal or an expiry that comes while a process is stopped, an exec after a restart under a new coordinator and the other conditions that constants named `bound:` or `whether` exclude are those under which the code breaks
the property; they are in the list below.

**Fairness.** `Dmtcp`: weak fairness of the coordinator for each connection (its event loop reads every ready
socket and accepts every connection), of each worker's checkpoint and main thread, and of the
processes a started script restores. No fairness for the user, forks, exits, crashes or
the timer. `MapReduce`: weak fairness of the master, the reader and each thread, which is what the
operating system's scheduler gives threads that can run; a lock is held for one probe only, so it
cannot be taken from a worker for ever. `CkptThreads`: weak fairness of threads that can go on, wrappers return; strong fairness for those that queue for a mutex or a rwlock
(the kernel wakes them when it is released). `Sockets`: some process that is in a checkpoint, or is to be halted for one, takes a step; programs need not. `MCPrograms`: some step of
a Phoenix 2 program and of kmeans is always taken, so these end under every scheduler, and each thread at the lock goes on.

### Findings
1. *A launched process can hang a checkpoint* (`dmtcp_coordinator.cpp:1151`). A process that
   connects while others are being suspended is sent DO_SUSPEND at once and is recorded as UNKNOWN. If its
   checkpoint thread suspends it before its main thread has reported RUNNING, the coordinator sees
   UNKNOWN to SUSPENDED, for which it broadcasts nothing. The locks that were to prevent this are commented out.
2. *The merge of `MapReduceSort` may overlap with the deletion of its input* (`thread_pool.cpp:152`): a
   thread compares its place in one phase with the size of the next, smaller one. Phoenix 2's pool does the same (`tpool.c:264`): with four processors a reduce phase of three pool threads is followed by a merge with one, and
   a thread that counted itself first in the former can end the latter. `Phoenix2.UnsafeSizes` shows it (section 3, other instances).
3. *A checkpoint can make poll fail with EINTR* (`dmtcpworker.cpp:553`). The wrapper compares the generation before and
   after the call, but DO_SUSPEND raises it before the threads are stopped: a poll that begins in between sees no difference.

### What other instances show
Each line names a constant (or a property) of a module and what its change shows of the code; the runs above keep it at the value where the property holds.

*DMTCP, distributed.*
- `Dmtcp.KeyAssertion`, `lookup_service.cpp:72`: a restored process that dies before it registers its key takes the coordinator along.
- `Dmtcp.BlockedOnCheckpoint`, `dmtcp_coordinator.cpp:978`: a refused blocking checkpoint blocks until some later one ends.
- `Dmtcp.ConsistentRestart` with one file name for all generations, `uniquepid.cpp:194`: a crash during a second checkpoint leaves a mixture of images.
- `RestartEnds` asks that the coordinator has read the end of the old processes before the script runs; otherwise a restored process is rejected and the
  others wait for it for ever (`dmtcp_coordinator.cpp:1072`).
- `Dmtcp.BarriersHold` with a restart and a crash: a process that died before the restart and is still listed as CHECKPOINTED counts for the barriers, and a restored process goes on before its peers.
  `Dmtcp.CoordinatorSurvives` and `RestartWaitsForPeers` fail with crashes as well: the first through `lookup_service.cpp:72`, the second as above.
- `EventLoop.MaxPerPass = 2`, or `PeerRoom` smaller than `MaxBroadcasts`, `jsocket.cpp:642`: with three broadcasts queued in a pass, or two left for a connection that was full, messages to one client
  may leave in another order. These are the assumptions of `MessagesInOrder`.
- `VirtualPids`. With one coordinator nothing is excluded. `NewCoordinators` with `LateAsks`, `dmtcp_coordinator.cpp:895`: a new coordinator counts from the start and answers while the restored processes are connecting, so a launch gets
  the number of one that is not back yet. With `LateExecs`, `:833`: an exec's new connection and the end of the old one are read in either order, and in one of them the pid is forgotten while it is used. With `Reuse`: a number is given that
  a table still has. `HandlerWaits`: a handler that waits inside fork (`pidwrappers.cpp`) answers with a real pid.
- `ProcessTree.DeepSessions`, `dmtcp_restart.cpp:174`: a process whose session another process leads is made twice. `GroupSize = 2`, `processinfo.cpp:119`: members of a group restore it
  before its leader has its own; `RestoreTarget::restoreGroup` is never called. `Targets` in place of `SessionsMade`, `dmtcp_restart.cpp:167`: when `dmtcp_restart` leads a group, its `setsid()` fails and the first process is not in the session it had.

*One process.*
- `CkptThreads.PipeFails`, `popen.cpp:78`: a failed pipe leaves the wrapper lock taken. `SlowSuspend`: a thread that is slow in its pre-suspend callback
  is overtaken by the image. `MainReturns`: the first thread's `pthread_exit` has the checkpoint thread wait for it.
- `CkptThreads.RestoredTogether` with four threads and `Abandons`, `mtcp.c:1220`: thread A makes B and ends; a third thread's `mtcp_remove_duplicate_thread_descriptors` removes A's descriptor before B's `setupthread`
  links B to its parent. B is put on the list of a freed descriptor (the code that gives a dead thread's children to its parent, `mtcp.c:1400`, has run already), no thread clones it at a restart, and the others
  wait for `preResumeCount` for ever. Two threads, as in `process`, are too few for it.
- `CkptFile` with `"gzip"` in `Failures`, `mtcp_writeckpt.c:317`: gzip's status is ignored and half an image is renamed over the good one; `Forked`: a second checkpoint overlaps the
  first; `"fork"`: the SIGCHLD handler is lost.
- `SysV.AfterRestart` and `SysV.MessagesKept`: messages read out by a checkpoint are not sent again when the program goes on after it (`sysvipc.cpp:272`), and real ids of a second restart
  can be confused with those of the first. `"msq"` in `Removal`: a queue removed by one process ends the others at their next checkpoint.
- `Files` with the third connection `Owned`, so that a user's file is open for writing only, and `--checkpoint-open-files` (`fileconnection.cpp:588`): the copy of a file opened for writing cannot be read, and the restart aborts. `Reuse` with two
  connections that both write: a name created again while its deleted file is open is mixed up with it.
- `Terminals`. A device the kernel gives again finds the older entry of the table first (`createVirtualPtyName`, "FIXME: We should be removing ptys once they are gone"), and the restart aborts. Packet mode is
  restored by an `ioctl` on `_fds[0]` before `dupFds`, so it is not. `preRefill`'s comment says O_NOCTTY is passed and the code has it commented out, as `ptmxTestPacketMode` leaves it out: a session can get another
  controlling terminal. `TerminalsKept` claims neither of the last two.
- `Sockets.LastDataKept`: the last data of a peer that has closed is lost (`kernelbufferdrainer.cpp:70`).
- `Events` with `0` in `Sizes` (`epoll_create1(0)`): the restart calls `epoll_create(0)` and aborts. `DeletesFirst = FALSE`: closed descriptors stay in `_fdToEvent`. `MaxCount > IntRange`: a
  counter is written back truncated. `EventsTrue` itself says that one signal is lost: the one `drain` reads
  from a signalfd, the lowest, is kept in a local variable (`eventconnection.cpp:210`), and only polls begun before the order to suspend are restarted (finding 3).
- `Signals` with two threads: a signal of the process pending for all is raised again once for each. `WhileStopped`: signals that come then are lost. `MasksPatched` says which masks may cover the checkpoint signal: those of handlers (`signalwrappers.cpp:124`) and of `sigpause`
  (`:250`) while they last, so a checkpoint waits for them; a `sigwaitinfo` for a set with the checkpoint signal in it goes round for as long as that signal is pending and blocked. `MaxFrames = 2` (a handler in a handler), with one checkpoint, was checked too.
- `Timers.TicksWhileStopped`: an expiry is lost. Two `TimerThreads` (`timerlist.cpp:204`): an id the kernel gives again is still in the table. Clocks of threads
  (`timerlist.cpp:261`) are looked up by ids of before the restart. Absolute periodic timers lose their period's phase.
- `Launch`: `Copies = {FALSE}` loses the chosen checkpoint signal (`constants.h:124`); `ClearsEnv`: `std::string(NULL)` (`execwrappers.cpp:316`); `SetuidFails`: an interior pointer is freed (`util_exec.cpp:341`);
  `StaticForks`: children of a statically linked program share its table file and pid; `StaleErrno`: `determineMtcpSignal` (`dmtcpworker.cpp:96`) does not clear `errno` as MTCP does; `<<>>` in `OwnPreloads`:
  an environment without LD_PRELOAD inherits the caller's; `"login"` in `Executed`: ssh without a command fails an assertion; `"ptrace"` in `LaunchOptions`: the option is lost over ssh.

*The runtimes.*
- `MapReduce` with an empty first file (`map_reduce.h:307`): the first chunk decides how many map tasks every later chunk has, so none.
- `Containers.ChunksOf` two for array and fixed (`container.h:467`): a thread's second chunk overwrites its first.
- `Phoenix2.UnsafeSizes` (`tpool.c:264`): phases of four threads begin at any size, and `JobsImplementPhases` and `JobsCorrect` fail: `tpool_wait` returns while a merge is under way, and the next round reads what it has not written.
- `Phoenix2` with `UnevenPrograms` (`map_reduce.c:1264`): with more map than reduce threads, reduce tasks beyond the division are lost.
- `WordCount` with `"phoenix2"` in `Counters` (`word_count.c:190`): the last word of a text is not counted, the code that adds it is commented out. `SafeBorders = FALSE`
  (`word_count.cpp:124`): a piece's end and the next piece's capital overwrite each other. `Remainders`
  (`word_count-pthread.c:144`) with texts of an odd length: the bytes left over are not counted.
- `KMeans.NoneEmpty = FALSE`: a mean without points frees what `malloc` did not return (`kmeans.c`), and with `McSpace` whole-number means can move in a circle for ever (`kmeans-seq.c:226`).

## 4. What is proved

Thirty-three theorems in eight modules, each for every value of the constants that the named assumptions of the modules allow, and under the further assumptions its statement
has. Each rests on an inductive invariant; those were checked with TLC on small instances before they were proved.

### The distributed checkpoint
From the assumptions of `DmtcpState`: finitely many workers, the launchable ones among them, `Nobody` not one of them, flags Boolean, bounds natural. Crashes, kills, late joiners, forks, repeated
checkpoints and restarts are all there unless a theorem excludes them.

*`DmtcpProofs`.* `TypeCorrect`: states, messages, images and script have the form `dmtcpmessagetypes.h` gives them. `ScriptCorrect`: the restart script, and the list the next one is made from, name only images that
have been written. That a name in `restartFilenames` is on disk depends on the message it came in, so on every CKPT_FILENAME under way (`FilesSent`). A restored process reads its image again, and a script run reads
the script again (`FilesOnDisk`). And a connection that has not been accepted may be treated as one that says hello (`HelloFirst`), without which `OnConnect` would be typed by luck. `DiskInv` is the conjunction.

*`DmtcpRoundProofs`.* What the coordinator knows of a process is a prefix of what it did, so no barrier is inductive by itself. `RoundInv` cuts a checkpoint into rounds: round `j` begins with the
`j`-th broadcast. In round `j` each client's reported state and its reports under way are a run of level `j` followed by a run of the next (`ReportsInRound`); the process is where the last of them says, and waits
there for as long as the order is under way (`PlaceInRound`); who is to suspend is asked once, for this checkpoint (`SuspendInRound`). After a restart the processes may be in different rounds, because the
coordinator may still list dead ones: then `Back` holds instead, which only says that nobody is before barrier 3 or beyond 7. `Connected` and `RestoredHello` say what a connection may hold that has not been accepted
or was refused.
- `BarriersCorrect`: before the first restart nobody leaves any of the first six barriers until all participants have reached it.
- `ResumeCorrect`: no process runs user code after a checkpoint while a participant is between suspension and refill. It holds after restarts too.
- `ImageCorrect`: an image is written under the identity and generation of the checkpoint the coordinator runs.
- `ImagesAfterDraining`: also after restarts, nobody passes one of the first three barriers, so writes an image, before all have reached it.

*`DmtcpRestartProofs`.*
- `RestartCorrect`, for unique file names: processes that are restored together come from one checkpoint. `NameInv` needs that a CKPT_FILENAME is directly followed by the report CHECKPOINTED (`NameThenReport`), so that no
  name of a checkpoint is still under way when its round ends; and `NamesOfCheckpoint`, which rests on `RoundInv`. Without unique names it is false (section 3).
- `MessagesExpected`: nobody reads a message other than the one it waits for, provided that no user forces a restart, and until the first restart. `MessageInv` says what may be under way to whom: the answer to a hello
  is first and finds its reader waiting for it, and no answer to a query is under way as nobody has asked. After a restart a broadcast may reach who waits for the answer to a query; the hazard stays listed.
- `CoordinatorCorrect`, until the first restart and if one program is launched and all others are forked in it: no assertion of the coordinator fails, whoever joins, ends, crashes or is killed meanwhile. With two programs
  launched, finding 1 can leave all clients SUSPENDED before any election, and the assertion fails when another connects. `FirstInv`: the launched process's hello is answered before anybody else exists; `RequestInv`: from the
  order to suspend to the election, some client is recorded as RUNNING and none as UNKNOWN, so that no newcomer finds them all suspended; `SaidInv`: nobody asks for a name, which only restored processes do, nor reports a state `onData` does not know.
- `ScriptComplete`, if no process crashes, is killed or is restored, whoever is launched, forks, joins and ends meanwhile: a restart script names exactly the processes that each image in it takes for its peers. A process that crashes between
  election and image is a peer without an image. `EndsRunning`: a process ends only when the last state it reported is that it runs; `PeersAreClients`: the peers announced, known to a worker or written in an image are
  the clients; `ClientsNamed`: the names recorded or under way are of images of clients, and who reported CHECKPOINTED has been named.

*`EventLoopProofs`.*
- `OwnMessagesCorrect`, with no assumption: a connection gets only messages queued for it. A write holds a descriptor, not a client, and `accept` may give that descriptor to another. `LoopInv` says that each write that is
  not to be dropped has the present owner of its descriptor as addressee (`WriteInv`), that nothing to be dropped is left before `index` and so nothing at `select`, where `closedFds` is emptied; and that owners and
  sockets have descriptors of their own (`DescriptorInv`). `RemovedFrom` is what "swap with last" does to a list.
- `MessagesInOrder`, with one broadcast in a pass at most and room for all in a connection: the order of broadcasts is kept. `OrderInv`: the writes to be made are those of the last broadcast, one for each client
  (`PendingInv`), and a pass makes all of them (`PassInv`). Both assumptions are needed (section 3).

### One process
*`CkptProofs`*, for every finite set of threads, and `SlowSuspend = FALSE` (a thread's callback before suspension ends before the image is begun; otherwise the code breaks it).
- `CkptTypeCorrect`; `StopsSafely`: when the checkpoint thread writes the image all threads in its list are stopped, none inside a wrapper or holding a lock, and no assertion of MTCP fails.
- `RestoresTogether`: no restored thread goes on before all threads of the image have been made. This one also assumes `Abandons = FALSE` (a thread that another made begins before its maker ends); section 3 has what
  the code does otherwise.

`SafeInv` has a conjunct per mechanism: what each place of the checkpoint thread implies for every thread (`StageInv`), who holds the wrapper lock and the mutexes (`LockInv`), that the count of uninitialized threads is
that of threads being made or cloned (`UninitializedInv`) and `preResumeCount` that of halted ones (`HaltedInv`), that `restoreInProgress` counts the recreated (`RestoreInv`), what the image holds (`ImageInv`). For
restoration the list must be a tree (`TreeInv`) through creation, adoption by a grandparent and removal: `AdoptedTree` and `LinkedTree`; `AllRestored` concludes that cloning children from the root reaches everybody. The
types show that the state SIGDISABLED of `mtcp.c` is never reached under DMTCP.

The module also has the image's way to its name (`CkptFile`), for any number of checkpoints, pieces of an image and room in the pipe, whichever file cannot be opened, pipe or write fails, and whenever the program is killed.
- `ImageIsWhole`: the file under the image's name is a whole image of the latest checkpoint that ended. It assumes `~Forked` (otherwise a second checkpoint writes the first one's temporary file) and that gzip, whose
  status the code ignores, does not fail.
- `ImageIsKept`: a program that runs moreover has its own SIGCHLD handler, if the fork of gzip does not fail.

`WritingInv` says that only the latest checkpoint can be under way, and that nothing but its gzip outlives the program; `NamesInv`, that temporary file and image are two files, for as long as anybody writes, so that none
writes to the image; `ContentInv`, that the file followed by what is in the pipe are the first pieces of the image in their order, and that gzip has ended, with an empty pipe, before the rename. `SigchldInv`: while a
checkpoint is under way the handler is away exactly if its gzip was begun.

### What follows a process
*`PidProofs`*, for every finite set of processes and more numbers than processes, with no wait in a signal handler that comes during fork (`~HandlerWaits`), and `Bounded`: nothing if there is one
coordinator; if a restart may have a new one, no exec after it, no number given while a table still has it, and no number asked for before all restored processes are back. Section 3 has what the code does otherwise.
- `PidTypeCorrect`; `VirtualPidsDiffer`: a virtual pid is given to one process of a computation, those that have ended included. One coordinator forgets numbers from its map and answers at any time; it counts on, which is enough.
- `TablesNameTruly`: an entry of a table names one process by both its pids, and each process has its own.
- `WaitsNameTheChild`: `wait4` answers with the number of the child that the kernel took.

`Names` says of a table, the file of maps included, that each entry is of a process that has been and has these two pids. A process's own table must moreover be complete as to its children and to those restored with it (`KnowsInv`), or the
answer of `wait4` would be the real pid. Numbers differ because one coordinator counts them (`CountInv`: as many are given as processes exist) and a new one looks for a number that no connection holds (`RegisteredInv`); real pids differ as
the kernel counts them (`RealInv`), and starts anew only when no table is in use. `MergedNames` carries the file of maps
into the tables (`readPidMapsFromFile`).

*`PartsProofs`*. In each part a condition says what the wrappers rely on programs to do; each conjunct is there because the code breaks the property without it (section 3), and the constants of run `process_parts` satisfy all of them.
- `MasksArePatched`, with no condition: a thread has the mask it asked for but for the checkpoint signal, and is told so; only the masks of handlers and of `sigpause`, while they last, cover that signal. `HeldInv` says it of every mask that a frame will return to.
- `SignalsAreKept`, if nothing raises signals while threads are stopped, and signals that any thread may take come to a process with one thread, one of a kind (`OneRaises`): each is delivered once. Several threads each save what is pending
  for the process, and of two of one kind one is saved. `CountedInv`: what was sent is handled or pending in exactly one place; `RestartCounts` is the restoration of it by each thread, `OneMore` the arithmetic of a set of pending
  threads.
- `EventsAreTrue` (`WithinReach`: members are deleted before they are closed, sizes are positive, counters fit `unsigned int`; signals and polls come at any time): the set and the counter are as they were, of the signals pending for a `signalfd` the lowest is lost at a checkpoint and no other, and a poll begun before the order to suspend is restarted. `EpollInv`: the kernel's set is what
  `fdToEvent` recorded; `CkptInv`: at each stage where the counter is, in the kernel or in `_initval`; `PollInv`: a poll found waiting by the checkpoint signal has read an older generation than it will compare with.
- `TimersAreTrue` (`WithinTables`: one thread makes and deletes timers, none ticks between stop and image, absolute timers expire once, clocks of processes). `TimerTableInv`: table and kernel agree except for the
  timer being made or deleted; `DueInv`: time left and time of setting of an absolute timer add up to now, so that setting it again after a restart loses nothing; `StoppedInv`: what the image records is what the stop left; `ClockInv` for the two clock tables.
- `ControlIsKept` (`WithinControl`: programs keep DMTCP's variables in the environments they make, with a `LD_PRELOAD` of their own and without DMTCP's libraries in it; copied setuid programs can be executed; no `login`; no `ptrace` through ssh).
  `CarriedInv`: what was asked for is in the environment from launch on; `HiddenInv`: `LD_PRELOAD` is the hijack libraries and the program's own while a program is executed, and its own again when it runs or the exec failed; `IdentityInv`: a table file that is named
  exists and is the process's. Lemmas on sequences (`PrefixOff`, `NoPrefix`) say that `restoreUserLDPRELOAD` takes off just what was put before.

### The runtimes
All in *`RuntimeProofs`*. The pool, for every number of threads from one on:
- `PoolTypeCorrect`; in particular `begin()` and the destructor stay within the pool's threads.
- `PoolBarrierHolds`: when `wait()` has returned nobody runs the function or is to be woken for it.
- `PoolRefinesPhases`: with `open` as "begin() has started and wait() not returned" and `todo` as the threads `begin()` chooses less those that have counted themselves, `Begin` opens, `Finish` is `Done`, `Wait` closes,
  and every other step stutters.

`wait()` returns because one thread found its number equal to `num_workers`, maybe in a phase later than the one it counted itself in. `PoolInv` says why that thread is right. `ThreadInv`: busy threads are among those woken
in this phase. `PlaceInv`: `num_workers_done` is the number of threads through with the phase, the local counts of those that have still to compare are distinct and at most that, and threads *late* from an earlier phase
hold a number other than `num_workers`. `AnnouncedInv`: the owner's semaphore is raised once, when all are through. That no thread is woken twice rests on `begin()`'s arithmetic: `SpreadIncreases` (`i * T / n` increases
strictly in `i` as `n <= T`) and `SpreadInRange`. The client of `PoolSpec` may ask for any sequence of safe sizes.

That the jobs of `MapReduce` are such clients, for every number of threads, set of jobs and keys:
- `PhaseBarrierHolds`: nobody is inside a task when the job goes on to its next phase, until the merge of a sorted job overlaps with what follows (finding 2).
- `SafePhasesHold`: every step of an unsorted job is one of `PoolSpec` or leaves the pool alone.
- `JobsKeepPhases`: a set of unsorted jobs implements `Phases`.

`MapReduceInv` is `PoolInv` with the sizes of the phases: all map phases of a job are of one size (`SizeInv`), no local count exceeds it and the reduce phase's is at least as large (`CeilingInv`), which is what `SafeSize`
asks; and the pool is unused until the job begins it (`UnusedInv`).

The MCS lock, for every set of threads without NULL. `LockIsExclusive`: no two threads hold the MCS lock. The code keeps a tail and links that are made later than the tail; the model has a history variable, the sequence
of threads in the order of their swaps, that no step reads. `LockInv` relates it to the code's state: each thread behind another spins on a flag that is up once it has linked itself (`BehindInv`), the tail is the last of the
queue and the first one's flag is down (`EndsInv`), outside the queue flags are down (`OwnInv`). Only the first can hold the lock (`HolderIsFirst`).

### Only model-checked
- *Liveness* (`CheckpointEnds`, `RestartEnds`, `KillEnds`, `JobEnds`, `CheckpointReturns`, `SocketsResume`, `ProgramsEnd`): outside the prover's reach.
- *What folds over data compute* (`ResultComplete`, `AnswersRight`, `JobsCorrect`, `EachKeyReducedOnce`): needs induction over data, whose theorems the installed provers cannot instantiate. `Phoenix2` and `WordCount` use
  recursive operators, which no module with a theorem may reach.
- `RestartWaitsForPeers`, and `CoordinatorSurvives` after a restart: false in general, so claimed of one instance only. The objects, connections, files and memory of `MCState`, and `ProcessesKept` of `MCParts` but for its
  part on numbers (`VirtualPidsDiffer`, `TablesNameTruly`): not proved; their invariants relate saved images of many processes to one another.

## 5. The plan

1. *Done*: the checkpoint protocol with its barriers, restarts and messages; the thread pool, `Phases` and its use by jobs; ingestion, map, reduce and merge of Phoenix++; the inside of a process; the ipc and pid
   plugins with terminals; image and memory; launch; the event loop; Phoenix 2, the containers, the programs; the MCS lock; the proofs of section 4.
2. *Proofs next*: the order in which `ProcessTree` restores groups and sessions.
3. *Models*: the table of missing connections in the shared data area; NUMA queues of Phoenix; data in terminals.
