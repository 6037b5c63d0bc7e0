---------------------------- MODULE CkptThreads ----------------------------
(***************************************************************************)
(* One process under DMTCP, seen from inside: its user threads, the        *)
(* checkpoint thread of mtcp.c that stops them all, has the image written  *)
(* and lets them go on, the locks of threadsync.cpp that keep them out of  *)
(* the wrappers meanwhile, thread creation and exit(), and the restoration *)
(* of all threads from an image.                                           *)
(*                                                                         *)
(* The coordinator is a client that asks for a checkpoint at any time; its *)
(* barriers are modelled in Dmtcp.tla.                                     *)
(***************************************************************************)
EXTENDS Integers, FiniteSets

CONSTANTS
  Thread,       \* the user threads
  Main,         \* motherofall, which exists from the start
  Ckpt,         \* the checkpoint thread
  Nobody,
  Exits,        \* whether threads may call exit()
  MainReturns,  \* whether the first thread may end with pthread_exit()
  Abandons,     \* whether a thread may end before one it made has begun to run
  PipeFails,    \* whether popen() may fail to make its pipe
  SlowSuspend,  \* whether a halted thread may outlast the image's writing
                \*   in its pre-suspend callback
  MaxCkpt,      \* how many checkpoints are asked for
  MaxRestart    \* how often the process is killed and restored

ASSUME ThreadAssumption ==
  /\ IsFiniteSet(Thread)
  /\ Main \in Thread /\ Ckpt \notin Thread /\ Nobody \notin Thread \cup {Ckpt}
  /\ {Exits, MainReturns, Abandons, PipeFails, SlowSuspend} \subseteq BOOLEAN
  /\ MaxCkpt \in Nat /\ MaxRestart \in Nat

VARIABLES
  at,         \* where each user thread is in its own code and the wrappers
  hand,       \* where it is in stopthisthread, or in being restored
  target,     \* the thread a pthread_create of this one is making
  tstate,     \* Thread.state
  threads,    \* the list of thread descriptors
  parent,     \* Thread.parent
  signalled,  \* threads a STOPSIGNAL is pending for
  threadsLock,          \* threadslocked and its owner
  libdlLock,            \* libdlLock's owner
  uninitialized,        \* _uninitializedThreadCount
  preResumeCount,       \* preResumeThreadCount
  destroyLock,          \* destroyDmtcpWorkerLock's owner
  exiting,              \* the thread in exit(), or Nobody
  ckpt,       \* where the checkpoint thread is
  todo,       \* descriptors the current loop of it has still to visit
  needRescan,
  restoreInProg,        \* restoreinprog
  image,      \* the last image: what of the above it holds
  fate,       \* "runs", or how the process ended
  ckpts, restarts

userVars  == <<at, target>>
listVars  == <<threads, parent>>
lockVars  == <<libdlLock, destroyLock>>
ckptVars  == <<ckpt, todo, needRescan>>
worldVars == <<image, fate, ckpts, restarts>>
vars == <<userVars, hand, tstate, listVars, signalled, threadsLock, lockVars,
          uninitialized, preResumeCount, exiting, ckptVars, restoreInProg, worldVars>>

UserPlace ==
  {"unborn", "user", "wrap", "popen", "dl", "dlwrap", "excl", "dlexcl",
   "create", "clone", "created", "failed", "starting", "linked", "ready", "started",
   "joining", "timedout", "dying", "zombie", "gone", "exiting", "closed", "killing", "destroying"}
HandlerPlace ==
  {"out", "enter", "saving", "late", "halted", "leaving", "uncloned", "cloning", "restored"}
CkptPlace ==
  {"sleep", "listen", "libdl", "tcl", "wel", "uninit", "rescan", "scan", "rest",
   "reap", "stopped", "barriers", "post", "resume", "gone", "uncloned", "cloning", "restored"}
ThreadState ==
  {"RUNDISABLED", "RUNENABLED", "SIGDISABLED", "SIGENABLED", "SUSPINPROG", "SUSPENDED", "ZOMBIE"}

TypeOK ==
  /\ at \in [Thread -> UserPlace] /\ hand \in [Thread -> HandlerPlace]
  /\ target \in [Thread -> Thread \cup {Nobody}]
  /\ tstate \in [Thread -> ThreadState]
  /\ threads \subseteq Thread /\ parent \in [Thread -> Thread \cup {Nobody}]
  /\ signalled \subseteq Thread
  /\ {threadsLock, libdlLock, destroyLock} \subseteq Thread \cup {Ckpt, Nobody}
  /\ uninitialized \in 0 .. 2 * Cardinality(Thread)
  /\ preResumeCount \in 0 .. Cardinality(Thread)
  /\ exiting \in Thread \cup {Nobody}
  /\ ckpt \in CkptPlace /\ todo \subseteq Thread /\ needRescan \in BOOLEAN
  /\ restoreInProg \in 0 .. Cardinality(Thread) + 2
  /\ fate \in {"runs", "ended", "aborted"}
  /\ ckpts \in 0 .. MaxCkpt /\ restarts \in 0 .. MaxRestart

NoImage == [threads |-> {}]

(* initializeMtcpEngine: the first thread, and the checkpoint thread. *)
Init ==
  /\ at = [t \in Thread |-> IF t = Main THEN "user" ELSE "unborn"]
  /\ hand = [t \in Thread |-> "out"]
  /\ target = [t \in Thread |-> Nobody]
  /\ tstate = [t \in Thread |-> IF t = Main THEN "RUNENABLED" ELSE "RUNDISABLED"]
  /\ threads = {Main} /\ parent = [t \in Thread |-> Nobody]
  /\ signalled = {} /\ threadsLock = Nobody /\ libdlLock = Nobody /\ destroyLock = Nobody
  /\ uninitialized = 0 /\ preResumeCount = 0 /\ exiting = Nobody
  /\ ckpt = "sleep" /\ todo = {} /\ needRescan = FALSE
  /\ restoreInProg = 0 /\ image = NoImage /\ fate = "runs"
  /\ ckpts = 0 /\ restarts = 0

Goes(t, p) == at' = [at EXCEPT ![t] = p]
Handles(t, p) == hand' = [hand EXCEPT ![t] = p]
Becomes(t, s) == tstate' = [tstate EXCEPT ![t] = s]
CkptGoes(p) == ckpt' = p

(* A thread executes its own code, not the signal handler. *)
Runs(t) == fate = "runs" /\ hand[t] = "out"

(* lock_threads can return at once; getcurrenthread takes and drops it.   *)
LockFree == threadsLock = Nobody
GetCurrentThread == LockFree

-----------------------------------------------------------------------------
(* The locks, held by those who are at certain places. *)

WelReadersMutant ==
  {t \in Thread : at[t] \in {"popen", "dlwrap", "joining", "clone", "dying"}}
WelReaders ==
  {t \in Thread : at[t] \in {"wrap", "popen", "dlwrap", "joining", "clone", "dying"}}
WelWriters == {t \in Thread : at[t] \in {"excl", "dlexcl"}}
TclReaders == {t \in Thread : at[t] \in {"create", "clone", "created", "failed"}}

(* The checkpoint thread has, or waits for, the write lock: writers go     *)
(* first (PTHREAD_RWLOCK_WRITER_NONRECURSIVE).                             *)
TclWanted == ckpt \in {"tcl", "wel", "uninit", "rescan", "scan", "rest", "reap", "stopped"}
WelHeld   == ckpt \in {"uninit", "rescan", "scan", "rest", "reap", "stopped"}
WelWanted == WelHeld \/ ckpt = "wel"

(* wrapperExecutionLockLock, wrapperExecutionLockLockExcl and              *)
(* threadCreationLockLock: the thread retries until the try succeeds.      *)
CanRead  == ~WelWanted /\ WelWriters = {}
CanWrite == ~WelHeld /\ WelReaders \cup WelWriters = {}

CanCreateMutant == TRUE
CanCreate == ~TclWanted

-----------------------------------------------------------------------------
(* The user threads. *)

Moves(t, from, to) ==
  /\ Runs(t) /\ at[t] = from /\ Goes(t, to)
  /\ UNCHANGED <<target, hand, tstate, listVars, signalled, threadsLock, lockVars,
                 uninitialized, preResumeCount, exiting, ckptVars, restoreInProg, worldVars>>

(* A wrapper: malloc and the others, also on behalf of dlopen. *)
Wrapper(t) ==
  \/ CanRead /\ (Moves(t, "user", "wrap") \/ Moves(t, "dl", "dlwrap"))
  \/ Moves(t, "wrap", "user") \/ Moves(t, "dlwrap", "dl")

(* popen() is a wrapper too, but returns without unlocking when it has no pipe. *)
Popen(t) ==
  CanRead /\ \E place \in {"wrap"} \cup (IF PipeFails THEN {"popen"} ELSE {}) : Moves(t, "user", place)

(* fork(), also from a constructor that dlopen runs. *)
Fork(t) ==
  \/ CanWrite /\ (Moves(t, "user", "excl") \/ Moves(t, "dl", "dlexcl"))
  \/ Moves(t, "excl", "user") \/ Moves(t, "dlexcl", "dl")

(* dlopen() and dlclose(). *)
Dlopen(t) ==
  /\ Runs(t)
  /\ \/ at[t] = "user" /\ libdlLock = Nobody /\ Goes(t, "dl") /\ libdlLock' = t
     \/ at[t] = "dl" /\ Goes(t, "user") /\ libdlLock' = Nobody
  /\ UNCHANGED <<target, hand, tstate, listVars, signalled, threadsLock, destroyLock,
                 uninitialized, preResumeCount, exiting, ckptVars, restoreInProg, worldVars>>

(* pthread_create and the __clone it calls: each counts the new thread as  *)
(* uninitialised, and takes back its count when it fails.                  *)
PthreadCreate(t, c) ==
  /\ Runs(t) /\ at[t] = "user" /\ at[c] = "unborn" /\ \A u \in Thread : target[u] # c
  /\ CanCreate
  /\ Goes(t, "create") /\ target' = [target EXCEPT ![t] = c]
  /\ uninitialized' = uninitialized + 1
  /\ UNCHANGED <<hand, tstate, listVars, signalled, threadsLock, lockVars,
                 preResumeCount, exiting, ckptVars, restoreInProg, worldVars>>

CloneEnter(t) ==
  /\ Runs(t) /\ at[t] = "create" /\ CanRead
  /\ Goes(t, "clone") /\ uninitialized' = uninitialized + 1
  /\ UNCHANGED <<target, hand, tstate, listVars, signalled, threadsLock, lockVars,
                 preResumeCount, exiting, ckptVars, restoreInProg, worldVars>>

Clone(t) ==
  /\ Runs(t) /\ at[t] = "clone" /\ GetCurrentThread
  /\ \/ /\ at' = [at EXCEPT ![t] = "created", ![target[t]] = "starting"]
        /\ parent' = [parent EXCEPT ![target[t]] = t]
        /\ UNCHANGED uninitialized
     \/ /\ Goes(t, "failed") /\ uninitialized' = uninitialized - 1
        /\ UNCHANGED parent
  /\ UNCHANGED <<target, hand, tstate, threads, signalled, threadsLock, lockVars,
                 preResumeCount, exiting, ckptVars, restoreInProg, worldVars>>

CreateReturnMutant(t) ==
  /\ Runs(t) /\ at[t] \in {"created", "failed"}
  /\ Goes(t, "user") /\ target' = [target EXCEPT ![t] = Nobody]
  /\ uninitialized' = uninitialized - 1
  /\ UNCHANGED <<hand, tstate, listVars, signalled, threadsLock, lockVars,
                 preResumeCount, exiting, ckptVars, restoreInProg, worldVars>>

CreateReturn(t) ==
  /\ Runs(t) /\ at[t] \in {"created", "failed"}
  /\ Goes(t, "user") /\ target' = [target EXCEPT ![t] = Nobody]
  /\ uninitialized' = IF at[t] = "failed" THEN uninitialized - 1 ELSE uninitialized
  /\ UNCHANGED <<hand, tstate, listVars, signalled, threadsLock, lockVars,
                 preResumeCount, exiting, ckptVars, restoreInProg, worldVars>>

(* threadisdead for every thread of a set: its children go to its parent,  *)
(* one dead thread after the other, but for those that have still to link  *)
(* themselves to it.                                                       *)
Adopted(dead, linked) ==
  /\ threads' = linked \ dead
  /\ \E par \in [Thread -> Thread \cup {Nobody}] :
       /\ \A t \in Thread :
            par[t] = IF t \in linked /\ parent[t] \in dead THEN par[parent[t]] ELSE parent[t]
       /\ parent' = par

(* mtcp_remove_duplicate_thread_descriptors: zombies whose thread is gone. *)
DeadDescriptors == {t \in threads : tstate[t] = "ZOMBIE" /\ at[t] = "gone"}

(* clone_start: mtcp_thread_start links the descriptor and drops dead      *)
(* ones, mtcp_ok enables checkpoints; then the two counts are taken back.  *)
ThreadStart(t) ==
  /\ Runs(t) /\ at[t] = "starting" /\ LockFree
  /\ Goes(t, "linked") /\ Becomes(t, "RUNDISABLED")
  /\ Adopted(DeadDescriptors, threads \cup {t})
  /\ UNCHANGED <<target, hand, signalled, threadsLock, lockVars, uninitialized,
                 preResumeCount, exiting, ckptVars, restoreInProg, worldVars>>

MtcpOk(t) ==
  /\ Runs(t) /\ at[t] = "linked" /\ GetCurrentThread /\ Goes(t, "ready")
  /\ \/ tstate[t] = "RUNDISABLED" /\ Becomes(t, "RUNENABLED") /\ UNCHANGED hand
     \/ tstate[t] = "SIGDISABLED" /\ Becomes(t, "SIGENABLED") /\ Handles(t, "enter")
  /\ UNCHANGED <<target, listVars, signalled, threadsLock, lockVars, uninitialized,
                 preResumeCount, exiting, ckptVars, restoreInProg, worldVars>>

ThreadFinishedInitialization(t) ==
  /\ Runs(t)
  /\ \/ at[t] = "ready" /\ Goes(t, "started")
     \/ at[t] = "started" /\ Goes(t, "user")
  /\ uninitialized' = uninitialized - 1
  /\ UNCHANGED <<target, hand, tstate, listVars, signalled, threadsLock, lockVars,
                 preResumeCount, exiting, ckptVars, restoreInProg, worldVars>>

(* pthread_join waits in turns of 100 ms, each inside a wrapper. *)
Join(t) ==
  \/ CanRead /\ (Moves(t, "user", "joining") \/ Moves(t, "timedout", "joining"))
  \/ (\E c \in Thread : at[c] \in {"zombie", "gone"}) /\ Moves(t, "joining", "user")
  \/ Moves(t, "joining", "timedout")

(* The end of pthread_start, and pthread_exit. *)
Return(t) ==
  /\ t # Main \/ MainReturns
  /\ Abandons \/ \A c \in Thread : at[c] = "starting" => parent[c] # t
  /\ CanRead /\ Moves(t, "user", "dying")

Zombie(t) ==
  /\ Runs(t) /\ at[t] = "dying" /\ GetCurrentThread
  /\ Goes(t, "zombie") /\ Becomes(t, "ZOMBIE")
  /\ UNCHANGED <<target, hand, listVars, signalled, threadsLock, lockVars, uninitialized,
                 preResumeCount, exiting, ckptVars, restoreInProg, worldVars>>

(* The kernel's part: the first thread of a process stays in its table,    *)
(* where tgkill finds it, until the process ends.                          *)
Vanish(t) == t # Main /\ Moves(t, "zombie", "gone")

-----------------------------------------------------------------------------
(* exit(): the flag, ~DmtcpWorker, and interruptCkpthread.                 *)

Exit(t) ==
  /\ Exits /\ Runs(t) /\ at[t] = "user" /\ exiting = Nobody
  /\ Goes(t, "exiting") /\ exiting' = t
  /\ UNCHANGED <<target, hand, tstate, listVars, signalled, threadsLock, lockVars,
                 uninitialized, preResumeCount, ckptVars, restoreInProg, worldVars>>

CloseConnection(t) == Moves(t, "exiting", "closed")

Ended == fate' = "ended" /\ UNCHANGED <<image, ckpts, restarts>>

DestroyTryLock(t) ==
  /\ Runs(t) /\ at[t] = "closed"
  /\ \/ destroyLock = Nobody /\ destroyLock' = t /\ Ended /\ UNCHANGED <<at, threadsLock>>
     \/ destroyLock # Nobody /\ LockFree /\ threadsLock' = t /\ Goes(t, "killing")
        /\ UNCHANGED <<worldVars, destroyLock>>
  /\ UNCHANGED <<target, hand, tstate, listVars, signalled, libdlLock, uninitialized,
                 preResumeCount, exiting, ckptVars, restoreInProg>>

(* mtcp_kill_ckpthread: its signal only interrupts a select. *)
KillCkpthread(t) ==
  /\ Runs(t) /\ at[t] = "killing"
  /\ Goes(t, "destroying") /\ threadsLock' = Nobody
  /\ UNCHANGED <<target, hand, tstate, listVars, signalled, lockVars, uninitialized,
                 preResumeCount, exiting, ckptVars, restoreInProg, worldVars>>

DestroyLock(t) ==
  /\ Runs(t) /\ at[t] = "destroying" /\ destroyLock = Nobody
  /\ destroyLock' = t /\ Ended
  /\ UNCHANGED <<userVars, hand, tstate, listVars, signalled, threadsLock, libdlLock,
                 uninitialized, preResumeCount, exiting, ckptVars, restoreInProg>>

-----------------------------------------------------------------------------
(* stopthisthread, the handler of STOPSIGNAL. *)

Deliver(t) ==
  /\ t \in signalled /\ Runs(t) /\ at[t] # "gone"
  /\ signalled' = signalled \ {t} /\ Handles(t, "enter")
  /\ UNCHANGED <<userVars, tstate, listVars, threadsLock, lockVars, uninitialized,
                 preResumeCount, exiting, ckptVars, restoreInProg, worldVars>>

StepsInHandler(t, p) ==
  /\ Handles(t, p)
  /\ UNCHANGED <<userVars, listVars, signalled, threadsLock, lockVars, uninitialized,
                 exiting, ckptVars, restoreInProg, worldVars>>

(* It finds its descriptor, and whether it is to stop. *)
EnterHandler(t) ==
  /\ fate = "runs" /\ hand[t] = "enter" /\ GetCurrentThread
  /\ \/ tstate[t] = "SIGENABLED" /\ Becomes(t, "SUSPINPROG") /\ StepsInHandler(t, "saving")
     \/ tstate[t] # "SIGENABLED" /\ UNCHANGED tstate /\ StepsInHandler(t, "out")
  /\ UNCHANGED preResumeCount

SaveState(t) ==
  /\ fate = "runs" /\ hand[t] = "saving"
  /\ Becomes(t, "SUSPENDED") /\ StepsInHandler(t, "late")
  /\ UNCHANGED preResumeCount

(* callbackPreSuspendUserThread *)
PreSuspendMutant(t) ==
  /\ fate = "runs" /\ hand[t] = "late" /\ StepsInHandler(t, "halted")
  /\ UNCHANGED <<tstate, preResumeCount>>

PreSuspend(t) ==
  /\ fate = "runs" /\ hand[t] = "late"
  /\ preResumeCount' = preResumeCount + 1 /\ StepsInHandler(t, "halted")
  /\ UNCHANGED tstate

(* The state is no longer SUSPENDED; or, of a restored thread, all others  *)
(* are restored (the end of wait_for_all_restored).                        *)
Woken(t) ==
  \/ hand[t] = "halted" /\ tstate[t] # "SUSPENDED"
  \/ hand[t] = "restored" /\ restoreInProg = 0

WakeUp(t) ==
  /\ fate = "runs" /\ Woken(t) /\ StepsInHandler(t, "leaving")
  /\ UNCHANGED <<tstate, preResumeCount>>

(* callbackPreResumeUserThread, with the assertion of processPreResumeCB. *)
PreResume(t) ==
  /\ fate = "runs" /\ hand[t] = "leaving"
  /\ IF preResumeCount > 0
     THEN /\ preResumeCount' = preResumeCount - 1 /\ StepsInHandler(t, "out")
          /\ UNCHANGED tstate
     ELSE /\ fate' = "aborted"
          /\ UNCHANGED <<userVars, hand, tstate, listVars, signalled, threadsLock, lockVars,
                         uninitialized, preResumeCount, exiting, ckptVars, restoreInProg,
                         image, ckpts, restarts>>

Handler(t) ==
  Deliver(t) \/ EnterHandler(t) \/ SaveState(t) \/ PreSuspend(t) \/ WakeUp(t) \/ PreResume(t)

-----------------------------------------------------------------------------
(* The checkpoint thread. *)

CkptMoves(from, to) ==
  /\ fate = "runs" /\ ckpt = from /\ CkptGoes(to)
  /\ UNCHANGED <<userVars, hand, listVars, exiting, uninitialized, preResumeCount,
                 restoreInProg, fate, restarts>>

Quits == CkptGoes("gone") /\ destroyLock' = Nobody

(* callbackSleepBetweenCheckpoint, waitForCoordinatorMsg up to its wait. *)
Sleep ==
  /\ fate = "runs" /\ ckpt = "sleep" /\ preResumeCount = 0
  /\ IF destroyLock # Nobody \/ exiting # Nobody
     THEN CkptGoes("gone") /\ UNCHANGED destroyLock
     ELSE CkptGoes("listen") /\ destroyLock' = Ckpt
  /\ UNCHANGED <<userVars, hand, tstate, listVars, signalled, threadsLock, libdlLock,
                 uninitialized, preResumeCount, exiting, todo, needRescan, restoreInProg,
                 worldVars>>

(* DO_SUSPEND arrives, or the connection has been closed. *)
Listen ==
  /\ fate = "runs" /\ ckpt = "listen"
  /\ IF exiting # Nobody
     THEN Quits /\ UNCHANGED ckpts
     ELSE ckpts < MaxCkpt /\ ckpts' = ckpts + 1 /\ CkptGoes("libdl") /\ UNCHANGED destroyLock
  /\ UNCHANGED <<userVars, hand, tstate, listVars, signalled, threadsLock, libdlLock,
                 uninitialized, preResumeCount, exiting, todo, needRescan, restoreInProg,
                 image, fate, restarts>>

AwaitInitializedMutant == TRUE
AwaitInitialized == uninitialized = 0

(* acquireLocks *)
AcquireLocks ==
  /\ \/ libdlLock = Nobody /\ CkptMoves("libdl", "tcl") /\ libdlLock' = Ckpt
     \/ TclReaders = {} /\ CkptMoves("tcl", "wel") /\ UNCHANGED libdlLock
     \/ WelReaders \cup WelWriters = {} /\ CkptMoves("wel", "uninit") /\ UNCHANGED libdlLock
     \/ AwaitInitialized /\ CkptMoves("uninit", "rescan") /\ UNCHANGED libdlLock
  /\ UNCHANGED <<tstate, signalled, threadsLock, destroyLock, todo, needRescan, image, ckpts>>

(* The label rescan. *)
Rescan ==
  /\ LockFree /\ CkptMoves("rescan", "scan")
  /\ threadsLock' = Ckpt /\ todo' = threads /\ needRescan' = FALSE
  /\ UNCHANGED <<tstate, signalled, lockVars, image, ckpts>>

(* The descriptor of a thread that is no more is removed on the way; one   *)
(* that has been told to stop is waited for, a while, without the lock.    *)
StartsOver ==
  /\ CkptGoes("rescan") /\ threadsLock' = Nobody
  /\ UNCHANGED <<tstate, signalled, todo, needRescan>>

Tell(t) ==
  /\ \/ /\ tstate[t] = "RUNDISABLED" /\ Becomes(t, "SIGDISABLED")
        /\ UNCHANGED signalled
     \/ /\ tstate[t] = "RUNENABLED" /\ Becomes(t, "SIGENABLED")
        /\ signalled' = signalled \cup {t}
  /\ needRescan' = TRUE /\ todo' = todo \ {t} /\ UNCHANGED <<ckpt, threadsLock>>

Visit(t) ==
  /\ fate = "runs" /\ ckpt = "scan" /\ t \in todo
  /\ IF at[t] = "gone"
     THEN Adopted({t}, threads) /\ StartsOver
     ELSE /\ UNCHANGED listVars
          /\ \/ Tell(t)
             \/ tstate[t] \in {"SIGDISABLED", "SIGENABLED"} /\ StartsOver
             \/ /\ tstate[t] \in {"SUSPENDED", "ZOMBIE"} /\ todo' = todo \ {t}
                /\ UNCHANGED <<ckpt, threadsLock, tstate, signalled, needRescan>>
  /\ UNCHANGED <<userVars, hand, lockVars, uninitialized, preResumeCount, exiting,
                 restoreInProg, worldVars>>

ScanEnds ==
  /\ ckpt = "scan" /\ todo = {}
  /\ CkptMoves("scan", IF needRescan THEN "rescan" ELSE "rest") /\ threadsLock' = Nobody
  /\ UNCHANGED <<tstate, signalled, lockVars, todo, needRescan, image, ckpts>>

(* Zombies are waited for with the lock. *)
LockForZombies ==
  /\ LockFree /\ CkptMoves("rest", "reap") /\ threadsLock' = Ckpt
  /\ UNCHANGED <<tstate, signalled, lockVars, todo, needRescan, image, ckpts>>

ReapZombies ==
  LET dead == {t \in threads : tstate[t] = "ZOMBIE"} IN
  /\ fate = "runs" /\ ckpt = "reap" /\ \A t \in dead : at[t] = "gone"
  /\ Adopted(dead, threads)
  /\ CkptGoes("stopped") /\ threadsLock' = Nobody
  /\ signalled' = {}                     \* STOPSIGNAL ignored for a moment
  /\ UNCHANGED <<userVars, hand, tstate, lockVars, uninitialized, preResumeCount, exiting,
                 todo, needRescan, restoreInProg, worldVars>>

(* waitForStage2Checkpoint: the locks are released, or the thread leaves   *)
(* the process to the thread that is in exit().                            *)
PreCkpt ==
  /\ \/ exiting # Nobody /\ CkptMoves("stopped", "gone") /\ UNCHANGED libdlLock
     \/ exiting = Nobody /\ CkptMoves("stopped", "barriers") /\ libdlLock' = Nobody
  /\ destroyLock' = Nobody
  /\ UNCHANGED <<tstate, signalled, threadsLock, todo, needRescan, image, ckpts>>

(* mtcp_checkpointeverything *)
WriteImage ==
  /\ SlowSuspend \/ \A t \in threads : hand[t] = "halted"
  /\ CkptMoves("barriers", "post")
  /\ image' = [threads |-> threads, parent |-> parent, at |-> at, tstate |-> tstate,
               count |-> preResumeCount, unborn |-> uninitialized]
  /\ UNCHANGED <<tstate, signalled, threadsLock, lockVars, todo, needRescan, ckpts>>

(* "resuming everything" *)
StartResume ==
  /\ LockFree /\ CkptMoves("post", "resume")
  /\ threadsLock' = Ckpt /\ todo' = threads
  /\ UNCHANGED <<tstate, signalled, lockVars, needRescan, image, ckpts>>

ResumeThread(t) ==
  /\ fate = "runs" /\ ckpt = "resume" /\ t \in todo /\ todo' = todo \ {t}
  /\ IF tstate[t] = "SUSPENDED"
     THEN Becomes(t, "RUNENABLED") /\ UNCHANGED fate
     ELSE fate' = "aborted" /\ UNCHANGED tstate
  /\ UNCHANGED <<userVars, hand, listVars, signalled, threadsLock, lockVars, uninitialized,
                 preResumeCount, exiting, ckpt, needRescan, restoreInProg,
                 image, ckpts, restarts>>

ResumeEnds ==
  /\ todo = {} /\ CkptMoves("resume", "sleep") /\ threadsLock' = Nobody
  /\ UNCHANGED <<tstate, signalled, lockVars, todo, needRescan, image, ckpts>>

-----------------------------------------------------------------------------
(* The process is killed, and restored from its image: the first thread    *)
(* creates its children, each of them its own, and then jumps to where it  *)
(* was stopped.  restoreinprog counts those that have not yet got there.   *)

Restore ==
  /\ image # NoImage /\ restarts < MaxRestart /\ restarts' = restarts + 1
  /\ fate' = "runs" /\ at' = image.at /\ tstate' = image.tstate
  /\ threads' = image.threads /\ parent' = image.parent
  /\ preResumeCount' = image.count /\ uninitialized' = image.unborn
  /\ hand' = [t \in Thread |-> IF t = Main THEN "cloning"
                               ELSE IF t \in image.threads THEN "uncloned" ELSE "out"]
  /\ ckpt' = "uncloned" /\ restoreInProg' = 2
  /\ target' = [t \in Thread |-> Nobody]
  /\ signalled' = {} /\ threadsLock' = Nobody /\ libdlLock' = Nobody /\ destroyLock' = Nobody
  /\ exiting' = Nobody /\ todo' = {} /\ needRescan' = FALSE
  /\ UNCHANGED <<image, ckpts>>

Children(t) == {c \in threads : parent[c] = t}

RestartStep(t) ==
  /\ fate = "runs" /\ hand[t] = "cloning"
  /\ UNCHANGED <<userVars, listVars, signalled, threadsLock, lockVars, uninitialized,
                 preResumeCount, exiting, todo, needRescan, worldVars>>

RestartThreadMutant(t) ==
  /\ \/ \E c \in Children(t) :
          hand[c] = "uncloned" /\ Handles(c, "cloning") /\ UNCHANGED ckpt
     \/ t = Main /\ ckpt = "uncloned" /\ CkptGoes("cloning") /\ UNCHANGED hand
  /\ RestartStep(t) /\ UNCHANGED <<restoreInProg, tstate>>

RestartThread(t) ==
  /\ \/ \E c \in Children(t) :
          hand[c] = "uncloned" /\ Handles(c, "cloning") /\ UNCHANGED ckpt
     \/ t = Main /\ ckpt = "uncloned" /\ CkptGoes("cloning") /\ UNCHANGED hand
  /\ RestartStep(t) /\ restoreInProg' = restoreInProg + 1 /\ UNCHANGED tstate

JumpBack(t) ==
  /\ \A c \in Children(t) : hand[c] # "uncloned"
  /\ t = Main => ckpt # "uncloned"
  /\ RestartStep(t) /\ tstate[t] = "SUSPENDED" /\ Becomes(t, "RUNENABLED")
  /\ Handles(t, "restored") /\ restoreInProg' = restoreInProg - 1 /\ UNCHANGED ckpt

(* wait_for_all_restored in the checkpoint thread; the coordinator's       *)
(* barriers of the restart are inside.                                     *)
CkptRestored ==
  /\ fate = "runs"
  /\ \/ ckpt = "cloning" /\ CkptGoes("restored") /\ restoreInProg' = restoreInProg - 1
     \/ ckpt = "restored" /\ restoreInProg = 1 /\ LockFree
        /\ CkptGoes("sleep") /\ restoreInProg' = 0
  /\ UNCHANGED <<userVars, hand, tstate, listVars, signalled, threadsLock, lockVars,
                 uninitialized, preResumeCount, exiting, todo, needRescan, worldVars>>

-----------------------------------------------------------------------------
DlReturns(t) == at[t] = "dl" /\ Dlopen(t)

Leaves(t) ==        \* what a thread in a wrapper goes on to do
  \/ Moves(t, "wrap", "user") \/ Moves(t, "dlwrap", "dl") \/ (at[t] = "joining" /\ Join(t))
  \/ Moves(t, "excl", "user") \/ Moves(t, "dlexcl", "dl")
  \/ Clone(t) \/ CreateReturn(t)
  \/ ThreadStart(t) \/ MtcpOk(t) \/ ThreadFinishedInitialization(t)
  \/ Zombie(t) \/ Vanish(t)
  \/ CloseConnection(t) \/ DestroyTryLock(t) \/ KillCkpthread(t) \/ DestroyLock(t)

UserStep(t) ==
  \/ Wrapper(t) \/ Popen(t) \/ Fork(t) \/ Dlopen(t)
  \/ (\E c \in Thread : PthreadCreate(t, c)) \/ CloneEnter(t) \/ Clone(t) \/ CreateReturn(t)
  \/ ThreadStart(t) \/ MtcpOk(t) \/ ThreadFinishedInitialization(t)
  \/ Join(t) \/ Return(t) \/ Zombie(t) \/ Vanish(t)
  \/ Exit(t) \/ CloseConnection(t) \/ DestroyTryLock(t) \/ KillCkpthread(t) \/ DestroyLock(t)

CkptStep ==
  \/ Sleep \/ AcquireLocks \/ Rescan \/ ScanEnds \/ LockForZombies \/ ReapZombies
  \/ PreCkpt \/ WriteImage \/ StartResume \/ ResumeEnds \/ CkptRestored
  \/ \E t \in Thread : Visit(t) \/ ResumeThread(t)

RestoreStep(t) == RestartThread(t) \/ JumpBack(t)

Next ==
  \/ \E t \in Thread : UserStep(t) \/ Handler(t) \/ RestoreStep(t)
  \/ CkptStep \/ Listen \/ Restore

Spec == Init /\ [][Next]_vars

(* Threads that can run do, wrappers return, and so does dlopen, however   *)
(* often it allocates memory meanwhile.  Whoever queues for a mutex or a   *)
(* rwlock is woken when it is released, and gets it in the end.            *)
(* The lock of the list is a futex whose holder wakes a waiter, and the    *)
(* checkpoint thread sleeps between two scans, so a handler that waits for *)
(* that lock gets it too.                                                  *)
Fairness ==
  /\ \A t \in Thread :
       /\ WF_vars(Leaves(t)) /\ SF_vars(CloneEnter(t)) /\ SF_vars(DlReturns(t))
       /\ SF_vars(EnterHandler(t))
       /\ WF_vars(Handler(t)) /\ WF_vars(RestoreStep(t))
  /\ WF_vars(CkptStep) /\ SF_vars(AcquireLocks)
  /\ WF_vars(Listen /\ exiting # Nobody)

FairSpec == Spec /\ Fairness

-----------------------------------------------------------------------------
(* Properties. *)

\* From "everything suspended" until the threads are resumed every thread of
\* the process is stopped in its handler, with its descriptor in the list:
\* none is missing from the image because it was just being created or ended
\* (mtcp.c, "All other threads halted in 'stopthisthread' routine").
EveryThreadHalted ==
  fate = "runs" /\ ckpt \in {"stopped", "barriers", "post"} =>
    \A t \in Thread :
      IF t \in threads THEN tstate[t] = "SUSPENDED" ELSE at[t] \in {"unborn", "gone"}

\* No thread is stopped in the middle of a wrapper, where it would hold a lock
\* the checkpoint thread needs, or state the image must not catch half-changed.
StoppedOutsideWrappers ==
  \A t \in Thread : tstate[t] = "SUSPENDED" /\ t \in threads /\ fate = "runs" =>
    at[t] \in {"user", "timedout", "exiting", "closed", "destroying"}

\* A checkpoint that was asked for stops the threads, writes the image and
\* lets them all go on, unless the process ends: the locks are taken in an
\* order in which nobody waits for whom he keeps waiting.
CheckpointReturns ==
  ckpt = "libdl" ~> ckpt = "sleep" \/ exiting # Nobody \/ fate # "runs"

\* No restored thread goes on before all are restored.
RestoredTogether ==
  [][\A t \in Thread : hand[t] = "restored" /\ hand'[t] = "leaving" =>
       \A u \in threads : hand[u] \notin {"uncloned", "cloning"}]_vars

\* exit() ends the process (dmtcpworker.cpp, "Exit race fixed").
ExitEnds == exiting # Nobody ~> fate = "ended" \/ exiting = Nobody

\* The count of halted threads never runs out (the assertion of
\* processPreResumeCB) and the checkpoint thread finds everyone SUSPENDED.
NoAbort == fate # "aborted"

\* What is stopped is stopped where it may be: all threads of the process, none of
\* them in a wrapper, and without an assertion that fails on the way there or back.
StoppedSafely == EveryThreadHalted /\ StoppedOutsideWrappers /\ NoAbort
=============================================================================
