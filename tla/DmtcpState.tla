----------------------------- MODULE DmtcpState -----------------------------
(***************************************************************************)
(* The state shared by the DMTCP coordinator (dmtcp_coordinator.cpp) and   *)
(* the checkpoint threads of its workers (dmtcpworker.cpp), and the        *)
(* messages they exchange (dmtcpmessagetypes.h).                           *)
(*                                                                         *)
(* A worker stands for one process identity (UniquePid): it is launched    *)
(* or forked at most once, and after its death it may be restored from a   *)
(* checkpoint image under the same identity.                               *)
(***************************************************************************)
EXTENDS Integers, Sequences, FiniteSets

CONSTANTS
  Worker,          \* process identities
  Launchable,      \* those a user starts with dmtcp_checkpoint; the others are forked
  Nobody,          \* UniquePid(0,0,0)
  Commands,        \* user commands issued, a subset of {"c","b","k","f","q"}
  ExitOnLast,      \* the coordinator's --exit-on-last flag
  UniqueNames,     \* built with UNIQUE_CHECKPOINT_FILENAMES
  MaxGeneration,   \* bound: checkpoints started in one computation
  MaxCommand,      \* bound: user commands other than the timer's checkpoint
  MaxCrash,        \* bound: crashes outside of user code
  MaxRestart       \* bound: times the restart script is run

ASSUME WorkerAssumption == IsFiniteSet(Worker) /\ Launchable \subseteq Worker
ASSUME NobodyAssumption == Nobody \notin Worker
ASSUME FlagAssumption == ExitOnLast \in BOOLEAN /\ UniqueNames \in BOOLEAN
ASSUME BoundAssumption ==
  /\ MaxGeneration \in Nat /\ MaxCommand \in Nat
  /\ MaxCrash \in Nat /\ MaxRestart \in Nat

-----------------------------------------------------------------------------
(* WorkerState::eWorkerState, in the order the coordinator compares them.  *)

StateOrder == <<"UNKNOWN", "PRE_FORK", "PRE_EXEC", "RUNNING", "SUSPENDED",
                "FD_LEADER_ELECTION", "DRAINED", "RESTARTING", "CHECKPOINTED",
                "NAME_SERVICE_DATA_REGISTERED", "DONE_QUERYING", "REFILLED">>

WorkerState == {StateOrder[i] : i \in DOMAIN StateOrder}

Rank(s) == CHOOSE i \in DOMAIN StateOrder : StateOrder[i] = s

(* Where a worker's checkpoint thread is.  "hello": connected and waiting  *)
(* for the coordinator's handshake.  "run": user threads run.  "locking":  *)
(* SUSPEND received, ThreadSync::acquireLocks in progress.  The waiting    *)
(* points each stand for one call of waitForCoordinatorMsg, the working    *)
(* points for the processEvent calls between two of them.                  *)

WaitPoint == {"suspended", "elected", "drained", "written", "registered",
              "queried", "refilled"}
WorkPoint == {"electing", "draining", "writing", "registering", "querying",
              "asking", "refilling", "resuming"}
DeadPoint == {"dead", "abort"}
Point == {"unborn", "hello", "run", "locking"} \cup WaitPoint \cup WorkPoint
         \cup DeadPoint

(* The message each waiting point waits for, and the work it then does.    *)
Awaited(p) == CASE p = "suspended"  -> "DO_FD_LEADER_ELECTION"
                [] p = "elected"    -> "DO_DRAIN"
                [] p = "drained"    -> "DO_CHECKPOINT"
                [] p = "written"    -> "DO_REGISTER_NAME_SERVICE_DATA"
                [] p = "registered" -> "DO_SEND_QUERIES"
                [] p = "queried"    -> "DO_REFILL"
                [] p = "refilled"   -> "DO_RESUME"

WorkAfter(p) == CASE p = "suspended"  -> "electing"
                  [] p = "elected"    -> "draining"
                  [] p = "drained"    -> "writing"
                  [] p = "written"    -> "registering"
                  [] p = "registered" -> "querying"
                  [] p = "queried"    -> "refilling"
                  [] p = "refilled"   -> "resuming"

-----------------------------------------------------------------------------
(* DmtcpMessage.  A CKPT_FILENAME names an image file: the generation is   *)
(* part of the name only when UNIQUE_CHECKPOINT_FILENAMES is defined.      *)

Generation == 0 .. MaxGeneration
FileName == Worker \X Generation
\* Mutant: the name leaves the generation out in every build.
NameOfMutant(w, g) == <<w, 0>>

NameOf(w, g) == <<w, IF UniqueNames THEN g ELSE 0>>

Group == Worker \cup {Nobody}

\* Worker to coordinator.  numPeers is carried as the set it is the size of.
Hello(s, c, g, peers) ==
  [type |-> "HELLO_COORDINATOR", state |-> s, comp |-> c, gen |-> g,
   cohort |-> peers]
Ok(s) == [type |-> "OK", state |-> s]
CkptFilename(f) == [type |-> "CKPT_FILENAME", file |-> f]
RegisterData == [type |-> "REGISTER_NAME_SERVICE_DATA"]
Query(k) == [type |-> "NAME_SERVICE_QUERY", key |-> k]

ToCoordMsg ==
  [type : {"HELLO_COORDINATOR"}, state : {"UNKNOWN", "RUNNING", "RESTARTING"},
   comp : Group, gen : Generation, cohort : SUBSET Worker]
  \cup [type : {"OK"}, state : WorkerState]
  \cup [type : {"CKPT_FILENAME"}, file : FileName]
  \cup [type : {"REGISTER_NAME_SERVICE_DATA"}]
  \cup [type : {"NAME_SERVICE_QUERY"}, key : Worker]

\* Coordinator to worker.
HelloWorker(c, g) == [type |-> "HELLO_WORKER", comp |-> c, gen |-> g]
DoSuspend(c, g) == [type |-> "DO_SUSPEND", comp |-> c, gen |-> g]
DoElection(c, peers) ==
  [type |-> "DO_FD_LEADER_ELECTION", comp |-> c, cohort |-> peers]
Plain(t) == [type |-> t]

PlainType == {"REJECT", "KILL_PEER", "FORCE_RESTART", "DO_DRAIN",
              "DO_CHECKPOINT", "DO_REGISTER_NAME_SERVICE_DATA",
              "DO_SEND_QUERIES", "DO_REFILL", "DO_RESUME",
              "NAME_SERVICE_QUERY_RESPONSE"}

ToWorkerMsg ==
  [type : {"HELLO_WORKER", "DO_SUSPEND"}, comp : Group, gen : Generation]
  \cup [type : {"DO_FD_LEADER_ELECTION"}, comp : Group, cohort : SUBSET Worker]
  \cup [type : PlainType]

\* What mtcp writes into an image: the process's computation and its peers.
Image == [gen : Generation, comp : Group, cohort : SUBSET Worker]

-----------------------------------------------------------------------------
VARIABLES
  \* the coordinator
  coord,             \* "up", "exited" or "aborted" (a JASSERT failed)
  backlog,           \* connections made and not yet accepted
  clients,           \* _dataSockets
  cstate,            \* NamedChunkReader::state of each client
  suspendSent,       \* workersRunningAndSuspendMsgSent
  killInProgress,
  isRestarting,
  numPeers,
  compId,            \* UniquePid::ComputationId()
  generation,        \* UniquePid::ComputationId().generation()
  blockUntilDone,
  blockRemote,       \* blockUntilDoneRemote # -1
  restartFilenames,  \* _restartFilenames
  lookup,            \* keys in lookupService
  \* the workers
  pc,
  unannounced,       \* main thread has yet to call informCoordinatorOfRUNNINGState
  parent,            \* of a child whose fork() is in progress
  wComp, wGen,       \* the worker's UniquePid::ComputationId()
  wCohort,           \* ProcessInfo::numPeers, as the set of peers
  fromImage,         \* generation of the image a restarting worker came from, or 0
  \* the connections and the disk
  toCoord, toWorker,
  images,            \* the image files there are: a function from their names
  script,            \* files named by dmtcp_restart_script.sh
  restarting,        \* files of a script run whose process is not yet started
  \* the bounds
  commands, crashes, restarts

coordVars == <<coord, backlog, clients, cstate, suspendSent, killInProgress,
               isRestarting, numPeers, compId, generation, blockUntilDone,
               blockRemote, restartFilenames, lookup>>
workerVars == <<pc, unannounced, parent, wComp, wGen, wCohort, fromImage>>
netVars == <<toCoord, toWorker>>
diskVars == <<images, script, restarting>>
envVars == <<commands, crashes, restarts>>
vars == <<coordVars, workerVars, netVars, diskVars, envVars>>

-----------------------------------------------------------------------------
Dead(w) == pc[w] \in DeadPoint
Alive(w) == pc[w] \notin DeadPoint \cup {"unborn"}

\* The coordinator holds no socket of w any more.
Gone(w) == Dead(w) /\ w \notin clients \cup backlog

\* Writes to a connection whose other end is closed are lost.
Post(chan, W, m) ==
  [w \in Worker |-> IF w \in W /\ Alive(w) THEN Append(chan[w], m)
                                           ELSE chan[w]]

CoordTypeOK ==
  /\ coord \in {"up", "exited", "aborted"}
  /\ backlog \subseteq Worker
  /\ clients \subseteq Worker
  /\ cstate \in [Worker -> WorkerState]
  /\ suspendSent \in BOOLEAN /\ killInProgress \in BOOLEAN
  /\ isRestarting \in BOOLEAN
  /\ numPeers \in Int
  /\ compId \in Group
  /\ generation \in Generation
  /\ blockUntilDone \in BOOLEAN /\ blockRemote \in BOOLEAN
  /\ restartFilenames \subseteq FileName
  /\ lookup \subseteq Worker

WorkerTypeOK ==
  /\ pc \in [Worker -> Point]
  /\ unannounced \subseteq Worker
  /\ parent \in [Worker -> Group]
  /\ wComp \in [Worker -> Group]
  /\ wGen \in [Worker -> Generation]
  /\ wCohort \in [Worker -> SUBSET Worker]
  /\ fromImage \in [Worker -> Generation]

NetTypeOK ==
  /\ toCoord \in [Worker -> Seq(ToCoordMsg)]
  /\ toWorker \in [Worker -> Seq(ToWorkerMsg)]

DiskTypeOK ==
  /\ images = [f \in DOMAIN images |-> images[f]]
  /\ DOMAIN images \subseteq FileName
  /\ \A f \in DOMAIN images : images[f] \in Image
  /\ script \subseteq FileName
  /\ restarting \subseteq FileName

EnvTypeOK ==
  /\ commands \in 0 .. MaxCommand
  /\ crashes \in 0 .. MaxCrash
  /\ restarts \in 0 .. MaxRestart

TypeOK == CoordTypeOK /\ WorkerTypeOK /\ NetTypeOK /\ DiskTypeOK /\ EnvTypeOK
=============================================================================
