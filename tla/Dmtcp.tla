------------------------------- MODULE Dmtcp -------------------------------
(***************************************************************************)
(* A computation under DMTCP: the coordinator, the worker processes, the   *)
(* restart script and their user, and what they promise together.          *)
(***************************************************************************)
EXTENDS DmtcpCoordinator, DmtcpWorker

Init ==
  /\ coord = "up" /\ backlog = {} /\ clients = {}
  /\ cstate = [w \in Worker |-> "UNKNOWN"]
  /\ suspendSent = FALSE /\ killInProgress = FALSE /\ isRestarting = FALSE
  /\ numPeers = -1 /\ compId = Nobody /\ generation = 0
  /\ blockUntilDone = FALSE /\ blockRemote = FALSE
  /\ restartFilenames = {} /\ lookup = {}
  /\ pc = [w \in Worker |-> "unborn"]
  /\ unannounced = {}
  /\ parent = [w \in Worker |-> Nobody]
  /\ wComp = [w \in Worker |-> Nobody]
  /\ wGen = [w \in Worker |-> 0]
  /\ wCohort = [w \in Worker |-> {}]
  /\ fromImage = [w \in Worker |-> 0]
  /\ toCoord = [w \in Worker |-> <<>>]
  /\ toWorker = [w \in Worker |-> <<>>]
  /\ images = <<>>
  /\ script = {} /\ restarting = {}
  /\ commands = 0 /\ crashes = 0 /\ restarts = 0

Next ==
  \/ \E w \in Worker : CoordinatorStep(w) \/ WorkerStep(w) \/ UserProcessStep(w)
  \/ \E f \in FileName : RestartStep(f)
  \/ RunScript
  \/ UserStep

Spec == Init /\ [][Next]_vars

(* The event loop serves every connection, threads that can run do, and a  *)
(* started restart script starts its processes.  Nothing obliges a user.   *)
Fairness ==
  /\ \A w \in Worker :
       /\ WF_vars(CoordinatorStep(w))
       /\ WF_vars(CkptThreadStep(w))
       /\ WF_vars(MainThreadStep(w))
  /\ \A f \in FileName : WF_vars(RestartStep(f))

FairSpec == Spec /\ Fairness

-----------------------------------------------------------------------------
(* Safety. *)

\* The last barrier a checkpoint thread has reported, and the last it left.
Reached(w) ==
  CASE pc[w] \in {"suspended", "electing"} -> 1
    [] pc[w] \in {"elected", "draining"} -> 2
    [] pc[w] \in {"drained", "writing"} -> 3
    [] pc[w] \in {"written", "registering"} -> 4
    [] pc[w] \in {"registered", "querying", "asking"} -> 5
    [] pc[w] \in {"queried", "refilling"} -> 6
    [] pc[w] \in {"refilled", "resuming"} -> 7
    [] OTHER -> IF pc[w] = "hello" /\ fromImage[w] # 0 THEN 3 ELSE 0

Left(w) == IF pc[w] \in WorkPoint THEN Reached(w)
           ELSE IF Reached(w) = 0 THEN 0 ELSE Reached(w) - 1

Participant(w) == Alive(w) /\ (pc[w] # "hello" \/ w \in clients)

\* No worker leaves a barrier of the checkpoint before every process of the
\* computation has reached it: in particular no user thread runs, and no
\* socket is still being drained, while an image is being written.
BarriersHold ==
  \A v, w \in Worker :
    Participant(v) /\ Participant(w) /\ Left(w) \in 1 .. 6 /\ pc[w] # "refilled"
    => Reached(v) >= Left(w)

\* After DO_RESUME no process is still refilling its sockets when another's
\* user threads may write to them.
ResumeHolds ==
  \A v, w \in Worker :
    Participant(v) /\ Participant(w) /\ pc[w] \in {"resuming", "run", "locking"}
    => Reached(v) \in {0, 1, 7}

\* waitForCoordinatorMsg never sees a message it does not expect (the
\* JASSERT(msg.type == type) that ends the worker).
NoUnexpectedMessage == \A w \in Worker : pc[w] # "abort"

\* No assertion of the coordinator fails: neither the one on late joiners nor
\* the one on a missing name-service key.
CoordinatorSurvives == coord # "aborted"

\* respondToQuery asserts that the key a peer asks for has been registered.
KeyAssertion ==
  \A w \in clients :
    coord = "up" /\ toCoord[w] # <<>> /\ Head(toCoord[w]).type = "NAME_SERVICE_QUERY"
    => Head(toCoord[w]).key \in lookup

\* A process writes its image under the identity and the generation of the
\* checkpoint the coordinator is running, late joiners included.
ImageOfThisCheckpoint ==
  \A w \in Worker :
    pc[w] = "writing" /\ coord = "up" => wComp[w] = compId /\ wGen[w] = generation

\* A restart script written at the end of a checkpoint names the image of
\* every process the images believe to be their peers.
ScriptNamesEveryPeer ==
  [][script' # script =>
       \A f \in script' : images'[f].cohort = {g[1] : g \in script'}]_vars

\* A restart script, and a list the next one is made from, names only images
\* that have been written: a process sends its file name after the image is
\* complete, and nothing removes an image.
ScriptImagesExist == script \cup restartFilenames \subseteq DOMAIN images

\* What ScriptImagesExist rests on.  A connection not yet accepted starts with
\* its hello; file names under way, restored processes and a script run refer
\* to images on disk; and every image is filed under its own generation.
HelloFirst ==
  /\ backlog \cap clients = {}
  /\ \A w \in Worker : pc[w] = "unborn" => w \notin backlog \cup clients
  /\ \A w \in backlog :
       toCoord[w] # <<>> /\ Head(toCoord[w]).type = "HELLO_COORDINATOR"

FilesSent ==
  \A w \in Worker : \A i \in 1 .. Len(toCoord[w]) :
    toCoord[w][i].type = "CKPT_FILENAME" => toCoord[w][i].file \in DOMAIN images

FilesOnDisk ==
  /\ restarting \subseteq DOMAIN images
  /\ \A w \in Worker :
       fromImage[w] # 0 => NameOf(w, fromImage[w]) \in DOMAIN images
  /\ \A f \in DOMAIN images : f = NameOf(f[1], images[f].gen)

DiskInv == TypeOK /\ HelloFirst /\ FilesSent /\ FilesOnDisk /\ ScriptImagesExist

\* Processes restored together come from the same checkpoint.
ConsistentRestart ==
  \A v, w \in Worker :
    /\ Alive(v) /\ fromImage[v] # 0 /\ Left(v) >= 4
    /\ Alive(w) /\ fromImage[w] # 0 /\ Left(w) >= 4
    => fromImage[v] = fromImage[w]

\* No restored process goes on before all its peers are back.
RestartWaitsForPeers ==
  \A w \in Worker :
    Alive(w) /\ fromImage[w] # 0 /\ Left(w) \in 4 .. 5
    => \A v \in wCohort[w] : fromImage[v] # 0 /\ (Dead(v) \/ Reached(v) >= 4)

\* A dmtcp_command blocked in 'bc' is waiting for a checkpoint that runs.
BlockedOnCheckpoint ==
  blockRemote => suspendSent \/ \E w \in clients : Rank(cstate[w]) > Rank("RUNNING")

-----------------------------------------------------------------------------
(* Liveness. *)

\* A checkpoint that has begun ends, with every surviving process RUNNING.
CheckpointEnds ==
  suspendSent ~> \/ coord # "up" \/ clients = {}
                 \/ ~suspendSent /\ \A w \in clients : cstate[w] = "RUNNING"

\* Kill empties the computation.
KillEnds == killInProgress ~> coord # "up" \/ clients = {}

\* A restart script brings its computation back: every process it names is
\* restored, passes all the barriers with the others and reports RUNNING.  The
\* coordinator must have seen the end of the old processes: it rejects a
\* restored process that connects while a RUNNING client is still listed.
RestartEnds ==
  \A f \in FileName :
    f \in restarting /\ restarting = script /\ clients \cup backlog = {} ~>
      \/ coord # "up"
      \/ f \notin restarting /\ f[1] \in clients /\ cstate[f[1]] = "RUNNING"
=============================================================================
