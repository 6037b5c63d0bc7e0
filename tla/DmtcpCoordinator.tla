-------------------------- MODULE DmtcpCoordinator --------------------------
(***************************************************************************)
(* The DMTCP coordinator: dmtcp_coordinator.cpp, one action per callback   *)
(* of the event loop (onConnect, onData, onDisconnect, onTimeoutInterval). *)
(***************************************************************************)
EXTENDS DmtcpState

(* Definitions named ...Mutant are variants with a bug; no action uses      *)
(* them, they show that the properties tell the code from its mistakes.    *)

LowestStateMutant(C, cs) ==
  IF C = {} THEN "UNKNOWN"
  ELSE CHOOSE s \in {cs[w] : w \in C} : \A w \in C : Rank(s) >= Rank(cs[w])

(* getStatus().  The minimum over no client is UNKNOWN; a restart that     *)
(* still misses processes counts as RESTARTING.                            *)
LowestState(C, cs) ==
  IF C = {} THEN "UNKNOWN"
  ELSE CHOOSE s \in {cs[w] : w \in C} : \A w \in C : Rank(s) <= Rank(cs[w])

\* Mutants: a restart does not wait for the processes still missing; it
\* waits for one more than there are.
MinimumStateMutant(C, cs) == LowestState(C, cs)
MinimumStateOffByOneMutant(C, cs) ==
  IF LowestState(C, cs) = "CHECKPOINTED" /\ isRestarting
     /\ Cardinality(C) <= numPeers
  THEN "RESTARTING" ELSE LowestState(C, cs)

MinimumState(C, cs) ==
  IF LowestState(C, cs) = "CHECKPOINTED" /\ isRestarting
     /\ Cardinality(C) < numPeers
  THEN "RESTARTING" ELSE LowestState(C, cs)

Unanimous(C, cs) == \A v, w \in C : cs[v] = cs[w]

\* Mutant: resume as soon as one client has refilled.
BarrierMessageMutant(old, new) ==
  CASE old = "RUNNING" /\ new = "SUSPENDED" -> "DO_FD_LEADER_ELECTION"
    [] old = "SUSPENDED" /\ new = "FD_LEADER_ELECTION" -> "DO_DRAIN"
    [] old = "FD_LEADER_ELECTION" /\ new = "DRAINED" -> "DO_CHECKPOINT"
    [] old \in {"DRAINED", "RESTARTING"} /\ new = "CHECKPOINTED" ->
         "DO_REGISTER_NAME_SERVICE_DATA"
    [] old = "CHECKPOINTED" /\ new = "NAME_SERVICE_DATA_REGISTERED" ->
         "DO_SEND_QUERIES"
    [] old = "NAME_SERVICE_DATA_REGISTERED" /\ new = "DONE_QUERYING" ->
         "DO_REFILL"
    [] old = "DONE_QUERYING" /\ new \in {"DONE_QUERYING", "REFILLED"} -> "DO_RESUME"
    [] OTHER -> "none"

\* What updateMinimumState broadcasts when one client leaves state old and
\* the minimum becomes new.
BarrierMessage(old, new) ==
  CASE old = "RUNNING" /\ new = "SUSPENDED" -> "DO_FD_LEADER_ELECTION"
    [] old = "SUSPENDED" /\ new = "FD_LEADER_ELECTION" -> "DO_DRAIN"
    [] old = "FD_LEADER_ELECTION" /\ new = "DRAINED" -> "DO_CHECKPOINT"
    [] old \in {"DRAINED", "RESTARTING"} /\ new = "CHECKPOINTED" ->
         "DO_REGISTER_NAME_SERVICE_DATA"
    [] old = "CHECKPOINTED" /\ new = "NAME_SERVICE_DATA_REGISTERED" ->
         "DO_SEND_QUERIES"
    [] old = "NAME_SERVICE_DATA_REGISTERED" /\ new = "DONE_QUERYING" ->
         "DO_REFILL"
    [] old = "DONE_QUERYING" /\ new = "REFILLED" -> "DO_RESUME"
    [] OTHER -> "none"

\* Mutant: broadcasts whether or not a message is due.
UpdateMinimumStateMutant(old, C, cs) ==
  /\ toWorker' = Post(toWorker, C, Plain(BarrierMessage(old, MinimumState(C, cs))))
  /\ UNCHANGED <<suspendSent, script, restartFilenames, lookup, isRestarting,
                 blockUntilDone, blockRemote>>

\* The script names the files that were reported, and their record is emptied.
WriteRestartScript == script' = restartFilenames /\ restartFilenames' = {}

\* The effects of updateMinimumState(old) once the clients are C in states cs.
UpdateMinimumState(old, C, cs) ==
  LET new == MinimumState(C, cs)
      t == BarrierMessage(old, new)
      msg == IF t = "DO_FD_LEADER_ELECTION" THEN DoElection(compId, C)
                                            ELSE Plain(t)
  IN /\ toWorker' = IF t = "none" THEN toWorker ELSE Post(toWorker, C, msg)
     /\ suspendSent' = (suspendSent /\ t # "DO_FD_LEADER_ELECTION")
     /\ IF old = "DRAINED" /\ new = "CHECKPOINTED"
        THEN WriteRestartScript ELSE UNCHANGED <<script, restartFilenames>>
     /\ lookup' = IF t = "DO_REGISTER_NAME_SERVICE_DATA" THEN {} ELSE lookup
     /\ isRestarting' = (isRestarting /\ t # "DO_RESUME")
     /\ blockUntilDone' = (blockUntilDone /\ t # "DO_RESUME")
     /\ blockRemote' = (blockRemote /\ ~(t = "DO_RESUME" /\ blockUntilDone))

-----------------------------------------------------------------------------
(* initializeComputation(), which onConnect calls when no client is left:  *)
(* the values the rest of onConnect sees.                                  *)
Idle == clients = {}
KillNow == killInProgress /\ ~Idle
SuspendNow == suspendSent /\ ~Idle
CompNow == IF Idle THEN Nobody ELSE compId
GenNow == IF Idle THEN 0 ELSE generation
PeersNow == IF Idle THEN -1 ELSE numPeers

InitializeComputation ==
  /\ suspendSent' = SuspendNow
  /\ killInProgress' = KillNow
  /\ compId' = CompNow
  /\ generation' = GenNow
  /\ numPeers' = PeersNow

\* onConnect ends without a new client: reply and close the socket.
Refuse(w, t) ==
  /\ InitializeComputation
  /\ toWorker' = Post(toWorker, {w}, Plain(t))
  /\ UNCHANGED <<coord, clients, cstate, isRestarting>>

\* onConnect ends in addDataSocket.
AddDataSocket(w, state) ==
  /\ clients' = clients \cup {w}
  /\ cstate' = [cstate EXCEPT ![w] = state]

\* A JASSERT of the coordinator fails.
Abort ==
  /\ coord' = "aborted"
  /\ UNCHANGED <<clients, cstate, isRestarting, suspendSent, killInProgress,
                 compId, generation, numPeers, toWorker>>

(* validateRestartingWorkerProcess *)
ConnectRestarting(w, hello) ==
  IF CompNow = Nobody THEN
    IF MinimumState(clients, cstate) # "UNKNOWN" THEN Abort
    ELSE /\ AddDataSocket(w, "RESTARTING")
         /\ compId' = hello.comp
         /\ generation' = hello.gen
         /\ numPeers' = Cardinality(hello.cohort)
         /\ suspendSent' = SuspendNow
         /\ killInProgress' = KillNow
         /\ isRestarting' = TRUE
         /\ toWorker' = Post(toWorker, {w}, HelloWorker(CompNow, GenNow))
         /\ UNCHANGED coord
  ELSE IF \/ MinimumState(clients, cstate) \notin {"RESTARTING", "CHECKPOINTED"}
          \/ hello.comp # compId
  THEN Refuse(w, "REJECT")
  ELSE /\ AddDataSocket(w, "RESTARTING")
       /\ isRestarting' = TRUE
       /\ toWorker' = Post(toWorker, {w}, HelloWorker(compId, generation))
       /\ InitializeComputation
       /\ UNCHANGED coord

(* validateNewWorkerProcess *)
ConnectNew(w, hello) ==
  LET min == MinimumState(clients, cstate) IN
  IF SuspendNow THEN
    IF min = "SUSPENDED" THEN Abort
    ELSE /\ AddDataSocket(w, hello.state)
         /\ toWorker' = Post(Post(toWorker, {w}, HelloWorker(compId, generation)),
                             {w}, DoSuspend(compId, generation))
         /\ InitializeComputation
         /\ UNCHANGED <<coord, isRestarting>>
  ELSE IF \/ ~Idle /\ min \notin {"RUNNING", "UNKNOWN"}
          \/ hello.comp # Nobody
  THEN Refuse(w, "REJECT")
  ELSE LET first == CompNow = Nobody
           comp == IF first THEN w ELSE compId
           gen == IF first THEN 0 ELSE generation
       IN /\ AddDataSocket(w, hello.state)
          /\ compId' = comp
          /\ generation' = gen
          /\ numPeers' = IF first THEN -1 ELSE PeersNow
          /\ suspendSent' = SuspendNow
          /\ killInProgress' = KillNow
          /\ toWorker' = Post(toWorker, {w}, HelloWorker(comp, gen))
          /\ UNCHANGED <<coord, isRestarting>>

\* Mutant: connections are accepted while a kill is in progress.
OnConnectMutant(w) ==
  /\ coord = "up"
  /\ w \in backlog /\ toCoord[w] # <<>>
  /\ backlog' = backlog \ {w}
  /\ toCoord' = [toCoord EXCEPT ![w] = Tail(@)]
  /\ LET hello == Head(toCoord[w]) IN
       IF hello.state = "RESTARTING" THEN ConnectRestarting(w, hello)
       ELSE ConnectNew(w, hello)
  /\ UNCHANGED <<blockUntilDone, blockRemote, restartFilenames, lookup,
                 workerVars, diskVars, envVars>>

OnConnect(w) ==
  /\ coord = "up"
  /\ w \in backlog /\ toCoord[w] # <<>>
  /\ backlog' = backlog \ {w}
  /\ toCoord' = [toCoord EXCEPT ![w] = Tail(@)]
  /\ LET hello == Head(toCoord[w]) IN
       IF KillNow THEN Refuse(w, "KILL_PEER")
       ELSE IF hello.state = "RESTARTING" THEN ConnectRestarting(w, hello)
       ELSE ConnectNew(w, hello)
  /\ UNCHANGED <<blockUntilDone, blockRemote, restartFilenames, lookup,
                 workerVars, diskVars, envVars>>

-----------------------------------------------------------------------------
(* onData, one action per message type. *)

Readable(w) == coord = "up" /\ w \in clients /\ toCoord[w] # <<>>
Arrives(w, t) ==
  /\ Readable(w) /\ Head(toCoord[w]).type = t
  /\ toCoord' = [toCoord EXCEPT ![w] = Tail(@)]

OnOk(w) ==
  /\ Arrives(w, "OK")
  /\ cstate' = [cstate EXCEPT ![w] = Head(toCoord[w]).state]
  /\ UpdateMinimumState(cstate[w], clients, cstate')
  /\ UNCHANGED <<coord, backlog, clients, killInProgress, numPeers, compId,
                 generation, workerVars, images, restarting, envVars>>

OnCkptFilename(w) ==
  /\ Arrives(w, "CKPT_FILENAME")
  /\ restartFilenames' = restartFilenames \cup {Head(toCoord[w]).file}
  /\ UNCHANGED <<coord, backlog, clients, cstate, suspendSent, killInProgress,
                 isRestarting, numPeers, compId, generation, blockUntilDone,
                 blockRemote, lookup, workerVars, toWorker, diskVars, envVars>>

\* lookupService.registerData
OnRegister(w) ==
  /\ Arrives(w, "REGISTER_NAME_SERVICE_DATA")
  /\ lookup' = lookup \cup {w}
  /\ UNCHANGED <<coord, backlog, clients, cstate, suspendSent, killInProgress,
                 isRestarting, numPeers, compId, generation, blockUntilDone,
                 blockRemote, restartFilenames, workerVars, toWorker,
                 diskVars, envVars>>

\* lookupService.respondToQuery, which asserts that the key is there.
OnQuery(w) ==
  /\ Arrives(w, "NAME_SERVICE_QUERY")
  /\ IF Head(toCoord[w]).key \in lookup
     THEN /\ toWorker' = Post(toWorker, {w}, Plain("NAME_SERVICE_QUERY_RESPONSE"))
          /\ UNCHANGED coord
     ELSE coord' = "aborted" /\ UNCHANGED toWorker
  /\ UNCHANGED <<backlog, clients, cstate, suspendSent, killInProgress,
                 isRestarting, numPeers, compId, generation, blockUntilDone,
                 blockRemote, restartFilenames, lookup, workerVars,
                 diskVars, envVars>>

\* Mutant: a disconnection is not counted as progress of the barrier.
OnDisconnectMutant(w) ==
  /\ coord = "up"
  /\ w \in clients /\ Dead(w) /\ toCoord[w] = <<>>
  /\ clients' = clients \ {w}
  /\ coord' = IF clients' = {} /\ ExitOnLast THEN "exited" ELSE coord
  /\ UNCHANGED <<killInProgress, suspendSent, isRestarting, blockUntilDone,
                 blockRemote, restartFilenames, lookup, toWorker, script,
                 backlog, cstate, numPeers, compId, generation, workerVars,
                 toCoord, images, restarting, envVars>>

\* monitorSockets removes a client whose socket reached its end, and calls
\* onDisconnect.
OnDisconnect(w) ==
  /\ coord = "up"
  /\ w \in clients /\ Dead(w) /\ toCoord[w] = <<>>
  /\ clients' = clients \ {w}
  /\ IF clients' = {}
     THEN /\ coord' = IF ExitOnLast THEN "exited" ELSE coord
          /\ killInProgress' = ExitOnLast
          /\ UNCHANGED <<suspendSent, isRestarting, blockUntilDone, blockRemote,
                         restartFilenames, lookup, toWorker, script>>
     ELSE /\ UpdateMinimumState(cstate[w], clients', cstate)
          /\ UNCHANGED <<coord, killInProgress>>
  /\ UNCHANGED <<backlog, cstate, numPeers, compId, generation, workerVars,
                 toCoord, images, restarting, envVars>>

-----------------------------------------------------------------------------
(* Checkpoint requests and user commands. *)

\* Mutant: a second request is accepted before the first has suspended anyone.
CanCheckpointMutant ==
  MinimumState(clients, cstate) = "RUNNING" /\ Unanimous(clients, cstate)

CanCheckpoint ==
  /\ MinimumState(clients, cstate) = "RUNNING" /\ Unanimous(clients, cstate)
  /\ ~suspendSent

\* Mutant: the suspend message is built before the generation is incremented.
StartCheckpointMutant ==
  /\ CanCheckpoint
  /\ generation < MaxGeneration
  /\ restartFilenames' = {}
  /\ generation' = generation + 1
  /\ toWorker' = Post(toWorker, clients, DoSuspend(compId, generation))
  /\ suspendSent' = TRUE

\* startCheckpoint() once it accepts.
StartCheckpoint ==
  /\ CanCheckpoint
  /\ generation < MaxGeneration
  /\ restartFilenames' = {}
  /\ generation' = generation + 1
  /\ toWorker' = Post(toWorker, clients, DoSuspend(compId, generation'))
  /\ suspendSent' = TRUE

\* onTimeoutInterval, or 'c' typed at the coordinator's console.
OnTimeoutInterval ==
  /\ coord = "up"
  /\ StartCheckpoint
  /\ UNCHANGED <<coord, backlog, clients, cstate, killInProgress, isRestarting,
                 numPeers, compId, blockUntilDone, blockRemote, lookup,
                 workerVars, toCoord, diskVars, envVars>>

\* A dmtcp_command connects: onConnect, then processDmtUserCmd.
UserCommand(c) ==
  /\ coord = "up" /\ c \in Commands
  /\ commands < MaxCommand
  /\ commands' = commands + 1

\* 'b': the prefix of a blocking checkpoint.
CommandBlock ==
  /\ UserCommand("b")
  /\ InitializeComputation
  /\ blockUntilDone' = TRUE
  /\ UNCHANGED <<coord, backlog, clients, cstate, isRestarting, blockRemote,
                 restartFilenames, lookup, workerVars, netVars, diskVars,
                 crashes, restarts>>

\* 'c': after a 'b' the reply is withheld, whatever startCheckpoint returns.
CommandCheckpoint ==
  /\ UserCommand("c")
  /\ blockRemote' = (blockRemote \/ blockUntilDone)
  /\ IF CanCheckpoint
     THEN /\ StartCheckpoint
          /\ UNCHANGED <<compId, numPeers, killInProgress>>
     ELSE /\ InitializeComputation
          /\ UNCHANGED <<restartFilenames, toWorker>>
  /\ UNCHANGED <<coord, backlog, clients, cstate, isRestarting, blockUntilDone,
                 lookup, workerVars, toCoord, diskVars, crashes, restarts>>

\* 'k' and 'f' broadcast to every client.
CommandKill ==
  /\ UserCommand("k")
  /\ killInProgress' = TRUE
  /\ suspendSent' = SuspendNow /\ compId' = CompNow
  /\ generation' = GenNow /\ numPeers' = PeersNow
  /\ toWorker' = Post(toWorker, clients, Plain("KILL_PEER"))
  /\ UNCHANGED <<coord, backlog, clients, cstate, isRestarting, blockUntilDone,
                 blockRemote, restartFilenames, lookup, workerVars, toCoord,
                 diskVars, crashes, restarts>>

CommandForce ==
  /\ UserCommand("f")
  /\ InitializeComputation
  /\ toWorker' = Post(toWorker, clients, Plain("FORCE_RESTART"))
  /\ UNCHANGED <<coord, backlog, clients, cstate, isRestarting, blockUntilDone,
                 blockRemote, restartFilenames, lookup, workerVars, toCoord,
                 diskVars, crashes, restarts>>

\* 'q': kill everyone, flush, close every socket and exit.
CommandQuit ==
  /\ UserCommand("q")
  /\ coord' = "exited"
  /\ killInProgress' = TRUE
  /\ suspendSent' = SuspendNow /\ compId' = CompNow
  /\ generation' = GenNow /\ numPeers' = PeersNow
  /\ toWorker' = Post(toWorker, clients, Plain("KILL_PEER"))
  /\ UNCHANGED <<backlog, clients, cstate, isRestarting, blockUntilDone,
                 blockRemote, restartFilenames, lookup, workerVars, toCoord,
                 diskVars, crashes, restarts>>

CoordinatorStep(w) ==
  \/ OnConnect(w) \/ OnDisconnect(w)
  \/ OnOk(w) \/ OnCkptFilename(w) \/ OnRegister(w) \/ OnQuery(w)

UserStep ==
  \/ OnTimeoutInterval
  \/ CommandBlock \/ CommandCheckpoint
  \/ CommandKill \/ CommandForce \/ CommandQuit
=============================================================================
