---------------------------- MODULE DmtcpWorker ----------------------------
(***************************************************************************)
(* A DMTCP worker process: its checkpoint thread (dmtcpworker.cpp, driven  *)
(* by the callbacks of mtcpinterface.cpp), the handshakes of               *)
(* coordinatorapi.cpp, fork() of execwrappers.cpp, and its restoration     *)
(* from an image by dmtcp_restart.                                         *)
(***************************************************************************)
EXTENDS DmtcpState

Send(w, msgs) == toCoord' = [toCoord EXCEPT ![w] = @ \o msgs]
Move(w, p) == pc' = [pc EXCEPT ![w] = p]
Consume(w) == toWorker' = [toWorker EXCEPT ![w] = Tail(@)]

Receives(w) == toWorker[w] # <<>>
Received(w) == Head(toWorker[w])

Children(w) == {c \in Worker : parent[c] = w}

\* w ends, and with it the connection it made for a child not yet forked.
Die(w, p) ==
  LET gone == {w} \cup Children(w) IN
  /\ pc' = [v \in Worker |-> IF v \in gone THEN p ELSE pc[v]]
  /\ parent' = [v \in Worker |-> IF v \in gone THEN Nobody ELSE parent[v]]
  /\ toWorker' = [v \in Worker |-> IF v \in gone THEN <<>> ELSE toWorker[v]]
  /\ unannounced' = unannounced \ gone

identityVars == <<wComp, wGen, wCohort, fromImage>>

-----------------------------------------------------------------------------
(* Starting: dmtcp_checkpoint runs a program, whose DmtcpWorker            *)
(* constructor connects before main().                                     *)

Connect(w, hello) ==
  /\ coord = "up"
  /\ backlog' = backlog \cup {w}
  /\ toCoord' = [toCoord EXCEPT ![w] = <<hello>>]

Launch(w) ==
  /\ w \in Launchable /\ pc[w] = "unborn"
  /\ Connect(w, Hello("UNKNOWN", Nobody, 0, {}))
  /\ Move(w, "hello")
  /\ UNCHANGED <<coord, unannounced, parent, identityVars, toWorker>>

\* Mutant: the image is named by the generation in the handshake.
HandshakeMutant(w) ==
  /\ pc[w] = "hello" /\ parent[w] = Nobody
  /\ Receives(w) /\ Received(w).type = "HELLO_WORKER"
  /\ Consume(w)
  /\ IF wComp[w] = Nobody
     THEN /\ wComp' = [wComp EXCEPT ![w] = Received(w).comp]
          /\ wGen' = [wGen EXCEPT ![w] = Received(w).gen]
     ELSE UNCHANGED <<wComp, wGen>>
  /\ IF fromImage[w] = 0
     THEN /\ Move(w, "run")
          /\ unannounced' = unannounced \cup {w}
          /\ UNCHANGED toCoord
     ELSE /\ Move(w, "written")
          /\ Send(w, <<CkptFilename(NameOf(w, Received(w).gen)), Ok("CHECKPOINTED")>>)
          /\ UNCHANGED unannounced
  /\ UNCHANGED <<coord, backlog, parent, wCohort, fromImage>>

\* recvCoordinatorHandshake.  A new process then starts its checkpoint
\* thread, a restarting one (postRestart) reports its image and waits.
Handshake(w) ==
  /\ pc[w] = "hello" /\ parent[w] = Nobody
  /\ Receives(w) /\ Received(w).type = "HELLO_WORKER"
  /\ Consume(w)
  /\ IF wComp[w] = Nobody
     THEN /\ wComp' = [wComp EXCEPT ![w] = Received(w).comp]
          /\ wGen' = [wGen EXCEPT ![w] = Received(w).gen]
     ELSE UNCHANGED <<wComp, wGen>>
  /\ IF fromImage[w] = 0
     THEN /\ Move(w, "run")
          /\ unannounced' = unannounced \cup {w}
          /\ UNCHANGED toCoord
     ELSE /\ Move(w, "written")
          /\ Send(w, <<CkptFilename(NameOf(w, fromImage[w])), Ok("CHECKPOINTED")>>)
          /\ UNCHANGED unannounced
  /\ UNCHANGED <<coord, backlog, parent, wCohort, fromImage>>

\* The coordinator answered REJECT (a JASSERT of the worker) or KILL_PEER.
\* For a connection made before fork() it is the parent that reads it.
TurnedAway(w) ==
  /\ pc[w] = "hello"
  /\ Receives(w) /\ Received(w).type \in {"REJECT", "KILL_PEER"}
  /\ Die(IF parent[w] = Nobody THEN w ELSE parent[w], "dead")
  /\ UNCHANGED <<coord, backlog, identityVars, toCoord>>

\* The last line of the constructor, in the main thread.
InformCoordinatorOfRUNNINGState(w) ==
  /\ w \in unannounced /\ pc[w] \in {"run", "locking"}
  /\ unannounced' = unannounced \ {w}
  /\ Send(w, <<Ok("RUNNING")>>)
  /\ UNCHANGED <<coord, backlog, pc, parent, identityVars, toWorker>>

-----------------------------------------------------------------------------
(* fork().  The parent holds the wrapper-execution lock exclusively from   *)
(* createNewConnectionBeforeFork until the child exists, so its checkpoint *)
(* thread cannot suspend it in between.                                    *)

Forking(w) == Children(w) # {}

BeginFork(p, c) ==
  /\ pc[p] \in {"run", "locking"} /\ p \notin unannounced /\ ~Forking(p)
  /\ c \notin Launchable /\ pc[c] = "unborn"
  /\ Connect(c, Hello("RUNNING", Nobody, 0, {}))
  /\ Move(c, "hello")
  /\ parent' = [parent EXCEPT ![c] = p]
  /\ UNCHANGED <<coord, unannounced, identityVars, toWorker>>

\* The parent has the reply: fork, or fail to and close the connection.
FinishFork(c) ==
  LET p == parent[c] IN
  /\ pc[c] = "hello" /\ p # Nobody
  /\ Receives(c) /\ Received(c).type = "HELLO_WORKER"
  /\ parent' = [parent EXCEPT ![c] = Nobody]
  /\ \/ /\ Move(c, "run")
        /\ Consume(c)
        /\ wComp' = [wComp EXCEPT ![c] = wComp[p]]
        /\ wGen' = [wGen EXCEPT ![c] = wGen[p]]
        /\ wCohort' = [wCohort EXCEPT ![c] = wCohort[p]]
     \/ /\ Move(c, "dead")
        /\ toWorker' = [toWorker EXCEPT ![c] = <<>>]
        /\ UNCHANGED <<wComp, wGen, wCohort>>
  /\ UNCHANGED <<coord, backlog, unannounced, fromImage, toCoord>>

-----------------------------------------------------------------------------
(* waitForStage1Suspend *)

WaitForStage1Suspend(w) ==
  /\ pc[w] = "run" /\ Receives(w)
  /\ CASE Received(w).type = "DO_SUSPEND" ->
            /\ Move(w, "locking")
            /\ Consume(w)
            /\ wComp' = [wComp EXCEPT ![w] = Received(w).comp]
            /\ wGen' = [wGen EXCEPT ![w] = Received(w).gen]
            /\ UNCHANGED <<parent, unannounced>>
       [] Received(w).type = "KILL_PEER" ->
            Die(w, "dead") /\ UNCHANGED <<wComp, wGen>>
       [] OTHER -> Die(w, "abort") /\ UNCHANGED <<wComp, wGen>>
  /\ UNCHANGED <<coord, backlog, wCohort, fromImage, toCoord>>

\* acquireLocks returned: no wrapper is executing; mtcp suspends the user
\* threads and waitForStage2Checkpoint reports it.
Suspend(w) ==
  /\ pc[w] = "locking" /\ ~Forking(w)
  /\ Move(w, "suspended")
  /\ Send(w, <<Ok("SUSPENDED")>>)
  /\ UNCHANGED <<coord, backlog, unannounced, parent, identityVars, toWorker>>

\* waitForCoordinatorMsg, at each of the barriers.
Expected(w, m) ==
  /\ m.type = Awaited(pc[w])
  /\ pc[w] = "suspended" => m.comp = wComp[w]

Skipped(w, m) ==
  m.type = "FORCE_RESTART" /\ pc[w] \in {"written", "registered", "queried"}

WaitForCoordinatorMsg(w) ==
  LET m == Received(w) IN
  /\ pc[w] \in WaitPoint /\ Receives(w)
  /\ \/ /\ Expected(w, m)
        /\ Move(w, WorkAfter(pc[w]))
        /\ wCohort' = IF pc[w] = "suspended"
                      THEN [wCohort EXCEPT ![w] = m.cohort] ELSE wCohort
        /\ Consume(w)
        /\ UNCHANGED <<parent, unannounced>>
     \/ /\ Skipped(w, m)
        /\ Consume(w)
        /\ UNCHANGED <<pc, parent, unannounced, wCohort>>
     \/ /\ m.type = "KILL_PEER"
        /\ Die(w, "dead")
        /\ UNCHANGED wCohort
     \/ /\ ~Expected(w, m) /\ ~Skipped(w, m) /\ m.type # "KILL_PEER"
        /\ Die(w, "abort")
        /\ UNCHANGED wCohort
  /\ UNCHANGED <<coord, backlog, wComp, wGen, fromImage, toCoord>>

\* The stages that end in nothing but the next report.
FinishStage(w) ==
  /\ \/ /\ pc[w] = "electing" /\ Move(w, "elected")
        /\ Send(w, <<Ok("FD_LEADER_ELECTION")>>)
     \/ /\ pc[w] = "draining" /\ Move(w, "drained")
        /\ Send(w, <<Ok("DRAINED")>>)
     \/ /\ pc[w] = "refilling" /\ Move(w, "refilled")
        /\ Send(w, <<Ok("REFILLED")>>)
  /\ UNCHANGED <<coord, backlog, unannounced, parent, identityVars, toWorker>>

\* Mutant: CHECKPOINTED is reported before the file name.
WriteImageMutant(w) ==
  /\ pc[w] = "writing" /\ Move(w, "written")
  /\ LET file == NameOf(w, wGen[w]) IN
       images' = [f \in DOMAIN images \cup {file} |->
                    IF f = file
                    THEN [gen |-> wGen[w], comp |-> wComp[w], cohort |-> wCohort[w]]
                    ELSE images[f]]
  /\ Send(w, <<Ok("CHECKPOINTED"), CkptFilename(NameOf(w, wGen[w]))>>)
  /\ UNCHANGED <<coord, backlog, unannounced, parent, identityVars, toWorker>>

\* mtcp writes the image; callbackPostCheckpoint reports it.
WriteImage(w) ==
  /\ pc[w] = "writing" /\ Move(w, "written")
  /\ LET file == NameOf(w, wGen[w]) IN
       images' = [f \in DOMAIN images \cup {file} |->
                    IF f = file
                    THEN [gen |-> wGen[w], comp |-> wComp[w], cohort |-> wCohort[w]]
                    ELSE images[f]]
  /\ Send(w, <<CkptFilename(NameOf(w, wGen[w])), Ok("CHECKPOINTED")>>)
  /\ UNCHANGED <<coord, backlog, unannounced, parent, identityVars, toWorker>>

\* Mutant: the barrier is reported before the data is sent.
RegisterNSDataMutant(w) ==
  /\ pc[w] = "registering" /\ Move(w, "registered")
  /\ Send(w, <<Ok("NAME_SERVICE_DATA_REGISTERED")>>
             \o (IF fromImage[w] = 0 THEN <<>> ELSE <<RegisterData>>))
  /\ UNCHANGED <<coord, backlog, unannounced, parent, identityVars, toWorker>>

\* Only a restarted process has addresses to publish and to ask for.
RegisterNSData(w) ==
  /\ pc[w] = "registering" /\ Move(w, "registered")
  /\ Send(w, (IF fromImage[w] = 0 THEN <<>> ELSE <<RegisterData>>)
             \o <<Ok("NAME_SERVICE_DATA_REGISTERED")>>)
  /\ UNCHANGED <<coord, backlog, unannounced, parent, identityVars, toWorker>>

SendQueries(w) ==
  /\ pc[w] = "querying"
  /\ \/ /\ Move(w, "queried")
        /\ Send(w, <<Ok("DONE_QUERYING")>>)
     \/ /\ fromImage[w] # 0
        /\ \E k \in wCohort[w] \ {w} : Send(w, <<Query(k)>>)
        /\ Move(w, "asking")
  /\ UNCHANGED <<coord, backlog, unannounced, parent, identityVars, toWorker>>

\* sendQueryToCoordinator reads the next message, and asserts it is the answer.
QueryAnswered(w) ==
  /\ pc[w] = "asking" /\ Receives(w)
  /\ IF Received(w).type = "NAME_SERVICE_QUERY_RESPONSE"
     THEN /\ Move(w, "queried")
          /\ Consume(w)
          /\ Send(w, <<Ok("DONE_QUERYING")>>)
          /\ UNCHANGED <<parent, unannounced>>
     ELSE Die(w, "abort") /\ UNCHANGED toCoord
  /\ UNCHANGED <<coord, backlog, identityVars>>

\* DO_RESUME received: back to RUNNING, then the user threads are released.
Resume(w) ==
  /\ pc[w] = "resuming" /\ Move(w, "run")
  /\ Send(w, <<Ok("RUNNING")>>)
  /\ fromImage' = [fromImage EXCEPT ![w] = 0]
  /\ UNCHANGED <<coord, backlog, unannounced, parent, wComp, wGen, wCohort,
                 toWorker>>

-----------------------------------------------------------------------------
(* Ends.  exit() runs in user code; a crash may come anywhere.             *)

Exit(w) ==
  /\ pc[w] \in {"run", "locking"}
  /\ Die(w, "dead")
  /\ UNCHANGED <<coord, backlog, identityVars, toCoord>>

Crash(w) ==
  /\ Alive(w) /\ parent[w] = Nobody
  /\ crashes < MaxCrash
  /\ crashes' = crashes + 1
  /\ Die(w, "dead")
  /\ UNCHANGED <<coord, backlog, identityVars, toCoord>>

\* The coordinator's end is closed: the next read returns no valid message.
CoordinatorLost(w) ==
  /\ coord # "up"
  /\ pc[w] \in {"hello", "run", "asking"} \cup WaitPoint
  /\ toWorker[w] = <<>>
  /\ Die(IF parent[w] = Nobody THEN w ELSE parent[w], "dead")
  /\ UNCHANGED <<coord, backlog, identityVars, toCoord>>

-----------------------------------------------------------------------------
(* dmtcp_restart_script.sh: dmtcp_restart recreates the process of every   *)
(* image the script names; each connects as RESTARTING.                    *)

\* Assumed of the user: it is run once no process of the computation is left
\* (the coordinator may not have noticed yet).
RunScript ==
  /\ \A w \in Worker : ~Alive(w)
  /\ script # {} /\ restarting = {} /\ restarts < MaxRestart
  /\ restarts' = restarts + 1
  /\ restarting' = script
  /\ UNCHANGED <<coordVars, workerVars, netVars, images, script, commands,
                 crashes>>

RestartProcess(f) ==
  LET w == f[1]
      image == images[f]
  IN /\ f \in restarting /\ Gone(w)
     /\ restarting' = restarting \ {f}
     /\ Connect(w, Hello("RESTARTING", image.comp, image.gen, image.cohort))
     /\ Move(w, "hello")
     /\ wComp' = [wComp EXCEPT ![w] = image.comp]
     /\ wGen' = [wGen EXCEPT ![w] = image.gen]
     /\ wCohort' = [wCohort EXCEPT ![w] = image.cohort]
     /\ fromImage' = [fromImage EXCEPT ![w] = image.gen]
     /\ toWorker' = [toWorker EXCEPT ![w] = <<>>]
     /\ UNCHANGED <<coord, unannounced, parent, images, script>>

-----------------------------------------------------------------------------
\* What no step of a worker changes.
CoordinatorKept ==
  UNCHANGED <<clients, cstate, suspendSent, killInProgress, isRestarting,
              numPeers, compId, generation, blockUntilDone, blockRemote,
              restartFilenames, lookup>>

\* The checkpoint thread of w; before main() it is the main thread's
\* constructor that waits for the handshake.
CkptThreadStep(w) ==
  /\ \/ /\ \/ Handshake(w) \/ TurnedAway(w)
           \/ WaitForStage1Suspend(w) \/ Suspend(w)
           \/ WaitForCoordinatorMsg(w) \/ FinishStage(w) \/ RegisterNSData(w)
           \/ SendQueries(w) \/ QueryAnswered(w) \/ Resume(w)
           \/ CoordinatorLost(w)
        /\ UNCHANGED images
     \/ WriteImage(w)
  /\ CoordinatorKept
  /\ UNCHANGED <<script, restarting, envVars>>

\* User threads that are inside the library; FinishFork is named for the child.
MainThreadStep(w) ==
  /\ InformCoordinatorOfRUNNINGState(w) \/ FinishFork(w)
  /\ CoordinatorKept
  /\ UNCHANGED <<diskVars, envVars>>

WorkerStep(w) == CkptThreadStep(w) \/ MainThreadStep(w)

UserProcessStep(w) ==
  /\ \/ (Launch(w) \/ Exit(w) \/ \E c \in Worker : BeginFork(w, c))
        /\ UNCHANGED crashes
     \/ Crash(w)
  /\ CoordinatorKept
  /\ UNCHANGED <<diskVars, commands, restarts>>

RestartStep(f) ==
  /\ RestartProcess(f)
  /\ CoordinatorKept
  /\ UNCHANGED envVars
=============================================================================
