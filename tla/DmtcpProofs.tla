----------------------------- MODULE DmtcpProofs -----------------------------
(***************************************************************************)
(* Spec => []TypeOK and Spec => []ScriptImagesExist, for every set of      *)
(* workers and every bound, by the inductive invariant DiskInv.            *)
(***************************************************************************)
EXTENDS Dmtcp, FiniteSetTheorems, TLAPS

-----------------------------------------------------------------------------
(* The messages. *)

\* What the receiver of a message may read from it: the fields of its type.
LEMMA HelloFields ==
  ASSUME NEW m \in ToCoordMsg, m.type = "HELLO_COORDINATOR"
  PROVE  /\ m.state \in {"UNKNOWN", "RUNNING", "RESTARTING"}
         /\ m.comp \in Group /\ m.gen \in Generation /\ m.cohort \subseteq Worker
BY DEF ToCoordMsg

\* What onData may read from a report or from a file name.
LEMMA ReportFields ==
  ASSUME NEW m \in ToCoordMsg
  PROVE  /\ m.type = "OK" => m.state \in WorkerState
         /\ m.type = "CKPT_FILENAME" => m.file \in FileName
BY DEF ToCoordMsg

\* What a worker may read from the coordinator's messages.
LEMMA OrderFields ==
  ASSUME NEW m \in ToWorkerMsg
  PROVE  /\ m.type \in {"HELLO_WORKER", "DO_SUSPEND"}
            => m.comp \in Group /\ m.gen \in Generation
         /\ m.type = "DO_FD_LEADER_ELECTION" => m.cohort \subseteq Worker
BY DEF ToWorkerMsg, PlainType

\* What workers send is a message to the coordinator.
LEMMA ReportTypes ==
  /\ \A s \in {"UNKNOWN", "RUNNING", "RESTARTING"}, c \in Group, g \in Generation,
        C \in SUBSET Worker : Hello(s, c, g, C) \in ToCoordMsg
  /\ \A s \in WorkerState : Ok(s) \in ToCoordMsg
  /\ \A f \in FileName : CkptFilename(f) \in ToCoordMsg
  /\ RegisterData \in ToCoordMsg
  /\ \A k \in Worker : Query(k) \in ToCoordMsg
BY DEF ToCoordMsg, Hello, Ok, CkptFilename, RegisterData, Query

\* What the coordinator sends is a message to a worker.
LEMMA OrderTypes ==
  /\ \A c \in Group, g \in Generation :
       HelloWorker(c, g) \in ToWorkerMsg /\ DoSuspend(c, g) \in ToWorkerMsg
  /\ \A c \in Group, C \in SUBSET Worker : DoElection(c, C) \in ToWorkerMsg
  /\ \A t \in PlainType : Plain(t) \in ToWorkerMsg
BY DEF ToWorkerMsg, HelloWorker, DoSuspend, DoElection, Plain

\* Writing to a set of sockets keeps the channels well typed.
LEMMA PostType ==
  ASSUME NEW chan \in [Worker -> Seq(ToWorkerMsg)], NEW W, NEW m \in ToWorkerMsg
  PROVE  Post(chan, W, m) \in [Worker -> Seq(ToWorkerMsg)]
BY DEF Post

\* A checkpoint file is named after the process that wrote it.
LEMMA FileNameType ==
  ASSUME NEW w \in Worker, NEW g \in Generation
  PROVE  NameOf(w, g) \in FileName /\ NameOf(w, g)[1] = w
BY BoundAssumption DEF NameOf, FileName, Generation

\* numPeers is a number: a computation has finitely many processes.
LEMMA CohortSize ==
  ASSUME NEW C \in SUBSET Worker
  PROVE  Cardinality(C) \in Int
BY WorkerAssumption, FS_Subset, FS_CardinalityType

\* A broadcast of updateMinimumState changes only what it should, within types.
LEMMA UpdateType ==
  ASSUME NetTypeOK, CoordTypeOK, DiskTypeOK,
         NEW old, NEW C \in SUBSET Worker, NEW cs,
         UpdateMinimumState(old, C, cs)
  PROVE  /\ toWorker' \in [Worker -> Seq(ToWorkerMsg)]
         /\ suspendSent' \in BOOLEAN /\ isRestarting' \in BOOLEAN
         /\ blockUntilDone' \in BOOLEAN /\ blockRemote' \in BOOLEAN
         /\ restartFilenames' \subseteq restartFilenames
         /\ script' \subseteq script \cup restartFilenames
         /\ lookup' \subseteq Worker
<1> DEFINE t == BarrierMessage(old, MinimumState(C, cs))
<1>1. t = "none" \/ t = "DO_FD_LEADER_ELECTION" \/ t \in PlainType
  BY DEF BarrierMessage, PlainType
<1>2. toWorker' \in [Worker -> Seq(ToWorkerMsg)]
  <2>1. CASE t = "none"
    BY <2>1 DEF UpdateMinimumState, WriteRestartScript, NetTypeOK
  <2>2. CASE t = "DO_FD_LEADER_ELECTION"
    <3>1. DoElection(compId, C) \in ToWorkerMsg
      BY OrderTypes DEF CoordTypeOK
    <3>2. toWorker' = Post(toWorker, C, DoElection(compId, C))
      BY <2>2 DEF UpdateMinimumState, WriteRestartScript
    <3> QED BY <3>1, <3>2, PostType DEF NetTypeOK
  <2>3. CASE t \in PlainType
    <3>1. t # "none" /\ t # "DO_FD_LEADER_ELECTION"
      BY <2>3 DEF PlainType
    <3>2. toWorker' = Post(toWorker, C, Plain(t))
      BY <3>1 DEF UpdateMinimumState, WriteRestartScript
    <3> QED BY <2>3, <3>2, OrderTypes, PostType DEF NetTypeOK
  <2> QED BY <1>1, <2>1, <2>2, <2>3
<1>3. /\ suspendSent' \in BOOLEAN /\ isRestarting' \in BOOLEAN
      /\ blockUntilDone' \in BOOLEAN /\ blockRemote' \in BOOLEAN
  BY DEF UpdateMinimumState, WriteRestartScript, CoordTypeOK
<1>4. /\ restartFilenames' \subseteq restartFilenames
      /\ script' \subseteq script \cup restartFilenames
      /\ lookup' \subseteq Worker
  BY DEF UpdateMinimumState, WriteRestartScript, CoordTypeOK
<1> QED BY <1>2, <1>3, <1>4

-----------------------------------------------------------------------------
(* The channels to the coordinator. *)

\* The coordinator takes a message off a channel.
LEMMA TakeKeeps ==
  ASSUME DiskInv, NEW w \in Worker, toCoord[w] # <<>>,
         toCoord' = [toCoord EXCEPT ![w] = Tail(@)], images' = images
  PROVE  /\ toCoord' \in [Worker -> Seq(ToCoordMsg)]
         /\ FilesSent'
         /\ \A v \in Worker \ {w} : toCoord'[v] = toCoord[v]
         /\ Head(toCoord[w]) \in ToCoordMsg
         /\ Head(toCoord[w]).type = "CKPT_FILENAME"
              => Head(toCoord[w]).file \in DOMAIN images
<1>1. toCoord \in [Worker -> Seq(ToCoordMsg)]
  BY DEF DiskInv, TypeOK, NetTypeOK
<1>2. /\ Tail(toCoord[w]) \in Seq(ToCoordMsg)
      /\ Len(Tail(toCoord[w])) = Len(toCoord[w]) - 1
      /\ \A i \in 1 .. Len(Tail(toCoord[w])) : Tail(toCoord[w])[i] = toCoord[w][i + 1]
      /\ Head(toCoord[w]) = toCoord[w][1] /\ Len(toCoord[w]) >= 1
      /\ toCoord[w][1] \in ToCoordMsg
  BY <1>1
<1>3. FilesSent'
  BY <1>1, <1>2, SMTT(20) DEF DiskInv, FilesSent
<1>4. Head(toCoord[w]).type = "CKPT_FILENAME" => Head(toCoord[w]).file \in DOMAIN images
  BY <1>1, <1>2 DEF DiskInv, FilesSent
<1> QED BY <1>1, <1>2, <1>3, <1>4

\* A worker sends messages; a file it names is on disk by then.
LEMMA SendKeeps ==
  ASSUME DiskInv, NEW w \in Worker, NEW msgs \in Seq(ToCoordMsg), Send(w, msgs),
         DOMAIN images \subseteq DOMAIN images',
         \A i \in 1 .. Len(msgs) :
           msgs[i].type = "CKPT_FILENAME" => msgs[i].file \in DOMAIN images'
  PROVE  /\ toCoord' \in [Worker -> Seq(ToCoordMsg)]
         /\ FilesSent'
         /\ \A v \in Worker : toCoord[v] # <<>> =>
              toCoord'[v] # <<>> /\ Head(toCoord'[v]) = Head(toCoord[v])
<1>1. /\ toCoord \in [Worker -> Seq(ToCoordMsg)]
      /\ toCoord' = [toCoord EXCEPT ![w] = toCoord[w] \o msgs]
  BY DEF DiskInv, TypeOK, NetTypeOK, Send
<1>2. /\ toCoord[w] \o msgs \in Seq(ToCoordMsg)
      /\ Len(toCoord[w] \o msgs) = Len(toCoord[w]) + Len(msgs)
      /\ \A i \in 1 .. Len(toCoord[w]) + Len(msgs) :
           (toCoord[w] \o msgs)[i] = IF i <= Len(toCoord[w]) THEN toCoord[w][i]
                                     ELSE msgs[i - Len(toCoord[w])]
      /\ toCoord[w] # <<>> => toCoord[w] \o msgs # <<>>
                              /\ Head(toCoord[w] \o msgs) = Head(toCoord[w])
  BY <1>1
<1>3. toCoord' \in [Worker -> Seq(ToCoordMsg)]
  BY <1>1, <1>2
<1>4. ASSUME NEW v \in Worker, NEW i \in 1 .. Len(toCoord'[v]),
             toCoord'[v][i].type = "CKPT_FILENAME"
      PROVE  toCoord'[v][i].file \in DOMAIN images'
  <2>1. CASE v # w
    <3>1. toCoord'[v] = toCoord[v]
      BY <1>1, <2>1
    <3> QED BY <3>1, <1>4 DEF DiskInv, FilesSent
  <2>2. CASE v = w /\ i <= Len(toCoord[w])
    <3>1. toCoord'[v][i] = toCoord[w][i] /\ i \in 1 .. Len(toCoord[w])
      BY <1>1, <1>2, <2>2
    <3> QED BY <3>1, <1>4 DEF DiskInv, FilesSent
  <2>3. CASE v = w /\ i > Len(toCoord[w])
    <3>1. /\ toCoord'[v][i] = msgs[i - Len(toCoord[w])]
          /\ i - Len(toCoord[w]) \in 1 .. Len(msgs)
      BY <1>1, <1>2, <2>3
    <3> QED BY <3>1, <1>4
  <2> QED BY <1>1, <2>1, <2>2, <2>3
<1>5. FilesSent'
  BY <1>4 DEF FilesSent
<1>6. \A v \in Worker : toCoord[v] # <<>> =>
        toCoord'[v] # <<>> /\ Head(toCoord'[v]) = Head(toCoord[v])
  BY <1>1, <1>2
<1> QED BY <1>3, <1>5, <1>6

\* A process connects: its channel holds its hello.
LEMMA ConnectKeeps ==
  ASSUME DiskInv, NEW w \in Worker, NEW hello \in ToCoordMsg,
         hello.type = "HELLO_COORDINATOR", Connect(w, hello), images' = images
  PROVE  /\ toCoord' \in [Worker -> Seq(ToCoordMsg)]
         /\ FilesSent'
         /\ backlog' = backlog \cup {w}
         /\ \A v \in backlog' :
              toCoord'[v] # <<>> /\ Head(toCoord'[v]).type = "HELLO_COORDINATOR"
<1>1. /\ toCoord \in [Worker -> Seq(ToCoordMsg)]
      /\ toCoord' = [toCoord EXCEPT ![w] = <<hello>>]
      /\ backlog' = backlog \cup {w} /\ backlog \subseteq Worker
  BY DEF DiskInv, TypeOK, NetTypeOK, CoordTypeOK, Connect
<1>2. /\ <<hello>> \in Seq(ToCoordMsg) /\ Len(<<hello>>) = 1
      /\ <<hello>>[1] = hello /\ Head(<<hello>>) = hello /\ <<hello>> # <<>>
  OBVIOUS
<1>3. FilesSent'
  BY <1>1, <1>2 DEF DiskInv, FilesSent
<1>4. \A v \in backlog' :
        toCoord'[v] # <<>> /\ Head(toCoord'[v]).type = "HELLO_COORDINATOR"
  BY <1>1, <1>2 DEF DiskInv, HelloFirst
<1> QED BY <1>1, <1>2, <1>3, <1>4

-----------------------------------------------------------------------------
(* The steps of the coordinator. *)

\* The head of a connection in the backlog is a hello.
LEMMA HelloHead ==
  ASSUME DiskInv, NEW w \in backlog
  PROVE  /\ w \in Worker \ clients /\ pc[w] # "unborn"
         /\ toCoord[w] # <<>>
         /\ Head(toCoord[w]) \in ToCoordMsg
         /\ Head(toCoord[w]).type = "HELLO_COORDINATOR"
<1>1. w \in Worker /\ toCoord[w] # <<>> /\ toCoord[w] \in Seq(ToCoordMsg)
  BY DEF DiskInv, HelloFirst, TypeOK, CoordTypeOK, NetTypeOK
<1>2. Head(toCoord[w]) \in ToCoordMsg
  BY <1>1
<1> QED BY <1>1, <1>2 DEF DiskInv, HelloFirst

\* initializeComputation leaves values of the right types.
LEMMA InitializeType ==
  ASSUME CoordTypeOK
  PROVE  /\ KillNow \in BOOLEAN /\ SuspendNow \in BOOLEAN
         /\ CompNow \in Group /\ GenNow \in Generation /\ PeersNow \in Int
BY BoundAssumption
   DEF CoordTypeOK, KillNow, SuspendNow, CompNow, GenNow, PeersNow, Idle,
       Group, Generation

\* The states of eWorkerState, one by one.
LEMMA StateNames ==
  /\ WorkerState = {"UNKNOWN", "PRE_FORK", "PRE_EXEC", "RUNNING", "SUSPENDED",
       "FD_LEADER_ELECTION", "DRAINED", "RESTARTING", "CHECKPOINTED",
       "NAME_SERVICE_DATA_REGISTERED", "DONE_QUERYING", "REFILLED"}
BY DEF WorkerState, StateOrder

\* What an accepted or refused connection may change.
Accepts(w) ==
  /\ clients' \in {clients, clients \cup {w}}
  /\ cstate' \in [Worker -> WorkerState]
  /\ coord' \in {"up", "exited", "aborted"}
  /\ suspendSent' \in BOOLEAN /\ killInProgress' \in BOOLEAN
  /\ isRestarting' \in BOOLEAN /\ numPeers' \in Int
  /\ compId' \in Group /\ generation' \in Generation
  /\ toWorker' \in [Worker -> Seq(ToWorkerMsg)]

\* onConnect refuses a connection: nothing but initializeComputation happens.
LEMMA RefuseAccepts ==
  ASSUME DiskInv, NEW w \in Worker, NEW t \in PlainType, Refuse(w, t)
  PROVE  Accepts(w)
<1>1. CoordTypeOK /\ NetTypeOK
  BY DEF DiskInv, TypeOK
<1>2. toWorker' \in [Worker -> Seq(ToWorkerMsg)]
  BY <1>1, OrderTypes, PostType DEF Refuse, NetTypeOK
<1> QED BY <1>1, <1>2, InitializeType
        DEF Refuse, Accepts, InitializeComputation, CoordTypeOK

\* An assertion of onConnect fails: only the coordinator's own state changes.
LEMMA AbortAccepts ==
  ASSUME DiskInv, NEW w \in Worker, Abort
  PROVE  Accepts(w)
BY DEF DiskInv, TypeOK, CoordTypeOK, NetTypeOK, Abort, Accepts

\* validateRestartingWorkerProcess, in each of its four outcomes.
LEMMA ConnectRestartingAccepts ==
  ASSUME DiskInv, NEW w \in Worker, NEW hello \in ToCoordMsg,
         hello.type = "HELLO_COORDINATOR", ConnectRestarting(w, hello)
  PROVE  Accepts(w)
<1>1. CoordTypeOK /\ NetTypeOK
  BY DEF DiskInv, TypeOK
<1>2. CASE Abort
  BY <1>2, AbortAccepts
<1>3. CASE Refuse(w, "REJECT")
  BY <1>3, RefuseAccepts DEF PlainType
<1>4. CASE /\ AddDataSocket(w, "RESTARTING")
           /\ compId' = hello.comp
           /\ generation' = hello.gen
           /\ numPeers' = Cardinality(hello.cohort)
           /\ suspendSent' = SuspendNow
           /\ killInProgress' = KillNow
           /\ isRestarting' = TRUE
           /\ toWorker' = Post(toWorker, {w}, HelloWorker(CompNow, GenNow))
           /\ UNCHANGED coord
  <2>1. toWorker' \in [Worker -> Seq(ToWorkerMsg)]
    BY <1>1, <1>4, InitializeType, OrderTypes, PostType DEF NetTypeOK
  <2>2. /\ compId' \in Group /\ generation' \in Generation /\ numPeers' \in Int
    BY <1>4, HelloFields, CohortSize
  <2> QED BY <1>1, <1>4, <2>1, <2>2, InitializeType, StateNames
          DEF Accepts, AddDataSocket, CoordTypeOK
<1>5. CASE /\ AddDataSocket(w, "RESTARTING")
           /\ isRestarting' = TRUE
           /\ toWorker' = Post(toWorker, {w}, HelloWorker(compId, generation))
           /\ InitializeComputation
           /\ UNCHANGED coord
  <2>1. toWorker' \in [Worker -> Seq(ToWorkerMsg)]
    BY <1>1, <1>5, OrderTypes, PostType DEF NetTypeOK, CoordTypeOK
  <2> QED BY <1>1, <1>5, <2>1, InitializeType, StateNames
          DEF Accepts, AddDataSocket, CoordTypeOK, InitializeComputation
<1> QED BY <1>2, <1>3, <1>4, <1>5 DEF ConnectRestarting

\* validateNewWorkerProcess, in each of its four outcomes.
LEMMA ConnectNewAccepts ==
  ASSUME DiskInv, NEW w \in Worker, NEW hello \in ToCoordMsg,
         hello.type = "HELLO_COORDINATOR", ConnectNew(w, hello)
  PROVE  Accepts(w)
<1>1. CoordTypeOK /\ NetTypeOK
  BY DEF DiskInv, TypeOK
<1>2. hello.state \in WorkerState
  BY HelloFields, StateNames
<1>3. CASE Abort
  BY <1>3, AbortAccepts
<1>4. CASE Refuse(w, "REJECT")
  BY <1>4, RefuseAccepts DEF PlainType
<1>5. CASE /\ AddDataSocket(w, hello.state)
           /\ toWorker' = Post(Post(toWorker, {w}, HelloWorker(compId, generation)),
                               {w}, DoSuspend(compId, generation))
           /\ InitializeComputation
           /\ UNCHANGED <<coord, isRestarting>>
  <2>1. Post(toWorker, {w}, HelloWorker(compId, generation))
          \in [Worker -> Seq(ToWorkerMsg)]
    BY <1>1, OrderTypes, PostType DEF NetTypeOK, CoordTypeOK
  <2>2. toWorker' \in [Worker -> Seq(ToWorkerMsg)]
    BY <1>1, <1>5, <2>1, OrderTypes, PostType DEF CoordTypeOK
  <2> QED BY <1>1, <1>2, <1>5, <2>2, InitializeType
          DEF Accepts, AddDataSocket, CoordTypeOK, InitializeComputation
<1> DEFINE comp == IF CompNow = Nobody THEN w ELSE compId
           gen == IF CompNow = Nobody THEN 0 ELSE generation
<1>6. CASE /\ AddDataSocket(w, hello.state)
           /\ compId' = comp /\ generation' = gen
           /\ numPeers' = IF CompNow = Nobody THEN -1 ELSE PeersNow
           /\ suspendSent' = SuspendNow /\ killInProgress' = KillNow
           /\ toWorker' = Post(toWorker, {w}, HelloWorker(comp, gen))
           /\ UNCHANGED <<coord, isRestarting>>
  <2>1. comp \in Group /\ gen \in Generation
    BY <1>1, BoundAssumption DEF CoordTypeOK, Group, Generation
  <2> HIDE DEF comp, gen
  <2>2. toWorker' \in [Worker -> Seq(ToWorkerMsg)]
    BY <1>1, <1>6, <2>1, OrderTypes, PostType DEF NetTypeOK
  <2>3. numPeers' \in Int
    BY <1>1, <1>6, InitializeType
  <2> QED BY <1>1, <1>2, <1>6, <2>1, <2>2, <2>3, InitializeType
          DEF Accepts, AddDataSocket, CoordTypeOK
<1> QED BY <1>3, <1>4, <1>5, <1>6 DEF ConnectNew

\* onConnect: a connection leaves the backlog, with or without a new client.
LEMMA OnConnectKeeps ==
  ASSUME DiskInv, NEW w \in Worker, OnConnect(w)
  PROVE  DiskInv'
<1> DEFINE hello == Head(toCoord[w])
<1>1. /\ w \in backlog /\ w \notin clients /\ pc[w] # "unborn"
      /\ hello \in ToCoordMsg /\ hello.type = "HELLO_COORDINATOR"
      /\ toCoord[w] # <<>>
  BY HelloHead DEF OnConnect
<1>2. /\ backlog' = backlog \ {w}
      /\ toCoord' = [toCoord EXCEPT ![w] = Tail(@)]
      /\ UNCHANGED <<blockUntilDone, blockRemote, restartFilenames, lookup>>
      /\ UNCHANGED workerVars /\ UNCHANGED diskVars /\ UNCHANGED envVars
  BY DEF OnConnect
<1>3. /\ toCoord' \in [Worker -> Seq(ToCoordMsg)]
      /\ FilesSent'
      /\ \A v \in Worker \ {w} : toCoord'[v] = toCoord[v]
  BY <1>1, <1>2, TakeKeeps DEF diskVars
<1>4. Accepts(w)
  <2>1. CASE Refuse(w, "KILL_PEER")
    BY <2>1, RefuseAccepts DEF PlainType
  <2>2. CASE ConnectRestarting(w, hello)
    BY <1>1, <2>2, ConnectRestartingAccepts
  <2>3. CASE ConnectNew(w, hello)
    BY <1>1, <2>3, ConnectNewAccepts
  <2> QED BY <2>1, <2>2, <2>3 DEF OnConnect
<1>5. CoordTypeOK'
  BY <1>2, <1>4 DEF DiskInv, TypeOK, CoordTypeOK, Accepts
<1>6. WorkerTypeOK' /\ DiskTypeOK' /\ EnvTypeOK' /\ NetTypeOK'
  BY <1>2, <1>3, <1>4 DEF DiskInv, TypeOK, WorkerTypeOK, DiskTypeOK, EnvTypeOK,
     NetTypeOK, Accepts, workerVars, diskVars, envVars
<1>7. HelloFirst'
  BY <1>1, <1>2, <1>3, <1>4
     DEF DiskInv, HelloFirst, TypeOK, CoordTypeOK, Accepts, workerVars
<1>8. FilesOnDisk' /\ ScriptImagesExist'
  BY <1>2 DEF DiskInv, FilesOnDisk, ScriptImagesExist, workerVars, diskVars
<1> QED BY <1>3, <1>5, <1>6, <1>7, <1>8 DEF DiskInv, TypeOK

\* What is common to the messages of a client: the channel loses its head,
\* the workers and the images stay, and a name that is recorded is on disk.
LEMMA OnDataKeeps ==
  ASSUME DiskInv, NEW w \in Worker, w \in clients, toCoord[w] # <<>>,
         toCoord' = [toCoord EXCEPT ![w] = Tail(@)],
         CoordTypeOK', toWorker' \in [Worker -> Seq(ToWorkerMsg)],
         backlog' = backlog, clients' = clients,
         UNCHANGED <<workerVars, images, restarting, envVars>>,
         script' \cup restartFilenames' \subseteq DOMAIN images
  PROVE  DiskInv'
<1>1. /\ toCoord' \in [Worker -> Seq(ToCoordMsg)]
      /\ FilesSent'
      /\ \A v \in Worker \ {w} : toCoord'[v] = toCoord[v]
  BY TakeKeeps
<1>2. WorkerTypeOK' /\ EnvTypeOK' /\ NetTypeOK'
  BY <1>1 DEF DiskInv, TypeOK, WorkerTypeOK, EnvTypeOK, NetTypeOK, workerVars,
     envVars
<1>3. DiskTypeOK'
  BY DEF DiskInv, TypeOK, DiskTypeOK
<1>4. HelloFirst'
  BY <1>1 DEF DiskInv, HelloFirst, TypeOK, CoordTypeOK, workerVars
<1>5. FilesOnDisk' /\ ScriptImagesExist'
  BY DEF DiskInv, FilesOnDisk, ScriptImagesExist, workerVars
<1> QED BY <1>1, <1>2, <1>3, <1>4, <1>5 DEF DiskInv, TypeOK

\* DMT_OK: a report, and the broadcast of updateMinimumState it may cause.
LEMMA OnOkKeeps ==
  ASSUME DiskInv, NEW w \in Worker, OnOk(w)
  PROVE  DiskInv'
<1>1. /\ w \in clients /\ toCoord[w] # <<>> /\ Head(toCoord[w]).type = "OK"
      /\ toCoord' = [toCoord EXCEPT ![w] = Tail(@)]
      /\ cstate' = [cstate EXCEPT ![w] = Head(toCoord[w]).state]
      /\ UpdateMinimumState(cstate[w], clients, cstate')
      /\ UNCHANGED <<coord, backlog, clients, killInProgress, numPeers, compId,
                     generation, images, restarting>>
      /\ UNCHANGED workerVars /\ UNCHANGED envVars
  BY DEF OnOk, Arrives, Readable
<1>2. CoordTypeOK /\ NetTypeOK /\ DiskTypeOK
  BY DEF DiskInv, TypeOK
<1>3. Head(toCoord[w]).state \in WorkerState
  BY <1>1, TakeKeeps, ReportFields
<1>4. /\ toWorker' \in [Worker -> Seq(ToWorkerMsg)]
      /\ suspendSent' \in BOOLEAN /\ isRestarting' \in BOOLEAN
      /\ blockUntilDone' \in BOOLEAN /\ blockRemote' \in BOOLEAN
      /\ restartFilenames' \subseteq restartFilenames
      /\ script' \subseteq script \cup restartFilenames
      /\ lookup' \subseteq Worker
  BY <1>1, <1>2, UpdateType DEF CoordTypeOK
<1>5. CoordTypeOK'
  BY <1>1, <1>2, <1>3, <1>4 DEF CoordTypeOK
<1>6. script' \cup restartFilenames' \subseteq DOMAIN images
  BY <1>4 DEF DiskInv, ScriptImagesExist
<1> QED BY <1>1, <1>4, <1>5, <1>6, OnDataKeeps

\* DMT_CKPT_FILENAME: the name recorded is one that the process has sent.
LEMMA OnCkptFilenameKeeps ==
  ASSUME DiskInv, NEW w \in Worker, OnCkptFilename(w)
  PROVE  DiskInv'
<1>1. /\ w \in clients /\ toCoord[w] # <<>>
      /\ Head(toCoord[w]).type = "CKPT_FILENAME"
      /\ toCoord' = [toCoord EXCEPT ![w] = Tail(@)]
      /\ restartFilenames' = restartFilenames \cup {Head(toCoord[w]).file}
      /\ UNCHANGED <<coord, backlog, clients, cstate, suspendSent, killInProgress,
                     isRestarting, numPeers, compId, generation, blockUntilDone,
                     blockRemote, lookup, toWorker>>
      /\ UNCHANGED workerVars /\ UNCHANGED diskVars /\ UNCHANGED envVars
  BY DEF OnCkptFilename, Arrives, Readable
<1>2. Head(toCoord[w]).file \in FileName /\ Head(toCoord[w]).file \in DOMAIN images
  BY <1>1, TakeKeeps, ReportFields DEF diskVars
<1>3. CoordTypeOK' /\ toWorker' \in [Worker -> Seq(ToWorkerMsg)]
  BY <1>1, <1>2 DEF DiskInv, TypeOK, CoordTypeOK, NetTypeOK
<1>4. script' \cup restartFilenames' \subseteq DOMAIN images
  BY <1>1, <1>2 DEF DiskInv, ScriptImagesExist, diskVars
<1> QED BY <1>1, <1>3, <1>4, OnDataKeeps DEF diskVars

\* DMT_REGISTER_NAME_SERVICE_DATA.
LEMMA OnRegisterKeeps ==
  ASSUME DiskInv, NEW w \in Worker, OnRegister(w)
  PROVE  DiskInv'
<1>1. /\ w \in clients /\ toCoord[w] # <<>>
      /\ toCoord' = [toCoord EXCEPT ![w] = Tail(@)]
      /\ lookup' = lookup \cup {w}
      /\ UNCHANGED <<coord, backlog, clients, cstate, suspendSent, killInProgress,
                     isRestarting, numPeers, compId, generation, blockUntilDone,
                     blockRemote, restartFilenames, toWorker>>
      /\ UNCHANGED workerVars /\ UNCHANGED diskVars /\ UNCHANGED envVars
  BY DEF OnRegister, Arrives, Readable
<1>2. CoordTypeOK' /\ toWorker' \in [Worker -> Seq(ToWorkerMsg)]
  BY <1>1 DEF DiskInv, TypeOK, CoordTypeOK, NetTypeOK
<1>3. script' \cup restartFilenames' \subseteq DOMAIN images
  BY <1>1 DEF DiskInv, ScriptImagesExist, diskVars
<1> QED BY <1>1, <1>2, <1>3, OnDataKeeps DEF diskVars

\* DMT_NAME_SERVICE_QUERY: answered, or the end of the coordinator.
LEMMA OnQueryKeeps ==
  ASSUME DiskInv, NEW w \in Worker, OnQuery(w)
  PROVE  DiskInv'
<1>1. /\ w \in clients /\ toCoord[w] # <<>>
      /\ toCoord' = [toCoord EXCEPT ![w] = Tail(@)]
      /\ coord' \in {coord, "aborted"}
      /\ \/ toWorker' = Post(toWorker, {w}, Plain("NAME_SERVICE_QUERY_RESPONSE"))
         \/ toWorker' = toWorker
      /\ UNCHANGED <<backlog, clients, cstate, suspendSent, killInProgress,
                     isRestarting, numPeers, compId, generation, blockUntilDone,
                     blockRemote, restartFilenames, lookup>>
      /\ UNCHANGED workerVars /\ UNCHANGED diskVars /\ UNCHANGED envVars
  BY DEF OnQuery, Arrives, Readable
<1>2. toWorker' \in [Worker -> Seq(ToWorkerMsg)]
  <2>1. Plain("NAME_SERVICE_QUERY_RESPONSE") \in ToWorkerMsg
    BY OrderTypes DEF PlainType
  <2> QED BY <1>1, <2>1, PostType DEF DiskInv, TypeOK, NetTypeOK
<1>3. CoordTypeOK'
  BY <1>1 DEF DiskInv, TypeOK, CoordTypeOK
<1>4. script' \cup restartFilenames' \subseteq DOMAIN images
  BY <1>1 DEF DiskInv, ScriptImagesExist, diskVars
<1> QED BY <1>1, <1>2, <1>3, <1>4, OnDataKeeps DEF diskVars

\* A disconnection or a command: neither workers nor their messages change.
LEMMA CoordinatorAloneKeeps ==
  ASSUME DiskInv, CoordTypeOK', EnvTypeOK',
         toWorker' \in [Worker -> Seq(ToWorkerMsg)],
         backlog' = backlog, clients' \subseteq clients,
         UNCHANGED workerVars, UNCHANGED <<toCoord, images, restarting>>,
         script' \cup restartFilenames' \subseteq DOMAIN images
  PROVE  DiskInv'
<1>1. WorkerTypeOK' /\ NetTypeOK' /\ DiskTypeOK'
  BY DEF DiskInv, TypeOK, WorkerTypeOK, NetTypeOK, DiskTypeOK, workerVars
<1>2. HelloFirst' /\ FilesSent'
  BY DEF DiskInv, HelloFirst, FilesSent, workerVars
<1>3. FilesOnDisk' /\ ScriptImagesExist'
  BY DEF DiskInv, FilesOnDisk, ScriptImagesExist, workerVars
<1> QED BY <1>1, <1>2, <1>3 DEF DiskInv, TypeOK

\* onDisconnect: a client goes, and the others may pass a barrier by it.
LEMMA OnDisconnectKeeps ==
  ASSUME DiskInv, NEW w \in Worker, OnDisconnect(w)
  PROVE  DiskInv'
<1>1. /\ clients' = clients \ {w} /\ clients' \subseteq Worker
      /\ UNCHANGED <<backlog, cstate, numPeers, compId, generation>>
      /\ UNCHANGED workerVars /\ UNCHANGED <<toCoord, images, restarting>>
      /\ UNCHANGED envVars
  BY DEF OnDisconnect, DiskInv, TypeOK, CoordTypeOK
<1>2. CoordTypeOK /\ NetTypeOK /\ DiskTypeOK
  BY DEF DiskInv, TypeOK
<1>3. EnvTypeOK'
  BY <1>1 DEF DiskInv, TypeOK, EnvTypeOK, envVars
<1>4. CASE clients' = {}
  <2>1. /\ coord' \in {coord, "exited"} /\ killInProgress' = ExitOnLast
        /\ UNCHANGED <<suspendSent, isRestarting, blockUntilDone, blockRemote,
                       restartFilenames, lookup, toWorker, script>>
    BY <1>4 DEF OnDisconnect
  <2>2. CoordTypeOK'
    BY <1>1, <1>2, <2>1, FlagAssumption DEF CoordTypeOK
  <2>3. /\ toWorker' \in [Worker -> Seq(ToWorkerMsg)]
        /\ script' \cup restartFilenames' \subseteq DOMAIN images
    BY <1>2, <2>1 DEF NetTypeOK, DiskInv, ScriptImagesExist
  <2> QED BY <1>1, <1>3, <2>2, <2>3, CoordinatorAloneKeeps
<1>5. CASE clients' # {}
  <2>1. /\ UpdateMinimumState(cstate[w], clients', cstate)
        /\ UNCHANGED <<coord, killInProgress>>
    BY <1>5 DEF OnDisconnect
  <2>2. /\ toWorker' \in [Worker -> Seq(ToWorkerMsg)]
        /\ suspendSent' \in BOOLEAN /\ isRestarting' \in BOOLEAN
        /\ blockUntilDone' \in BOOLEAN /\ blockRemote' \in BOOLEAN
        /\ restartFilenames' \subseteq restartFilenames
        /\ script' \subseteq script \cup restartFilenames
        /\ lookup' \subseteq Worker
    BY <1>1, <1>2, <2>1, UpdateType
  <2>3. CoordTypeOK'
    BY <1>1, <1>2, <2>1, <2>2 DEF CoordTypeOK
  <2>4. script' \cup restartFilenames' \subseteq DOMAIN images
    BY <2>2 DEF DiskInv, ScriptImagesExist
  <2> QED BY <1>1, <1>3, <2>2, <2>3, <2>4, CoordinatorAloneKeeps
<1> QED BY <1>4, <1>5

\* startCheckpoint
LEMMA StartCheckpointType ==
  ASSUME DiskInv, StartCheckpoint
  PROVE  /\ toWorker' \in [Worker -> Seq(ToWorkerMsg)]
         /\ generation' \in Generation
         /\ suspendSent' = TRUE /\ restartFilenames' = {}
<1>1. compId \in Group /\ generation' \in Generation
  BY BoundAssumption
     DEF DiskInv, TypeOK, CoordTypeOK, StartCheckpoint, Generation
<1>2. DoSuspend(compId, generation') \in ToWorkerMsg
  BY <1>1, OrderTypes
<1>3. toWorker' \in [Worker -> Seq(ToWorkerMsg)]
  BY <1>2, PostType DEF DiskInv, TypeOK, NetTypeOK, StartCheckpoint
<1> QED BY <1>1, <1>3 DEF StartCheckpoint

\* The timer and the commands of the console and of dmtcp_command.
LEMMA UserStepKeeps ==
  ASSUME DiskInv, UserStep
  PROVE  DiskInv'
<1>1. CoordTypeOK /\ NetTypeOK /\ EnvTypeOK
  BY DEF DiskInv, TypeOK
<1>2. CASE OnTimeoutInterval
  <2>1. CoordTypeOK'
    BY <1>1, <1>2, StartCheckpointType DEF OnTimeoutInterval, CoordTypeOK
  <2>2. EnvTypeOK'
    BY <1>1, <1>2 DEF OnTimeoutInterval, EnvTypeOK, envVars
  <2>3. /\ toWorker' \in [Worker -> Seq(ToWorkerMsg)]
        /\ script' \cup restartFilenames' \subseteq DOMAIN images
    BY <1>2, StartCheckpointType
       DEF OnTimeoutInterval, DiskInv, ScriptImagesExist, diskVars
  <2> QED BY <1>2, <2>1, <2>2, <2>3, CoordinatorAloneKeeps
          DEF OnTimeoutInterval, diskVars
<1>3. ASSUME NEW c, UserCommand(c), UNCHANGED <<crashes, restarts>>
      PROVE  EnvTypeOK'
  BY <1>1, <1>3, BoundAssumption DEF UserCommand, EnvTypeOK
<1>4. CASE CommandBlock
  <2>1. CoordTypeOK' /\ EnvTypeOK'
    BY <1>1, <1>3, <1>4, InitializeType
       DEF CommandBlock, CoordTypeOK, InitializeComputation
  <2>2. /\ toWorker' \in [Worker -> Seq(ToWorkerMsg)]
        /\ script' \cup restartFilenames' \subseteq DOMAIN images
    BY <1>1, <1>4
       DEF CommandBlock, NetTypeOK, DiskInv, ScriptImagesExist, diskVars, netVars
  <2> QED BY <1>4, <2>1, <2>2, CoordinatorAloneKeeps
          DEF CommandBlock, diskVars, netVars
<1>5. CASE CommandCheckpoint
  <2>1. CASE CanCheckpoint
    <3>1. CoordTypeOK' /\ EnvTypeOK'
      BY <1>1, <1>3, <1>5, <2>1, StartCheckpointType DEF CommandCheckpoint, CoordTypeOK
    <3>2. /\ toWorker' \in [Worker -> Seq(ToWorkerMsg)]
          /\ script' \cup restartFilenames' \subseteq DOMAIN images
      BY <1>5, <2>1, StartCheckpointType
         DEF CommandCheckpoint, DiskInv, ScriptImagesExist, diskVars
    <3> QED BY <1>5, <3>1, <3>2, CoordinatorAloneKeeps
            DEF CommandCheckpoint, diskVars
  <2>2. CASE ~CanCheckpoint
    <3>1. CoordTypeOK' /\ EnvTypeOK'
      BY <1>1, <1>3, <1>5, <2>2, InitializeType
         DEF CommandCheckpoint, CoordTypeOK, InitializeComputation
    <3>2. /\ toWorker' \in [Worker -> Seq(ToWorkerMsg)]
          /\ script' \cup restartFilenames' \subseteq DOMAIN images
      BY <1>1, <1>5, <2>2
         DEF CommandCheckpoint, NetTypeOK, DiskInv, ScriptImagesExist, diskVars
    <3> QED BY <1>5, <3>1, <3>2, CoordinatorAloneKeeps
            DEF CommandCheckpoint, diskVars
  <2> QED BY <2>1, <2>2
<1>6. ASSUME NEW t \in {"KILL_PEER", "FORCE_RESTART"},
             toWorker' = Post(toWorker, clients, Plain(t))
      PROVE  toWorker' \in [Worker -> Seq(ToWorkerMsg)]
  <2>1. Plain(t) \in ToWorkerMsg
    BY <1>6, OrderTypes DEF PlainType
  <2> QED BY <1>1, <1>6, <2>1, PostType DEF NetTypeOK
<1>7. CASE CommandKill
  <2>1. CoordTypeOK' /\ EnvTypeOK'
    BY <1>1, <1>3, <1>7, InitializeType DEF CommandKill, CoordTypeOK
  <2>2. /\ toWorker' \in [Worker -> Seq(ToWorkerMsg)]
        /\ script' \cup restartFilenames' \subseteq DOMAIN images
    BY <1>6, <1>7 DEF CommandKill, DiskInv, ScriptImagesExist, diskVars
  <2> QED BY <1>7, <2>1, <2>2, CoordinatorAloneKeeps DEF CommandKill, diskVars
<1>8. CASE CommandForce
  <2>1. CoordTypeOK' /\ EnvTypeOK'
    BY <1>1, <1>3, <1>8, InitializeType
       DEF CommandForce, CoordTypeOK, InitializeComputation
  <2>2. /\ toWorker' \in [Worker -> Seq(ToWorkerMsg)]
        /\ script' \cup restartFilenames' \subseteq DOMAIN images
    BY <1>6, <1>8 DEF CommandForce, DiskInv, ScriptImagesExist, diskVars
  <2> QED BY <1>8, <2>1, <2>2, CoordinatorAloneKeeps DEF CommandForce, diskVars
<1>9. CASE CommandQuit
  <2>1. CoordTypeOK' /\ EnvTypeOK'
    BY <1>1, <1>3, <1>9, InitializeType DEF CommandQuit, CoordTypeOK
  <2>2. /\ toWorker' \in [Worker -> Seq(ToWorkerMsg)]
        /\ script' \cup restartFilenames' \subseteq DOMAIN images
    BY <1>6, <1>9 DEF CommandQuit, DiskInv, ScriptImagesExist, diskVars
  <2> QED BY <1>9, <2>1, <2>2, CoordinatorAloneKeeps DEF CommandQuit, diskVars
<1> QED BY <1>2, <1>4, <1>5, <1>7, <1>8, <1>9 DEF UserStep

-----------------------------------------------------------------------------
(* The steps of the workers. *)

\* What the steps of a connected worker have in common: they append to its
\* channel, add images under their own names, and give birth to nobody.
LEMMA WorkerKeeps ==
  ASSUME DiskInv, CoordinatorKept, UNCHANGED <<coord, backlog, script, restarting>>,
         EnvTypeOK', WorkerTypeOK', NetTypeOK', DiskTypeOK', FilesSent',
         \A v \in Worker : toCoord[v] # <<>> =>
           toCoord'[v] # <<>> /\ Head(toCoord'[v]) = Head(toCoord[v]),
         \A v \in Worker : pc'[v] = "unborn" => pc[v] = "unborn",
         \A v \in Worker : fromImage'[v] # 0 => fromImage'[v] = fromImage[v],
         DOMAIN images \subseteq DOMAIN images',
         \A f \in DOMAIN images' : f = NameOf(f[1], images'[f].gen)
  PROVE  DiskInv'
<1>1. CoordTypeOK'
  BY DEF DiskInv, TypeOK, CoordTypeOK, CoordinatorKept
<1>2. HelloFirst'
  BY DEF DiskInv, TypeOK, CoordTypeOK, HelloFirst, CoordinatorKept
<1>3. FilesOnDisk' /\ ScriptImagesExist'
  BY DEF DiskInv, FilesOnDisk, ScriptImagesExist, CoordinatorKept
<1> QED BY <1>1, <1>2, <1>3 DEF DiskInv, TypeOK

\* A step that sends nothing and writes no image.
LEMMA SilentKeeps ==
  ASSUME DiskInv, CoordinatorKept, UNCHANGED <<coord, backlog, diskVars, toCoord>>,
         EnvTypeOK', WorkerTypeOK', toWorker' \in [Worker -> Seq(ToWorkerMsg)],
         \A v \in Worker : pc'[v] = "unborn" => pc[v] = "unborn",
         \A v \in Worker : fromImage'[v] # 0 => fromImage'[v] = fromImage[v]
  PROVE  DiskInv'
<1>1. NetTypeOK' /\ DiskTypeOK' /\ FilesSent'
  BY DEF DiskInv, TypeOK, NetTypeOK, DiskTypeOK, FilesSent, diskVars
<1>2. \A f \in DOMAIN images' : f = NameOf(f[1], images'[f].gen)
  BY DEF DiskInv, FilesOnDisk, diskVars
<1> QED BY <1>1, <1>2, WorkerKeeps DEF diskVars

\* A step that sends messages and writes no image.
LEMMA SpeakingKeeps ==
  ASSUME DiskInv, CoordinatorKept, UNCHANGED <<coord, backlog, diskVars>>,
         EnvTypeOK', WorkerTypeOK', toWorker' \in [Worker -> Seq(ToWorkerMsg)],
         \A v \in Worker : pc'[v] = "unborn" => pc[v] = "unborn",
         \A v \in Worker : fromImage'[v] # 0 => fromImage'[v] = fromImage[v],
         NEW w \in Worker, NEW msgs \in Seq(ToCoordMsg), Send(w, msgs),
         \A i \in 1 .. Len(msgs) :
           msgs[i].type = "CKPT_FILENAME" => msgs[i].file \in DOMAIN images
  PROVE  DiskInv'
<1>1. /\ toCoord' \in [Worker -> Seq(ToCoordMsg)] /\ FilesSent'
      /\ \A v \in Worker : toCoord[v] # <<>> =>
           toCoord'[v] # <<>> /\ Head(toCoord'[v]) = Head(toCoord[v])
  BY SendKeeps DEF diskVars
<1>2. NetTypeOK' /\ DiskTypeOK'
  BY <1>1 DEF DiskInv, TypeOK, NetTypeOK, DiskTypeOK, diskVars
<1>3. \A f \in DOMAIN images' : f = NameOf(f[1], images'[f].gen)
  BY DEF DiskInv, FilesOnDisk, diskVars
<1> QED BY <1>1, <1>2, <1>3, WorkerKeeps DEF diskVars

\* The reports of a barrier, one message that names no file.
LEMMA OkMessage ==
  ASSUME NEW s \in WorkerState
  PROVE  /\ <<Ok(s)>> \in Seq(ToCoordMsg)
         /\ \A i \in 1 .. Len(<<Ok(s)>>) : <<Ok(s)>>[i].type # "CKPT_FILENAME"
<1>1. Ok(s) \in ToCoordMsg
  BY ReportTypes
<1>2. Ok(s).type = "OK"
  BY DEF Ok
<1> QED BY <1>1, <1>2

\* The next message is taken off a worker's channel.
LEMMA ConsumeType ==
  ASSUME DiskInv, NEW w \in Worker, Receives(w), Consume(w)
  PROVE  toWorker' \in [Worker -> Seq(ToWorkerMsg)]
BY DEF DiskInv, TypeOK, NetTypeOK, Receives, Consume

\* The next message of a worker is one the coordinator can send.
LEMMA ReceivedType ==
  ASSUME DiskInv, NEW w \in Worker, Receives(w)
  PROVE  Received(w) \in ToWorkerMsg
BY DEF DiskInv, TypeOK, NetTypeOK, Receives, Received

\* The death of a process, and of the child it was about to fork.
LEMMA DieType ==
  ASSUME DiskInv, NEW w, NEW p \in DeadPoint, Die(w, p)
  PROVE  /\ pc' \in [Worker -> Point] /\ unannounced' \subseteq Worker
         /\ parent' \in [Worker -> Group]
         /\ toWorker' \in [Worker -> Seq(ToWorkerMsg)]
         /\ \A v \in Worker : pc'[v] = "unborn" => pc[v] = "unborn"
<1> DEFINE gone == {w} \cup Children(w)
<1>1. /\ pc' = [v \in Worker |-> IF v \in gone THEN p ELSE pc[v]]
      /\ parent' = [v \in Worker |-> IF v \in gone THEN Nobody ELSE parent[v]]
      /\ toWorker' = [v \in Worker |-> IF v \in gone THEN <<>> ELSE toWorker[v]]
      /\ unannounced' = unannounced \ gone
  BY DEF Die
<1> HIDE DEF gone
<1>2. /\ pc \in [Worker -> Point] /\ unannounced \subseteq Worker
      /\ parent \in [Worker -> Group] /\ toWorker \in [Worker -> Seq(ToWorkerMsg)]
  BY DEF DiskInv, TypeOK, WorkerTypeOK, NetTypeOK
<1>3. p \in Point /\ p # "unborn"
  BY DEF DeadPoint, Point
<1>4. <<>> \in Seq(ToWorkerMsg)
  OBVIOUS
<1> QED BY <1>1, <1>2, <1>3, <1>4 DEF Group

\* A process dies and nothing else happens: a refused or killed worker, exit,
\* a failed assertion, a crash, a lost coordinator.
LEMMA DeathKeeps ==
  ASSUME DiskInv, NEW w, NEW p \in DeadPoint, Die(w, p), CoordinatorKept,
         UNCHANGED <<coord, backlog, diskVars, toCoord, identityVars>>, EnvTypeOK'
  PROVE  DiskInv'
<1>1. /\ pc' \in [Worker -> Point] /\ unannounced' \subseteq Worker
      /\ parent' \in [Worker -> Group]
      /\ toWorker' \in [Worker -> Seq(ToWorkerMsg)]
      /\ \A v \in Worker : pc'[v] = "unborn" => pc[v] = "unborn"
  BY DieType
<1>2. WorkerTypeOK'
  BY <1>1 DEF DiskInv, TypeOK, WorkerTypeOK, identityVars
<1> QED BY <1>1, <1>2, SilentKeeps DEF identityVars

\* recvCoordinatorHandshake: a restored process reports the file it came from.
LEMMA HandshakeKeeps ==
  ASSUME DiskInv, NEW w \in Worker, Handshake(w), CoordinatorKept,
         UNCHANGED <<diskVars, envVars>>
  PROVE  DiskInv'
<1>1. WorkerTypeOK /\ EnvTypeOK'
  BY DEF DiskInv, TypeOK, EnvTypeOK, envVars
<1>2. Received(w).comp \in Group /\ Received(w).gen \in Generation
  BY ReceivedType, OrderFields DEF Handshake
<1>3. /\ wComp' \in [Worker -> Group] /\ wGen' \in [Worker -> Generation]
      /\ UNCHANGED <<coord, backlog, parent, wCohort, fromImage>>
  BY <1>1, <1>2 DEF Handshake, WorkerTypeOK
<1>4. toWorker' \in [Worker -> Seq(ToWorkerMsg)]
  BY ConsumeType DEF Handshake
<1>5. CASE fromImage[w] = 0
  <2>1. Move(w, "run") /\ unannounced' = unannounced \cup {w} /\ UNCHANGED toCoord
    BY <1>5 DEF Handshake
  <2>2. WorkerTypeOK' /\ \A v \in Worker : pc'[v] = "unborn" => pc[v] = "unborn"
    BY <1>1, <1>3, <2>1 DEF WorkerTypeOK, Move, Point
  <2> QED BY <1>1, <1>3, <1>4, <2>1, <2>2, SilentKeeps
<1>6. CASE fromImage[w] # 0
  <2> DEFINE file == NameOf(w, fromImage[w])
             msgs == <<CkptFilename(file), Ok("CHECKPOINTED")>>
  <2>1. Move(w, "written") /\ unannounced' = unannounced /\ Send(w, msgs)
    BY <1>6 DEF Handshake
  <2>2. WorkerTypeOK' /\ \A v \in Worker : pc'[v] = "unborn" => pc[v] = "unborn"
    BY <1>1, <1>3, <2>1 DEF WorkerTypeOK, Move, Point, WaitPoint
  <2>3. file \in FileName /\ file \in DOMAIN images
    BY <1>1, <1>6, FileNameType DEF WorkerTypeOK, DiskInv, FilesOnDisk
  <2>4. CkptFilename(file) \in ToCoordMsg /\ Ok("CHECKPOINTED") \in ToCoordMsg
    BY <2>3, ReportTypes, StateNames
  <2>5. CkptFilename(file).file = file /\ Ok("CHECKPOINTED").type = "OK"
    BY DEF CkptFilename, Ok
  <2> HIDE DEF file
  <2>6. /\ msgs \in Seq(ToCoordMsg) /\ Len(msgs) = 2
        /\ msgs[1] = CkptFilename(file) /\ msgs[2] = Ok("CHECKPOINTED")
    BY <2>4
  <2> HIDE DEF msgs
  <2>7. \A i \in 1 .. Len(msgs) :
          msgs[i].type = "CKPT_FILENAME" => msgs[i].file \in DOMAIN images
    BY <2>3, <2>5, <2>6
  <2> QED BY <1>1, <1>3, <1>4, <2>1, <2>2, <2>6, <2>7, SpeakingKeeps
<1> QED BY <1>5, <1>6

\* A step of a worker that only sends one report and moves on.
LEMMA ReportKeeps ==
  ASSUME DiskInv, NEW w \in Worker, NEW s \in WorkerState, Send(w, <<Ok(s)>>),
         NEW p \in Point, p # "unborn", pc' \in {pc, [pc EXCEPT ![w] = p]},
         unannounced' \subseteq unannounced,
         \A v \in Worker : fromImage'[v] \in {0, fromImage[v]},
         fromImage' \in [Worker -> Generation],
         toWorker' \in [Worker -> Seq(ToWorkerMsg)],
         CoordinatorKept, EnvTypeOK',
         UNCHANGED <<coord, backlog, diskVars, parent, wComp, wGen, wCohort>>
  PROVE  DiskInv'
<1>1. WorkerTypeOK' /\ \A v \in Worker : pc'[v] = "unborn" => pc[v] = "unborn"
  BY DEF DiskInv, TypeOK, WorkerTypeOK
<1> DEFINE msgs == <<Ok(s)>>
<1>2. /\ msgs \in Seq(ToCoordMsg)
      /\ \A i \in 1 .. Len(msgs) : msgs[i].type # "CKPT_FILENAME"
  BY OkMessage
<1>3. Send(w, msgs)
  OBVIOUS
<1>4. \A v \in Worker : fromImage'[v] # 0 => fromImage'[v] = fromImage[v]
  OBVIOUS
<1> HIDE DEF msgs
<1> QED BY <1>1, <1>2, <1>3, <1>4, SpeakingKeeps

\* The reports of RUNNING, SUSPENDED and the stages without further effects.
LEMMA StageKeeps ==
  ASSUME DiskInv, NEW w \in Worker, CoordinatorKept, UNCHANGED <<diskVars, envVars>>,
         \/ InformCoordinatorOfRUNNINGState(w) \/ Suspend(w) \/ FinishStage(w)
         \/ Resume(w)
  PROVE  DiskInv'
<1>1. /\ EnvTypeOK' /\ toWorker \in [Worker -> Seq(ToWorkerMsg)]
      /\ fromImage \in [Worker -> Generation] /\ 0 \in Generation
  BY BoundAssumption
     DEF DiskInv, TypeOK, EnvTypeOK, NetTypeOK, WorkerTypeOK, envVars, Generation
<1>2. {"run", "suspended", "elected", "drained", "refilled"} \subseteq Point \ {"unborn"}
  BY DEF Point, WaitPoint
<1>3. CASE InformCoordinatorOfRUNNINGState(w)
  <2>1. /\ Send(w, <<Ok("RUNNING")>>) /\ "RUNNING" \in WorkerState
        /\ unannounced' \subseteq unannounced
        /\ UNCHANGED <<coord, backlog, pc, parent, identityVars, toWorker>>
    BY <1>3, StateNames DEF InformCoordinatorOfRUNNINGState
  <2> QED BY <1>1, <1>2, <2>1, ReportKeeps DEF identityVars
<1>4. CASE Suspend(w)
  <2>1. /\ Send(w, <<Ok("SUSPENDED")>>) /\ "SUSPENDED" \in WorkerState
        /\ pc' = [pc EXCEPT ![w] = "suspended"]
        /\ UNCHANGED <<coord, backlog, unannounced, parent, identityVars, toWorker>>
    BY <1>4, StateNames DEF Suspend, Move
  <2> QED BY <1>1, <1>2, <2>1, ReportKeeps DEF identityVars
<1>5. CASE FinishStage(w)
  <2>1. PICK p \in Point \ {"unborn"}, s \in WorkerState :
          Send(w, <<Ok(s)>>) /\ pc' = [pc EXCEPT ![w] = p]
    BY <1>2, <1>5, StateNames DEF FinishStage, Move
  <2>2. UNCHANGED <<coord, backlog, unannounced, parent, identityVars, toWorker>>
    BY <1>5 DEF FinishStage
  <2> QED BY <1>1, <2>1, <2>2, ReportKeeps DEF identityVars
<1>6. CASE Resume(w)
  <2>1. /\ Send(w, <<Ok("RUNNING")>>) /\ "RUNNING" \in WorkerState
        /\ pc' = [pc EXCEPT ![w] = "run"]
        /\ fromImage' = [fromImage EXCEPT ![w] = 0]
        /\ UNCHANGED <<coord, backlog, unannounced, parent, wComp, wGen, wCohort,
                       toWorker>>
    BY <1>6, StateNames DEF Resume, Move
  <2>2. /\ fromImage' \in [Worker -> Generation]
        /\ \A v \in Worker : fromImage'[v] \in {0, fromImage[v]}
    BY <1>1, <2>1
  <2> QED BY <1>1, <1>2, <2>1, <2>2, ReportKeeps
<1> QED BY <1>3, <1>4, <1>5, <1>6

\* waitForStage1Suspend: the worker takes over the identity in DO_SUSPEND.
LEMMA WaitForStage1SuspendKeeps ==
  ASSUME DiskInv, NEW w \in Worker, WaitForStage1Suspend(w), CoordinatorKept,
         UNCHANGED <<diskVars, envVars>>
  PROVE  DiskInv'
<1>1. WorkerTypeOK /\ EnvTypeOK'
  BY DEF DiskInv, TypeOK, EnvTypeOK, envVars
<1>2. UNCHANGED <<coord, backlog, wCohort, fromImage, toCoord>>
  BY DEF WaitForStage1Suspend
<1>3. CASE Received(w).type = "DO_SUSPEND"
  <2>1. /\ Move(w, "locking") /\ Consume(w) /\ UNCHANGED <<parent, unannounced>>
        /\ wComp' = [wComp EXCEPT ![w] = Received(w).comp]
        /\ wGen' = [wGen EXCEPT ![w] = Received(w).gen]
    BY <1>3 DEF WaitForStage1Suspend
  <2>2. Received(w).comp \in Group /\ Received(w).gen \in Generation
    BY <1>3, ReceivedType, OrderFields DEF WaitForStage1Suspend
  <2>3. WorkerTypeOK' /\ \A v \in Worker : pc'[v] = "unborn" => pc[v] = "unborn"
    BY <1>1, <1>2, <2>1, <2>2 DEF WorkerTypeOK, Move, Point
  <2>4. toWorker' \in [Worker -> Seq(ToWorkerMsg)]
    BY <2>1, ConsumeType DEF WaitForStage1Suspend
  <2> QED BY <1>1, <1>2, <2>3, <2>4, SilentKeeps
<1>4. CASE Received(w).type # "DO_SUSPEND"
  <2>1. /\ Die(w, "dead") \/ Die(w, "abort")
        /\ UNCHANGED <<wComp, wGen>>
    BY <1>4 DEF WaitForStage1Suspend
  <2> QED BY <1>1, <1>2, <2>1, DeathKeeps DEF DeadPoint, identityVars
<1> QED BY <1>3, <1>4

\* waitForCoordinatorMsg: the next stage, a skipped message, or the end.
LEMMA WaitForCoordinatorMsgKeeps ==
  ASSUME DiskInv, NEW w \in Worker, WaitForCoordinatorMsg(w), CoordinatorKept,
         UNCHANGED <<diskVars, envVars>>
  PROVE  DiskInv'
<1>1. WorkerTypeOK /\ EnvTypeOK'
  BY DEF DiskInv, TypeOK, EnvTypeOK, envVars
<1>2. /\ UNCHANGED <<coord, backlog, wComp, wGen, fromImage, toCoord>>
      /\ pc[w] \in WaitPoint /\ Receives(w)
  BY DEF WaitForCoordinatorMsg
<1>3. CASE Expected(w, Received(w)) /\ Move(w, WorkAfter(pc[w])) /\ Consume(w)
           /\ wCohort' = (IF pc[w] = "suspended"
                          THEN [wCohort EXCEPT ![w] = Received(w).cohort]
                          ELSE wCohort)
           /\ UNCHANGED <<parent, unannounced>>
  <2>1. WorkAfter(pc[w]) \in WorkPoint
    BY <1>2 DEF WorkAfter, WaitPoint, WorkPoint
  <2>2. pc[w] = "suspended" => Received(w).cohort \subseteq Worker
    BY <1>2, <1>3, ReceivedType, OrderFields DEF Expected, Awaited
  <2>3. wCohort' \in [Worker -> SUBSET Worker]
    BY <1>1, <1>3, <2>2 DEF WorkerTypeOK
  <2>4. /\ pc' \in [Worker -> Point]
        /\ \A v \in Worker : pc'[v] = "unborn" => pc[v] = "unborn"
    BY <1>1, <1>3, <2>1 DEF WorkerTypeOK, Move, Point, WorkPoint
  <2>5. WorkerTypeOK' /\ toWorker' \in [Worker -> Seq(ToWorkerMsg)]
    BY <1>1, <1>2, <1>3, <2>3, <2>4, ConsumeType DEF WorkerTypeOK
  <2> QED BY <1>1, <1>2, <2>4, <2>5, SilentKeeps
<1>4. CASE Consume(w) /\ UNCHANGED <<pc, parent, unannounced, wCohort>>
  <2>1. WorkerTypeOK' /\ toWorker' \in [Worker -> Seq(ToWorkerMsg)]
    BY <1>1, <1>2, <1>4, ConsumeType DEF WorkerTypeOK
  <2> QED BY <1>1, <1>2, <1>4, <2>1, SilentKeeps
<1>5. CASE (Die(w, "dead") \/ Die(w, "abort")) /\ UNCHANGED wCohort
  BY <1>1, <1>2, <1>5, DeathKeeps DEF DeadPoint, identityVars
<1> QED BY <1>3, <1>4, <1>5 DEF WaitForCoordinatorMsg

\* registerNSData: the data, if there is any, and the report.
LEMMA RegisterNSDataKeeps ==
  ASSUME DiskInv, NEW w \in Worker, RegisterNSData(w), CoordinatorKept,
         UNCHANGED <<diskVars, envVars>>
  PROVE  DiskInv'
<1> DEFINE ok == Ok("NAME_SERVICE_DATA_REGISTERED")
           msgs == (IF fromImage[w] = 0 THEN <<>> ELSE <<RegisterData>>) \o <<ok>>
<1>1. /\ Move(w, "registered") /\ Send(w, msgs)
      /\ UNCHANGED <<coord, backlog, unannounced, parent, identityVars, toWorker>>
  BY DEF RegisterNSData
<1>2. /\ EnvTypeOK' /\ toWorker' \in [Worker -> Seq(ToWorkerMsg)]
  BY <1>1 DEF DiskInv, TypeOK, EnvTypeOK, NetTypeOK, envVars
<1>3. WorkerTypeOK' /\ \A v \in Worker : pc'[v] = "unborn" => pc[v] = "unborn"
  BY <1>1 DEF DiskInv, TypeOK, WorkerTypeOK, Move, Point, WaitPoint, identityVars
<1>4. /\ RegisterData \in ToCoordMsg /\ ok \in ToCoordMsg
      /\ RegisterData.type # "CKPT_FILENAME" /\ ok.type # "CKPT_FILENAME"
  BY ReportTypes, StateNames DEF RegisterData, Ok
<1> HIDE DEF ok
<1> DEFINE data == IF fromImage[w] = 0 THEN <<>> ELSE <<RegisterData>>
<1>5. /\ msgs \in Seq(ToCoordMsg)
      /\ \A i \in 1 .. Len(msgs) : msgs[i].type # "CKPT_FILENAME"
  <2>1. data \in Seq(ToCoordMsg) /\ \A i \in 1 .. Len(data) : data[i] = RegisterData
    BY <1>4
  <2>2. <<ok>> \in Seq(ToCoordMsg) /\ Len(<<ok>>) = 1 /\ <<ok>>[1] = ok
    BY <1>4
  <2> HIDE DEF data
  <2>3. /\ data \o <<ok>> \in Seq(ToCoordMsg)
        /\ \A i \in 1 .. Len(data \o <<ok>>) :
             (data \o <<ok>>)[i] \in {RegisterData, ok}
    BY <2>1, <2>2
  <2> USE DEF data
  <2> QED BY <1>4, <2>3
<1> HIDE DEF msgs
<1> QED BY <1>1, <1>2, <1>3, <1>5, SpeakingKeeps DEF identityVars

\* sendQueries and sendQueryToCoordinator.
LEMMA QueriesKeep ==
  ASSUME DiskInv, NEW w \in Worker, SendQueries(w) \/ QueryAnswered(w),
         CoordinatorKept, UNCHANGED <<diskVars, envVars>>
  PROVE  DiskInv'
<1>1. /\ WorkerTypeOK /\ EnvTypeOK' /\ toWorker \in [Worker -> Seq(ToWorkerMsg)]
      /\ "DONE_QUERYING" \in WorkerState
      /\ {"queried", "asking"} \subseteq Point \ {"unborn"}
  BY StateNames
     DEF DiskInv, TypeOK, EnvTypeOK, NetTypeOK, envVars, Point, WaitPoint, WorkPoint
<1>2. CASE Send(w, <<Ok("DONE_QUERYING")>>) /\ Move(w, "queried")
           /\ toWorker' \in [Worker -> Seq(ToWorkerMsg)]
           /\ UNCHANGED <<coord, backlog, unannounced, parent, identityVars>>
  BY <1>1, <1>2, ReportKeeps DEF Move, identityVars, WorkerTypeOK
<1>3. ASSUME NEW k \in Worker, Send(w, <<Query(k)>>), Move(w, "asking"),
             UNCHANGED <<coord, backlog, unannounced, parent, identityVars, toWorker>>
      PROVE  DiskInv'
  <2> DEFINE msgs == <<Query(k)>>
  <2>1. Query(k) \in ToCoordMsg /\ Query(k).type # "CKPT_FILENAME"
    BY ReportTypes DEF Query
  <2>2. /\ msgs \in Seq(ToCoordMsg) /\ Send(w, msgs)
        /\ \A i \in 1 .. Len(msgs) : msgs[i].type # "CKPT_FILENAME"
    BY <1>3, <2>1
  <2> HIDE DEF msgs
  <2>3. WorkerTypeOK' /\ \A v \in Worker : pc'[v] = "unborn" => pc[v] = "unborn"
    BY <1>1, <1>3 DEF WorkerTypeOK, Move, identityVars
  <2> QED BY <1>1, <1>3, <2>2, <2>3, SpeakingKeeps DEF identityVars
<1>4. CASE SendQueries(w)
  <2>1. wCohort[w] \subseteq Worker
    BY <1>1 DEF WorkerTypeOK
  <2> QED BY <1>1, <1>2, <1>3, <1>4, <2>1 DEF SendQueries
<1>5. CASE QueryAnswered(w)
  <2>1. CASE Received(w).type = "NAME_SERVICE_QUERY_RESPONSE"
    BY <1>2, <1>5, <2>1, ConsumeType DEF QueryAnswered
  <2>2. CASE Received(w).type # "NAME_SERVICE_QUERY_RESPONSE"
    BY <1>1, <1>5, <2>2, DeathKeeps DEF QueryAnswered, DeadPoint
  <2> QED BY <2>1, <2>2
<1> QED BY <1>4, <1>5

\* mtcp completes an image before callbackPostCheckpoint names it.
LEMMA WriteImageKeeps ==
  ASSUME DiskInv, NEW w \in Worker, WriteImage(w), CoordinatorKept,
         UNCHANGED <<script, restarting, envVars>>
  PROVE  DiskInv'
<1> DEFINE file == NameOf(w, wGen[w])
           image == [gen |-> wGen[w], comp |-> wComp[w], cohort |-> wCohort[w]]
           msgs == <<CkptFilename(file), Ok("CHECKPOINTED")>>
<1>1. /\ Move(w, "written") /\ Send(w, msgs)
      /\ images' = [f \in DOMAIN images \cup {file} |->
                      IF f = file THEN image ELSE images[f]]
      /\ UNCHANGED <<coord, backlog, unannounced, parent, identityVars, toWorker>>
  BY DEF WriteImage
<1>2. WorkerTypeOK /\ DiskTypeOK /\ EnvTypeOK' /\ NetTypeOK
  BY DEF DiskInv, TypeOK, EnvTypeOK, envVars
<1>3. file \in FileName /\ file[1] = w
  BY <1>2, FileNameType DEF WorkerTypeOK
<1>4. image \in Image /\ image.gen = wGen[w]
  BY <1>2 DEF WorkerTypeOK, Image
<1>5. \A f \in DOMAIN images : f = NameOf(f[1], images[f].gen)
  BY DEF DiskInv, FilesOnDisk
<1>6. CkptFilename(file) \in ToCoordMsg /\ Ok("CHECKPOINTED") \in ToCoordMsg
  BY <1>3, ReportTypes, StateNames
<1>7. CkptFilename(file).file = file /\ Ok("CHECKPOINTED").type = "OK"
  BY DEF CkptFilename, Ok
<1>8. file = NameOf(w, wGen[w])
  OBVIOUS
<1> HIDE DEF file, image
<1>9. /\ msgs \in Seq(ToCoordMsg) /\ Len(msgs) = 2
      /\ msgs[1] = CkptFilename(file) /\ msgs[2] = Ok("CHECKPOINTED")
  BY <1>6
<1> HIDE DEF msgs
<1>10. /\ DOMAIN images' = DOMAIN images \cup {file}
       /\ \A f \in DOMAIN images' : images'[f] \in Image
       /\ images' = [f \in DOMAIN images' |-> images'[f]]
  BY <1>1, <1>2, <1>4 DEF DiskTypeOK
<1>11. \A f \in DOMAIN images' : f = NameOf(f[1], images'[f].gen)
  BY <1>1, <1>3, <1>4, <1>5, <1>8
<1>12. \A i \in 1 .. Len(msgs) :
         msgs[i].type = "CKPT_FILENAME" => msgs[i].file \in DOMAIN images'
  BY <1>7, <1>9, <1>10
<1>13. /\ toCoord' \in [Worker -> Seq(ToCoordMsg)] /\ FilesSent'
       /\ \A v \in Worker : toCoord[v] # <<>> =>
            toCoord'[v] # <<>> /\ Head(toCoord'[v]) = Head(toCoord[v])
  BY <1>1, <1>9, <1>10, <1>12, SendKeeps
<1>14. NetTypeOK' /\ DiskTypeOK'
  BY <1>1, <1>2, <1>3, <1>10, <1>13 DEF NetTypeOK, DiskTypeOK
<1>15. WorkerTypeOK' /\ \A v \in Worker : pc'[v] = "unborn" => pc[v] = "unborn"
  BY <1>1, <1>2 DEF WorkerTypeOK, Move, Point, WaitPoint, identityVars
<1> QED BY <1>1, <1>2, <1>10, <1>11, <1>13, <1>14, <1>15, WorkerKeeps
        DEF identityVars

\* A worker is turned away, or finds the coordinator gone.
LEMMA TurnedAwayKeeps ==
  ASSUME DiskInv, NEW w \in Worker, TurnedAway(w) \/ CoordinatorLost(w),
         CoordinatorKept, UNCHANGED <<diskVars, envVars>>
  PROVE  DiskInv'
<1> DEFINE v == IF parent[w] = Nobody THEN w ELSE parent[w]
<1>1. /\ Die(v, "dead")
      /\ UNCHANGED <<coord, backlog, identityVars, toCoord>>
  BY DEF TurnedAway, CoordinatorLost
<1>2. EnvTypeOK'
  BY DEF DiskInv, TypeOK, EnvTypeOK, envVars
<1> HIDE DEF v
<1> QED BY <1>1, <1>2, DeathKeeps DEF DeadPoint

\* The parent forks, or fails to: the child takes over its identity.
LEMMA FinishForkKeeps ==
  ASSUME DiskInv, NEW w \in Worker, FinishFork(w), CoordinatorKept,
         UNCHANGED <<diskVars, envVars>>
  PROVE  DiskInv'
<1>1. WorkerTypeOK /\ EnvTypeOK' /\ toWorker \in [Worker -> Seq(ToWorkerMsg)]
  BY DEF DiskInv, TypeOK, EnvTypeOK, NetTypeOK, envVars
<1>2. /\ parent[w] \in Worker /\ Receives(w)
      /\ parent' = [parent EXCEPT ![w] = Nobody]
      /\ UNCHANGED <<coord, backlog, unannounced, fromImage, toCoord>>
  BY <1>1 DEF FinishFork, WorkerTypeOK, Group
<1>3. CASE /\ Move(w, "run") /\ Consume(w)
           /\ wComp' = [wComp EXCEPT ![w] = wComp[parent[w]]]
           /\ wGen' = [wGen EXCEPT ![w] = wGen[parent[w]]]
           /\ wCohort' = [wCohort EXCEPT ![w] = wCohort[parent[w]]]
  <2>1. WorkerTypeOK' /\ \A v \in Worker : pc'[v] = "unborn" => pc[v] = "unborn"
    BY <1>1, <1>2, <1>3 DEF WorkerTypeOK, Move, Point, Group
  <2>2. toWorker' \in [Worker -> Seq(ToWorkerMsg)]
    BY <1>2, <1>3, ConsumeType
  <2> QED BY <1>1, <1>2, <2>1, <2>2, SilentKeeps
<1>4. CASE /\ Move(w, "dead") /\ toWorker' = [toWorker EXCEPT ![w] = <<>>]
           /\ UNCHANGED <<wComp, wGen, wCohort>>
  <2>1. WorkerTypeOK' /\ \A v \in Worker : pc'[v] = "unborn" => pc[v] = "unborn"
    BY <1>1, <1>2, <1>4 DEF WorkerTypeOK, Move, Point, DeadPoint, Group
  <2>2. toWorker' \in [Worker -> Seq(ToWorkerMsg)]
    BY <1>1, <1>4
  <2> QED BY <1>1, <1>2, <2>1, <2>2, SilentKeeps
<1> QED BY <1>3, <1>4 DEF FinishFork

\* A process connects: launched, about to be forked, or restored.
LEMMA ConnectionKeeps ==
  ASSUME DiskInv, CoordinatorKept, NEW w \in Worker, w \notin clients,
         NEW hello \in ToCoordMsg, hello.type = "HELLO_COORDINATOR",
         Connect(w, hello), UNCHANGED <<coord, images, script>>,
         restarting' \subseteq restarting, EnvTypeOK', WorkerTypeOK',
         toWorker' \in [Worker -> Seq(ToWorkerMsg)],
         \A v \in Worker : pc'[v] = "unborn" => v # w /\ pc[v] = "unborn",
         \A v \in Worker :
           fromImage'[v] # 0 => NameOf(v, fromImage'[v]) \in DOMAIN images
  PROVE  DiskInv'
<1>1. /\ toCoord' \in [Worker -> Seq(ToCoordMsg)] /\ FilesSent'
      /\ backlog' = backlog \cup {w}
      /\ \A v \in backlog' :
           toCoord'[v] # <<>> /\ Head(toCoord'[v]).type = "HELLO_COORDINATOR"
  BY ConnectKeeps
<1>2. CoordTypeOK' /\ NetTypeOK' /\ DiskTypeOK'
  BY <1>1 DEF DiskInv, TypeOK, CoordTypeOK, NetTypeOK, DiskTypeOK, CoordinatorKept
<1>3. HelloFirst'
  BY <1>1 DEF DiskInv, HelloFirst, CoordinatorKept
<1>4. FilesOnDisk' /\ ScriptImagesExist'
  BY DEF DiskInv, FilesOnDisk, ScriptImagesExist, CoordinatorKept
<1> QED BY <1>1, <1>2, <1>3, <1>4 DEF DiskInv, TypeOK

\* Launch, fork, exit and crash.
LEMMA UserProcessStepKeeps ==
  ASSUME DiskInv, NEW w \in Worker, UserProcessStep(w)
  PROVE  DiskInv'
<1>1. /\ WorkerTypeOK /\ NetTypeOK /\ EnvTypeOK
      /\ CoordinatorKept /\ UNCHANGED <<diskVars, commands, restarts>>
  BY DEF DiskInv, TypeOK, UserProcessStep
<1>2. {"hello"} \subseteq Point \ {"unborn"} /\ "dead" \in DeadPoint
  BY DEF Point, DeadPoint
<1>3. \A v \in Worker : fromImage[v] # 0 => NameOf(v, fromImage[v]) \in DOMAIN images
  BY DEF DiskInv, FilesOnDisk
<1>4. ASSUME UNCHANGED crashes
      PROVE  EnvTypeOK'
  BY <1>1, <1>4 DEF EnvTypeOK
<1>5. ASSUME NEW c \in Worker, pc[c] = "unborn", NEW s \in {"UNKNOWN", "RUNNING"},
             Connect(c, Hello(s, Nobody, 0, {})), Move(c, "hello"),
             parent' \in [Worker -> Group],
             UNCHANGED <<coord, unannounced, identityVars, toWorker, crashes>>
      PROVE  DiskInv'
  <2> DEFINE hello == Hello(s, Nobody, 0, {})
  <2>1. hello \in ToCoordMsg
    BY ReportTypes, BoundAssumption, SMTT(20) DEF Group, Generation
  <2>2. hello.type = "HELLO_COORDINATOR"
    BY DEF Hello
  <2>3. c \notin clients
    BY <1>5 DEF DiskInv, HelloFirst
  <2>4. Connect(c, hello) /\ EnvTypeOK'
    BY <1>4, <1>5
  <2> HIDE DEF hello
  <2>5. WorkerTypeOK' /\ \A v \in Worker : pc'[v] = "unborn" => v # c /\ pc[v] = "unborn"
    BY <1>1, <1>2, <1>5 DEF WorkerTypeOK, Move, identityVars
  <2>6. toWorker' \in [Worker -> Seq(ToWorkerMsg)]
    BY <1>1, <1>5 DEF NetTypeOK
  <2> QED BY <1>1, <1>3, <1>5, <2>1, <2>2, <2>3, <2>4, <2>5, <2>6, ConnectionKeeps
          DEF diskVars, identityVars
<1>6. CASE Launch(w) /\ UNCHANGED crashes
  BY <1>1, <1>5, <1>6 DEF Launch, WorkerTypeOK
<1>7. ASSUME NEW c \in Worker, BeginFork(w, c), UNCHANGED crashes
      PROVE  DiskInv'
  <2>1. parent' \in [Worker -> Group]
    BY <1>1, <1>7 DEF BeginFork, WorkerTypeOK, Group
  <2> QED BY <1>5, <1>7, <2>1 DEF BeginFork
<1>8. CASE Exit(w) /\ UNCHANGED crashes
  BY <1>1, <1>2, <1>4, <1>8, DeathKeeps DEF Exit
<1>9. CASE Crash(w)
  <2>1. EnvTypeOK'
    BY <1>1, <1>9, BoundAssumption DEF Crash, EnvTypeOK
  <2> QED BY <1>1, <1>2, <1>9, <2>1, DeathKeeps DEF Crash
<1> QED BY <1>6, <1>7, <1>8, <1>9 DEF UserProcessStep

\* dmtcp_restart restores a process under the identity its image is filed by.
LEMMA RestartStepKeeps ==
  ASSUME DiskInv, NEW f \in FileName, RestartStep(f)
  PROVE  DiskInv'
<1> DEFINE w == f[1]
           image == images[f]
           hello == Hello("RESTARTING", image.comp, image.gen, image.cohort)
<1>1. /\ f \in restarting /\ Gone(w)
      /\ restarting' = restarting \ {f}
      /\ Connect(w, hello) /\ Move(w, "hello")
      /\ wComp' = [wComp EXCEPT ![w] = image.comp]
      /\ wGen' = [wGen EXCEPT ![w] = image.gen]
      /\ wCohort' = [wCohort EXCEPT ![w] = image.cohort]
      /\ fromImage' = [fromImage EXCEPT ![w] = image.gen]
      /\ toWorker' = [toWorker EXCEPT ![w] = <<>>]
      /\ UNCHANGED <<coord, unannounced, parent, images, script>>
      /\ CoordinatorKept /\ UNCHANGED envVars
  BY DEF RestartStep, RestartProcess
<1>2. WorkerTypeOK /\ NetTypeOK /\ DiskTypeOK /\ EnvTypeOK' /\ FilesOnDisk
  BY <1>1 DEF DiskInv, TypeOK, EnvTypeOK, envVars
<1>3. w \in Worker /\ w \notin clients
  BY <1>1 DEF FileName, Gone
<1>4. /\ f \in DOMAIN images /\ f = NameOf(w, image.gen)
      /\ image.comp \in Group /\ image.gen \in Generation
      /\ image.cohort \subseteq Worker
  BY <1>1, <1>2 DEF FilesOnDisk, DiskTypeOK, Image
<1>5. hello \in ToCoordMsg /\ hello.type = "HELLO_COORDINATOR"
  <2>1. hello \in ToCoordMsg
    BY <1>4, ReportTypes
  <2>2. hello.type = "HELLO_COORDINATOR"
    BY DEF Hello
  <2> QED BY <2>1, <2>2
<1> HIDE DEF w, image, hello
<1>6. WorkerTypeOK' /\ \A v \in Worker : pc'[v] = "unborn" => v # w /\ pc[v] = "unborn"
  BY <1>1, <1>2, <1>3, <1>4 DEF WorkerTypeOK, Move, Point
<1>7. toWorker' \in [Worker -> Seq(ToWorkerMsg)]
  BY <1>1, <1>2, <1>3 DEF NetTypeOK
<1>8. \A v \in Worker :
        fromImage'[v] # 0 => NameOf(v, fromImage'[v]) \in DOMAIN images
  BY <1>1, <1>2, <1>3, <1>4 DEF FilesOnDisk, WorkerTypeOK
<1> QED BY <1>1, <1>2, <1>3, <1>5, <1>6, <1>7, <1>8, ConnectionKeeps

\* The restart script is run: the files it names are those it was written with.
LEMMA RunScriptKeeps ==
  ASSUME DiskInv, RunScript
  PROVE  DiskInv'
<1>1. /\ UNCHANGED <<images, script, commands, crashes>> /\ restarting' = script
      /\ UNCHANGED coordVars /\ UNCHANGED workerVars /\ UNCHANGED netVars
      /\ restarts < MaxRestart /\ restarts' = restarts + 1
  BY DEF RunScript
<1>2. CoordTypeOK' /\ WorkerTypeOK' /\ NetTypeOK'
  BY <1>1 DEF DiskInv, TypeOK, CoordTypeOK, WorkerTypeOK, NetTypeOK, coordVars,
     workerVars, netVars
<1>3. DiskTypeOK' /\ EnvTypeOK'
  BY <1>1, BoundAssumption DEF DiskInv, TypeOK, DiskTypeOK, EnvTypeOK
<1>4. HelloFirst' /\ FilesSent' /\ FilesOnDisk' /\ ScriptImagesExist'
  BY <1>1 DEF DiskInv, HelloFirst, FilesSent, FilesOnDisk, ScriptImagesExist,
     coordVars, workerVars, netVars
<1> QED BY <1>2, <1>3, <1>4 DEF DiskInv, TypeOK

-----------------------------------------------------------------------------
(* The theorems. *)

\* At first there is no file and no process.
LEMMA InitDiskInv == Init => DiskInv
<1> SUFFICES ASSUME Init PROVE DiskInv
  OBVIOUS
<1>1. CoordTypeOK
  <2>1. numPeers \in Int
    BY DEF Init
  <2>2. cstate \in [Worker -> WorkerState]
    BY StateNames DEF Init
  <2>3. compId \in Group /\ generation \in Generation
    BY BoundAssumption DEF Init, Group, Generation
  <2> QED BY <2>1, <2>2, <2>3 DEF Init, CoordTypeOK
<1>2. WorkerTypeOK
  BY BoundAssumption DEF Init, WorkerTypeOK, Point, Group, Generation
<1>3. <<>> \in Seq(ToCoordMsg) /\ <<>> \in Seq(ToWorkerMsg) /\ Len(<<>>) = 0
  OBVIOUS
<1>4. NetTypeOK /\ EnvTypeOK
  BY <1>3, BoundAssumption DEF Init, NetTypeOK, EnvTypeOK
<1>5. DOMAIN images = {} /\ images = [f \in DOMAIN images |-> images[f]]
  BY DEF Init
<1>6. DiskTypeOK
  BY <1>5 DEF Init, DiskTypeOK
<1>7. HelloFirst /\ FilesSent /\ FilesOnDisk /\ ScriptImagesExist
  BY <1>3, <1>5 DEF Init, HelloFirst, FilesSent, FilesOnDisk, ScriptImagesExist
<1> QED BY <1>1, <1>2, <1>4, <1>6, <1>7 DEF DiskInv, TypeOK

\* Every step of the coordinator, of a worker or of the user keeps DiskInv.
LEMMA NextDiskInv == DiskInv /\ [Next]_vars => DiskInv'
<1> SUFFICES ASSUME DiskInv, [Next]_vars PROVE DiskInv'
  OBVIOUS
<1>1. ASSUME NEW w \in Worker, CoordinatorStep(w)
      PROVE  DiskInv'
  BY <1>1, OnConnectKeeps, OnDisconnectKeeps, OnOkKeeps, OnCkptFilenameKeeps,
     OnRegisterKeeps, OnQueryKeeps DEF CoordinatorStep
<1>2. ASSUME NEW w \in Worker, CkptThreadStep(w)
      PROVE  DiskInv'
  <2>1. CoordinatorKept /\ UNCHANGED <<script, restarting, envVars>>
    BY <1>2 DEF CkptThreadStep
  <2>2. CASE WriteImage(w)
    BY <2>1, <2>2, WriteImageKeeps
  <2>3. CASE ~WriteImage(w)
    <3>1. UNCHANGED <<diskVars, envVars>>
      BY <1>2, <2>1, <2>3 DEF CkptThreadStep, diskVars
    <3> QED BY <1>2, <2>1, <2>3, <3>1, HandshakeKeeps, TurnedAwayKeeps,
               WaitForStage1SuspendKeeps, WaitForCoordinatorMsgKeeps, StageKeeps,
               RegisterNSDataKeeps, QueriesKeep DEF CkptThreadStep
  <2> QED BY <2>2, <2>3
<1>3. ASSUME NEW w \in Worker, MainThreadStep(w)
      PROVE  DiskInv'
  BY <1>3, StageKeeps, FinishForkKeeps DEF MainThreadStep
<1>4. CASE UNCHANGED vars
  <2>1. CoordTypeOK' /\ WorkerTypeOK' /\ NetTypeOK' /\ DiskTypeOK' /\ EnvTypeOK'
    BY <1>4 DEF DiskInv, TypeOK, CoordTypeOK, WorkerTypeOK, NetTypeOK, DiskTypeOK,
       EnvTypeOK, vars, coordVars, workerVars, netVars, diskVars, envVars
  <2>2. HelloFirst' /\ FilesSent' /\ FilesOnDisk' /\ ScriptImagesExist'
    BY <1>4 DEF DiskInv, HelloFirst, FilesSent, FilesOnDisk, ScriptImagesExist,
       vars, coordVars, workerVars, netVars, diskVars
  <2> QED BY <2>1, <2>2 DEF DiskInv, TypeOK
<1> QED BY <1>1, <1>2, <1>3, <1>4, UserProcessStepKeeps, RestartStepKeeps,
           RunScriptKeeps, UserStepKeeps DEF Next, WorkerStep

\* DiskInv is an invariant of the protocol.
LEMMA DiskInvariant == Spec => []DiskInv
BY InitDiskInv, NextDiskInv, PTL DEF Spec

\* Coordinator and workers never leave the states, and never exchange
\* messages other than those, that dmtcpmessagetypes.h provides for.
THEOREM TypeCorrect == Spec => []TypeOK
<1>1. DiskInv => TypeOK
  BY DEF DiskInv
<1> QED BY <1>1, DiskInvariant, PTL

\* The restart script the coordinator writes, and the list it gathers for the
\* next, name only images that are complete, however many processes fork,
\* crash, are killed or are restored meanwhile.
THEOREM ScriptCorrect == Spec => []ScriptImagesExist
<1>1. DiskInv => ScriptImagesExist
  BY DEF DiskInv
<1> QED BY <1>1, DiskInvariant, PTL
=============================================================================
