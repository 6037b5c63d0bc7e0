-------------------------- MODULE DmtcpRestartProofs --------------------------
(***************************************************************************)
(* What the rounds of a checkpoint say of a restart, and of the time       *)
(* before it.  The processes that come back together come from one         *)
(* checkpoint: NameInv is an invariant of a build whose image names hold   *)
(* the generation (UNIQUE_CHECKPOINT_FILENAMES).  Until a first restart a  *)
(* checkpoint thread is only sent the message it waits for: MessageInv is  *)
(* an invariant when no user forces a restart.  And until then, if one     *)
(* program is launched and all others are forked in it, no assertion of    *)
(* the coordinator fails: SurvivalInv.  When no process crashes, is killed *)
(* or is restored, a script names all the peers of its images: ScriptInv.  *)
(***************************************************************************)
EXTENDS DmtcpRoundProofs

-----------------------------------------------------------------------------
(* File names under way. *)

\* A worker says something, in which names are followed by their report.
LEMMA SendsNames ==
  ASSUME DiskInv, NEW w \in Worker, NEW msgs \in Seq(ToCoordMsg), Send(w, msgs),
         NameThenReport(toCoord[w]), NameThenReport(msgs)
  PROVE  /\ NameThenReport(toCoord'[w])
         /\ \A f \in NamesSent(w)' :
              f \in NamesSent(w) \/ \E i \in 1 .. Len(msgs) : IsName(msgs[i]) /\ f = msgs[i].file
         /\ \A v \in Worker \ {w} : toCoord'[v] = toCoord[v]
<1>1. /\ toCoord \in [Worker -> Seq(ToCoordMsg)]
      /\ toCoord' = [toCoord EXCEPT ![w] = toCoord[w] \o msgs]
  BY DEF DiskInv, TypeOK, NetTypeOK, Send
<1>2. PICK l \in Nat : l = Len(toCoord[w])
  BY <1>1
<1>3. PICK n \in Nat : n = l + Len(msgs)
  OBVIOUS
<1>4. /\ Len(msgs) \in Nat /\ Len(toCoord'[w]) = n
      /\ \A i \in 1 .. l : toCoord'[w][i] = toCoord[w][i]
      /\ \A i \in l + 1 .. n : toCoord'[w][i] = msgs[i - l] /\ i - l \in 1 .. Len(msgs)
      /\ \A v \in Worker \ {w} : toCoord'[v] = toCoord[v]
  BY <1>1, <1>2, <1>3
<1>5. ASSUME NEW i \in 1 .. n, IsName(toCoord'[w][i])
      PROVE  i + 1 \in 1 .. n /\ toCoord'[w][i + 1] = Ok("CHECKPOINTED")
  <2>1. CASE i \in 1 .. l
    <3>1. i + 1 \in 1 .. l /\ toCoord[w][i + 1] = Ok("CHECKPOINTED")
      BY <1>2, <1>4, <1>5, <2>1 DEF NameThenReport
    <3> QED BY <1>3, <1>4, <3>1
  <2>2. CASE i \in l + 1 .. n
    <3>1. PICK k \in 1 .. Len(msgs) : k = i - l /\ toCoord'[w][i] = msgs[k]
      BY <1>4, <2>2
    <3>2. k + 1 \in 1 .. Len(msgs) /\ msgs[k + 1] = Ok("CHECKPOINTED")
      BY <1>5, <3>1 DEF NameThenReport
    <3>3. i + 1 \in l + 1 .. n /\ (i + 1) - l = k + 1
      BY <1>3, <1>4, <3>1, <3>2
    <3> QED BY <1>4, <3>2, <3>3
  <2> QED BY <2>1, <2>2
<1>6. NameThenReport(toCoord'[w])
  BY <1>4, <1>5 DEF NameThenReport
<1>7. ASSUME NEW f \in NamesSent(w)'
      PROVE  f \in NamesSent(w) \/ \E i \in 1 .. Len(msgs) : IsName(msgs[i]) /\ f = msgs[i].file
  <2>1. PICK i \in 1 .. n : IsName(toCoord'[w][i]) /\ f = toCoord'[w][i].file
    BY <1>4, <1>7 DEF NamesSent, IsName
  <2>2. CASE i \in 1 .. l
    BY <1>2, <1>4, <2>1, <2>2 DEF NamesSent
  <2>3. CASE i \in l + 1 .. n
    BY <1>4, <2>1, <2>3
  <2> QED BY <2>2, <2>3
<1> QED BY <1>4, <1>6, <1>7

\* The coordinator takes a message: no name is left without its report.
LEMMA TakesNames ==
  ASSUME DiskInv, NEW w \in Worker, toCoord[w] # <<>>,
         toCoord' = [toCoord EXCEPT ![w] = Tail(@)], NameThenReport(toCoord[w])
  PROVE  /\ NameThenReport(toCoord'[w])
         /\ NamesSent(w)' \subseteq NamesSent(w)
         /\ IsName(Head(toCoord[w])) => Head(toCoord[w]).file \in NamesSent(w)
         /\ \A v \in Worker \ {w} : toCoord'[v] = toCoord[v]
<1>1. toCoord \in [Worker -> Seq(ToCoordMsg)]
  BY DEF DiskInv, TypeOK, NetTypeOK
<1>2. PICK n \in Nat : n = Len(toCoord'[w])
  <2>1. toCoord'[w] \in Seq(ToCoordMsg)
    BY <1>1
  <2> QED BY <2>1
<1>3. /\ n + 1 = Len(toCoord[w])
      /\ \A i \in 1 .. n : toCoord'[w][i] = toCoord[w][i + 1] /\ i + 1 \in 1 .. n + 1
      /\ Head(toCoord[w]) = toCoord[w][1] /\ 1 \in 1 .. n + 1
      /\ \A v \in Worker \ {w} : toCoord'[v] = toCoord[v]
  BY <1>1, <1>2
<1>4. ASSUME NEW i \in 1 .. n, IsName(toCoord'[w][i])
      PROVE  i + 1 \in 1 .. n /\ toCoord'[w][i + 1] = Ok("CHECKPOINTED")
  <2>1. (i + 1) + 1 \in 1 .. n + 1 /\ toCoord[w][(i + 1) + 1] = Ok("CHECKPOINTED")
    BY <1>3, <1>4 DEF NameThenReport
  <2>2. i + 1 \in 1 .. n
    BY <2>1
  <2> QED BY <1>3, <2>1, <2>2
<1>5. NameThenReport(toCoord'[w])
  BY <1>2, <1>4 DEF NameThenReport
<1>6. NamesSent(w)' \subseteq NamesSent(w)
  <2> SUFFICES ASSUME NEW f \in NamesSent(w)' PROVE f \in NamesSent(w)
    OBVIOUS
  <2>1. PICK i \in 1 .. n : IsName(toCoord'[w][i]) /\ f = toCoord'[w][i].file
    BY <1>2 DEF NamesSent, IsName
  <2> QED BY <1>3, <2>1 DEF NamesSent
<1>7. IsName(Head(toCoord[w])) => Head(toCoord[w]).file \in NamesSent(w)
  BY <1>3 DEF NamesSent
<1> QED BY <1>3, <1>5, <1>6, <1>7

\* A name under way comes with a report of barrier 4.
LEMMA NameMeansReport ==
  ASSUME DiskInv, NEW w \in Worker, NameThenReport(toCoord[w])
  PROVE  /\ Reports(w) = {} => NamesSent(w) = {}
         /\ NamesSent(w) # {} => \E i \in Reports(w) : Said(w, i) = 4
<1>1. ASSUME NEW f \in NamesSent(w)
      PROVE  \E i \in Reports(w) : Said(w, i) = 4
  <2>1. PICK k \in 1 .. Len(toCoord[w]) : IsName(toCoord[w][k])
    BY <1>1 DEF NamesSent
  <2>2. k + 1 \in 1 .. Len(toCoord[w]) /\ toCoord[w][k + 1] = Ok("CHECKPOINTED")
    BY <2>1 DEF NameThenReport
  <2>3. Ok("CHECKPOINTED").type = "OK" /\ Level(Ok("CHECKPOINTED").state) = 4
    BY DEF Ok, Level
  <2> QED BY <2>2, <2>3 DEF Reports, Said
<1> QED BY <1>1

\* Channels that are kept hold the names they held.
LEMMA NamesKept ==
  ASSUME NEW v, toCoord'[v] = toCoord[v]
  PROVE  NamesSent(v)' = NamesSent(v)
BY DEF NamesSent, IsName

-----------------------------------------------------------------------------
(* What a step has to respect. *)

\* A step of a worker: a name it sends during a checkpoint is of that
\* checkpoint, and a process restored comes from the script that is running.
LEMMA WorkerNames ==
  ASSUME DiskInv, NameInv, NEW w \in Worker, CoordinatorKept, script' = script,
         restarting' \subseteq restarting,
         \A v \in Worker \ {w} : toCoord'[v] = toCoord[v],
         NameThenReport(toCoord'[w]),
         w \in clients /\ InCheckpoint =>
           \A f \in NamesSent(w)' : f \in NamesSent(w) \/ f[2] = generation,
         \A v \in Worker : Alive(v)' /\ fromImage'[v] # 0 =>
           \/ Alive(v) /\ fromImage'[v] = fromImage[v]
           \/ \E f \in restarting : fromImage'[v] = f[2]
  PROVE  NameInv'
<1>1. \A v \in Worker : NameThenReport(toCoord'[v])
  BY DEF NameInv
<1>2. NamesOfCheckpoint'
  <2>1. /\ InCheckpoint' = InCheckpoint /\ clients' = clients /\ clients \subseteq Worker
        /\ restartFilenames' = restartFilenames /\ generation' = generation
    BY DEF InCheckpoint, CoordinatorKept, DiskInv, TypeOK, CoordTypeOK
  <2>2. \A v \in Worker \ {w} : NamesSent(v)' = NamesSent(v)
    BY NamesKept
  <2> QED BY <2>1, <2>2 DEF NameInv, NamesOfCheckpoint
<1>3. OneCheckpoint'
  BY DEF NameInv, OneCheckpoint
<1> QED BY <1>1, <1>2, <1>3 DEF NameInv

\* A step of the coordinator: a checkpoint that goes on has the names it had,
\* but for those that arrive; one that begins has none.
LEMMA CoordinatorNames ==
  ASSUME DiskInv, NameInv, UNCHANGED workerVars, restarting' = restarting,
         \/ script' = script
         \/ script' = restartFilenames /\ InCheckpoint,
         \A v \in Worker : NameThenReport(toCoord'[v]),
         clients \subseteq Worker, clients' \subseteq Worker,
         InCheckpoint' =>
           \/ /\ InCheckpoint /\ generation' = generation
              /\ \A f \in restartFilenames' :
                   f \in restartFilenames \cup UNION {NamesSent(v) : v \in clients}
              /\ \A v \in clients' : NamesSent(v)' = {}
                                     \/ (v \in clients /\ NamesSent(v)' \subseteq NamesSent(v))
           \/ restartFilenames' = {} /\ \A v \in clients' : NamesSent(v)' = {}
  PROVE  NameInv'
<1>1. NamesOfCheckpoint'
  <2> SUFFICES ASSUME InCheckpoint'
               PROVE  /\ \A f \in restartFilenames' : f[2] = generation'
                      /\ \A v \in clients' : \A f \in NamesSent(v)' : f[2] = generation'
    BY DEF NamesOfCheckpoint
  <2> QED BY DEF NameInv, NamesOfCheckpoint
<1>2. OneCheckpoint'
  <2>1. \A f, g \in script' : f[2] = g[2]
    BY DEF NameInv, OneCheckpoint, NamesOfCheckpoint
  <2>2. \A v \in Worker : Alive(v)' = Alive(v) /\ fromImage' = fromImage
    BY DEF Alive, workerVars
  <2> QED BY <2>1, <2>2 DEF NameInv, OneCheckpoint, workerVars
<1> QED BY <1>1, <1>2 DEF NameInv

-----------------------------------------------------------------------------
(* The steps of the workers. *)

\* Messages in which no name is, or a name and its report.
LEMMA NamelessMessages ==
  /\ \A s : /\ NameThenReport(<<Ok(s)>>)
            /\ \A i \in 1 .. Len(<<Ok(s)>>) : ~IsName(<<Ok(s)>>[i])
  /\ \A k : /\ NameThenReport(<<Query(k)>>)
            /\ \A i \in 1 .. Len(<<Query(k)>>) : ~IsName(<<Query(k)>>[i])
<1>1. ASSUME NEW m, ~IsName(m)
      PROVE  NameThenReport(<<m>>) /\ \A i \in 1 .. Len(<<m>>) : ~IsName(<<m>>[i])
  BY <1>1 DEF NameThenReport
<1>2. \A s : ~IsName(Ok(s))
  BY DEF IsName, Ok
<1>3. \A k : ~IsName(Query(k))
  BY DEF IsName, Query
<1> QED BY <1>1, <1>2, <1>3

\* A step that sends at most a report or a query.
LEMMA NamelessStep ==
  ASSUME DiskInv, NameInv, NEW w \in Worker, CoordinatorKept, script' = script,
         restarting' \subseteq restarting,
         \/ toCoord' = toCoord
         \/ \E s \in WorkerState : Send(w, <<Ok(s)>>)
         \/ \E k \in Worker : Send(w, <<Query(k)>>),
         \A v \in Worker : Alive(v)' /\ fromImage'[v] # 0 =>
           Alive(v) /\ fromImage'[v] = fromImage[v]
  PROVE  NameInv'
<1>1. \A v \in Worker : NameThenReport(toCoord[v])
  BY DEF NameInv
<1>2. /\ \A v \in Worker \ {w} : toCoord'[v] = toCoord[v]
      /\ NameThenReport(toCoord'[w])
      /\ \A f \in NamesSent(w)' : f \in NamesSent(w)
  <2>1. CASE toCoord' = toCoord
    BY <1>1, <2>1, NamesKept
  <2>2. ASSUME NEW m \in ToCoordMsg, Send(w, <<m>>), NameThenReport(<<m>>),
               \A i \in 1 .. Len(<<m>>) : ~IsName(<<m>>[i])
        PROVE  /\ \A v \in Worker \ {w} : toCoord'[v] = toCoord[v]
               /\ NameThenReport(toCoord'[w])
               /\ \A f \in NamesSent(w)' : f \in NamesSent(w)
    <3>1. <<m>> \in Seq(ToCoordMsg)
      OBVIOUS
    <3> QED BY <1>1, <2>2, <3>1, SendsNames
  <2>3. /\ \A s \in WorkerState : Ok(s) \in ToCoordMsg
        /\ \A k \in Worker : Query(k) \in ToCoordMsg
    BY DEF Ok, Query, ToCoordMsg
  <2> QED BY <2>1, <2>2, <2>3, NamelessMessages
<1> QED BY <1>2, WorkerNames

\* The end of a process brings none back.
LEMMA DeathBringsNone ==
  ASSUME NEW u, NEW p \in DeadPoint, Die(u, p)
  PROVE  \A v \in Worker : Alive(v)' => Alive(v)
BY DEF Die, Alive

\* The steps of a worker but those that name an image.
LEMMA QuietWorkerNames ==
  ASSUME DiskInv, NameInv, NEW w \in Worker, CoordinatorKept, UNCHANGED <<script, restarting>>,
         \/ TurnedAway(w) \/ WaitForStage1Suspend(w) \/ Suspend(w)
         \/ WaitForCoordinatorMsg(w) \/ FinishStage(w) \/ SendQueries(w)
         \/ QueryAnswered(w) \/ Resume(w) \/ CoordinatorLost(w)
         \/ InformCoordinatorOfRUNNINGState(w) \/ FinishFork(w) \/ Exit(w) \/ Crash(w)
  PROVE  NameInv'
<1>1. \/ toCoord' = toCoord
      \/ \E s \in WorkerState : Send(w, <<Ok(s)>>)
      \/ \E k \in Worker : Send(w, <<Query(k)>>)
  <2>1. WorkerTypeOK
    BY DEF DiskInv, TypeOK
  <2> QED BY <2>1, StateNames
       DEF TurnedAway, WaitForStage1Suspend, Suspend, WaitForCoordinatorMsg, FinishStage,
           SendQueries, QueryAnswered, Resume, CoordinatorLost,
           InformCoordinatorOfRUNNINGState, FinishFork, Exit, Crash, WorkerTypeOK
<1>2. \A v \in Worker : Alive(v)' => Alive(v)
  <2>1. \/ \E u : Die(u, "dead") \/ Die(u, "abort")
        \/ pc' = pc
        \/ Alive(w) /\ \E p : Move(w, p)
    BY DEF TurnedAway, WaitForStage1Suspend, Suspend, WaitForCoordinatorMsg, FinishStage,
           SendQueries, QueryAnswered, Resume, CoordinatorLost, WaitPoint, DeadPoint, Alive,
           InformCoordinatorOfRUNNINGState, FinishFork, Exit, Crash
  <2>2. pc \in [Worker -> Point] /\ "dead" \in DeadPoint /\ "abort" \in DeadPoint
    BY DEF DiskInv, TypeOK, WorkerTypeOK, DeadPoint
  <2>3. CASE \E u : Die(u, "dead") \/ Die(u, "abort")
    BY <2>2, <2>3, DeathBringsNone
  <2>4. CASE pc' = pc
    BY <2>4 DEF Alive
  <2>5. CASE Alive(w) /\ \E p : Move(w, p)
    BY <2>2, <2>5 DEF Move, Alive
  <2> QED BY <2>1, <2>3, <2>4, <2>5
<1>3. \A v \in Worker : fromImage'[v] # 0 => fromImage'[v] = fromImage[v]
  <2>1. fromImage \in [Worker -> Generation]
    BY DEF DiskInv, TypeOK, WorkerTypeOK
  <2>2. fromImage' = fromImage \/ fromImage' = [fromImage EXCEPT ![w] = 0]
    BY DEF TurnedAway, WaitForStage1Suspend, Suspend, WaitForCoordinatorMsg, FinishStage,
           SendQueries, QueryAnswered, Resume, CoordinatorLost, identityVars,
           InformCoordinatorOfRUNNINGState, FinishFork, Exit, Crash
  <2> QED BY <2>1, <2>2
<1> QED BY <1>1, <1>2, <1>3, NamelessStep

\* A new connection, of a process launched, forked or restored.
LEMMA ConnectNames ==
  ASSUME DiskInv, NameInv, NEW w \in Worker, NEW hello, Connect(w, hello), ~IsName(hello),
         CoordinatorKept, script' = script, restarting' \subseteq restarting,
         \A v \in Worker \ {w} : pc'[v] = pc[v] /\ fromImage'[v] = fromImage[v],
         \/ fromImage'[w] = 0
         \/ \E f \in restarting : fromImage'[w] = f[2]
  PROVE  NameInv'
<1>1. /\ toCoord'[w] = <<hello>> /\ \A v \in Worker \ {w} : toCoord'[v] = toCoord[v]
  BY DEF Connect, DiskInv, TypeOK, NetTypeOK
<1>2. NameThenReport(toCoord'[w]) /\ NamesSent(w)' = {}
  BY <1>1 DEF NameThenReport, NamesSent
<1>3. \A v \in Worker \ {w} : Alive(v)' = Alive(v)
  BY DEF Alive
<1> QED BY <1>1, <1>2, <1>3, WorkerNames

\* mtcp writes an image: it is of the checkpoint the coordinator runs.
LEMMA WriteImageNames ==
  ASSUME DiskInv, RoundInv, NameInv, UniqueNames, NEW w \in Worker, WriteImage(w),
         CoordinatorKept, UNCHANGED <<script, restarting>>
  PROVE  NameInv'
<1> DEFINE file == NameOf(w, wGen[w])
           msgs == <<CkptFilename(file), Ok("CHECKPOINTED")>>
<1>1. /\ pc[w] = "writing" /\ Move(w, "written") /\ Send(w, msgs) /\ fromImage' = fromImage
  BY DEF WriteImage, identityVars
<1>2. file[2] = wGen[w] /\ file \in FileName
  BY DEF NameOf, FileName, DiskInv, TypeOK, WorkerTypeOK
<1>3. wGen[w] = generation
  <2>1. /\ Alive(w) /\ Participant(w) /\ Reached(w) = 3
    BY <1>1 DEF Alive, Participant, DeadPoint, Reached
  <2>2. ~Back
    BY <1>1, <2>1, Participants DEF PlaceBack
  <2>3. PICK j \in 0 .. 7 : Round(j)
    BY <2>2 DEF RoundInv
  <2> QED BY <2>1, <2>3, Participants DEF SuspendInRound
<1>4. /\ msgs \in Seq(ToCoordMsg) /\ NameThenReport(msgs)
      /\ \A i \in 1 .. Len(msgs) : IsName(msgs[i]) => msgs[i].file = file
  <2>1. CkptFilename(file) \in ToCoordMsg /\ Ok("CHECKPOINTED") \in ToCoordMsg
    BY <1>2, StateNames DEF CkptFilename, Ok, ToCoordMsg
  <2>2. ~IsName(Ok("CHECKPOINTED")) /\ CkptFilename(file).file = file
    BY DEF IsName, Ok, CkptFilename
  <2> HIDE DEF file
  <2> QED BY <2>1, <2>2 DEF NameThenReport
<1> HIDE DEF msgs, file
<1>5. /\ NameThenReport(toCoord'[w])
      /\ \A f \in NamesSent(w)' : f \in NamesSent(w) \/ f = file
      /\ \A v \in Worker \ {w} : toCoord'[v] = toCoord[v]
  BY <1>1, <1>4, SendsNames DEF NameInv
<1>6. \A v \in Worker : Alive(v)' => Alive(v)
  BY <1>1 DEF Alive, Move, DeadPoint, DiskInv, TypeOK, WorkerTypeOK
<1> QED BY <1>1, <1>2, <1>3, <1>5, <1>6, WorkerNames

\* A process reports the image it came from: no checkpoint goes on meanwhile.
LEMMA HandshakeNames ==
  ASSUME DiskInv, RoundInv, NameInv, NEW w \in Worker, Handshake(w),
         CoordinatorKept, UNCHANGED <<script, restarting>>
  PROVE  NameInv'
<1> DEFINE file == NameOf(w, fromImage[w])
           msgs == <<CkptFilename(file), Ok("CHECKPOINTED")>>
<1>1. /\ pc[w] = "hello" /\ Receives(w) /\ Received(w).type = "HELLO_WORKER"
      /\ fromImage' = fromImage /\ \E p : Move(w, p)
      /\ fromImage[w] = 0 => toCoord' = toCoord
      /\ fromImage[w] # 0 => Send(w, msgs)
  BY DEF Handshake
<1>2. \A v \in Worker : Alive(v)' => Alive(v)
  BY <1>1 DEF Alive, Move, DeadPoint, DiskInv, TypeOK, WorkerTypeOK
<1>3. CASE fromImage[w] = 0
  BY <1>1, <1>2, <1>3, NamelessStep
<1>4. CASE fromImage[w] # 0
  <2>1. w \in clients /\ Alive(w)
    <3>1. toWorker[w] \in Seq(ToWorkerMsg) /\ toWorker[w] # <<>>
      BY <1>1, Positions DEF Receives
    <3>2. 1 \in 1 .. Len(toWorker[w]) /\ toWorker[w][1].type = "HELLO_WORKER"
      BY <1>1, <3>1 DEF Received
    <3> QED BY <1>1, <3>2 DEF RoundInv, Connected, ConnectionOf, Alive, DeadPoint
  <2>2. ~InCheckpoint
    <3>1. ASSUME NEW j \in 0 .. 7, Round(j)
          PROVE  FALSE
      BY <1>1, <1>4, <2>1, <3>1, AliveInRound DEF PlaceInRound
    <3>2. Back
      BY <3>1 DEF RoundInv
    <3>3. \A v \in clients : Level(cstate[v]) \in 3 .. 7 /\ cstate[v] # "DRAINED"
      BY <3>2 DEF Back, ClientBack, ReportsBack
    <3> QED BY <3>2, <3>3 DEF InCheckpoint, Back
  <2>3. msgs \in Seq(ToCoordMsg) /\ NameThenReport(msgs)
    <3>1. file \in FileName
      BY BoundAssumption
         DEF NameOf, FileName, Generation, DiskInv, TypeOK, WorkerTypeOK
    <3>2. CkptFilename(file) \in ToCoordMsg /\ Ok("CHECKPOINTED") \in ToCoordMsg
      BY <3>1, StateNames DEF CkptFilename, Ok, ToCoordMsg
    <3>3. ~IsName(Ok("CHECKPOINTED"))
      BY DEF IsName, Ok
    <3> HIDE DEF file
    <3> QED BY <3>2, <3>3 DEF NameThenReport
  <2> HIDE DEF msgs
  <2>4. NameThenReport(toCoord'[w]) /\ \A v \in Worker \ {w} : toCoord'[v] = toCoord[v]
    BY <1>1, <1>4, <2>3, SendsNames DEF NameInv
  <2> QED BY <1>1, <1>2, <2>2, <2>4, WorkerNames
<1> QED BY <1>3, <1>4

\* Publishing addresses sends no name.
LEMMA RegisterNames ==
  ASSUME DiskInv, NameInv, NEW w \in Worker, RegisterNSData(w),
         CoordinatorKept, UNCHANGED <<script, restarting>>
  PROVE  NameInv'
<1> DEFINE ok == Ok("NAME_SERVICE_DATA_REGISTERED")
           data == IF fromImage[w] = 0 THEN <<>> ELSE <<RegisterData>>
           msgs == data \o <<ok>>
<1>1. Send(w, msgs)
  BY DEF RegisterNSData
<1>2. /\ msgs \in Seq(ToCoordMsg)
      /\ \A i \in 1 .. Len(msgs) : ~IsName(msgs[i])
  <2>1. /\ ok \in ToCoordMsg /\ RegisterData \in ToCoordMsg
        /\ ~IsName(ok) /\ ~IsName(RegisterData)
    BY StateNames DEF Ok, RegisterData, ToCoordMsg, IsName
  <2> HIDE DEF ok
  <2>2. data \in Seq(ToCoordMsg) /\ \A i \in 1 .. Len(data) : ~IsName(data[i])
    BY <2>1
  <2> HIDE DEF data
  <2> QED BY <2>1, <2>2
<1> HIDE DEF msgs
<1>3. /\ NameThenReport(toCoord'[w])
      /\ \A f \in NamesSent(w)' : f \in NamesSent(w)
      /\ \A v \in Worker \ {w} : toCoord'[v] = toCoord[v]
  <2>1. NameThenReport(msgs)
    BY <1>2 DEF NameThenReport
  <2> QED BY <1>1, <1>2, <2>1, SendsNames DEF NameInv
<1>4. fromImage' = fromImage /\ \A v \in Worker : Alive(v)' => Alive(v)
  BY DEF RegisterNSData, identityVars, Move, Alive, DeadPoint, DiskInv, TypeOK, WorkerTypeOK
<1> QED BY <1>3, <1>4, WorkerNames

\* Programs are launched, fork, exit and crash.
LEMMA UserProcessNames ==
  ASSUME DiskInv, RoundInv, NameInv, NEW w \in Worker, UserProcessStep(w)
  PROVE  NameInv'
<1>1. CoordinatorKept /\ UNCHANGED <<script, restarting>>
  BY DEF UserProcessStep, diskVars
<1>2. ASSUME NEW c \in Worker, NEW s, pc[c] = "unborn", Move(c, "hello"),
             Connect(c, Hello(s, Nobody, 0, {})), fromImage' = fromImage
      PROVE  NameInv'
  <2>1. fromImage'[c] = 0
    BY <1>2 DEF RoundInv, RestoredHello, HelloOf
  <2>2. \A v \in Worker \ {c} : pc'[v] = pc[v] /\ fromImage'[v] = fromImage[v]
    BY <1>2 DEF Move, DiskInv, TypeOK, WorkerTypeOK
  <2>3. PICK hello : hello = Hello(s, Nobody, 0, {})
    OBVIOUS
  <2>4. ~IsName(hello)
    BY <2>3 DEF Hello, IsName
  <2> QED BY <1>1, <1>2, <2>1, <2>2, <2>3, <2>4, ConnectNames
<1>3. CASE Launch(w)
  BY <1>2, <1>3 DEF Launch, identityVars
<1>4. ASSUME NEW c \in Worker, BeginFork(w, c)
      PROVE  NameInv'
  BY <1>2, <1>4 DEF BeginFork, identityVars
<1>5. CASE Exit(w) \/ Crash(w)
  BY <1>1, <1>5, QuietWorkerNames
<1> QED BY <1>3, <1>4, <1>5 DEF UserProcessStep

\* A process of the script is restored: from the checkpoint the script names.
LEMMA RestartNames ==
  ASSUME DiskInv, NameInv, UniqueNames, NEW f \in FileName, RestartStep(f)
  PROVE  NameInv'
<1>1. PICK w \in Worker : w = f[1]
  BY DEF FileName
<1>2. PICK image \in Image : image = images[f] /\ f \in DOMAIN images
  BY DEF RestartStep, RestartProcess, DiskInv, FilesOnDisk, TypeOK, DiskTypeOK
<1>3. PICK hello : hello = Hello("RESTARTING", image.comp, image.gen, image.cohort)
  OBVIOUS
<1>4. /\ f \in restarting /\ restarting' \subseteq restarting /\ script' = script
      /\ CoordinatorKept /\ Connect(w, hello) /\ Move(w, "hello")
      /\ fromImage' = [fromImage EXCEPT ![w] = image.gen]
  BY <1>1, <1>2, <1>3 DEF RestartStep, RestartProcess
<1>5. ~IsName(hello)
  BY <1>3 DEF Hello, IsName
<1>6. image.gen = f[2]
  <2>1. f = NameOf(f[1], image.gen)
    BY <1>2 DEF DiskInv, FilesOnDisk
  <2> QED BY <2>1 DEF NameOf
<1>7. /\ \A v \in Worker \ {w} : pc'[v] = pc[v] /\ fromImage'[v] = fromImage[v]
      /\ fromImage'[w] = f[2]
  BY <1>4, <1>6 DEF Move, DiskInv, TypeOK, WorkerTypeOK
<1> QED BY <1>4, <1>5, <1>7, ConnectNames

\* The restart script is run, once no process is left.
LEMMA RunScriptNames ==
  ASSUME DiskInv, NameInv, RunScript
  PROVE  NameInv'
<1>1. /\ \A w \in Worker : ~Alive(w)
      /\ restarting' = script /\ script' = script /\ script \subseteq FileName
      /\ UNCHANGED coordVars /\ UNCHANGED workerVars /\ UNCHANGED netVars
  BY DEF RunScript, DiskInv, TypeOK, DiskTypeOK
<1>2. \A w \in Worker : NameThenReport(toCoord'[w])
  BY <1>1 DEF NameInv, netVars
<1>3. NamesOfCheckpoint'
  <2>1. \A w : NamesSent(w)' = NamesSent(w)
    BY <1>1, NamesKept DEF netVars
  <2> QED BY <1>1, <2>1 DEF NameInv, NamesOfCheckpoint, InCheckpoint, coordVars
<1>4. \A w \in Worker : ~Alive(w)'
  BY <1>1 DEF Alive, workerVars
<1>5. \E g \in Generation : \A f \in script : f[2] = g
  <2>1. CASE script = {}
    BY <2>1, BoundAssumption DEF Generation
  <2>2. CASE script # {}
    <3>1. PICK f \in script : f[2] \in Generation
      BY <1>1, <2>2 DEF FileName
    <3> QED BY <3>1 DEF NameInv, OneCheckpoint
  <2> QED BY <2>1, <2>2
<1>6. OneCheckpoint'
  BY <1>1, <1>4, <1>5 DEF NameInv, OneCheckpoint
<1> QED BY <1>2, <1>3, <1>6 DEF NameInv

-----------------------------------------------------------------------------
(* The steps of the coordinator. *)

\* A connection brings no name, and begins no checkpoint.
LEMMA OnConnectNames ==
  ASSUME DiskInv, RoundInv, NameInv, NEW w \in Worker, OnConnect(w)
  PROVE  NameInv'
<1>1. /\ w \in backlog /\ toCoord[w] # <<>>
      /\ toCoord' = [toCoord EXCEPT ![w] = Tail(@)]
      /\ restartFilenames' = restartFilenames /\ script' = script
      /\ restarting' = restarting /\ UNCHANGED workerVars
  BY DEF OnConnect, diskVars
<1>2. /\ w \notin clients /\ Reports(w) = {} /\ clients \subseteq Worker
      /\ cstate \in [Worker -> WorkerState]
      /\ clients # {} => compId # Nobody
      /\ \A v \in Worker : NameThenReport(toCoord[v])
      /\ Head(toCoord[w]).state \in {"UNKNOWN", "RUNNING", "RESTARTING"}
  BY <1>1, NotAccepted
     DEF RoundInv, Connected, ConnectionOf, NameInv, DiskInv, TypeOK, CoordTypeOK
<1>3. /\ \A v \in Worker : NameThenReport(toCoord'[v])
      /\ NamesSent(w)' = {}
      /\ \A v \in Worker \ {w} : NamesSent(v)' = NamesSent(v)
  <2>1. NamesSent(w) = {}
    BY <1>2, NameMeansReport
  <2> QED BY <1>1, <1>2, <2>1, TakesNames, NamesKept
<1>4. /\ suspendSent' => suspendSent /\ generation' = generation
      /\ clients # {} => generation' = generation
      /\ \/ clients' = clients /\ cstate' = cstate
         \/ \E s \in {"UNKNOWN", "RUNNING", "RESTARTING"} : AddDataSocket(w, s)
  <2> DEFINE hello == Head(toCoord[w])
  <2>1. \/ \E t : Refuse(w, t)
        \/ ConnectRestarting(w, hello)
        \/ ConnectNew(w, hello)
    BY DEF OnConnect
  <2>2. hello.state \in {"UNKNOWN", "RUNNING", "RESTARTING"}
    BY <1>2
  <2> HIDE DEF hello
  <2>3. /\ SuspendNow => suspendSent /\ clients # {}
        /\ clients # {} => CompNow = compId /\ CompNow # Nobody /\ GenNow = generation
        /\ clients = {} => CompNow = Nobody
    BY <1>2 DEF SuspendNow, CompNow, GenNow, Idle
  <2>4. InitializeComputation => suspendSent' = SuspendNow /\ generation' = GenNow
    BY DEF InitializeComputation
  <2>5. CASE \E t : Refuse(w, t)
    BY <2>3, <2>4, <2>5 DEF Refuse
  <2>6. CASE Abort
    BY <2>6 DEF Abort
  <2>7. CASE ConnectRestarting(w, hello)
    BY <2>3, <2>4, <2>5, <2>6, <2>7 DEF ConnectRestarting
  <2>8. CASE ConnectNew(w, hello)
    BY <2>2, <2>3, <2>4, <2>5, <2>6, <2>8 DEF ConnectNew
  <2> QED BY <2>1, <2>5, <2>7, <2>8
<1>5. ASSUME InCheckpoint'
      PROVE  InCheckpoint /\ generation' = generation
  <2>1. CASE suspendSent'
    BY <1>4, <2>1 DEF InCheckpoint
  <2>2. CASE ~suspendSent'
    <3>1. PICK v \in clients' : Level(cstate'[v]) \in 1 .. 2 \/ cstate'[v] = "DRAINED"
      BY <1>5, <2>2 DEF InCheckpoint
    <3>2. v # w
      BY <1>2, <1>4, <3>1 DEF AddDataSocket, Level
    <3>3. v \in clients /\ cstate'[v] = cstate[v]
      BY <1>2, <1>4, <3>1, <3>2 DEF AddDataSocket
    <3> QED BY <1>4, <3>1, <3>3 DEF InCheckpoint
  <2> QED BY <2>1, <2>2
<1>6. clients' \subseteq clients \cup {w} /\ clients' \subseteq Worker
  BY <1>2, <1>4 DEF AddDataSocket
<1>7. \A v \in clients' : NamesSent(v)' = {}
                          \/ (v \in clients /\ NamesSent(v)' \subseteq NamesSent(v))
  BY <1>2, <1>3, <1>6
<1> HIDE DEF workerVars
<1> QED BY <1>1, <1>2, <1>3, <1>5, <1>6, <1>7, CoordinatorNames

\* A client's end: the script may be written, at the end of a checkpoint.
LEMMA OnDisconnectNames ==
  ASSUME DiskInv, NameInv, NEW w \in Worker, OnDisconnect(w)
  PROVE  NameInv'
<1>1. /\ w \in clients /\ clients' = clients \ {w} /\ clients \subseteq Worker
      /\ UNCHANGED <<cstate, generation, toCoord, restarting>>
      /\ UNCHANGED workerVars
  BY DEF OnDisconnect, DiskInv, TypeOK, CoordTypeOK
<1>2. /\ script' = script \/ (script' = restartFilenames /\ InCheckpoint)
      /\ restartFilenames' \subseteq restartFilenames
      /\ suspendSent' => suspendSent
  <2>1. CASE clients' = {}
    BY <2>1 DEF OnDisconnect
  <2>2. CASE clients' # {}
    BY <1>1, <2>2 DEF OnDisconnect, UpdateMinimumState, WriteRestartScript, InCheckpoint
  <2> QED BY <2>1, <2>2
<1>3. InCheckpoint' => InCheckpoint
  BY <1>1, <1>2 DEF InCheckpoint
<1>4. /\ \A v \in Worker : NameThenReport(toCoord'[v])
      /\ \A v \in Worker : NamesSent(v)' = NamesSent(v)
  BY <1>1, NamesKept DEF NameInv
<1>5. /\ \A f \in restartFilenames' :
           f \in restartFilenames \cup UNION {NamesSent(v) : v \in clients}
      /\ \A v \in clients' : v \in clients /\ NamesSent(v)' \subseteq NamesSent(v)
      /\ clients' \subseteq Worker
  BY <1>1, <1>2, <1>4
<1> QED BY <1>1, <1>2, <1>3, <1>4, <1>5, CoordinatorNames

\* A report of a barrier up to the third comes while the checkpoint goes on.
LEMMA ReportInCheckpoint ==
  ASSUME RoundInv, NEW w \in clients, w \in Worker, cstate \in [Worker -> WorkerState],
         NEW i \in Reports(w), Said(w, i) \in 1 .. 3
  PROVE  InCheckpoint
<1>1. ~Back
  BY DEF Back, ClientBack, ReportsBack
<1>2. PICK j \in 0 .. 7 : Round(j)
  BY <1>1 DEF RoundInv
<1>3. ReportsInRound(w, j) /\ (j = 0 /\ ~suspendSent => ~Told(w, j))
  BY <1>2 DEF Round, ClientInRound
<1>4. CASE j = 0
  <2>1. Said(w, i) = After(j)
    BY <1>3, <1>4 DEF ReportsInRound, After
  <2> QED BY <1>3, <1>4, <2>1 DEF Told, InCheckpoint
<1>5. CASE j # 0
  <2>1. Level(cstate[w]) \in 1 .. 3 /\ cstate[w] # "RESTARTING"
    BY <1>3, <1>5 DEF ReportsInRound, After
  <2>2. Level(cstate[w]) \in 1 .. 2 \/ cstate[w] = "DRAINED"
    BY <2>1 DEF Level
  <2> QED BY <2>2 DEF InCheckpoint
<1> QED BY <1>4, <1>5

\* A report reaches the coordinator: the last image makes the script.
LEMMA OnOkNames ==
  ASSUME DiskInv, RoundInv, NameInv, NEW w \in Worker, OnOk(w)
  PROVE  NameInv'
<1>1. /\ w \in clients /\ toCoord[w] # <<>> /\ Head(toCoord[w]).type = "OK"
      /\ toCoord' = [toCoord EXCEPT ![w] = Tail(@)]
      /\ cstate' = [cstate EXCEPT ![w] = Head(toCoord[w]).state]
      /\ UpdateMinimumState(cstate[w], clients, cstate')
      /\ UNCHANGED <<clients, generation, restarting>>
      /\ UNCHANGED workerVars
  BY DEF OnOk, Arrives, Readable
<1>2. /\ clients \subseteq Worker /\ cstate \in [Worker -> WorkerState]
      /\ toCoord \in [Worker -> Seq(ToCoordMsg)]
      /\ \A v \in Worker : NameThenReport(toCoord[v])
  BY DEF DiskInv, TypeOK, CoordTypeOK, NetTypeOK, NameInv
<1>3. /\ suspendSent' => suspendSent
      /\ \A f \in restartFilenames' : f \in restartFilenames
      /\ script' = script \/ (script' = restartFilenames /\ cstate[w] = "DRAINED")
  BY <1>1 DEF UpdateMinimumState, WriteRestartScript
<1>4. /\ \A v \in Worker : NameThenReport(toCoord'[v])
      /\ \A v \in clients : NamesSent(v)' \subseteq NamesSent(v)
  <2>1. /\ NameThenReport(toCoord'[w]) /\ NamesSent(w)' \subseteq NamesSent(w)
        /\ \A v \in Worker \ {w} : toCoord'[v] = toCoord[v]
    BY <1>1, <1>2, TakesNames
  <2>2. \A v \in Worker \ {w} : NamesSent(v)' = NamesSent(v)
    BY <2>1, NamesKept
  <2> QED BY <1>2, <2>1, <2>2
<1>5. script' = script \/ (script' = restartFilenames /\ InCheckpoint)
  BY <1>1, <1>3 DEF InCheckpoint
<1>6. InCheckpoint' => InCheckpoint
  <2> SUFFICES ASSUME InCheckpoint', ~suspendSent' PROVE InCheckpoint
    BY <1>3 DEF InCheckpoint
  <2>1. PICK v \in clients : Level(cstate'[v]) \in 1 .. 2 \/ cstate'[v] = "DRAINED"
    BY <1>1 DEF InCheckpoint
  <2>2. CASE v # w
    BY <1>1, <1>2, <2>1, <2>2 DEF InCheckpoint
  <2>3. CASE v = w
    <3>1. 1 \in Reports(w) /\ toCoord[w][1].state = cstate'[w]
      BY <1>1, <1>2 DEF Reports
    <3>2. Said(w, 1) \in 1 .. 3
      BY <2>1, <2>3, <3>1 DEF Said, Level
    <3> QED BY <1>1, <1>2, <3>1, <3>2, ReportInCheckpoint
  <2> QED BY <2>2, <2>3
<1> HIDE DEF workerVars
<1>7. /\ \A f \in restartFilenames' :
           f \in restartFilenames \cup UNION {NamesSent(v) : v \in clients}
      /\ \A v \in clients' : v \in clients /\ NamesSent(v)' \subseteq NamesSent(v)
      /\ clients' \subseteq Worker
  BY <1>1, <1>2, <1>3, <1>4
<1> QED BY <1>1, <1>2, <1>4, <1>5, <1>6, <1>7, CoordinatorNames

\* Another message reaches the coordinator; a file name moves to its list.
LEMMA OnDataNames ==
  ASSUME DiskInv, NameInv, NEW w \in Worker,
         OnCkptFilename(w) \/ OnRegister(w) \/ OnQuery(w)
  PROVE  NameInv'
<1>1. /\ w \in clients /\ toCoord[w] # <<>>
      /\ toCoord' = [toCoord EXCEPT ![w] = Tail(@)]
      /\ UNCHANGED <<clients, cstate, suspendSent, generation, script, restarting>>
      /\ UNCHANGED workerVars
  BY DEF OnCkptFilename, OnRegister, OnQuery, Arrives, Readable, diskVars
<1>2. \/ restartFilenames' = restartFilenames
      \/ /\ restartFilenames' = restartFilenames \cup {Head(toCoord[w]).file}
         /\ IsName(Head(toCoord[w]))
  BY DEF OnCkptFilename, OnRegister, OnQuery, Arrives, IsName
<1>3. /\ clients \subseteq Worker /\ \A v \in Worker : NameThenReport(toCoord[v])
  BY DEF DiskInv, TypeOK, CoordTypeOK, NameInv
<1>4. /\ \A v \in Worker : NameThenReport(toCoord'[v])
      /\ \A v \in clients : NamesSent(v)' \subseteq NamesSent(v)
      /\ IsName(Head(toCoord[w])) => Head(toCoord[w]).file \in NamesSent(w)
  <2>1. /\ NameThenReport(toCoord'[w]) /\ NamesSent(w)' \subseteq NamesSent(w)
        /\ \A v \in Worker \ {w} : toCoord'[v] = toCoord[v]
        /\ IsName(Head(toCoord[w])) => Head(toCoord[w]).file \in NamesSent(w)
    BY <1>1, <1>3, TakesNames
  <2>2. \A v \in Worker \ {w} : NamesSent(v)' = NamesSent(v)
    BY <2>1, NamesKept
  <2> QED BY <1>3, <2>1, <2>2
<1>5. InCheckpoint' = InCheckpoint
  BY <1>1 DEF InCheckpoint
<1>6. \A f \in restartFilenames' :
        f \in restartFilenames \cup UNION {NamesSent(v) : v \in clients}
  BY <1>1, <1>2, <1>4
<1> HIDE DEF workerVars
<1>7. \A v \in clients' : v \in clients /\ NamesSent(v)' \subseteq NamesSent(v)
  BY <1>1, <1>4
<1> QED BY <1>1, <1>3, <1>4, <1>5, <1>6, <1>7, CoordinatorNames

\* A user's command: a checkpoint begins with no name, the others with none new.
LEMMA UserNames ==
  ASSUME DiskInv, RoundInv, NameInv, UserStep
  PROVE  NameInv'
<1>1. /\ UNCHANGED <<clients, cstate, toCoord, script, restarting>>
      /\ UNCHANGED workerVars
  BY DEF UserStep, OnTimeoutInterval, CommandBlock, CommandCheckpoint, CommandKill,
     CommandForce, CommandQuit, netVars, diskVars
<1>2. /\ clients \subseteq Worker /\ \A v \in Worker : NameThenReport(toCoord'[v])
      /\ \A v \in Worker : NamesSent(v)' = NamesSent(v)
  BY <1>1, NamesKept DEF DiskInv, TypeOK, CoordTypeOK, NameInv
<1>3. \/ StartCheckpoint
      \/ /\ suspendSent' = SuspendNow /\ generation' = GenNow
         /\ restartFilenames' = restartFilenames
  BY DEF UserStep, OnTimeoutInterval, CommandBlock, CommandCheckpoint, CommandKill,
     CommandForce, CommandQuit, InitializeComputation
<1> HIDE DEF workerVars
<1>4. CASE StartCheckpoint
  <2>1. Round(0) /\ \A v \in clients : ~Told(v, 0)
    BY <1>4, CheckpointAccepted DEF StartCheckpoint
  <2>2. ASSUME NEW v \in clients
        PROVE  NamesSent(v) = {}
    <3>1. \A i \in Reports(v) : Said(v, i) \in {0, 1}
      BY <2>1 DEF Round, ClientInRound, ReportsInRound, After
    <3>2. v \in Worker /\ NameThenReport(toCoord[v])
      BY <1>2 DEF NameInv
    <3> QED BY <3>1, <3>2, NameMeansReport
  <2>3. restartFilenames' = {} /\ \A v \in clients' : NamesSent(v)' = {}
    BY <1>1, <1>2, <1>4, <2>2 DEF StartCheckpoint
  <2> QED BY <1>1, <1>2, <2>3, CoordinatorNames
<1>5. CASE /\ suspendSent' = SuspendNow /\ generation' = GenNow
           /\ restartFilenames' = restartFilenames
  <2>1. InCheckpoint' => InCheckpoint /\ generation' = generation
    BY <1>1, <1>5 DEF InCheckpoint, SuspendNow, GenNow, Idle
  <2>2. \A v \in clients' : v \in clients /\ NamesSent(v)' \subseteq NamesSent(v)
    BY <1>1, <1>2
  <2> QED BY <1>1, <1>2, <1>5, <2>1, <2>2, CoordinatorNames
<1> QED BY <1>3, <1>4, <1>5

-----------------------------------------------------------------------------
(* The invariant, and what it says of a restart. *)

\* No image has a name yet.
LEMMA InitNames == Init => NameInv
<1> SUFFICES ASSUME Init PROVE NameInv
  OBVIOUS
<1>1. \A w \in Worker : NamesSent(w) = {} /\ NameThenReport(toCoord[w]) /\ ~Alive(w)
  BY DEF Init, NamesSent, NameThenReport, Alive
<1>2. NamesOfCheckpoint
  BY DEF Init, NamesOfCheckpoint
<1>3. 0 \in Generation
  BY BoundAssumption DEF Generation
<1>4. OneCheckpoint
  BY <1>1, <1>3 DEF Init, OneCheckpoint
<1> QED BY <1>1, <1>2, <1>4 DEF NameInv

\* No step mixes the images of two checkpoints.
LEMMA NextNames ==
  UniqueNames /\ DiskInv /\ RoundInv /\ NameInv /\ [Next]_vars => NameInv'
<1> SUFFICES ASSUME UniqueNames, DiskInv, RoundInv, NameInv, [Next]_vars PROVE NameInv'
  OBVIOUS
<1>1. ASSUME NEW w \in Worker, CoordinatorStep(w)
      PROVE  NameInv'
  BY <1>1, OnConnectNames, OnDisconnectNames, OnOkNames, OnDataNames DEF CoordinatorStep
<1>2. ASSUME NEW w \in Worker, CkptThreadStep(w)
      PROVE  NameInv'
  <2>1. CoordinatorKept /\ UNCHANGED <<script, restarting>>
    BY <1>2 DEF CkptThreadStep
  <2> QED BY <1>2, <2>1, QuietWorkerNames, WriteImageNames, HandshakeNames,
             RegisterNames DEF CkptThreadStep
<1>3. ASSUME NEW w \in Worker, MainThreadStep(w)
      PROVE  NameInv'
  <2>1. CoordinatorKept /\ UNCHANGED <<script, restarting>>
    BY <1>3 DEF MainThreadStep, diskVars
  <2> QED BY <1>3, <2>1, QuietWorkerNames DEF MainThreadStep
<1>4. CASE UNCHANGED vars
  <2>1. /\ UNCHANGED <<script, restarting, restartFilenames, generation, suspendSent,
                       clients, cstate, toCoord, pc, fromImage>>
    BY <1>4 DEF vars, coordVars, workerVars, netVars, diskVars
  <2>2. \A w \in Worker : NamesSent(w)' = NamesSent(w) /\ Alive(w)' = Alive(w)
    BY <2>1, NamesKept DEF Alive
  <2>3. NamesOfCheckpoint'
    <3>1. InCheckpoint' = InCheckpoint /\ clients \subseteq Worker
      BY <2>1 DEF InCheckpoint, DiskInv, TypeOK, CoordTypeOK
    <3> QED BY <2>1, <2>2, <3>1 DEF NameInv, NamesOfCheckpoint
  <2>4. OneCheckpoint'
    BY <2>1, <2>2 DEF NameInv, OneCheckpoint
  <2> QED BY <2>1, <2>3, <2>4 DEF NameInv
<1> QED BY <1>1, <1>2, <1>3, <1>4, UserProcessNames, RestartNames, RunScriptNames,
           UserNames DEF Next, WorkerStep

\* In a build whose image names hold the generation, every state keeps the
\* images of different checkpoints apart.
LEMMA NameInvariant ==
  ASSUME UniqueNames
  PROVE  Spec => [](DiskInv /\ RoundInv /\ NameInv)
<1>1. DiskInv /\ RoundInv /\ NameInv /\ [Next]_vars => DiskInv' /\ RoundInv' /\ NameInv'
  BY NextDiskInv, NextRound, NextNames
<1>2. Init => DiskInv /\ RoundInv /\ NameInv
  BY InitDiskInv, InitRound, InitNames
<1> QED BY <1>1, <1>2, PTL DEF Spec

\* Processes that dmtcp_restart brought back together, and that have gone on
\* beyond the first barrier of the restart, come from the same checkpoint:
\* the script writeRestartScript made names images of one generation only.
\* An image is overwritten by the next checkpoint in a build without
\* UNIQUE_CHECKPOINT_FILENAMES, and a checkpoint that is cut short by a crash
\* then leaves images of two generations under the names of one script.
THEOREM RestartCorrect ==
  ASSUME UniqueNames
  PROVE  Spec => []ConsistentRestart
<1>1. NameInv => ConsistentRestart
  BY DEF NameInv, OneCheckpoint, ConsistentRestart
<1> QED BY <1>1, NameInvariant, PTL

-----------------------------------------------------------------------------
(* What a computation that was never restored looks like.                  *)

\* No process is restored, and the checkpoint is in some round.
LEMMA NeverRestored ==
  ASSUME DiskInv, RoundInv, restarts = 0
  PROVE  /\ restarting = {} /\ \A w \in Worker : fromImage[w] = 0
         /\ \E j \in 0 .. 7 : Round(j)
<1>1. \A w \in Worker : HelloOf(w) /\ fromImage[w] \in Nat
  BY BoundAssumption DEF RoundInv, RestoredHello, DiskInv, TypeOK, WorkerTypeOK, Generation
<1>2. \A w \in Worker : fromImage[w] # 0 => restarts > 0
  BY <1>1 DEF HelloOf
<1> QED BY <1>2 DEF RoundInv, RestoredHello, Back

\* The first message under way to a process, and its type.
LEMMA FirstMessage ==
  ASSUME DiskInv, NEW w \in Worker, Receives(w)
  PROVE  /\ 1 \in 1 .. Len(toWorker[w]) /\ toWorker[w][1] = Received(w)
         /\ \/ Received(w).type \in {"HELLO_WORKER", "DO_SUSPEND", "DO_FD_LEADER_ELECTION"}
            \/ Received(w).type \in PlainType
<1>1. toWorker[w] \in Seq(ToWorkerMsg) /\ toWorker[w] # <<>>
  BY DEF DiskInv, TypeOK, NetTypeOK, Receives
<1>2. Head(toWorker[w]) = toWorker[w][1] /\ 1 \in 1 .. Len(toWorker[w])
  BY <1>1
<1>3. toWorker[w][1] \in ToWorkerMsg
  BY <1>1, <1>2
<1> QED BY <1>2, <1>3 DEF Received, ToWorkerMsg

\* waitForStage1Suspend and waitForCoordinatorMsg get what they wait for, or
\* the message that kills the process.
LEMMA NothingUnexpected ==
  ASSUME DiskInv, RoundInv, MessageInv, restarts = 0, NEW w \in Worker, Receives(w)
  PROVE  /\ pc[w] = "run" => Received(w).type \in {"DO_SUSPEND", "KILL_PEER"}
         /\ pc[w] \in WaitPoint => Received(w).type = "KILL_PEER" \/ Expected(w, Received(w))
<1>1. PICK j \in 0 .. 7 : Round(j)
  BY NeverRestored
<1> DEFINE m == Received(w)
<1>2. /\ 1 \in 1 .. Len(toWorker[w]) /\ toWorker[w][1] = m /\ Due(w, 1)
      /\ \/ m.type \in {"HELLO_WORKER", "DO_SUSPEND", "DO_FD_LEADER_ELECTION"}
         \/ m.type \in PlainType
  BY FirstMessage DEF MessageInv, MessagesOf
<1>3. /\ 1 \in Orders(w) <=> Number(m.type) # 0
      /\ 1 \in Suspends(w) <=> m.type = "DO_SUSPEND"
  BY <1>2 DEF Orders, Suspends
<1> HIDE DEF m
<1> SUFFICES ASSUME pc[w] = "run" \/ pc[w] \in WaitPoint
             PROVE  /\ pc[w] = "run" => m.type \in {"DO_SUSPEND", "KILL_PEER"}
                    /\ pc[w] \in WaitPoint => m.type = "KILL_PEER" \/ Expected(w, m)
  BY DEF m
<1>4. Alive(w) /\ pc[w] # "hello"
  BY DEF Alive, DeadPoint, WaitPoint
<1>5. w \in clients /\ PlaceInRound(w, j) /\ SuspendInRound(w, j)
  BY <1>1, <1>4 DEF RoundInv, Connected, ConnectionOf, Round, ClientInRound
<1>6. \/ m.type \in {"KILL_PEER", "DO_SUSPEND"} \/ Number(m.type) # 0
  BY <1>2, <1>4 DEF Due, PlainType, Number
<1>7. Number(m.type) # 0 => pc[w] \in WaitPoint /\ Reached(w) = j /\ Number(m.type) = j
  BY <1>2, <1>3, <1>5 DEF PlaceInRound
<1>8. m.type = "DO_SUSPEND" => pc[w] = "run"
  BY <1>3, <1>4, <1>5 DEF SuspendInRound
<1>9. pc[w] = "run" => pc[w] \notin WaitPoint
  BY DEF WaitPoint
<1>10. ASSUME Number(m.type) # 0
       PROVE  Expected(w, m)
  <2>1. m.type = Awaited(pc[w])
    BY <1>7, <1>10 DEF WaitPoint, Reached, Number, Awaited
  <2>2. pc[w] = "suspended" => m.comp = compId /\ wComp[w] = compId
    <3>1. pc[w] = "suspended" => Reached(w) = 1 /\ m.type = "DO_FD_LEADER_ELECTION"
      BY <2>1 DEF Reached, Awaited
    <3>2. Reached(w) = 1 => wComp[w] = compId
      BY <1>5 DEF SuspendInRound
    <3> QED BY <1>2, <3>1, <3>2 DEF Due
  <2> QED BY <2>1, <2>2 DEF Expected
<1> QED BY <1>6, <1>7, <1>8, <1>9, <1>10

-----------------------------------------------------------------------------
(* How a step may change what is under way to one process.                 *)

\* The answer to a hello, a suspend behind it, or nothing.
Answers(w) ==
  \/ toWorker'[w] = <<>>
  \/ /\ pc'[w] = "hello"
     /\ \/ \E m : /\ toWorker'[w] = <<m>>
                  /\ m.type \in {"HELLO_WORKER", "REJECT", "KILL_PEER"}
        \/ \E a, b : /\ toWorker'[w] = Append(<<a>>, b)
                     /\ a.type = "HELLO_WORKER" /\ b.type = "DO_SUSPEND"

\* A broadcast that is neither an answer nor forced.
Broadcasts(w) ==
  \E m : /\ toWorker'[w] = Append(toWorker[w], m)
         /\ m.type \notin {"FORCE_RESTART", "NAME_SERVICE_QUERY_RESPONSE",
                           "HELLO_WORKER", "REJECT"}
         /\ m.type = "DO_FD_LEADER_ELECTION" => m.comp = compId'

\* The computation changes for those only that are not in it.
SameComputation(w) == compId' = compId \/ w \notin clients

LEMMA AnswersDue ==
  ASSUME NEW w, Answers(w)
  PROVE  \A i \in 1 .. Len(toWorker'[w]) : Due(w, i)'
<1>1. CASE toWorker'[w] = <<>>
  BY <1>1
<1>2. ASSUME NEW m, toWorker'[w] = <<m>>, pc'[w] = "hello",
             m.type \in {"HELLO_WORKER", "REJECT", "KILL_PEER"}
      PROVE  \A i \in 1 .. Len(toWorker'[w]) : Due(w, i)'
  <2>1. \A i \in 1 .. Len(toWorker'[w]) : i = 1 /\ toWorker'[w][i] = m
    BY <1>2
  <2> QED BY <1>2, <2>1 DEF Due
<1>3. ASSUME NEW a, NEW b, toWorker'[w] = Append(<<a>>, b), pc'[w] = "hello",
             a.type = "HELLO_WORKER", b.type = "DO_SUSPEND"
      PROVE  \A i \in 1 .. Len(toWorker'[w]) : Due(w, i)'
  <2>1. \A i \in 1 .. Len(toWorker'[w]) :
          (i = 1 /\ toWorker'[w][i] = a) \/ (i = 2 /\ toWorker'[w][i] = b)
    BY <1>3
  <2> QED BY <1>3, <2>1 DEF Due
<1> QED BY <1>1, <1>2, <1>3 DEF Answers

\* A process that is not a client is sent no election.
LEMMA ElectionsToClients ==
  ASSUME NEW w, ConnectionOf(w), SameComputation(w), NEW i \in 1 .. Len(toWorker[w]),
         Due(w, i), toWorker[w][i].type = "DO_FD_LEADER_ELECTION"
  PROVE  toWorker[w][i].comp = compId'
BY DEF ConnectionOf, SameComputation, Due

\* What was under way stays, behind a hello that is still awaited.
LEMMA StaysDue ==
  ASSUME NEW w, ConnectionOf(w), SameComputation(w), toWorker'[w] = toWorker[w],
         pc[w] = "hello" => pc'[w] = "hello",
         \A i \in 1 .. Len(toWorker[w]) : Due(w, i)
  PROVE  \A i \in 1 .. Len(toWorker'[w]) : Due(w, i)'
BY ElectionsToClients DEF Due

LEMMA BroadcastDue ==
  ASSUME NEW w, toWorker[w] \in Seq(ToWorkerMsg), ConnectionOf(w), SameComputation(w),
         Broadcasts(w), pc'[w] = pc[w], \A i \in 1 .. Len(toWorker[w]) : Due(w, i)
  PROVE  \A i \in 1 .. Len(toWorker'[w]) : Due(w, i)'
<1>1. PICK m : /\ toWorker'[w] = Append(toWorker[w], m)
               /\ m.type \notin {"FORCE_RESTART", "NAME_SERVICE_QUERY_RESPONSE",
                                 "HELLO_WORKER", "REJECT"}
               /\ m.type = "DO_FD_LEADER_ELECTION" => m.comp = compId'
  BY DEF Broadcasts
<1>2. \A i \in 1 .. Len(toWorker'[w]) :
        \/ i \in 1 .. Len(toWorker[w]) /\ toWorker'[w][i] = toWorker[w][i]
        \/ toWorker'[w][i] = m
  BY <1>1
<1>3. ASSUME NEW i \in 1 .. Len(toWorker'[w])
      PROVE  Due(w, i)'
  <2>1. CASE i \in 1 .. Len(toWorker[w]) /\ toWorker'[w][i] = toWorker[w][i]
    BY <2>1, ElectionsToClients DEF Due
  <2>2. CASE toWorker'[w][i] = m
    BY <1>1, <2>2 DEF Due
  <2> QED BY <1>2, <2>1, <2>2
<1> QED BY <1>3

\* The answer to a hello is the first message: whoever takes the first one
\* leaves no answer behind.
LEMMA TakenDue ==
  ASSUME NEW w, toWorker[w] \in Seq(ToWorkerMsg), toWorker[w] # <<>>,
         toWorker'[w] = Tail(toWorker[w]), compId' = compId,
         \A i \in 1 .. Len(toWorker[w]) : Due(w, i)
  PROVE  \A i \in 1 .. Len(toWorker'[w]) : Due(w, i)'
<1>1. \A i \in 1 .. Len(toWorker'[w]) :
        /\ i \in Nat \ {0} /\ i + 1 \in 1 .. Len(toWorker[w]) /\ i + 1 # 1
        /\ toWorker'[w][i] = toWorker[w][i + 1]
  OBVIOUS
<1> QED BY <1>1 DEF Due

-----------------------------------------------------------------------------
(* What is under way to the coordinator.                                   *)

\* No question is among what is kept, sent or left.
LEMMA NoQuestion ==
  ASSUME NEW w, toCoord[w] \in Seq(ToCoordMsg), NoQuery(w)
  PROVE  /\ toCoord'[w] = toCoord[w] => NoQuery(w)'
         /\ toCoord[w] # <<>> /\ toCoord'[w] = Tail(toCoord[w]) => NoQuery(w)'
         /\ \A h : toCoord'[w] = <<h>> /\ h.type # "NAME_SERVICE_QUERY" => NoQuery(w)'
         /\ \A msgs \in Seq(ToCoordMsg) :
              /\ toCoord'[w] = toCoord[w] \o msgs
              /\ \A i \in 1 .. Len(msgs) : msgs[i].type # "NAME_SERVICE_QUERY"
              => NoQuery(w)'
<1>1. toCoord'[w] = toCoord[w] => NoQuery(w)'
  BY DEF NoQuery
<1>2. ASSUME toCoord[w] # <<>>, toCoord'[w] = Tail(toCoord[w])
      PROVE  NoQuery(w)'
  <2>1. \A i \in 1 .. Len(toCoord'[w]) :
          i + 1 \in 1 .. Len(toCoord[w]) /\ toCoord'[w][i] = toCoord[w][i + 1]
    BY <1>2
  <2> QED BY <2>1 DEF NoQuery
<1>3. ASSUME NEW h, toCoord'[w] = <<h>>, h.type # "NAME_SERVICE_QUERY"
      PROVE  NoQuery(w)'
  <2>1. \A i \in 1 .. Len(toCoord'[w]) : toCoord'[w][i] = h
    BY <1>3
  <2> QED BY <1>3, <2>1 DEF NoQuery
<1>4. ASSUME NEW msgs \in Seq(ToCoordMsg), toCoord'[w] = toCoord[w] \o msgs,
             \A i \in 1 .. Len(msgs) : msgs[i].type # "NAME_SERVICE_QUERY"
      PROVE  NoQuery(w)'
  <2>1. \A i \in 1 .. Len(toCoord'[w]) :
          \/ i \in 1 .. Len(toCoord[w]) /\ toCoord'[w][i] = toCoord[w][i]
          \/ i - Len(toCoord[w]) \in 1 .. Len(msgs)
             /\ toCoord'[w][i] = msgs[i - Len(toCoord[w])]
    BY <1>4
  <2> QED BY <1>4, <2>1 DEF NoQuery
<1> QED BY <1>1, <1>2, <1>3, <1>4

-----------------------------------------------------------------------------
(* Steps of the coordinator. *)

\* A process that stays where it is, while the coordinator reads or writes.
LEMMA QuietMessages ==
  ASSUME DiskInv, RoundInv, NEW v \in Worker, MessagesOf(v), SameComputation(v),
         pc'[v] = pc[v],
         toCoord'[v] = toCoord[v] \/ (toCoord[v] # <<>> /\ toCoord'[v] = Tail(toCoord[v])),
         toWorker'[v] = toWorker[v] \/ Broadcasts(v) \/ Answers(v)
  PROVE  MessagesOf(v)'
<1>1. toCoord[v] \in Seq(ToCoordMsg) /\ toWorker[v] \in Seq(ToWorkerMsg)
  BY DEF DiskInv, TypeOK, NetTypeOK
<1>2. NoQuery(v)'
  BY <1>1, NoQuestion DEF MessagesOf
<1>3. ConnectionOf(v) /\ \A i \in 1 .. Len(toWorker[v]) : Due(v, i)
  BY DEF RoundInv, Connected, MessagesOf
<1>4. \A i \in 1 .. Len(toWorker'[v]) : Due(v, i)'
  BY <1>1, <1>3, StaysDue, BroadcastDue, AnswersDue
<1> QED BY <1>2, <1>4 DEF MessagesOf

\* A message is taken off one connection and left on the others.
LEMMA ReadOrKept ==
  ASSUME DiskInv, NEW w \in Worker,
         toCoord[w] # <<>> /\ toCoord' = [toCoord EXCEPT ![w] = Tail(@)]
  PROVE  \A v \in Worker : \/ toCoord'[v] = toCoord[v]
                           \/ (toCoord[v] # <<>> /\ toCoord'[v] = Tail(toCoord[v]))
BY DEF DiskInv, TypeOK, NetTypeOK

\* Writing to some processes, for each of them.
LEMMA PostBroadcasts ==
  ASSUME NEW W \in SUBSET Worker, NEW m, toWorker' = Post(toWorker, W, m),
         m.type \notin {"FORCE_RESTART", "NAME_SERVICE_QUERY_RESPONSE",
                        "HELLO_WORKER", "REJECT"},
         m.type = "DO_FD_LEADER_ELECTION" => m.comp = compId'
  PROVE  \A v \in Worker : toWorker'[v] = toWorker[v] \/ Broadcasts(v)
BY DEF Post, Broadcasts

\* updateMinimumState broadcasts the elections of its own computation.
LEMMA UpdateBroadcasts ==
  ASSUME NEW old, NEW C \in SUBSET Worker, NEW cs, UpdateMinimumState(old, C, cs),
         compId' = compId
  PROVE  \A v \in Worker : toWorker'[v] = toWorker[v] \/ Broadcasts(v)
<1> DEFINE t == BarrierMessage(old, MinimumState(C, cs))
           msg == IF t = "DO_FD_LEADER_ELECTION" THEN DoElection(compId, C) ELSE Plain(t)
<1>1. toWorker' = IF t = "none" THEN toWorker ELSE Post(toWorker, C, msg)
  BY DEF UpdateMinimumState, WriteRestartScript
<1>2. t \notin {"FORCE_RESTART", "NAME_SERVICE_QUERY_RESPONSE", "HELLO_WORKER", "REJECT"}
  BY DEF BarrierMessage
<1>3. msg.type = t /\ (t = "DO_FD_LEADER_ELECTION" => msg.comp = compId)
  BY DEF DoElection, Plain
<1> HIDE DEF t, msg
<1> QED BY <1>1, <1>2, <1>3, PostBroadcasts

\* onConnect answers the process whose hello it has read, and no other; the
\* computation changes only when it has no client left.
LEMMA OnConnectMessages ==
  ASSUME DiskInv, RoundInv, NEW w \in Worker, OnConnect(w),
         \A v \in Worker : MessagesOf(v)
  PROVE  \A v \in Worker : MessagesOf(v)'
<1>1. /\ pc' = pc /\ w \in backlog /\ toCoord[w] # <<>>
      /\ toCoord' = [toCoord EXCEPT ![w] = Tail(@)]
  BY DEF OnConnect, workerVars
<1> DEFINE hello == Head(toCoord[w])
           Answer(m) == toWorker' = Post(toWorker, {w}, m)
<1>2. /\ compId' = compId \/ clients = {}
      /\ \/ toWorker' = toWorker
         \/ \E m : Answer(m) /\ m.type \in {"HELLO_WORKER", "REJECT", "KILL_PEER"}
         \/ \E a, b : /\ toWorker' = Post(Post(toWorker, {w}, a), {w}, b)
                      /\ a.type = "HELLO_WORKER" /\ b.type = "DO_SUSPEND"
  <2>1. CompNow = Nobody => clients = {}
    BY DEF CompNow, Idle, RoundInv, Connected
  <2>2. InitializeComputation => compId' = compId \/ clients = {}
    BY DEF InitializeComputation, CompNow, Idle
  <2>3. ASSUME NEW t \in {"REJECT", "KILL_PEER"}, Refuse(w, t)
        PROVE  /\ compId' = compId \/ clients = {}
               /\ Answer(Plain(t)) /\ Plain(t).type = t
    BY <2>2, <2>3 DEF Refuse, Plain
  <2>4. \A c, g : HelloWorker(c, g).type = "HELLO_WORKER" /\ DoSuspend(c, g).type = "DO_SUSPEND"
    BY DEF HelloWorker, DoSuspend
  <2>5. ASSUME ConnectRestarting(w, hello)
        PROVE  /\ compId' = compId \/ clients = {}
               /\ \/ toWorker' = toWorker
                  \/ \E m : Answer(m) /\ m.type \in {"HELLO_WORKER", "REJECT", "KILL_PEER"}
    <3>1. \/ Refuse(w, "REJECT") \/ Abort
          \/ /\ CompNow = Nobody
             /\ Answer(HelloWorker(CompNow, GenNow))
          \/ InitializeComputation /\ Answer(HelloWorker(compId, generation))
      BY <2>5 DEF ConnectRestarting
    <3> QED BY <2>1, <2>2, <2>3, <2>4, <3>1 DEF Abort
  <2>6. ASSUME ConnectNew(w, hello)
        PROVE  /\ compId' = compId \/ clients = {}
               /\ \/ toWorker' = toWorker
                  \/ \E m : Answer(m) /\ m.type \in {"HELLO_WORKER", "REJECT", "KILL_PEER"}
                  \/ \E a, b : /\ toWorker' = Post(Post(toWorker, {w}, a), {w}, b)
                               /\ a.type = "HELLO_WORKER" /\ b.type = "DO_SUSPEND"
    <3>1. \/ Refuse(w, "REJECT") \/ Abort
          \/ /\ InitializeComputation
             /\ toWorker' = Post(Post(toWorker, {w}, HelloWorker(compId, generation)),
                                 {w}, DoSuspend(compId, generation))
          \/ \E c, g : /\ compId' = c /\ (CompNow = Nobody \/ c = compId)
                       /\ Answer(HelloWorker(c, g))
      BY <2>6 DEF ConnectNew
    <3> QED BY <2>1, <2>2, <2>3, <2>4, <3>1 DEF Abort
  <2> QED BY <2>3, <2>5, <2>6 DEF OnConnect
<1>3. toWorker[w] = <<>> /\ (Alive(w) => pc[w] = "hello")
  BY <1>1 DEF RoundInv, Connected, ConnectionOf, DiskInv, HelloFirst
<1>4. ASSUME NEW v \in Worker
      PROVE  toWorker'[v] = toWorker[v] \/ Answers(v)
  <2>1. CASE v # w
    BY <1>2, <2>1 DEF Post
  <2>2. CASE v = w /\ ~Alive(w)
    BY <1>2, <2>2 DEF Post
  <2>3. CASE v = w /\ Alive(w)
    <3>1. /\ \A m : Post(toWorker, {w}, m)[w] = <<m>>
          /\ \A a, b : Post(Post(toWorker, {w}, a), {w}, b)[w] = Append(<<a>>, b)
      <4>1. \A c, m : Post(c, {w}, m)[w] = Append(c[w], m)
        BY <2>3 DEF Post
      <4>2. \A m : Append(<<>>, m) = <<m>>
        OBVIOUS
      <4>3. \A m : Post(toWorker, {w}, m)[w] = <<m>>
        BY <1>3, <4>1, <4>2
      <4>4. ASSUME NEW a, NEW b
            PROVE  Post(Post(toWorker, {w}, a), {w}, b)[w] = Append(<<a>>, b)
        BY <4>1, <4>3
      <4> QED BY <4>3, <4>4
    <3>2. \/ toWorker'[w] = <<>>
          \/ \E m : /\ toWorker'[w] = <<m>>
                    /\ m.type \in {"HELLO_WORKER", "REJECT", "KILL_PEER"}
          \/ \E a, b : /\ toWorker'[w] = Append(<<a>>, b)
                       /\ a.type = "HELLO_WORKER" /\ b.type = "DO_SUSPEND"
      BY <1>2, <1>3, <3>1
    <3>3. pc'[w] = "hello"
      BY <1>1, <1>3, <2>3
    <3> QED BY <2>3, <3>2, <3>3 DEF Answers
  <2> QED BY <2>1, <2>2, <2>3
<1>5. ASSUME NEW v \in Worker
      PROVE  MessagesOf(v)'
  <2>1. SameComputation(v) /\ pc'[v] = pc[v] /\ MessagesOf(v)
    BY <1>1, <1>2 DEF SameComputation
  <2>2. toCoord'[v] = toCoord[v] \/ (toCoord[v] # <<>> /\ toCoord'[v] = Tail(toCoord[v]))
    BY <1>1, ReadOrKept
  <2>3. toWorker'[v] = toWorker[v] \/ Answers(v)
    BY <1>4
  <2> QED BY <2>1, <2>2, <2>3, QuietMessages
<1> QED BY <1>5

\* onData and onDisconnect send what updateMinimumState broadcasts; a question
\* of the name service is not there to be answered.
LEMMA OnDataMessages ==
  ASSUME DiskInv, RoundInv, NEW w \in Worker, \A v \in Worker : MessagesOf(v),
         OnDisconnect(w) \/ OnOk(w) \/ OnCkptFilename(w) \/ OnRegister(w) \/ OnQuery(w)
  PROVE  \A v \in Worker : MessagesOf(v)'
<1>1. pc' = pc /\ compId' = compId /\ clients \subseteq Worker
      /\ clients' \subseteq clients
  BY DEF OnDisconnect, OnOk, OnCkptFilename, OnRegister, OnQuery, workerVars,
     DiskInv, TypeOK, CoordTypeOK
<1>2. ~OnQuery(w)
  <2>1. toCoord[w] \in Seq(ToCoordMsg) /\ NoQuery(w)
    BY DEF DiskInv, TypeOK, NetTypeOK, MessagesOf
  <2>2. toCoord[w] # <<>> => Head(toCoord[w]) = toCoord[w][1] /\ 1 \in 1 .. Len(toCoord[w])
    BY <2>1
  <2> QED BY <2>1, <2>2 DEF OnQuery, Arrives, Readable, NoQuery
<1>3. \A v \in Worker : \/ toCoord'[v] = toCoord[v]
                        \/ (toCoord[v] # <<>> /\ toCoord'[v] = Tail(toCoord[v]))
  <2>1. toCoord' = toCoord \/ (toCoord[w] # <<>> /\ toCoord' = [toCoord EXCEPT ![w] = Tail(@)])
    BY DEF OnDisconnect, OnOk, OnCkptFilename, OnRegister, OnQuery, Arrives, Readable
  <2> QED BY <2>1, ReadOrKept
<1>4. \A v \in Worker : toWorker'[v] = toWorker[v] \/ Broadcasts(v)
  <2>1. \/ toWorker' = toWorker
        \/ \E old, cs : UpdateMinimumState(old, clients', cs)
    BY <1>2 DEF OnDisconnect, OnOk, OnCkptFilename, OnRegister
  <2> QED BY <1>1, <2>1, UpdateBroadcasts
<1>5. ASSUME NEW v \in Worker
      PROVE  MessagesOf(v)'
  <2>1. SameComputation(v) /\ pc'[v] = pc[v] /\ MessagesOf(v)
    BY <1>1 DEF SameComputation
  <2>2. toCoord'[v] = toCoord[v] \/ (toCoord[v] # <<>> /\ toCoord'[v] = Tail(toCoord[v]))
    BY <1>3
  <2>3. toWorker'[v] = toWorker[v] \/ Broadcasts(v)
    BY <1>4
  <2> QED BY <2>1, <2>2, <2>3, QuietMessages
<1> QED BY <1>5

\* The timer and the user suspend or kill; who is not to force a restart does
\* not.
LEMMA UserMessages ==
  ASSUME "f" \notin Commands, DiskInv, RoundInv, UserStep, \A v \in Worker : MessagesOf(v)
  PROVE  \A v \in Worker : MessagesOf(v)'
<1>1. pc' = pc /\ toCoord' = toCoord /\ clients \subseteq Worker
  BY DEF UserStep, OnTimeoutInterval, CommandBlock, CommandCheckpoint, CommandKill,
     CommandForce, CommandQuit, UserCommand, workerVars, netVars, DiskInv, TypeOK, CoordTypeOK
<1>2. compId' = compId \/ clients = {}
  BY DEF UserStep, OnTimeoutInterval, CommandBlock, CommandCheckpoint, CommandKill,
     CommandForce, CommandQuit, UserCommand, InitializeComputation, CompNow, Idle
<1>3. \/ toWorker' = toWorker
      \/ toWorker' = Post(toWorker, clients, DoSuspend(compId, generation'))
      \/ toWorker' = Post(toWorker, clients, Plain("KILL_PEER"))
  BY DEF UserStep, OnTimeoutInterval, CommandBlock, CommandCheckpoint, CommandKill,
     CommandForce, CommandQuit, UserCommand, StartCheckpoint, netVars
<1>4. \A v \in Worker : toWorker'[v] = toWorker[v] \/ Broadcasts(v)
  <2>1. /\ DoSuspend(compId, generation').type = "DO_SUSPEND"
        /\ Plain("KILL_PEER").type = "KILL_PEER"
    BY DEF DoSuspend, Plain
  <2> QED BY <1>1, <1>3, <2>1, PostBroadcasts
<1>5. ASSUME NEW v \in Worker
      PROVE  MessagesOf(v)'
  <2>1. SameComputation(v) /\ pc'[v] = pc[v] /\ toCoord'[v] = toCoord[v] /\ MessagesOf(v)
    BY <1>1, <1>2 DEF SameComputation
  <2>2. toWorker'[v] = toWorker[v] \/ Broadcasts(v)
    BY <1>4
  <2> QED BY <2>1, <2>2, QuietMessages
<1> QED BY <1>5

-----------------------------------------------------------------------------
(* Steps of a process. *)

\* What a step of w leaves alone of another process.
Aside(v) ==
  pc'[v] = pc[v] /\ toCoord'[v] = toCoord[v] /\ toWorker'[v] = toWorker[v]

\* A step of one process that reports, takes its next message, or both.
LEMMA StepMessages ==
  ASSUME DiskInv, RoundInv, NEW w \in Worker, \A v \in Worker : MessagesOf(v),
         compId' = compId, \A v \in Worker \ {w} : Aside(v),
         NoQuery(w)', pc'[w] \notin {"asking", "abort"},
         \/ toWorker'[w] = toWorker[w] /\ (pc[w] = "hello" => pc'[w] = "hello")
         \/ toWorker[w] # <<>> /\ toWorker'[w] = Tail(toWorker[w])
         \/ toWorker'[w] = <<>>
  PROVE  \A v \in Worker : MessagesOf(v)'
<1>1. ASSUME NEW v \in Worker \ {w}
      PROVE  MessagesOf(v)'
  BY QuietMessages DEF Aside, SameComputation
<1> SUFFICES MessagesOf(w)'
  BY <1>1
<1>2. toWorker[w] \in Seq(ToWorkerMsg) /\ ConnectionOf(w) /\ SameComputation(w)
  BY DEF DiskInv, TypeOK, NetTypeOK, RoundInv, Connected, SameComputation
<1>3. MessagesOf(w) /\ \A i \in 1 .. Len(toWorker[w]) : Due(w, i)
  BY DEF MessagesOf
<1>4. CASE toWorker'[w] = toWorker[w] /\ (pc[w] = "hello" => pc'[w] = "hello")
  BY <1>2, <1>3, <1>4, StaysDue DEF MessagesOf
<1>5. CASE toWorker[w] # <<>> /\ toWorker'[w] = Tail(toWorker[w])
  BY <1>2, <1>3, <1>5, TakenDue DEF MessagesOf
<1>6. CASE toWorker'[w] = <<>>
  BY <1>6, AnswersDue DEF Answers, MessagesOf
<1> QED BY <1>4, <1>5, <1>6

\* A process that ends, and the child it had not forked yet, have nothing
\* under way to them.
LEMMA DeathMessages ==
  ASSUME DiskInv, RoundInv, NEW p, Die(p, "dead"), compId' = compId, toCoord' = toCoord,
         \A v \in Worker : MessagesOf(v)
  PROVE  \A v \in Worker : MessagesOf(v)'
<1>1. ASSUME NEW v \in Worker
      PROVE  MessagesOf(v)'
  <2>1. MessagesOf(v) /\ NoQuery(v)'
    BY DEF MessagesOf, NoQuery
  <2>2. CASE v \in {p} \cup Children(p)
    <3>1. pc'[v] = "dead" /\ toWorker'[v] = <<>>
      BY <2>2 DEF Die
    <3> QED BY <2>1, <3>1, AnswersDue DEF Answers, MessagesOf
  <2>3. CASE v \notin {p} \cup Children(p)
    <3>1. pc'[v] = pc[v] /\ toWorker'[v] = toWorker[v] /\ SameComputation(v)
      BY <2>3 DEF Die, SameComputation
    <3> QED BY <2>1, <3>1, QuietMessages
  <2> QED BY <2>2, <2>3
<1> QED BY <1>1

\* Reports are no questions.
LEMMA ReportIsNoQuery ==
  ASSUME DiskInv, NEW w \in Worker, NoQuery(w), NEW msgs \in Seq(ToCoordMsg), Send(w, msgs),
         \A i \in 1 .. Len(msgs) : msgs[i].type # "NAME_SERVICE_QUERY"
  PROVE  NoQuery(w)' /\ \A v \in Worker \ {w} : toCoord'[v] = toCoord[v]
<1>1. /\ toCoord \in [Worker -> Seq(ToCoordMsg)]
      /\ toCoord' = [toCoord EXCEPT ![w] = toCoord[w] \o msgs]
  BY DEF DiskInv, TypeOK, NetTypeOK, Send
<1>2. toCoord'[w] = toCoord[w] \o msgs
  BY <1>1
<1> QED BY <1>1, <1>2, NoQuestion

\* A report, alone or behind a file name or a registration.
LEMMA Reporting ==
  ASSUME NEW s \in WorkerState
  PROVE  /\ <<Ok(s)>> \in Seq(ToCoordMsg)
         /\ \A i \in 1 .. Len(<<Ok(s)>>) : <<Ok(s)>>[i].type # "NAME_SERVICE_QUERY"
<1>1. Ok(s) \in ToCoordMsg /\ Ok(s).type = "OK"
  BY DEF Ok, ToCoordMsg
<1> QED BY <1>1

\* The handshake takes the answer; a refused process ends.
LEMMA HandshakeMessages ==
  ASSUME DiskInv, RoundInv, restarts = 0, NEW w \in Worker, \A v \in Worker : MessagesOf(v),
         compId' = compId, Handshake(w) \/ TurnedAway(w) \/ CoordinatorLost(w)
  PROVE  \A v \in Worker : MessagesOf(v)'
<1>1. CASE TurnedAway(w) \/ CoordinatorLost(w)
  BY <1>1, DeathMessages DEF TurnedAway, CoordinatorLost
<1>2. CASE Handshake(w)
  <2>1. fromImage[w] = 0
    BY NeverRestored
  <2>2. /\ toCoord' = toCoord /\ pc' = [pc EXCEPT ![w] = "run"]
        /\ toWorker[w] # <<>> /\ toWorker' = [toWorker EXCEPT ![w] = Tail(@)]
    BY <1>2, <2>1 DEF Handshake, Move, Consume, Receives
  <2>3. /\ pc'[w] = "run" /\ toWorker'[w] = Tail(toWorker[w]) /\ NoQuery(w)'
        /\ \A v \in Worker \ {w} : Aside(v)
    BY <2>2 DEF DiskInv, TypeOK, NetTypeOK, WorkerTypeOK, Aside, MessagesOf, NoQuery
  <2> QED BY <2>2, <2>3, StepMessages
<1> QED BY <1>1, <1>2

\* What waitForCoordinatorMsg takes is what it waits for.
LEMMA WaitMessages ==
  ASSUME DiskInv, RoundInv, MessageInv, restarts = 0, NEW w \in Worker, compId' = compId,
         WaitForStage1Suspend(w) \/ WaitForCoordinatorMsg(w)
  PROVE  \A v \in Worker : MessagesOf(v)'
<1>1. \A v \in Worker : MessagesOf(v)
  BY DEF MessageInv
<1>2. /\ toCoord' = toCoord /\ Receives(w)
      /\ \/ Die(w, "dead")
         \/ /\ Consume(w)
            /\ pc' = pc \/ \E q : pc' = [pc EXCEPT ![w] = q] /\ q \notin {"asking", "abort"}
  <2>1. CASE WaitForStage1Suspend(w)
    <3>1. Received(w).type \in {"DO_SUSPEND", "KILL_PEER"}
      BY <2>1, NothingUnexpected DEF WaitForStage1Suspend
    <3> QED BY <2>1, <3>1 DEF WaitForStage1Suspend, Move
  <2>2. CASE WaitForCoordinatorMsg(w)
    <3>1. Expected(w, Received(w)) \/ Received(w).type = "KILL_PEER"
      BY <2>2, NothingUnexpected DEF WaitForCoordinatorMsg
    <3>2. pc[w] \in WaitPoint => WorkAfter(pc[w]) \notin {"asking", "abort"}
      BY DEF WaitPoint, WorkAfter
    <3> QED BY <2>2, <3>1, <3>2 DEF WaitForCoordinatorMsg, Move
  <2> QED BY <2>1, <2>2
<1>3. CASE Die(w, "dead")
  BY <1>1, <1>2, <1>3, DeathMessages
<1>4. CASE /\ Consume(w)
           /\ pc' = pc \/ \E q : pc' = [pc EXCEPT ![w] = q] /\ q \notin {"asking", "abort"}
  <2>1. /\ toWorker[w] # <<>> /\ toWorker'[w] = Tail(toWorker[w]) /\ NoQuery(w)'
        /\ pc'[w] \notin {"asking", "abort"} /\ \A v \in Worker \ {w} : Aside(v)
    BY <1>1, <1>2, <1>4 DEF DiskInv, TypeOK, NetTypeOK, WorkerTypeOK, Consume, Receives,
       Aside, MessagesOf, NoQuery
  <2> QED BY <1>1, <2>1, StepMessages
<1> QED BY <1>2, <1>3, <1>4

\* The other steps of the checkpoint thread, and the main thread's report, send
\* reports; a process that was never restored asks for nothing.
LEMMA StageMessages ==
  ASSUME DiskInv, RoundInv, restarts = 0, NEW w \in Worker, \A v \in Worker : MessagesOf(v),
         compId' = compId,
         \/ Suspend(w) \/ FinishStage(w) \/ RegisterNSData(w) \/ SendQueries(w)
         \/ QueryAnswered(w) \/ Resume(w) \/ WriteImage(w)
         \/ InformCoordinatorOfRUNNINGState(w)
  PROVE  \A v \in Worker : MessagesOf(v)'
<1>1. fromImage[w] = 0 /\ pc[w] # "asking"
  BY NeverRestored DEF MessagesOf
<1>2. toWorker' = toWorker
  BY <1>1 DEF Suspend, FinishStage, RegisterNSData, SendQueries, QueryAnswered, Resume,
     WriteImage, InformCoordinatorOfRUNNINGState
<1>3. /\ pc[w] # "hello"
      /\ pc' = pc \/ \E q : pc' = [pc EXCEPT ![w] = q] /\ q \notin {"asking", "abort"}
  BY <1>1 DEF Suspend, FinishStage, RegisterNSData, SendQueries, QueryAnswered, Resume,
     WriteImage, InformCoordinatorOfRUNNINGState, Move
<1>4. \/ \E s \in WorkerState : Send(w, <<Ok(s)>>)
      \/ \E f \in FileName : Send(w, <<CkptFilename(f), Ok("CHECKPOINTED")>>)
  <2>1. CASE WriteImage(w)
    <3>1. NameOf(w, wGen[w]) \in FileName
      BY BoundAssumption DEF NameOf, FileName, Generation, DiskInv, TypeOK, WorkerTypeOK
    <3> QED BY <2>1, <3>1 DEF WriteImage
  <2>2. CASE RegisterNSData(w)
    <3>1. <<>> \o <<Ok("NAME_SERVICE_DATA_REGISTERED")>>
            = <<Ok("NAME_SERVICE_DATA_REGISTERED")>>
      OBVIOUS
    <3> QED BY <1>1, <2>2, <3>1, StateNames DEF RegisterNSData
  <2>3. CASE ~WriteImage(w) /\ ~RegisterNSData(w)
    BY <1>1, <2>3, StateNames DEF Suspend, FinishStage, SendQueries, QueryAnswered, Resume,
       InformCoordinatorOfRUNNINGState
  <2> QED BY <2>1, <2>2, <2>3
<1>5. NoQuery(w)' /\ \A v \in Worker \ {w} : toCoord'[v] = toCoord[v]
  <2>1. NoQuery(w)
    BY DEF MessagesOf
  <2>2. ASSUME NEW s \in WorkerState, Send(w, <<Ok(s)>>)
        PROVE  NoQuery(w)' /\ \A v \in Worker \ {w} : toCoord'[v] = toCoord[v]
    BY <2>1, <2>2, Reporting, ReportIsNoQuery
  <2>3. ASSUME NEW f \in FileName, Send(w, <<CkptFilename(f), Ok("CHECKPOINTED")>>)
        PROVE  NoQuery(w)' /\ \A v \in Worker \ {w} : toCoord'[v] = toCoord[v]
    <3> DEFINE m == CkptFilename(f)
               k == Ok("CHECKPOINTED")
    <3>1. /\ m \in ToCoordMsg /\ m.type # "NAME_SERVICE_QUERY"
          /\ k \in ToCoordMsg /\ k.type # "NAME_SERVICE_QUERY"
      BY StateNames DEF CkptFilename, Ok, ToCoordMsg
    <3> HIDE DEF m, k
    <3>2. /\ <<m, k>> \in Seq(ToCoordMsg)
          /\ \A i \in 1 .. Len(<<m, k>>) : <<m, k>>[i].type # "NAME_SERVICE_QUERY"
      BY <3>1
    <3>3. Send(w, <<m, k>>)
      BY <2>3 DEF m, k
    <3> QED BY <2>1, <3>2, <3>3, ReportIsNoQuery
  <2> QED BY <1>4, <2>2, <2>3
<1>6. /\ toWorker'[w] = toWorker[w] /\ pc'[w] \notin {"asking", "abort"}
      /\ \A v \in Worker \ {w} : Aside(v)
  <2>1. pc[w] \notin {"asking", "abort"} /\ pc \in [Worker -> Point]
    BY DEF MessagesOf, DiskInv, TypeOK, WorkerTypeOK
  <2> QED BY <1>2, <1>3, <1>5, <2>1 DEF Aside
<1> QED BY <1>3, <1>5, <1>6, StepMessages

\* A child takes the answer to the hello its parent sent for it, or is not
\* forked.
LEMMA FinishForkMessages ==
  ASSUME DiskInv, RoundInv, NEW w \in Worker, \A v \in Worker : MessagesOf(v),
         compId' = compId, FinishFork(w)
  PROVE  \A v \in Worker : MessagesOf(v)'
<1>1. /\ toCoord' = toCoord /\ toWorker[w] # <<>>
      /\ \/ pc' = [pc EXCEPT ![w] = "run"] /\ toWorker' = [toWorker EXCEPT ![w] = Tail(@)]
         \/ pc' = [pc EXCEPT ![w] = "dead"] /\ toWorker' = [toWorker EXCEPT ![w] = <<>>]
  BY DEF FinishFork, Move, Consume, Receives
<1>2. /\ pc \in [Worker -> Point] /\ toWorker \in [Worker -> Seq(ToWorkerMsg)]
      /\ NoQuery(w)
  BY DEF DiskInv, TypeOK, NetTypeOK, WorkerTypeOK, MessagesOf
<1>3. /\ pc'[w] \in {"run", "dead"} /\ NoQuery(w)'
      /\ toWorker'[w] = Tail(toWorker[w]) \/ toWorker'[w] = <<>>
      /\ \A v \in Worker \ {w} : Aside(v)
  BY <1>1, <1>2 DEF Aside, NoQuery
<1> QED BY <1>1, <1>3, StepMessages

\* A process that connects says hello and has been sent nothing; one that ends
\* gets nothing.
LEMMA UserProcessMessages ==
  ASSUME DiskInv, RoundInv, NEW w \in Worker, UserProcessStep(w),
         \A v \in Worker : MessagesOf(v)
  PROVE  \A v \in Worker : MessagesOf(v)'
<1>1. compId' = compId
  BY DEF UserProcessStep, CoordinatorKept
<1>2. ASSUME NEW c \in Worker, NEW s, pc[c] = "unborn", Connect(c, Hello(s, Nobody, 0, {})),
             Move(c, "hello"), toWorker' = toWorker
      PROVE  \A v \in Worker : MessagesOf(v)'
  <2>1. /\ pc \in [Worker -> Point] /\ toCoord \in [Worker -> Seq(ToCoordMsg)]
        /\ NoQuery(c)
    BY DEF DiskInv, TypeOK, NetTypeOK, WorkerTypeOK, MessagesOf
  <2>2. Hello(s, Nobody, 0, {}).type # "NAME_SERVICE_QUERY"
    BY DEF Hello
  <2> DEFINE h == Hello(s, Nobody, 0, {})
  <2>3. toCoord' = [toCoord EXCEPT ![c] = <<h>>] /\ pc' = [pc EXCEPT ![c] = "hello"]
    BY <1>2 DEF Connect, Move
  <2> HIDE DEF h
  <2>4. /\ pc'[c] = "hello" /\ toCoord'[c] = <<h>>
        /\ \A v \in Worker \ {c} : Aside(v)
    BY <1>2, <2>1, <2>3 DEF Aside
  <2>5. NoQuery(c)'
    BY <2>1, <2>2, <2>4, NoQuestion DEF h
  <2> QED BY <1>1, <1>2, <2>4, <2>5, StepMessages
<1>3. CASE Launch(w)
  BY <1>2, <1>3 DEF Launch
<1>4. CASE Exit(w) \/ Crash(w)
  BY <1>1, <1>4, DeathMessages DEF Exit, Crash
<1>5. CASE \E c \in Worker : BeginFork(w, c)
  BY <1>2, <1>5 DEF BeginFork
<1> QED BY <1>3, <1>4, <1>5 DEF UserProcessStep

-----------------------------------------------------------------------------
(* The invariant, and the theorem. *)

\* No message is under way at first.
LEMMA InitMessages == Init => MessageInv
BY DEF Init, MessageInv, MessagesOf, NoQuery

\* No step of a computation that was never restored sends what is not due.
LEMMA NextMessages ==
  ASSUME "f" \notin Commands
  PROVE  DiskInv /\ RoundInv /\ MessageInv /\ [Next]_vars => MessageInv'
<1> SUFFICES ASSUME DiskInv, RoundInv, MessageInv, [Next]_vars, restarts' = 0
             PROVE  \A v \in Worker : MessagesOf(v)'
  BY DEF MessageInv
<1>1. restarts \in Nat /\ ~RunScript /\ restarts = 0
  <2>1. restarts \in Nat
    BY BoundAssumption DEF DiskInv, TypeOK, EnvTypeOK
  <2>2. restarts' = restarts \/ restarts' = restarts + 1
    BY DEF Next, RunScript, UserStep, OnTimeoutInterval, CommandBlock, CommandCheckpoint,
       CommandKill, CommandForce, CommandQuit, RestartStep, UserProcessStep, WorkerStep,
       CkptThreadStep, MainThreadStep, CoordinatorStep, OnConnect, OnDisconnect, OnOk,
       OnCkptFilename, OnRegister, OnQuery, envVars, vars
  <2> QED BY <2>1, <2>2 DEF RunScript
<1>2. \A v \in Worker : MessagesOf(v)
  BY <1>1 DEF MessageInv
<1>3. ASSUME NEW w \in Worker, CoordinatorStep(w)
      PROVE  \A v \in Worker : MessagesOf(v)'
  BY <1>2, <1>3, OnConnectMessages, OnDataMessages DEF CoordinatorStep
<1>4. ASSUME NEW w \in Worker, WorkerStep(w)
      PROVE  \A v \in Worker : MessagesOf(v)'
  <2>1. compId' = compId
    BY <1>4 DEF WorkerStep, CkptThreadStep, MainThreadStep, CoordinatorKept
  <2> QED BY <1>1, <1>2, <1>4, <2>1, HandshakeMessages, WaitMessages, StageMessages,
             FinishForkMessages DEF WorkerStep, CkptThreadStep, MainThreadStep
<1>5. ASSUME NEW f, RestartStep(f)
      PROVE  FALSE
  BY <1>1, <1>5, NeverRestored DEF RestartStep, RestartProcess
<1>6. CASE UNCHANGED vars
  <2>1. \A v \in Worker : Aside(v)
    BY <1>6 DEF Aside, vars, workerVars, netVars
  <2>2. compId' = compId
    BY <1>6 DEF vars, coordVars
  <2> QED BY <1>2, <2>1, <2>2, QuietMessages DEF Aside, SameComputation
<1> QED BY <1>1, <1>2, <1>3, <1>4, <1>5, <1>6, UserProcessMessages, UserMessages DEF Next

\* Until a first restart, and if no user forces one, no checkpoint thread reads
\* a message it does not expect, whatever joins, forks, ends, crashes or is
\* killed meanwhile: waitForStage1Suspend reads a suspend or a kill, and
\* waitForCoordinatorMsg the message of its barrier or a kill.
THEOREM MessagesExpected ==
  ASSUME "f" \notin Commands
  PROVE  Spec => [](restarts = 0 => NoUnexpectedMessage)
<1>1. DiskInv /\ RoundInv /\ MessageInv /\ [Next]_vars =>
        DiskInv' /\ RoundInv' /\ MessageInv'
  BY NextDiskInv, NextRound, NextMessages
<1>2. Init => DiskInv /\ RoundInv /\ MessageInv
  BY InitDiskInv, InitRound, InitMessages
<1>3. MessageInv => (restarts = 0 => NoUnexpectedMessage)
  BY DEF MessageInv, MessagesOf, NoUnexpectedMessage
<1> QED BY <1>1, <1>2, <1>3, PTL DEF Spec

-----------------------------------------------------------------------------
(* The coordinator before any restart. *)

\* What is said after what has been said, and what is left of it.
LEMMA CleanIs ==
  ASSUME NEW s \in Seq(ToCoordMsg), SaidClean(s)
  PROVE  /\ s # <<>> => SaidClean(Tail(s)) /\ Head(s).type # "NAME_SERVICE_QUERY"
                        /\ (Head(s).type = "OK" => Head(s).state \in Reported)
         /\ \A t \in Seq(ToCoordMsg) : SaidClean(t) => SaidClean(s \o t)
<1>1. ASSUME s # <<>>
      PROVE  SaidClean(Tail(s)) /\ Head(s).type # "NAME_SERVICE_QUERY"
             /\ (Head(s).type = "OK" => Head(s).state \in Reported)
  <2>1. /\ \A i \in 1 .. Len(Tail(s)) : i + 1 \in 1 .. Len(s) /\ Tail(s)[i] = s[i + 1]
        /\ 1 \in 1 .. Len(s) /\ Head(s) = s[1]
    BY <1>1
  <2> QED BY <2>1 DEF SaidClean
<1>2. ASSUME NEW t \in Seq(ToCoordMsg), SaidClean(t)
      PROVE  SaidClean(s \o t)
  <2>1. \A i \in 1 .. Len(s \o t) :
          \/ i \in 1 .. Len(s) /\ (s \o t)[i] = s[i]
          \/ i - Len(s) \in 1 .. Len(t) /\ (s \o t)[i] = t[i - Len(s)]
    OBVIOUS
  <2> QED BY <1>2, <2>1 DEF SaidClean
<1> QED BY <1>1, <1>2

\* Two messages are a sequence of messages.
LEMMA TwoMessages ==
  ASSUME NEW a \in ToCoordMsg, NEW b \in ToCoordMsg
  PROVE  <<a, b>> \in Seq(ToCoordMsg)
OBVIOUS

\* A process reports, alone or behind a name or a registration.
LEMMA SendsClean ==
  ASSUME DiskInv, NEW w \in Worker, \A v \in Worker : SaidClean(toCoord[v]),
         \/ \E s \in Reported : Send(w, <<Ok(s)>>)
         \/ \E f \in FileName, s \in Reported : Send(w, <<CkptFilename(f), Ok(s)>>)
         \/ \E s \in Reported : Send(w, <<RegisterData, Ok(s)>>)
  PROVE  /\ \A v \in Worker : SaidClean(toCoord'[v])
         /\ \A v \in Worker : toCoord[v] # <<>> => Head(toCoord'[v]) = Head(toCoord[v])
<1>1. /\ \A s \in Reported : Ok(s) \in ToCoordMsg /\ SaidClean(<<Ok(s)>>)
      /\ \A f \in FileName, s \in Reported :
            CkptFilename(f) \in ToCoordMsg /\ SaidClean(<<CkptFilename(f), Ok(s)>>)
      /\ \A s \in Reported : RegisterData \in ToCoordMsg /\ SaidClean(<<RegisterData, Ok(s)>>)
  <2>1. \A s \in Reported : Ok(s) \in ToCoordMsg /\ Ok(s).type = "OK" /\ Ok(s).state = s
    BY DEF Reported, ToCoordMsg, Ok
  <2>2. \A f \in FileName : CkptFilename(f) \in ToCoordMsg /\ CkptFilename(f).type = "CKPT_FILENAME"
    BY DEF ToCoordMsg, CkptFilename
  <2>3. RegisterData \in ToCoordMsg /\ RegisterData.type = "REGISTER_NAME_SERVICE_DATA"
    BY DEF ToCoordMsg, RegisterData
  <2>4. ASSUME NEW a, NEW b, a.type \notin {"OK", "NAME_SERVICE_QUERY"},
               b.type = "OK", b.state \in Reported
        PROVE  SaidClean(<<a, b>>) /\ SaidClean(<<b>>)
    <3>1. \A i \in 1 .. Len(<<a, b>>) : <<a, b>>[i] = a \/ <<a, b>>[i] = b
      OBVIOUS
    <3>2. \A i \in 1 .. Len(<<b>>) : <<b>>[i] = b
      OBVIOUS
    <3> QED BY <2>4, <3>1, <3>2 DEF SaidClean
  <2>5. ASSUME NEW s \in Reported
        PROVE  SaidClean(<<Ok(s)>>)
    BY <2>1, <2>3, <2>4
  <2>6. ASSUME NEW s \in Reported, NEW f \in FileName
        PROVE  SaidClean(<<CkptFilename(f), Ok(s)>>)
    BY <2>1, <2>2, <2>4
  <2>7. ASSUME NEW s \in Reported
        PROVE  SaidClean(<<RegisterData, Ok(s)>>)
    BY <2>1, <2>3, <2>4
  <2> QED BY <2>1, <2>2, <2>3, <2>5, <2>6, <2>7
<1>2. PICK msgs \in Seq(ToCoordMsg) : SaidClean(msgs) /\ Send(w, msgs)
  <2>1. CASE \E s \in Reported : Send(w, <<Ok(s)>>)
    <3>1. PICK s \in Reported : Send(w, <<Ok(s)>>)
      BY <2>1
    <3> DEFINE msgs == <<Ok(s)>>
    <3>2. msgs \in Seq(ToCoordMsg) /\ SaidClean(msgs)
      BY <1>1
    <3> QED BY <3>1, <3>2
  <2>2. CASE \E f \in FileName, s \in Reported : Send(w, <<CkptFilename(f), Ok(s)>>)
    <3>1. PICK f \in FileName, s \in Reported : Send(w, <<CkptFilename(f), Ok(s)>>)
      BY <2>2
    <3> DEFINE msgs == <<CkptFilename(f), Ok(s)>>
    <3>2. msgs \in Seq(ToCoordMsg) /\ SaidClean(msgs)
      <4>1. CkptFilename(f) \in ToCoordMsg /\ Ok(s) \in ToCoordMsg /\ SaidClean(msgs)
        BY <1>1
      <4> QED BY <4>1, TwoMessages
    <3> QED BY <3>1, <3>2
  <2>3. CASE \E s \in Reported : Send(w, <<RegisterData, Ok(s)>>)
    <3>1. PICK s \in Reported : Send(w, <<RegisterData, Ok(s)>>)
      BY <2>3
    <3> DEFINE msgs == <<RegisterData, Ok(s)>>
    <3>2. msgs \in Seq(ToCoordMsg) /\ SaidClean(msgs)
      <4>1. RegisterData \in ToCoordMsg /\ Ok(s) \in ToCoordMsg /\ SaidClean(msgs)
        BY <1>1
      <4> QED BY <4>1, TwoMessages
    <3> QED BY <3>1, <3>2
  <2> QED BY <2>1, <2>2, <2>3
<1>3. /\ toCoord \in [Worker -> Seq(ToCoordMsg)]
      /\ toCoord'[w] = toCoord[w] \o msgs /\ \A v \in Worker \ {w} : toCoord'[v] = toCoord[v]
  BY <1>2 DEF DiskInv, TypeOK, NetTypeOK, Send
<1>4. toCoord[w] # <<>> => Head(toCoord[w] \o msgs) = Head(toCoord[w])
  BY <1>2, <1>3
<1> QED BY <1>2, <1>3, <1>4, CleanIs

\* Which processes are there, what the coordinator knows and what is said first stay.
LEMMA QuietSurv ==
  ASSUME SurvivalInv, UNCHANGED <<coord, clients, cstate, suspendSent>>, backlog' \subseteq backlog,
         \A v \in Worker : pc'[v] = "unborn" <=> pc[v] = "unborn",
         \A v \in Worker : parent[v] \in Group /\ parent'[v] \in {Nobody, parent[v]},
         \A v \in backlog' : Head(toCoord'[v]) = Head(toCoord[v]),
         \A v \in Worker : SaidClean(toCoord'[v]), Launchable \subseteq Worker
  PROVE  SurvivalInv'
<1>1. ASSUME NEW v \in Worker, parent'[v] # Nobody
      PROVE  pc'[parent'[v]] # "unborn"
  <2>1. parent'[v] = parent[v] /\ parent[v] \in Worker
    BY <1>1 DEF Group
  <2> QED BY <1>1, <2>1 DEF SurvivalInv, FirstInv
<1> QED BY <1>1 DEF SurvivalInv, FirstInv, RequestInv, SaidInv, NoneBorn

-----------------------------------------------------------------------------
(* The workers. *)

\* The birth of a process is not undone: not by the death of another.
LEMMA DeathBorn ==
  ASSUME RoundInv, DiskInv, NEW p, NEW w \in Worker, pc[w] # "unborn", p \in DeadPoint, Die(w, p)
  PROVE  \A v \in Worker : pc'[v] = "unborn" <=> pc[v] = "unborn"
<1>1. \A v \in Children(w) : v \in Worker /\ pc[v] = "hello"
  BY NobodyAssumption DEF RoundInv, RestoredHello, HelloOf, Children
<1>2. p # "unborn"
  BY DEF DeadPoint
<1> QED BY <1>1, <1>2 DEF Die

\* What a process that is there does, but for a fork.
LEMMA LivingSurv ==
  ASSUME DiskInv, RoundInv, SurvivalInv, restarts = 0, NEW w \in Worker, CoordinatorKept,
         \/ Handshake(w) \/ TurnedAway(w) \/ WaitForStage1Suspend(w) \/ Suspend(w)
         \/ WaitForCoordinatorMsg(w) \/ FinishStage(w) \/ RegisterNSData(w) \/ SendQueries(w)
         \/ QueryAnswered(w) \/ Resume(w) \/ CoordinatorLost(w) \/ WriteImage(w)
         \/ InformCoordinatorOfRUNNINGState(w) \/ FinishFork(w) \/ Exit(w) \/ Crash(w)
  PROVE  SurvivalInv'
<1>0. /\ pc \in [Worker -> Point] /\ Launchable \subseteq Worker
      /\ parent \in [Worker -> Group] /\ fromImage[w] = 0
      /\ wGen[w] \in Generation
  BY WorkerAssumption, NeverRestored DEF DiskInv, TypeOK, WorkerTypeOK
<1>1. UNCHANGED <<coord, backlog, clients, cstate, suspendSent>>
  BY DEF CoordinatorKept, Handshake, TurnedAway, WaitForStage1Suspend, Suspend, WaitForCoordinatorMsg,
     FinishStage, RegisterNSData, SendQueries, QueryAnswered, Resume, CoordinatorLost, WriteImage,
     InformCoordinatorOfRUNNINGState, FinishFork, Exit, Crash
<1>2. /\ pc[w] # "unborn"
      /\ \/ pc' = pc /\ parent' = parent
         \/ \E p : p # "unborn" /\ Move(w, p) /\ parent' \in {parent, [parent EXCEPT ![w] = Nobody]}
         \/ \E v \in Worker, p \in DeadPoint : Die(v, p) /\ pc[v] # "unborn"
  <2>1. CASE TurnedAway(w) \/ CoordinatorLost(w)
    <3>1. pc[w] # "unborn" /\ Die(IF parent[w] = Nobody THEN w ELSE parent[w], "dead")
      BY <2>1 DEF TurnedAway, CoordinatorLost, WaitPoint
    <3>2. ASSUME parent[w] # Nobody
          PROVE  parent[w] \in Worker /\ pc[parent[w]] # "unborn"
      <4>1. parent[w] \in Worker
        BY <1>0, <3>2 DEF Group
      <4>2. ASSUME pc[parent[w]] = "unborn"
            PROVE  FALSE
        BY <3>2, <4>1, <4>2 DEF SurvivalInv, FirstInv
      <4> QED BY <4>1, <4>2
    <3> QED BY <3>1, <3>2 DEF DeadPoint
  <2>2. CASE WaitForStage1Suspend(w) \/ WaitForCoordinatorMsg(w) \/ QueryAnswered(w)
             \/ Exit(w) \/ Crash(w)
    BY <2>2 DEF WaitForStage1Suspend, WaitForCoordinatorMsg, QueryAnswered, Exit, Crash, WaitPoint, Alive,
       DeadPoint, WorkAfter
  <2>3. CASE Handshake(w) \/ Suspend(w) \/ FinishStage(w) \/ RegisterNSData(w) \/ SendQueries(w)
             \/ Resume(w) \/ WriteImage(w) \/ InformCoordinatorOfRUNNINGState(w)
    BY <2>3 DEF Handshake, Suspend, FinishStage, RegisterNSData, SendQueries, Resume, WriteImage,
       InformCoordinatorOfRUNNINGState
  <2>4. CASE FinishFork(w)
    BY <2>4 DEF FinishFork
  <2> QED BY <2>1, <2>2, <2>3, <2>4
<1>3. \A v \in Worker : pc'[v] = "unborn" <=> pc[v] = "unborn"
  BY <1>0, <1>2, DeathBorn DEF Move
<1>4. \A v \in Worker : parent[v] \in Group /\ parent'[v] \in {Nobody, parent[v]}
  BY <1>0, <1>2 DEF Die
<1>5. \/ toCoord' = toCoord
      \/ \E s \in Reported : Send(w, <<Ok(s)>>)
      \/ \E f \in FileName, s \in Reported : Send(w, <<CkptFilename(f), Ok(s)>>)
  <2>1. {"RUNNING", "SUSPENDED", "FD_LEADER_ELECTION", "DRAINED", "CHECKPOINTED",
         "NAME_SERVICE_DATA_REGISTERED", "DONE_QUERYING", "REFILLED"} \subseteq Reported
    BY StateNames DEF Reported
  <2>2. NameOf(w, wGen[w]) \in FileName
    BY <1>0, FileNameType
  <2>3. \A s : <<>> \o <<Ok(s)>> = <<Ok(s)>>
    OBVIOUS
  <2>4. CASE Handshake(w) \/ TurnedAway(w) \/ WaitForStage1Suspend(w) \/ WaitForCoordinatorMsg(w)
             \/ CoordinatorLost(w) \/ FinishFork(w) \/ Exit(w) \/ Crash(w)
    BY <1>0, <2>4 DEF Handshake, TurnedAway, WaitForStage1Suspend, WaitForCoordinatorMsg, CoordinatorLost,
       FinishFork, Exit, Crash
  <2>5. CASE Suspend(w) \/ FinishStage(w) \/ SendQueries(w) \/ QueryAnswered(w) \/ Resume(w)
             \/ InformCoordinatorOfRUNNINGState(w)
    BY <1>0, <2>1, <2>5 DEF Suspend, FinishStage, SendQueries, QueryAnswered, Resume,
       InformCoordinatorOfRUNNINGState
  <2>6. CASE RegisterNSData(w)
    BY <1>0, <2>1, <2>3, <2>6 DEF RegisterNSData
  <2>7. CASE WriteImage(w)
    BY <2>1, <2>2, <2>7 DEF WriteImage
  <2> QED BY <2>4, <2>5, <2>6, <2>7
<1>6. /\ \A v \in Worker : SaidClean(toCoord'[v])
      /\ \A v \in backlog' : Head(toCoord'[v]) = Head(toCoord[v])
  <2>1. \A v \in Worker : SaidClean(toCoord[v])
    BY DEF SurvivalInv, SaidInv
  <2>2. backlog' = backlog /\ backlog \subseteq Worker /\ \A v \in backlog : toCoord[v] # <<>>
    BY <1>1 DEF DiskInv, TypeOK, CoordTypeOK, HelloFirst
  <2>3. CASE toCoord' = toCoord
    BY <2>1, <2>3
  <2>4. CASE toCoord' # toCoord
    BY <1>5, <2>1, <2>2, <2>4, SendsClean
  <2> QED BY <2>3, <2>4
<1> QED BY <1>0, <1>1, <1>3, <1>4, <1>6, QuietSurv

\* The one program is launched; it and its children fork.
LEMMA BirthSurv ==
  ASSUME \A l, m \in Launchable : l = m, DiskInv, RoundInv, SurvivalInv,
         NEW w \in Worker, CoordinatorKept,
         Launch(w) \/ \E c \in Worker : BeginFork(w, c)
  PROVE  SurvivalInv'
<1>0. /\ pc \in [Worker -> Point] /\ Launchable \subseteq Worker /\ backlog \subseteq Worker
      /\ toCoord \in [Worker -> Seq(ToCoordMsg)]
  BY WorkerAssumption DEF DiskInv, TypeOK, WorkerTypeOK, CoordTypeOK, NetTypeOK
<1>1. PICK u \in Worker, h \in ToCoordMsg :
        /\ Connect(u, h) /\ Move(u, "hello") /\ pc[u] = "unborn" /\ UNCHANGED coord
        /\ h.type = "HELLO_COORDINATOR"
        /\ \/ u \in Launchable
           \/ h.state = "RUNNING" /\ u \notin Launchable /\ ~NoneBorn
              /\ \E v \in Worker : pc[v] \in {"run", "locking"}
  <2>1. /\ Hello("UNKNOWN", Nobody, 0, {}) \in ToCoordMsg
        /\ Hello("RUNNING", Nobody, 0, {}) \in ToCoordMsg
        /\ \A s : Hello(s, Nobody, 0, {}).type = "HELLO_COORDINATOR" /\ Hello(s, Nobody, 0, {}).state = s
    BY BoundAssumption DEF Hello, ToCoordMsg, Group, Generation
  <2> QED BY <2>1 DEF Launch, BeginFork, NoneBorn
<1>2. /\ pc' = [pc EXCEPT ![u] = "hello"] /\ backlog' = backlog \cup {u}
      /\ toCoord' = [toCoord EXCEPT ![u] = <<h>>]
      /\ UNCHANGED <<clients, cstate, suspendSent>>
  BY <1>1 DEF Connect, Move, CoordinatorKept
<1>3. /\ \A v \in Worker : pc'[v] = IF v = u THEN "hello" ELSE pc[v]
      /\ \A v \in Worker : toCoord'[v] = IF v = u THEN <<h>> ELSE toCoord[v]
      /\ Head(<<h>>) = h
  BY <1>0, <1>2
<1>4. SaidInv'
  <2>1. \A i \in 1 .. Len(<<h>>) : <<h>>[i] = h
    OBVIOUS
  <2>2. SaidClean(<<h>>)
    BY <1>1, <2>1 DEF SaidClean
  <2> QED BY <1>2, <1>3, <2>2 DEF SaidInv, SurvivalInv
<1>5. RequestInv' /\ coord' # "aborted"
  BY <1>1, <1>2 DEF RequestInv, SurvivalInv
<1>6. ASSUME NEW v \in Worker, parent'[v] # Nobody
       PROVE  pc'[parent'[v]] # "unborn"
  <2>1. \/ parent'[v] = parent[v]
        \/ parent'[v] = w /\ pc[w] \in {"run", "locking"}
    BY DEF Launch, BeginFork, DiskInv, TypeOK, WorkerTypeOK
  <2>2. parent'[v] \in Worker /\ pc[parent'[v]] # "unborn"
    BY <2>1, <1>6 DEF SurvivalInv, FirstInv, DiskInv, TypeOK, WorkerTypeOK, Group
  <2> QED BY <1>3, <2>2
<1>7. CASE u \in Launchable
  <2>1. NoneBorn /\ ~suspendSent
    BY <1>1, <1>7 DEF SurvivalInv, FirstInv
  <2>2. backlog = {}
    BY <1>0, <2>1 DEF NoneBorn, DiskInv, HelloFirst
  <2>3. backlog' = {u} /\ ~suspendSent' /\ \A v \in Worker \ {u} : pc'[v] = "unborn"
    BY <1>2, <1>3, <2>1, <2>2 DEF NoneBorn
  <2>4. \A l \in Launchable : pc'[l] # "unborn"
    BY <1>0, <1>3, <1>7
  <2> QED BY <1>4, <1>5, <1>6, <2>3, <2>4 DEF SurvivalInv, FirstInv, NoneBorn
<1>8. CASE u \notin Launchable
  <2>1. /\ ~NoneBorn /\ \A l \in Launchable : pc[l] # "unborn"
        /\ h.state = "RUNNING" /\ \E v \in Worker : pc[v] \in {"run", "locking"}
    BY <1>1, <1>8 DEF SurvivalInv, FirstInv
  <2>2. ASSUME NEW w1 \in backlog
        PROVE  Head(toCoord[w1]).state # "UNKNOWN" /\ w1 # u
    <3>1. PICK v \in Worker : pc[v] \in {"run", "locking"}
      BY <2>1
    <3>2. v # w1
      BY <3>1 DEF RoundInv, Connected, ConnectionOf, Alive, DeadPoint, DiskInv, HelloFirst
    <3> QED BY <1>1, <3>1, <3>2 DEF SurvivalInv, FirstInv, DiskInv, HelloFirst
  <2>3. /\ \A l \in Launchable : pc'[l] # "unborn"
        /\ \A w1 \in backlog' : Head(toCoord'[w1]).state # "UNKNOWN"
        /\ ~NoneBorn'
    BY <1>0, <1>1, <1>2, <1>3, <2>1, <2>2 DEF NoneBorn
  <2> QED BY <1>4, <1>5, <1>6, <2>3 DEF SurvivalInv, FirstInv
<1> QED BY <1>7, <1>8

-----------------------------------------------------------------------------
(* The coordinator. *)

\* The coordinator reads the next message of one client, or of none.
LEMMA ReadsClean ==
  ASSUME DiskInv, \A v \in Worker : SaidClean(toCoord[v]), NEW w \in Worker,
         toCoord' = toCoord \/ (toCoord[w] # <<>> /\ toCoord' = [toCoord EXCEPT ![w] = Tail(@)])
  PROVE  \A v \in Worker : SaidClean(toCoord'[v]) /\ (v # w => toCoord'[v] = toCoord[v])
<1>1. toCoord \in [Worker -> Seq(ToCoordMsg)]
  BY DEF DiskInv, TypeOK, NetTypeOK
<1>2. CASE toCoord' = toCoord
  BY <1>2
<1>3. CASE toCoord[w] # <<>> /\ toCoord' = [toCoord EXCEPT ![w] = Tail(@)]
  <2>1. toCoord'[w] = Tail(toCoord[w]) /\ \A v \in Worker \ {w} : toCoord'[v] = toCoord[v]
    BY <1>1, <1>3
  <2> QED BY <1>1, <1>3, <2>1, CleanIs
<1> QED BY <1>2, <1>3

\* While processes are asked to suspend, the lowest state is RUNNING.
LEMMA LowestRuns ==
  ASSUME DiskInv, RequestInv, SaidInv, suspendSent, clients # {}
  PROVE  MinimumState(clients, cstate) = "RUNNING"
<1>1. cstate \in [Worker -> WorkerState] /\ clients \subseteq Worker
  BY DEF DiskInv, TypeOK, CoordTypeOK
<1>2. PICK r \in clients : cstate[r] = "RUNNING"
  BY DEF RequestInv
<1>3. \A v \in clients : cstate[v] \in Reported
  BY DEF RequestInv, SaidInv
<1>4. \A s \in Reported : Rank("RUNNING") <= Rank(s) /\ (Rank(s) <= Rank("RUNNING") => s = "RUNNING")
  BY Ranks, StateNames DEF Reported
<1>5. /\ LowestState(clients, cstate) \in {cstate[v] : v \in clients}
      /\ \A v \in clients : Rank(LowestState(clients, cstate)) <= Rank(cstate[v])
  <2>1. \E s \in {cstate[v] : v \in clients} : \A v \in clients : Rank(s) <= Rank(cstate[v])
    BY <1>2, <1>3, <1>4
  <2> QED BY <2>1 DEF LowestState
<1>6. LowestState(clients, cstate) = "RUNNING"
  BY <1>2, <1>3, <1>4, <1>5
<1> QED BY <1>6 DEF MinimumState

\* All processes have reported SUSPENDED: the election begins.
LEMMA ElectionBegins ==
  ASSUME NEW C \in SUBSET Worker, C # {}, NEW cs \in [Worker -> WorkerState],
         \A v \in C : cs[v] = "SUSPENDED", NEW old, UpdateMinimumState(old, C, cs), old = "RUNNING"
  PROVE  ~suspendSent'
<1>1. LowestState(C, cs) = "SUSPENDED"
  BY LowestAttained
<1>2. BarrierMessage(old, MinimumState(C, cs)) = "DO_FD_LEADER_ELECTION"
  BY <1>1 DEF MinimumState, BarrierMessage
<1> QED BY <1>2 DEF UpdateMinimumState, WriteRestartScript

\* During a request no process has gone beyond SUSPENDED, on record or in what it said.
LEMMA StatesAsked ==
  ASSUME DiskInv, RoundInv, SaidInv, RequestInv, suspendSent, NEW v \in clients
  PROVE  /\ cstate[v] \in {"RUNNING", "SUSPENDED"}
         /\ toCoord[v] # <<>> /\ Head(toCoord[v]).type = "OK" =>
              Head(toCoord[v]).state \in {"RUNNING", "SUSPENDED"}
<1>1. Round(0)
  BY DEF RoundInv, Back, Round
<1>2. ReportsInRound(v, 0) /\ After(0) = 1
  BY <1>1 DEF Round, ClientInRound, After
<1>3. \A s \in Reported : Level(s) \in {0, 1} => s \in {"RUNNING", "SUSPENDED"}
  BY StateNames DEF Reported, Level, WorkerState
<1>4. cstate[v] \in Reported
  BY DEF RequestInv, SaidInv
<1>5. toCoord[v] \in Seq(ToCoordMsg) /\ SaidClean(toCoord[v])
  BY DEF SaidInv, DiskInv, TypeOK, NetTypeOK, CoordTypeOK
<1>6. ASSUME toCoord[v] # <<>>, Head(toCoord[v]).type = "OK"
      PROVE  Head(toCoord[v]).state \in Reported /\ Level(Head(toCoord[v]).state) \in {0, 1}
  <2>1. 1 \in Reports(v) /\ Head(toCoord[v]) = toCoord[v][1]
    BY <1>5, <1>6 DEF Reports
  <2> QED BY <1>2, <1>5, <1>6, <2>1, CleanIs DEF ReportsInRound, Said
<1> QED BY <1>2, <1>3, <1>4, <1>6 DEF ReportsInRound

\* onData and onDisconnect.
LEMMA OnDataSurv ==
  ASSUME DiskInv, RoundInv, SurvivalInv, NEW w \in Worker,
         OnOk(w) \/ OnCkptFilename(w) \/ OnRegister(w) \/ OnQuery(w) \/ OnDisconnect(w)
  PROVE  SurvivalInv'
<1>0. /\ cstate \in [Worker -> WorkerState] /\ clients \subseteq Worker /\ backlog \subseteq Worker
      /\ toCoord \in [Worker -> Seq(ToCoordMsg)] /\ w \in clients /\ w \notin backlog
      /\ coord = "up" /\ Launchable \subseteq Worker
  BY WorkerAssumption DEF DiskInv, TypeOK, CoordTypeOK, NetTypeOK, HelloFirst, OnOk, OnCkptFilename,
     OnRegister, OnQuery, OnDisconnect, Arrives, Readable
<1>1. /\ UNCHANGED workerVars /\ backlog' = backlog
      /\ toCoord' = toCoord \/ (toCoord[w] # <<>> /\ toCoord' = [toCoord EXCEPT ![w] = Tail(@)])
  BY DEF OnOk, OnCkptFilename, OnRegister, OnQuery, OnDisconnect, Arrives, Readable
<1>2. \A v \in Worker : SaidClean(toCoord[v])
  BY DEF SurvivalInv, SaidInv
<1>3. \A v \in Worker : SaidClean(toCoord'[v]) /\ (v # w => toCoord'[v] = toCoord[v])
  BY <1>1, <1>2, ReadsClean
<1>4. toCoord[w] # <<>> => /\ Head(toCoord[w]).type # "NAME_SERVICE_QUERY"
                           /\ Head(toCoord[w]).type = "OK" => Head(toCoord[w]).state \in Reported
  BY <1>0, <1>2, CleanIs
<1>5. ~OnQuery(w)
  BY <1>4 DEF OnQuery, Arrives, Readable
<1>6. ASSUME suspendSent' => suspendSent
      PROVE  FirstInv'
  <2>1. /\ pc' = pc /\ parent' = parent /\ \A v \in backlog : toCoord'[v] = toCoord[v]
    BY <1>0, <1>1, <1>3 DEF workerVars
  <2> QED BY <1>1, <1>6, <2>1 DEF SurvivalInv, FirstInv, NoneBorn
<1>7. CASE OnCkptFilename(w) \/ OnRegister(w)
  <2>1. UNCHANGED <<coord, clients, cstate, suspendSent>>
    BY <1>7 DEF OnCkptFilename, OnRegister
  <2> QED BY <1>0, <1>3, <1>6, <2>1 DEF SurvivalInv, RequestInv, SaidInv
<1>8. CASE OnOk(w)
  <2> DEFINE s == Head(toCoord[w]).state
  <2>1. /\ cstate' = [cstate EXCEPT ![w] = s] /\ s \in Reported /\ s \in WorkerState
        /\ UpdateMinimumState(cstate[w], clients, cstate') /\ UNCHANGED <<coord, clients>>
        /\ toCoord[w] # <<>> /\ Head(toCoord[w]).type = "OK"
    BY <1>4, <1>8 DEF OnOk, Arrives, Readable, Reported
  <2>2. suspendSent => s \in {"RUNNING", "SUSPENDED"}
    BY <1>0, <2>1, StatesAsked DEF SurvivalInv
  <2> HIDE DEF s
  <2>3. /\ cstate' \in [Worker -> WorkerState]
        /\ \A v \in Worker : cstate'[v] = IF v = w THEN s ELSE cstate[v]
        /\ suspendSent' => suspendSent
    BY <1>0, <2>1 DEF UpdateMinimumState, WriteRestartScript
  <2>4. SaidInv'
    BY <1>0, <1>3, <2>1, <2>3 DEF SurvivalInv, SaidInv
  <2>5. RequestInv'
    <3> SUFFICES ASSUME suspendSent'
                 PROVE  /\ \A v \in clients : cstate'[v] # "UNKNOWN"
                        /\ \E v \in clients : cstate'[v] = "RUNNING"
      BY <2>1 DEF RequestInv
    <3>1. /\ suspendSent /\ clients # {}
          /\ \A v \in clients : cstate[v] \in {"RUNNING", "SUSPENDED"}
      BY <1>0, <2>3, StatesAsked DEF SurvivalInv
    <3>2. \A v \in clients : cstate'[v] \in {"RUNNING", "SUSPENDED"}
      BY <1>0, <2>2, <2>3, <3>1
    <3>3. ASSUME \A v \in clients : cstate'[v] = "SUSPENDED"
          PROVE  FALSE
      <4>1. PICK r \in clients : cstate[r] = "RUNNING"
        BY <3>1 DEF SurvivalInv, RequestInv
      <4>2. cstate[w] = "RUNNING"
        BY <1>0, <2>3, <3>3, <4>1
      <4> QED BY <1>0, <2>1, <2>3, <3>1, <3>3, <4>2, ElectionBegins
    <3> QED BY <3>2, <3>3
  <2> QED BY <1>0, <1>6, <2>1, <2>3, <2>4, <2>5 DEF SurvivalInv
<1>9. CASE OnDisconnect(w)
  <2>1. /\ clients' = clients \ {w} /\ cstate' = cstate /\ toCoord' = toCoord /\ coord' # "aborted"
        /\ clients' # {} => UpdateMinimumState(cstate[w], clients', cstate)
        /\ suspendSent' => suspendSent
    BY <1>0, <1>9 DEF OnDisconnect, UpdateMinimumState, WriteRestartScript
  <2>2. SaidInv'
    BY <2>1 DEF SurvivalInv, SaidInv
  <2>3. RequestInv'
    <3> SUFFICES ASSUME suspendSent', clients' # {}
                 PROVE  /\ \A v \in clients' : cstate[v] # "UNKNOWN"
                        /\ \E v \in clients' : cstate[v] = "RUNNING"
      BY <2>1 DEF RequestInv
    <3>1. /\ suspendSent
          /\ \A v \in clients : cstate[v] \in {"RUNNING", "SUSPENDED"}
      BY <2>1, StatesAsked DEF SurvivalInv
    <3>2. ASSUME \A v \in clients' : cstate[v] = "SUSPENDED"
          PROVE  FALSE
      <4>1. PICK r \in clients : cstate[r] = "RUNNING"
        BY <1>0, <3>1 DEF SurvivalInv, RequestInv
      <4>2. cstate[w] = "RUNNING" /\ clients' \subseteq Worker
        BY <1>0, <2>1, <3>2, <4>1
      <4> QED BY <1>0, <2>1, <3>2, <4>2, ElectionBegins
    <3> QED BY <2>1, <3>1, <3>2
  <2> QED BY <1>6, <2>1, <2>2, <2>3 DEF SurvivalInv
<1> QED BY <1>5, <1>7, <1>8, <1>9

\* onConnect: a fork's connection never finds all other processes SUSPENDED.
LEMMA OnConnectSurv ==
  ASSUME DiskInv, RoundInv, SurvivalInv, restarts = 0, NEW w \in Worker, OnConnect(w)
  PROVE  SurvivalInv'
<1> DEFINE hello == Head(toCoord[w])
<1>0. /\ cstate \in [Worker -> WorkerState] /\ clients \subseteq Worker /\ backlog \subseteq Worker
      /\ w \in backlog /\ w \notin clients /\ coord = "up" /\ Launchable \subseteq Worker
      /\ suspendSent \in BOOLEAN
  BY WorkerAssumption DEF DiskInv, TypeOK, CoordTypeOK, HelloFirst, OnConnect
<1>1. /\ UNCHANGED workerVars /\ backlog' = backlog \ {w}
      /\ toCoord[w] # <<>> /\ toCoord' = [toCoord EXCEPT ![w] = Tail(@)]
      /\ hello.state \in {"UNKNOWN", "RUNNING"}
  <2>1. hello.state # "RESTARTING"
    BY <1>0 DEF RoundInv, RestoredHello, HelloOf
  <2> QED BY <2>1, NotAccepted DEF OnConnect
<1>2. \A v \in Worker : SaidClean(toCoord'[v]) /\ (v # w => toCoord'[v] = toCoord[v])
  <2>1. \A v \in Worker : SaidClean(toCoord[v])
    BY DEF SurvivalInv, SaidInv
  <2> QED BY <1>1, <2>1, ReadsClean
<1>3. hello.state = "UNKNOWN" => clients = {}
  <2>1. hello.state = "UNKNOWN" => \A v \in Worker \ {w} : pc[v] = "unborn"
    BY <1>0 DEF SurvivalInv, FirstInv
  <2> QED BY <1>0, <2>1 DEF DiskInv, HelloFirst
<1>4. \/ Refuse(w, "KILL_PEER") \/ ConnectNew(w, hello)
  BY <1>1 DEF OnConnect
<1> HIDE DEF hello
<1>5. ~(SuspendNow /\ MinimumState(clients, cstate) = "SUSPENDED")
  BY LowestRuns DEF SuspendNow, Idle, SurvivalInv
<1>6. /\ coord' = "up" /\ suspendSent' = SuspendNow
      /\ UNCHANGED <<clients, cstate>> \/ AddDataSocket(w, hello.state)
  BY <1>0, <1>4, <1>5 DEF ConnectNew, Refuse, InitializeComputation
<1>7. FirstInv'
  <2>1. pc' = pc /\ parent' = parent /\ (suspendSent' => suspendSent)
        /\ \A v \in backlog' : toCoord'[v] = toCoord[v]
    BY <1>0, <1>1, <1>2, <1>6 DEF SuspendNow, workerVars
  <2> QED BY <1>1, <2>1 DEF SurvivalInv, FirstInv, NoneBorn
<1>8. {"RUNNING"} \subseteq Reported
  BY StateNames DEF Reported
<1>9. SaidInv'
  BY <1>0, <1>1, <1>2, <1>6, <1>8 DEF SurvivalInv, SaidInv, AddDataSocket
<1>10. RequestInv'
  <2> SUFFICES ASSUME suspendSent'
               PROVE  /\ \A v \in clients' : cstate'[v] # "UNKNOWN"
                      /\ clients' # {} => \E v \in clients' : cstate'[v] = "RUNNING"
    BY DEF RequestInv
  <2>1. suspendSent /\ clients # {}
    BY <1>6 DEF SuspendNow, Idle
  <2>2. /\ \A v \in clients : cstate[v] # "UNKNOWN"
        /\ \E v \in clients : cstate[v] = "RUNNING"
        /\ hello.state = "RUNNING"
    BY <1>1, <1>3, <2>1 DEF SurvivalInv, RequestInv
  <2>3. /\ clients \subseteq clients' /\ clients' \subseteq clients \cup {w}
        /\ \A v \in clients : cstate'[v] = cstate[v]
        /\ w \in clients' => cstate'[w] = "RUNNING"
    BY <1>0, <1>6, <2>2 DEF AddDataSocket
  <2> QED BY <2>2, <2>3
<1> QED BY <1>6, <1>7, <1>9, <1>10 DEF SurvivalInv

\* A checkpoint is asked for when all processes are RUNNING.
LEMMA UserSurv ==
  ASSUME DiskInv, RoundInv, SurvivalInv, UserStep
  PROVE  SurvivalInv'
<1>0. /\ cstate \in [Worker -> WorkerState] /\ clients \subseteq Worker /\ suspendSent \in BOOLEAN
  BY DEF DiskInv, TypeOK, CoordTypeOK
<1>1. /\ UNCHANGED <<workerVars, backlog, clients, cstate, toCoord>> /\ coord' # "aborted"
      /\ \/ suspendSent' => suspendSent
         \/ CanCheckpoint
  BY DEF UserStep, OnTimeoutInterval, CommandBlock, CommandCheckpoint, CommandKill, CommandForce,
     CommandQuit, UserCommand, InitializeComputation, SuspendNow, StartCheckpoint, SurvivalInv, netVars
<1>2. SaidInv'
  BY <1>1 DEF SurvivalInv, SaidInv
<1>3. CASE suspendSent' => suspendSent
  BY <1>1, <1>2, <1>3 DEF SurvivalInv, FirstInv, RequestInv, NoneBorn, workerVars
<1>4. CASE CanCheckpoint
  <2>1. clients # {} /\ \A v \in clients : cstate[v] = "RUNNING"
    <3>1. MinimumState(clients, cstate) = "RUNNING" /\ Unanimous(clients, cstate)
      BY <1>4 DEF CanCheckpoint
    <3>2. clients # {} /\ LowestState(clients, cstate) = "RUNNING"
      BY <3>1 DEF MinimumState, LowestState
    <3>3. \E v \in clients : cstate[v] = "RUNNING"
      BY <1>0, <3>2, LowestAttained
    <3> QED BY <3>1, <3>2, <3>3 DEF Unanimous
  <2>2. RequestInv'
    BY <1>1, <2>1 DEF RequestInv
  <2>3. PICK c \in clients : c \in Worker /\ pc[c] # "unborn" /\ c \notin backlog
    BY <1>0, <2>1 DEF DiskInv, HelloFirst
  <2>4. /\ ~NoneBorn
        /\ \A v \in backlog : Head(toCoord[v]).state # "UNKNOWN"
    BY <2>3 DEF NoneBorn, SurvivalInv, FirstInv
  <2>5. FirstInv'
    BY <1>1, <2>4 DEF SurvivalInv, FirstInv, NoneBorn, workerVars
  <2> QED BY <1>1, <1>2, <2>2, <2>5 DEF SurvivalInv
<1> QED BY <1>1, <1>3, <1>4

-----------------------------------------------------------------------------
(* The invariant, and the theorem. *)

\* Nobody is there at first.
LEMMA InitSurv == Init => SurvivalInv
<1> SUFFICES ASSUME Init PROVE SurvivalInv
  OBVIOUS
<1>1. SaidClean(<<>>)
  BY DEF SaidClean
<1>2. \A w \in Worker : pc[w] = "unborn" /\ parent[w] = Nobody /\ toCoord[w] = <<>>
  BY DEF Init
<1> QED BY <1>1, <1>2 DEF Init, SurvivalInv, FirstInv, NoneBorn, RequestInv, SaidInv

\* No step before a restart, when one program is launched and others are forked.
LEMMA NextSurv ==
  ASSUME \A l, m \in Launchable : l = m
  PROVE  DiskInv /\ RoundInv /\ (restarts = 0 => SurvivalInv) /\ [Next]_vars =>
           (restarts = 0 => SurvivalInv)'
<1> SUFFICES ASSUME DiskInv, RoundInv, restarts = 0 => SurvivalInv, [Next]_vars, restarts' = 0
             PROVE  SurvivalInv'
  OBVIOUS
<1>1. restarts \in Nat /\ ~RunScript /\ restarts = 0 /\ SurvivalInv
  <2>1. restarts \in Nat
    BY BoundAssumption DEF DiskInv, TypeOK, EnvTypeOK
  <2>2. restarts' = restarts \/ restarts' = restarts + 1
    BY DEF Next, RunScript, UserStep, OnTimeoutInterval, CommandBlock, CommandCheckpoint,
       CommandKill, CommandForce, CommandQuit, RestartStep, UserProcessStep, WorkerStep,
       CkptThreadStep, MainThreadStep, CoordinatorStep, OnConnect, OnDisconnect, OnOk,
       OnCkptFilename, OnRegister, OnQuery, envVars, vars
  <2> QED BY <2>1, <2>2 DEF RunScript
<1>2. ASSUME NEW w \in Worker, CoordinatorStep(w)
      PROVE  SurvivalInv'
  BY <1>1, <1>2, OnConnectSurv, OnDataSurv DEF CoordinatorStep
<1>3. ASSUME NEW w \in Worker, WorkerStep(w)
      PROVE  SurvivalInv'
  BY <1>1, <1>3, LivingSurv DEF WorkerStep, CkptThreadStep, MainThreadStep
<1>4. ASSUME NEW w \in Worker, UserProcessStep(w)
      PROVE  SurvivalInv'
  BY <1>1, <1>4, LivingSurv, BirthSurv DEF UserProcessStep
<1>5. ASSUME NEW f, RestartStep(f)
      PROVE  FALSE
  BY <1>1, <1>5, NeverRestored DEF RestartStep, RestartProcess
<1>6. CASE UNCHANGED vars
  BY <1>1, <1>6 DEF vars, coordVars, workerVars, netVars, SurvivalInv, FirstInv, NoneBorn,
     RequestInv, SaidInv
<1> QED BY <1>1, <1>2, <1>3, <1>4, <1>5, <1>6, UserSurv DEF Next

\* Until a first restart, and if one program is launched and all others are forked in it, no
\* assertion of the coordinator fails, whoever joins, ends, crashes or is killed meanwhile: no
\* process connects while all others have reported SUSPENDED and the election has not begun,
\* and none asks for a name that is not there.
THEOREM CoordinatorCorrect ==
  ASSUME \A l, m \in Launchable : l = m
  PROVE  Spec => [](restarts = 0 => CoordinatorSurvives)
<1>1. DiskInv /\ RoundInv /\ (restarts = 0 => SurvivalInv) /\ [Next]_vars =>
        DiskInv' /\ RoundInv' /\ (restarts = 0 => SurvivalInv)'
  BY NextDiskInv, NextRound, NextSurv
<1>2. Init => DiskInv /\ RoundInv /\ (restarts = 0 => SurvivalInv)
  BY InitDiskInv, InitRound, InitSurv
<1>3. (restarts = 0 => SurvivalInv) => (restarts = 0 => CoordinatorSurvives)
  BY DEF SurvivalInv, CoordinatorSurvives
<1> QED BY <1>1, <1>2, <1>3, PTL DEF Spec

-----------------------------------------------------------------------------
(* Whom the script names. *)

\* Who runs has reported that last.
LEMMA RunsLast ==
  ASSUME DiskInv, RoundInv, restarts = 0, NEW w \in Worker, w \in clients, Alive(w),
         pc[w] \in {"hello", "run", "locking"}
  PROVE  RanLast(w)
<1>1. PICK j \in 0 .. 7 : Round(j)
  BY NeverRestored
<1>2. ReportsInRound(w, j) /\ PlaceInRound(w, j)
  BY <1>1 DEF Round, ClientInRound
<1>3. Reached(w) = 0
  BY NeverRestored DEF Reached
<1>4. /\ Reports(w) \subseteq Nat \ {0}
      /\ (Told(w, j) /\ j = 7 /\ After(j) = 0) \/ (~Told(w, j) /\ j = 0 /\ After(j) = 1)
  BY <1>2, <1>3, Positions DEF PlaceInRound, After
<1>5. CASE j = 0
  BY <1>2, <1>4, <1>5 DEF ReportsInRound, Told, RanLast
<1>6. CASE j = 7
  <2>1. CASE Level(cstate[w]) = 0
    BY <1>2, <1>4, <1>6, <2>1 DEF ReportsInRound, RanLast
  <2>2. CASE \E i \in Reports(w) : Said(w, i) = 0
    <3>1. PICK i \in Reports(w) : Said(w, i) = 0
      BY <2>2
    <3>2. \A k \in Reports(w) : i <= k => i = k \/ i < k
      BY <1>4
    <3>3. \A k \in Reports(w) : i <= k => Said(w, k) = 0
      BY <1>2, <1>4, <1>6, <3>1, <3>2 DEF ReportsInRound
    <3> QED BY <3>1, <3>3 DEF RanLast
  <2> QED BY <1>4, <1>6, <2>1, <2>2 DEF Told
<1> QED BY <1>4, <1>5, <1>6

\* Who has reported last that it runs is between two checkpoints, or has not yet suspended.
LEMMA RanBetween ==
  ASSUME DiskInv, NEW w \in Worker, NEW j \in 0 .. 7, ReportsInRound(w, j), RanLast(w)
  PROVE  j \in {0, 7} /\ (j = 0 => ~Told(w, 0))
<1>1. /\ Reports(w) \subseteq Nat \ {0}
      /\ After(j) = IF j = 7 THEN 0 ELSE j + 1
  BY Positions DEF After
<1>2. j \in {0, 7}
  BY <1>1 DEF ReportsInRound, RanLast
<1>3. ASSUME j = 0, Told(w, 0)
      PROVE  FALSE
  <2>1. After(0) = 1
    BY DEF After
  <2>2. CASE Level(cstate[w]) = 0 /\ \A i \in Reports(w) : Said(w, i) = 0
    BY <1>3, <2>1, <2>2 DEF Told
  <2>3. CASE \E i \in Reports(w) : \A k \in Reports(w) : i <= k => Said(w, k) = 0
    <3>1. PICK i \in Reports(w) : \A k \in Reports(w) : i <= k => Said(w, k) = 0
      BY <2>3
    <3>2. Said(w, i) = 0
      BY <1>1, <3>1
    <3>3. PICK k \in Reports(w) : Said(w, k) = 1
      BY <1>3, <2>1, <3>2 DEF Told, ReportsInRound
    <3>4. k < i \/ i <= k
      BY <1>1
    <3> QED BY <1>3, <2>1, <3>1, <3>2, <3>3, <3>4 DEF ReportsInRound
  <2> QED BY <2>2, <2>3 DEF RanLast
<1> QED BY <1>2, <1>3

\* Within a checkpoint nobody ends, and nobody runs.
LEMMA InsideRound ==
  ASSUME DiskInv, RoundInv, restarts = 0, EndsRunning, NEW j \in 1 .. 6, Round(j)
  PROVE  \A w \in clients : /\ Alive(w) /\ pc[w] \notin {"hello", "run", "locking"}
                            /\ Level(cstate[w]) \in 1 .. 7
<1> SUFFICES ASSUME NEW w \in clients
             PROVE  /\ Alive(w) /\ pc[w] \notin {"hello", "run", "locking"}
                    /\ Level(cstate[w]) \in 1 .. 7
  OBVIOUS
<1>1. w \in Worker /\ pc[w] # "unborn" /\ ClientInRound(w, j) /\ j \in 0 .. 7
  BY DEF DiskInv, TypeOK, CoordTypeOK, HelloFirst, Round
<1>2. Alive(w)
  BY <1>1, RanBetween DEF ClientInRound, EndsRunning, Alive, Dead
<1>3. After(j) = j + 1
  BY DEF After
<1>4. Level(cstate[w]) \in 1 .. 7
  BY <1>1, <1>3 DEF ClientInRound, ReportsInRound
<1>5. pc[w] \notin {"hello", "run", "locking"}
  BY <1>1, <1>2, RunsLast, RanBetween DEF ClientInRound
<1> QED BY <1>2, <1>4, <1>5

\* A process that is told its peers, knows them or has just written its image.
Concerned(w) ==
  \/ pc[w] \in Knowing \cup {"written"}
  \/ \E i \in 1 .. Len(toWorker[w]) : toWorker[w][i].type = "DO_FD_LEADER_ELECTION"

LEMMA ConcernedInRound ==
  ASSUME DiskInv, RoundInv, restarts = 0, NEW w \in Worker, Concerned(w)
  PROVE  /\ w \in clients /\ Alive(w)
         /\ \A j \in 0 .. 7 : Round(j) => j \in 1 .. 4
<1>1. Alive(w) /\ w \in clients
  BY DEF Concerned, RoundInv, Connected, ConnectionOf, Knowing, Alive, DeadPoint
<1>2. ASSUME NEW j \in 0 .. 7, Round(j)
      PROVE  j \in 1 .. 4
  <2>1. PlaceInRound(w, j)
    BY <1>1, <1>2 DEF Round, ClientInRound
  <2>2. Reached(w) \in {j, After(j)} /\ After(j) = IF j = 7 THEN 0 ELSE j + 1
    BY <2>1 DEF PlaceInRound, After
  <2>3. CASE pc[w] \in Knowing \cup {"written"}
    <3>1. /\ pc[w] = "electing" => Reached(w) = 1 /\ pc[w] \in WorkPoint
          /\ pc[w] # "electing" => Reached(w) \in 2 .. 4
      BY <2>3 DEF Knowing, Reached, WorkPoint
    <3>2. pc[w] = "electing" => j = 1
      BY <2>1, <3>1 DEF PlaceInRound
    <3> QED BY <2>2, <3>1, <3>2
  <2>4. CASE \E i \in 1 .. Len(toWorker[w]) : toWorker[w][i].type = "DO_FD_LEADER_ELECTION"
    <3>1. PICK i \in Orders(w) : toWorker[w][i].type = "DO_FD_LEADER_ELECTION"
      BY <2>4 DEF Orders, Number
    <3>2. Number(toWorker[w][i].type) = 1
      BY <3>1 DEF Number
    <3> QED BY <2>1, <3>2 DEF PlaceInRound
  <2> QED BY <2>3, <2>4 DEF Concerned
<1> QED BY <1>1, <1>2

\* What is under way from a process that says more.
LEMMA SaysMore ==
  ASSUME DiskInv, NEW w \in Worker, NEW msgs \in Seq(ToCoordMsg), Send(w, msgs)
  PROVE  /\ Len(toCoord'[w]) = Len(toCoord[w]) + Len(msgs)
         /\ \A i \in 1 .. Len(toCoord[w]) :
              i \in 1 .. Len(toCoord'[w]) /\ toCoord'[w][i] = toCoord[w][i]
         /\ \A i \in 1 .. Len(msgs) : toCoord'[w][Len(toCoord[w]) + i] = msgs[i]
         /\ \A i \in 1 .. Len(toCoord'[w]) :
              \/ i \in 1 .. Len(toCoord[w]) /\ toCoord'[w][i] = toCoord[w][i]
              \/ i - Len(toCoord[w]) \in 1 .. Len(msgs)
                 /\ toCoord'[w][i] = msgs[i - Len(toCoord[w])]
         /\ \A v \in Worker \ {w} : toCoord'[v] = toCoord[v]
<1>1. /\ toCoord \in [Worker -> Seq(ToCoordMsg)]
      /\ toCoord' = [toCoord EXCEPT ![w] = toCoord[w] \o msgs]
  BY DEF DiskInv, TypeOK, NetTypeOK, Send
<1>2. PICK l \in Nat : l = Len(toCoord[w])
  BY <1>1
<1>3. PICK n \in Nat : n = Len(msgs)
  OBVIOUS
<1>4. /\ Len(toCoord'[w]) = l + n
      /\ \A i \in 1 .. l : toCoord'[w][i] = toCoord[w][i]
      /\ \A i \in l + 1 .. l + n : toCoord'[w][i] = msgs[i - l]
      /\ \A v \in Worker \ {w} : toCoord'[v] = toCoord[v]
  BY <1>1, <1>2, <1>3
<1>5. /\ \A i \in 1 .. l : i \in 1 .. l + n
      /\ \A i \in 1 .. n : l + i \in l + 1 .. l + n /\ (l + i) - l = i
      /\ \A i \in 1 .. l + n : i \in 1 .. l \/ (i \in l + 1 .. l + n /\ i - l \in 1 .. n)
  OBVIOUS
<1> QED BY <1>2, <1>3, <1>4, <1>5

\* Messages of a connection that is read, closed or left alone were there before.
Lost(v) ==
  \/ toWorker'[v] = toWorker[v]
  \/ toWorker[v] # <<>> /\ toWorker'[v] = Tail(toWorker[v])
  \/ toWorker'[v] = <<>>

LEMMA LostIs ==
  ASSUME DiskInv, NEW v \in Worker, Lost(v)
  PROVE  \A i \in 1 .. Len(toWorker'[v]) :
           \E k \in 1 .. Len(toWorker[v]) : toWorker'[v][i] = toWorker[v][k]
<1>1. toWorker[v] \in Seq(ToWorkerMsg)
  BY DEF DiskInv, TypeOK, NetTypeOK
<1>2. CASE toWorker'[v] = toWorker[v]
  BY <1>2
<1>3. CASE toWorker[v] # <<>> /\ toWorker'[v] = Tail(toWorker[v])
  <2>1. \A i \in 1 .. Len(toWorker'[v]) :
          i + 1 \in 1 .. Len(toWorker[v]) /\ toWorker'[v][i] = toWorker[v][i + 1]
    BY <1>1, <1>3
  <2> QED BY <2>1
<1>4. CASE toWorker'[v] = <<>>
  BY <1>4
<1> QED BY <1>2, <1>3, <1>4 DEF Lost

\* How a worker's step may change where the processes are.
EndsWhereItRuns ==
  \A v \in Worker :
    Dead(v)' => /\ toCoord'[v] = toCoord[v]
                /\ Dead(v) \/ (Alive(v) /\ pc[v] \in {"hello", "run", "locking"})
ForksRun ==
  \A c \in Worker : parent'[c] # Nobody => pc'[parent'[c]] \in {"run", "locking"}
LearnsPeers ==
  \A v \in Worker :
    /\ pc'[v] \in Knowing => \/ pc[v] \in Knowing /\ wCohort'[v] = wCohort[v]
                             \/ wCohort'[v] = clients
    /\ pc'[v] = "written" => pc[v] = "written"
ReportsNoImage(w) == \E s \in WorkerState \ {"CHECKPOINTED"} : Send(w, <<Ok(s)>>)

\* Processes end while they run; none is told to.
LEMMA EndsKept ==
  ASSUME DiskInv, RoundInv, restarts = 0, EndsRunning, CoordinatorKept,
         EndsWhereItRuns, ForksRun, \A v \in Worker : Lost(v)
  PROVE  EndsRunning'
<1>1. /\ clients' = clients /\ clients \subseteq Worker /\ cstate' = cstate
      /\ killInProgress' = killInProgress
  BY DEF CoordinatorKept, DiskInv, TypeOK, CoordTypeOK
<1>2. ASSUME NEW w \in clients, Dead(w)'
      PROVE  RanLast(w)'
  <2>1. w \in Worker /\ toCoord'[w] = toCoord[w]
    BY <1>1, <1>2 DEF EndsWhereItRuns
  <2>2. RanLast(w)
    BY <1>1, <1>2, <2>1, RunsLast DEF EndsWhereItRuns, EndsRunning
  <2>3. Reports(w)' = Reports(w) /\ \A i \in Reports(w) : Said(w, i)' = Said(w, i)
    BY <2>1 DEF Reports, Said
  <2> QED BY <1>1, <2>2, <2>3 DEF RanLast
<1>3. \A w \in Worker : \A i \in 1 .. Len(toWorker'[w]) : toWorker'[w][i].type # "KILL_PEER"
  BY LostIs DEF EndsRunning
<1> QED BY <1>1, <1>2, <1>3 DEF EndsRunning, ForksRun

\* Who knows its peers has been told, and who has an image goes on having it.
LEMMA PeersKept ==
  ASSUME DiskInv, PeersAreClients, CoordinatorKept, images' = images,
         LearnsPeers, \A v \in Worker : Lost(v)
  PROVE  PeersAreClients'
<1>1. clients' = clients /\ generation' = generation
  BY DEF CoordinatorKept
<1>2. ASSUME NEW w \in Worker, NEW i \in 1 .. Len(toWorker'[w]),
             toWorker'[w][i].type = "DO_FD_LEADER_ELECTION"
      PROVE  toWorker'[w][i].cohort = clients'
  BY <1>1, <1>2, LostIs DEF PeersAreClients
<1>3. \A w \in Worker : pc'[w] \in Knowing => wCohort'[w] = clients'
  BY <1>1 DEF LearnsPeers, PeersAreClients
<1>4. ASSUME NEW w \in Worker, pc'[w] = "written"
      PROVE  /\ NameOf(w, generation') \in DOMAIN images'
             /\ images'[NameOf(w, generation')].cohort = clients'
  BY <1>1, <1>4 DEF LearnsPeers, PeersAreClients
<1>5. \A w \in Worker : NameOf(w, generation)' = NameOf(w, generation')
  BY DEF NameOf
<1> QED BY <1>2, <1>3, <1>4, <1>5 DEF PeersAreClients, Knowing

\* A process reports something other than its image, or nothing.
LEMMA NamesStay ==
  ASSUME DiskInv, ClientsNamed, CoordinatorKept,
         toCoord' = toCoord \/ \E u \in Worker : ReportsNoImage(u)
  PROVE  ClientsNamed'
<1>1. /\ UNCHANGED <<clients, cstate, suspendSent, generation, restartFilenames>>
      /\ clients \subseteq Worker
  BY DEF CoordinatorKept, DiskInv, TypeOK, CoordTypeOK
<1>2. CASE toCoord' = toCoord
  <2>1. \A v \in Worker : /\ NameThenReport(toCoord'[v]) /\ NamesSent(v)' = NamesSent(v)
                          /\ toCoord'[v] = toCoord[v] /\ Reports(v)' = Reports(v)
    BY <1>2, NamesKept DEF ClientsNamed, Reports
  <2>2. \A v \in clients : Named(v) => Named(v)'
    BY <1>1, <2>1 DEF Named, NameOf
  <2>3. /\ InCheckpoint' = InCheckpoint
        /\ \A v \in Worker : NameOf(v, generation)' = NameOf(v, generation)
    BY <1>1 DEF InCheckpoint, NameOf
  <2> QED BY <1>1, <2>1, <2>2, <2>3 DEF ClientsNamed
<1>3. CASE \E u \in Worker : ReportsNoImage(u)
  <2>1. PICK u \in Worker, s \in WorkerState \ {"CHECKPOINTED"} : Send(u, <<Ok(s)>>)
    BY <1>3 DEF ReportsNoImage
  <2> DEFINE msgs == <<Ok(s)>>
  <2>2. /\ msgs \in Seq(ToCoordMsg) /\ Len(msgs) = 1 /\ msgs[1] = Ok(s)
        /\ Ok(s).type = "OK" /\ Ok(s).state = s
    BY DEF Ok, ToCoordMsg
  <2>3. /\ NameThenReport(msgs) /\ \A i \in 1 .. Len(msgs) : ~IsName(msgs[i])
    BY NamelessMessages
  <2>4. Send(u, msgs)
    BY <2>1
  <2> HIDE DEF msgs
  <2>5. /\ NameThenReport(toCoord'[u]) /\ NamesSent(u)' \subseteq NamesSent(u)
        /\ \A v \in Worker \ {u} : toCoord'[v] = toCoord[v]
    BY <2>2, <2>3, <2>4, SendsNames DEF ClientsNamed
  <2>6. \A v \in Worker : NameThenReport(toCoord'[v]) /\ NamesSent(v)' \subseteq NamesSent(v)
    BY <2>5, NamesKept DEF ClientsNamed
  <2>7. ASSUME NEW v \in Worker, NEW i \in Reports(v)', toCoord'[v][i].state = "CHECKPOINTED"
        PROVE  /\ i \in Reports(v) /\ toCoord[v][i].state = "CHECKPOINTED"
               /\ \A k \in 1 .. Len(toCoord[v]) :
                    k \in 1 .. Len(toCoord'[v]) /\ toCoord'[v][k] = toCoord[v][k]
    <3>1. CASE v # u
      BY <2>5, <2>7, <3>1 DEF Reports
    <3>2. CASE v = u
      <4>1. i \in 1 .. Len(toCoord'[u]) /\ toCoord'[u][i].type = "OK"
        BY <2>7, <3>2 DEF Reports
      <4>2. i \in 1 .. Len(toCoord[u]) /\ toCoord'[u][i] = toCoord[u][i]
        <5>1. ASSUME i - Len(toCoord[u]) \in 1 .. Len(msgs),
                     toCoord'[u][i] = msgs[i - Len(toCoord[u])]
              PROVE  FALSE
          <6>1. i - Len(toCoord[u]) = 1
            BY <2>2, <5>1
          <6> QED BY <2>2, <2>7, <3>2, <5>1, <6>1
        <5>2. \A k \in 1 .. Len(toCoord'[u]) :
                \/ k \in 1 .. Len(toCoord[u]) /\ toCoord'[u][k] = toCoord[u][k]
                \/ k - Len(toCoord[u]) \in 1 .. Len(msgs)
                   /\ toCoord'[u][k] = msgs[k - Len(toCoord[u])]
          BY <2>2, <2>4, SaysMore
        <5> QED BY <4>1, <5>1, <5>2
      <4>3. \A k \in 1 .. Len(toCoord[u]) :
              k \in 1 .. Len(toCoord'[u]) /\ toCoord'[u][k] = toCoord[u][k]
        BY <2>2, <2>4, SaysMore
      <4> QED BY <2>7, <3>2, <4>1, <4>2, <4>3 DEF Reports
    <3> QED BY <3>1, <3>2
  <2>8. InCheckpoint' = InCheckpoint
    BY <1>1 DEF InCheckpoint
  <2>9. \A v \in Worker : NameOf(v, generation)' = NameOf(v, generation)
    BY <1>1 DEF NameOf
  <2>10. ASSUME NEW v \in clients, Named(v)
         PROVE  Named(v)'
    BY <1>1, <2>6, <2>7, <2>9, <2>10 DEF Named
  <2> QED BY <1>1, <2>6, <2>8, <2>9, <2>10 DEF ClientsNamed
<1> QED BY <1>2, <1>3

\* A process that ends where it runs, and the child it has not forked.
LEMMA EndOf ==
  ASSUME DiskInv, RoundInv, EndsRunning, NEW u \in Worker, NEW p \in DeadPoint, Die(u, p),
         Alive(u), pc[u] \in {"hello", "run", "locking"}, UNCHANGED <<toCoord, wCohort>>
  PROVE  EndsWhereItRuns /\ ForksRun /\ LearnsPeers /\ \A v \in Worker : Lost(v)
<1> DEFINE gone == {u} \cup Children(u)
<1>1. \A c \in Children(u) : c \in Worker /\ pc[c] = "hello"
  BY NobodyAssumption DEF Children, RoundInv, RestoredHello, HelloOf
<1>2. \A v \in gone : v \in Worker /\ pc[v] \in {"hello", "run", "locking"} /\ Alive(v)
  BY <1>1 DEF Alive, DeadPoint
<1>3. /\ \A v \in Worker : pc'[v] = IF v \in gone THEN p ELSE pc[v]
      /\ \A v \in Worker : parent'[v] = IF v \in gone THEN Nobody ELSE parent[v]
      /\ \A v \in Worker : toWorker'[v] = IF v \in gone THEN <<>> ELSE toWorker[v]
  BY DEF Die
<1>4. EndsWhereItRuns
  BY <1>2, <1>3 DEF EndsWhereItRuns, Dead
<1>5. ASSUME NEW c \in Worker, parent'[c] # Nobody
      PROVE  pc'[parent'[c]] \in {"run", "locking"}
  <2>1. c \notin gone /\ parent'[c] = parent[c] /\ parent[c] \in Worker
    BY <1>3, <1>5 DEF DiskInv, TypeOK, WorkerTypeOK, Group
  <2>2. pc[parent[c]] \in {"run", "locking"} /\ parent[c] # u
    BY <1>5, <2>1 DEF EndsRunning, Children
  <2>3. parent[c] \notin gone
    BY <1>1, <2>2
  <2> QED BY <1>3, <2>1, <2>2, <2>3
<1>6. p \notin Knowing \cup {"written"}
  BY DEF DeadPoint, Knowing
<1>7. LearnsPeers
  BY <1>3, <1>6 DEF LearnsPeers
<1> QED BY <1>3, <1>4, <1>5, <1>7 DEF Lost, ForksRun

-----------------------------------------------------------------------------
(* The workers. *)

\* A process goes on, or takes its next message.
LEMMA GoesOn ==
  ASSUME DiskInv, RoundInv, EndsRunning, NEW u \in Worker, NEW p, Alive(u), Move(u, p),
         p \notin DeadPoint,
         pc[u] \in {"run", "locking"} => p \in {"run", "locking"} \/ ~Forking(u),
         toWorker' = toWorker \/ (Receives(u) /\ Consume(u)),
         \A v \in Worker \ {u} : toCoord'[v] = toCoord[v],
         parent' = parent \/ (pc[u] = "hello" /\ parent' = [parent EXCEPT ![u] = Nobody])
  PROVE  EndsWhereItRuns /\ ForksRun /\ \A v \in Worker : Lost(v)
<1>1. \A v \in Worker : pc'[v] = IF v = u THEN p ELSE pc[v]
  BY DEF Move, DiskInv, TypeOK, WorkerTypeOK
<1>2. EndsWhereItRuns
  BY <1>1 DEF EndsWhereItRuns, Dead
<1>3. ASSUME NEW c \in Worker, parent'[c] # Nobody
      PROVE  pc'[parent'[c]] \in {"run", "locking"}
  <2>1. parent'[c] = parent[c] /\ parent[c] \in Worker
    BY <1>3 DEF DiskInv, TypeOK, WorkerTypeOK, Group
  <2>2. pc[parent[c]] \in {"run", "locking"}
    BY <1>3, <2>1 DEF EndsRunning
  <2>3. parent[c] = u => Forking(u)
    BY DEF Forking, Children
  <2> QED BY <1>1, <2>1, <2>2, <2>3
<1>4. ASSUME NEW v \in Worker
      PROVE  Lost(v)
  <2>1. toWorker \in [Worker -> Seq(ToWorkerMsg)]
    BY DEF DiskInv, TypeOK, NetTypeOK
  <2> QED BY <2>1 DEF Lost, Receives, Consume
<1> QED BY <1>2, <1>3, <1>4 DEF ForksRun

\* ... and has been told its peers before, if it knows them.
LEMMA GoesOnLearning ==
  ASSUME DiskInv, RoundInv, EndsRunning, NEW u \in Worker, NEW p, Alive(u), Move(u, p),
         p \notin DeadPoint,
         pc[u] \in {"run", "locking"} => p \in {"run", "locking"} \/ ~Forking(u),
         p # "written",
         p \in Knowing => (pc[u] \in Knowing /\ wCohort' = wCohort) \/ wCohort'[u] = clients,
         \A v \in Worker \ {u} : wCohort'[v] = wCohort[v],
         toWorker' = toWorker \/ (Receives(u) /\ Consume(u)),
         \A v \in Worker \ {u} : toCoord'[v] = toCoord[v],
         parent' = parent \/ (pc[u] = "hello" /\ parent' = [parent EXCEPT ![u] = Nobody])
  PROVE  EndsWhereItRuns /\ ForksRun /\ LearnsPeers /\ \A v \in Worker : Lost(v)
<1>1. \A v \in Worker : pc'[v] = IF v = u THEN p ELSE pc[v]
  BY DEF Move, DiskInv, TypeOK, WorkerTypeOK
<1>2. LearnsPeers
  BY <1>1 DEF LearnsPeers
<1> QED BY <1>2, GoesOn

\* What the checkpoint thread and the main thread do, but for the image.
LEMMA LivingScript ==
  ASSUME DiskInv, RoundInv, MessageInv, restarts = 0, MaxCrash = 0, coord = "up",
         EndsRunning, PeersAreClients, NEW w \in Worker,
         \/ Handshake(w) \/ TurnedAway(w) \/ WaitForStage1Suspend(w) \/ Suspend(w)
         \/ WaitForCoordinatorMsg(w) \/ FinishStage(w) \/ RegisterNSData(w) \/ SendQueries(w)
         \/ QueryAnswered(w) \/ Resume(w) \/ CoordinatorLost(w)
         \/ InformCoordinatorOfRUNNINGState(w) \/ FinishFork(w) \/ Exit(w) \/ Crash(w)
  PROVE  /\ EndsWhereItRuns /\ ForksRun /\ LearnsPeers /\ \A v \in Worker : Lost(v)
         /\ toCoord' = toCoord \/ \E u \in Worker : ReportsNoImage(u)
         /\ coord' = coord
<1>0. /\ fromImage[w] = 0 /\ ~CoordinatorLost(w) /\ coord' = coord
      /\ pc \in [Worker -> Point] /\ toCoord \in [Worker -> Seq(ToCoordMsg)]
      /\ wCohort \in [Worker -> SUBSET Worker] /\ parent \in [Worker -> Group]
      /\ crashes \in 0 .. 0
  BY NeverRestored DEF CoordinatorLost, Handshake, TurnedAway, WaitForStage1Suspend, Suspend,
     WaitForCoordinatorMsg, FinishStage, RegisterNSData, SendQueries, QueryAnswered, Resume,
     InformCoordinatorOfRUNNINGState, FinishFork, Exit, Crash, DiskInv, TypeOK, WorkerTypeOK,
     NetTypeOK, EnvTypeOK
<1>1. /\ {"RUNNING", "SUSPENDED", "FD_LEADER_ELECTION", "DRAINED", "NAME_SERVICE_DATA_REGISTERED",
          "DONE_QUERYING", "REFILLED"} \subseteq WorkerState \ {"CHECKPOINTED"}
      /\ \A s \in WorkerState \ {"CHECKPOINTED"} :
           Send(w, <<Ok(s)>>) =>
             ReportsNoImage(w) /\ \A v \in Worker \ {w} : toCoord'[v] = toCoord[v]
  BY <1>0, StateNames DEF ReportsNoImage, Send
<1>2. CASE Exit(w) \/ TurnedAway(w)
  <2>1. PICK u \in Worker : /\ Die(u, "dead") /\ Alive(u) /\ pc[u] \in {"hello", "run", "locking"}
                            /\ UNCHANGED <<toCoord, wCohort>>
    <3>1. CASE Exit(w)
      BY <3>1 DEF Exit, Alive, DeadPoint, identityVars
    <3>2. CASE TurnedAway(w)
      <4>1. /\ Die(IF parent[w] = Nobody THEN w ELSE parent[w], "dead") /\ pc[w] = "hello"
            /\ UNCHANGED <<toCoord, wCohort>>
        BY <3>2 DEF TurnedAway, identityVars
      <4>2. parent[w] # Nobody => parent[w] \in Worker /\ pc[parent[w]] \in {"run", "locking"}
        BY <1>0 DEF EndsRunning, Group
      <4> QED BY <4>1, <4>2 DEF Alive, DeadPoint
    <3> QED BY <1>2, <3>1, <3>2
  <2>2. "dead" \in DeadPoint
    BY DEF DeadPoint
  <2> QED BY <1>0, <2>1, <2>2, EndOf
<1>3. CASE Crash(w) \/ QueryAnswered(w)
  BY <1>0, <1>3 DEF Crash, QueryAnswered, MessageInv, MessagesOf
<1>4. CASE Handshake(w)
  BY <1>0, <1>4, GoesOnLearning DEF Handshake, Alive, DeadPoint, Knowing
<1>5. CASE WaitForStage1Suspend(w)
  <2>1. Received(w).type = "DO_SUSPEND"
    <3>1. Received(w).type \in {"DO_SUSPEND", "KILL_PEER"}
      BY <1>5, NothingUnexpected DEF WaitForStage1Suspend
    <3>2. 1 \in 1 .. Len(toWorker[w]) /\ toWorker[w][1] = Received(w)
      BY <1>5, FirstMessage DEF WaitForStage1Suspend
    <3> QED BY <3>1, <3>2 DEF EndsRunning
  <2>2. /\ pc[w] = "run" /\ Receives(w) /\ Consume(w) /\ Move(w, "locking")
        /\ UNCHANGED <<parent, wCohort, toCoord>>
    BY <1>5, <2>1 DEF WaitForStage1Suspend
  <2> QED BY <1>0, <2>2, GoesOnLearning DEF Alive, DeadPoint, Knowing
<1>6. CASE WaitForCoordinatorMsg(w)
  <2> DEFINE m == Received(w)
  <2>1. /\ pc[w] \in WaitPoint /\ Receives(w) /\ 1 \in 1 .. Len(toWorker[w]) /\ toWorker[w][1] = m
        /\ m.type # "KILL_PEER" /\ Expected(w, m)
    <3>1. pc[w] \in WaitPoint /\ Receives(w)
      BY <1>6 DEF WaitForCoordinatorMsg
    <3> QED BY <3>1, FirstMessage, NothingUnexpected DEF EndsRunning
  <2>2. ~Skipped(w, m)
    BY <2>1 DEF Skipped, Expected, WaitPoint, Awaited
  <2>3. /\ Move(w, WorkAfter(pc[w])) /\ Consume(w)
        /\ wCohort' = IF pc[w] = "suspended" THEN [wCohort EXCEPT ![w] = m.cohort] ELSE wCohort
        /\ UNCHANGED <<parent, toCoord>>
    BY <1>6, <2>1, <2>2 DEF WaitForCoordinatorMsg
  <2>4. pc[w] = "suspended" => m.cohort = clients
    BY <2>1 DEF Expected, Awaited, PeersAreClients
  <2>5. /\ WorkAfter(pc[w]) \notin DeadPoint \cup {"written"}
        /\ pc[w] = "suspended" \/ pc[w] \in Knowing \/ WorkAfter(pc[w]) \notin Knowing
        /\ Alive(w) /\ pc[w] \notin {"hello", "run", "locking"}
    BY <2>1 DEF WaitPoint, WorkAfter, Knowing, Alive, DeadPoint
  <2>6. /\ \A v \in Worker \ {w} : wCohort'[v] = wCohort[v]
        /\ pc[w] = "suspended" => wCohort'[w] = clients
        /\ pc[w] # "suspended" => wCohort' = wCohort
    BY <1>0, <2>3, <2>4
  <2> HIDE DEF m
  <2> QED BY <1>0, <2>1, <2>3, <2>5, <2>6, GoesOnLearning
<1>7. CASE Suspend(w)
  BY <1>0, <1>1, <1>7, GoesOnLearning DEF Suspend, Alive, DeadPoint, Knowing, identityVars
<1>8. CASE FinishStage(w)
  <2>1. PICK p \in {"elected", "drained", "refilled"} :
          /\ Move(w, p) /\ pc[w] \in {"electing", "draining", "refilling"}
          /\ p # "refilled" => pc[w] \in Knowing
          /\ UNCHANGED <<parent, wCohort, toWorker>>
          /\ ReportsNoImage(w) /\ \A v \in Worker \ {w} : toCoord'[v] = toCoord[v]
    BY <1>1, <1>8 DEF FinishStage, Knowing, identityVars
  <2> QED BY <1>0, <2>1, GoesOnLearning DEF Alive, DeadPoint, Knowing
<1>9. CASE RegisterNSData(w) \/ SendQueries(w) \/ Resume(w)
  <2>1. PICK p \in {"registered", "queried", "run"} :
          /\ Move(w, p) /\ pc[w] \in {"registering", "querying", "resuming"}
          /\ UNCHANGED <<parent, wCohort, toWorker>>
          /\ ReportsNoImage(w) /\ \A v \in Worker \ {w} : toCoord'[v] = toCoord[v]
    <3>1. \A s : <<>> \o <<Ok(s)>> = <<Ok(s)>>
      OBVIOUS
    <3> QED BY <1>0, <1>1, <1>9, <3>1 DEF RegisterNSData, SendQueries, Resume, identityVars
  <2> QED BY <1>0, <2>1, GoesOnLearning DEF Alive, DeadPoint, Knowing
<1>10. CASE InformCoordinatorOfRUNNINGState(w)
  <2>1. /\ Move(w, pc[w]) /\ pc[w] \in {"run", "locking"}
        /\ UNCHANGED <<parent, wCohort, toWorker>>
        /\ ReportsNoImage(w) /\ \A v \in Worker \ {w} : toCoord'[v] = toCoord[v]
    BY <1>0, <1>1, <1>10 DEF InformCoordinatorOfRUNNINGState, identityVars, Move
  <2> QED BY <1>0, <2>1, GoesOnLearning DEF Alive, DeadPoint, Knowing
<1>11. CASE FinishFork(w)
  <2>1. /\ pc[w] = "hello" /\ parent' = [parent EXCEPT ![w] = Nobody] /\ toCoord' = toCoord
        /\ Receives(w)
        /\ \A v \in Worker \ {w} : wCohort'[v] = wCohort[v]
        /\ \/ Move(w, "run") /\ Consume(w)
           \/ Move(w, "dead") /\ toWorker' = [toWorker EXCEPT ![w] = <<>>] /\ wCohort' = wCohort
    BY <1>0, <1>11 DEF FinishFork
  <2>2. CASE Move(w, "run") /\ Consume(w)
    BY <1>0, <2>1, <2>2, GoesOnLearning DEF Alive, DeadPoint, Knowing
  <2>3. CASE Move(w, "dead") /\ toWorker' = [toWorker EXCEPT ![w] = <<>>] /\ wCohort' = wCohort
    <3>1. \A v \in Worker : pc'[v] = IF v = w THEN "dead" ELSE pc[v]
      BY <1>0, <2>3 DEF Move
    <3>2. EndsWhereItRuns /\ LearnsPeers
      BY <2>1, <2>3, <3>1 DEF EndsWhereItRuns, LearnsPeers, Dead, Alive, DeadPoint, Knowing
    <3>3. ASSUME NEW c \in Worker, parent'[c] # Nobody
          PROVE  pc'[parent'[c]] \in {"run", "locking"}
      <4>1. parent'[c] = parent[c] /\ parent[c] \in Worker /\ pc[parent[c]] \in {"run", "locking"}
        BY <1>0, <2>1, <3>3 DEF EndsRunning, Group
      <4> QED BY <2>1, <3>1, <4>1
    <3>4. \A v \in Worker : Lost(v)
      BY <2>3 DEF Lost, DiskInv, TypeOK, NetTypeOK
    <3> QED BY <1>0, <2>1, <3>2, <3>3, <3>4 DEF ForksRun
  <2> QED BY <2>1, <2>2, <2>3
<1> QED BY <1>0, <1>2, <1>3, <1>4, <1>5, <1>6, <1>7, <1>8, <1>9, <1>10, <1>11

\* mtcp writes an image, under the name and of the computation of the checkpoint that goes on.
LEMMA WriteScript ==
  ASSUME DiskInv, RoundInv, restarts = 0, EndsRunning, PeersAreClients, ClientsNamed,
         NEW w \in Worker, WriteImage(w), CoordinatorKept
  PROVE  EndsRunning' /\ PeersAreClients' /\ ClientsNamed'
<1> DEFINE name == NameOf(w, generation)
           msgs == <<CkptFilename(name), Ok("CHECKPOINTED")>>
<1>1. PICK j \in 0 .. 7 : Round(j)
  BY NeverRestored
<1>2. w \in clients /\ Alive(w) /\ j \in 1 .. 4 /\ wCohort[w] = clients /\ pc[w] = "writing"
  BY <1>1, ConcernedInRound DEF WriteImage, Concerned, Knowing, PeersAreClients
<1>3. wGen[w] = generation /\ generation \in Generation /\ name \in FileName
  <2>1. SuspendInRound(w, j) /\ Reached(w) = 3
    BY <1>1, <1>2 DEF Round, ClientInRound, Reached
  <2>2. generation \in Generation
    BY DEF DiskInv, TypeOK, CoordTypeOK
  <2> QED BY <2>1, <2>2, FileNameType DEF SuspendInRound
<1>4. /\ UNCHANGED <<clients, cstate, suspendSent, generation, restartFilenames>>
      /\ clients \subseteq Worker /\ ~suspendSent
  BY <1>1, <1>2 DEF CoordinatorKept, DiskInv, TypeOK, CoordTypeOK, Round
<1>5. /\ Move(w, "written") /\ Send(w, msgs) /\ UNCHANGED <<toWorker, parent, wCohort>>
      /\ images' = [f \in DOMAIN images \cup {name} |->
                      IF f = name
                      THEN [gen |-> wGen[w], comp |-> wComp[w], cohort |-> wCohort[w]]
                      ELSE images[f]]
  BY <1>3 DEF WriteImage, identityVars
<1>6. msgs \in Seq(ToCoordMsg)
  <2>1. CkptFilename(name) \in ToCoordMsg /\ Ok("CHECKPOINTED") \in ToCoordMsg
    BY <1>3, StateNames DEF CkptFilename, Ok, ToCoordMsg
  <2> QED BY <2>1, TwoMessages
<1>7. /\ Len(msgs) = 2 /\ msgs[1] = CkptFilename(name) /\ msgs[2] = Ok("CHECKPOINTED")
      /\ IsName(CkptFilename(name)) /\ CkptFilename(name).file = name
      /\ CkptFilename(name).type # "OK" /\ ~IsName(Ok("CHECKPOINTED"))
  BY DEF IsName, CkptFilename, Ok
<1> HIDE DEF msgs
<1>8. NameThenReport(msgs) /\ \A i \in 1 .. Len(msgs) : IsName(msgs[i]) => msgs[i].file = name
  <2>1. \A i \in 1 .. Len(msgs) : i = 1 \/ i = 2
    BY <1>7
  <2>2. 1 + 1 \in 1 .. Len(msgs) /\ msgs[1 + 1] = Ok("CHECKPOINTED")
    BY <1>7
  <2> QED BY <1>7, <2>1, <2>2 DEF NameThenReport
<1>9. EndsRunning'
  <2>1. EndsWhereItRuns /\ ForksRun /\ \A v \in Worker : Lost(v)
    <3>1. \A v \in Worker \ {w} : toCoord'[v] = toCoord[v] /\ wCohort'[v] = wCohort[v]
      BY <1>5, <1>6, SaysMore
    <3> QED BY <1>2, <1>5, <3>1, GoesOn DEF DeadPoint, Knowing
  <2> QED BY <2>1, EndsKept
<1>10. PeersAreClients'
  <2>1. \A v \in Worker : pc'[v] = IF v = w THEN "written" ELSE pc[v]
    BY <1>5 DEF Move, DiskInv, TypeOK, WorkerTypeOK
  <2>2. ASSUME NEW v \in Worker, pc'[v] = "written"
        PROVE  /\ NameOf(v, generation') \in DOMAIN images'
               /\ images'[NameOf(v, generation')].cohort = clients'
    <3>1. CASE v = w
      BY <1>2, <1>4, <1>5, <3>1
    <3>2. CASE v # w
      <4>1. NameOf(v, generation) # name
        BY <3>2 DEF NameOf
      <4>2. /\ NameOf(v, generation) \in DOMAIN images
            /\ images[NameOf(v, generation)].cohort = clients
        BY <2>1, <2>2, <3>2 DEF PeersAreClients
      <4> QED BY <1>4, <1>5, <4>1, <4>2
    <3> QED BY <3>1, <3>2
  <2>3. \A v \in Worker : NameOf(v, generation)' = NameOf(v, generation')
    BY DEF NameOf
  <2> HIDE DEF name
  <2> QED BY <1>4, <1>5, <2>1, <2>2, <2>3 DEF PeersAreClients, Knowing
<1>11. ClientsNamed'
  <2>1. /\ NameThenReport(toCoord'[w])
        /\ \A f \in NamesSent(w)' : f \in NamesSent(w) \/ f = name
        /\ \A v \in Worker \ {w} : toCoord'[v] = toCoord[v] /\ NamesSent(v)' = NamesSent(v)
    BY <1>5, <1>6, <1>8, SendsNames, NamesKept DEF ClientsNamed
  <2>2. /\ InCheckpoint' = InCheckpoint
        /\ \A v \in Worker : NameOf(v, generation)' = NameOf(v, generation)
    BY <1>4 DEF InCheckpoint, NameOf
  <2>3. ASSUME NEW v \in clients, v # w, Named(v)
        PROVE  Named(v)'
    <3>1. Reports(v)' = Reports(v) /\ toCoord'[v] = toCoord[v]
      BY <1>4, <2>1, <2>3 DEF Reports
    <3> QED BY <1>4, <2>1, <2>2, <2>3, <3>1 DEF Named
  <2>4. ASSUME Named(w)
        PROVE  Named(w)'
    <3>1. /\ NamesSent(w)' \subseteq {name}
          /\ cstate[w] = "CHECKPOINTED" => name \in restartFilenames
      BY <2>1, <2>4 DEF Named
    <3> DEFINE l == Len(toCoord[w])
    <3>2. /\ l \in Nat /\ Len(toCoord'[w]) = l + 2
          /\ toCoord'[w][l + 1] = CkptFilename(name)
          /\ \A i \in 1 .. l : i \in 1 .. Len(toCoord'[w]) /\ toCoord'[w][i] = toCoord[w][i]
      <4>1. toCoord[w] \in Seq(ToCoordMsg) /\ 1 \in 1 .. Len(msgs)
        BY <1>7 DEF DiskInv, TypeOK, NetTypeOK
      <4>2. /\ Len(toCoord'[w]) = Len(toCoord[w]) + Len(msgs)
            /\ \A i \in 1 .. Len(toCoord[w]) :
                 i \in 1 .. Len(toCoord'[w]) /\ toCoord'[w][i] = toCoord[w][i]
            /\ toCoord'[w][Len(toCoord[w]) + 1] = msgs[1]
        BY <1>5, <1>6, <4>1, SaysMore
      <4> QED BY <1>7, <4>1, <4>2
    <3>3. ASSUME NEW i \in Reports(w)', toCoord'[w][i].state = "CHECKPOINTED"
          PROVE  \/ name \in restartFilenames
                 \/ \E k \in 1 .. Len(toCoord'[w]) : k < i /\ toCoord'[w][k] = CkptFilename(name)
      <4>1. i \in 1 .. Len(toCoord'[w]) /\ toCoord'[w][i].type = "OK"
        BY <3>3 DEF Reports
      <4>2. CASE i \in 1 .. l
        <5>1. i \in Reports(w) /\ toCoord[w][i].state = "CHECKPOINTED"
          BY <3>2, <3>3, <4>1, <4>2 DEF Reports
        <5>2. \/ name \in restartFilenames
              \/ \E k \in 1 .. l : k < i /\ toCoord[w][k] = CkptFilename(name)
          BY <2>4, <5>1 DEF Named
        <5> HIDE DEF l
        <5> QED BY <3>2, <5>2
      <4>3. CASE i \notin 1 .. l
        <5> HIDE DEF l, name
        <5>1. i \in l + 1 .. l + 2 /\ l + 1 \in 1 .. Len(toCoord'[w])
          BY <3>2, <4>1, <4>3
        <5>2. i # l + 1
          BY <1>7, <3>2, <4>1
        <5>3. l + 1 < i
          BY <3>2, <5>1, <5>2
        <5> QED BY <3>2, <5>1, <5>3
      <4> QED BY <4>2, <4>3
    <3> QED BY <1>2, <1>4, <2>2, <3>1, <3>3 DEF Named
  <2>5. \A v \in Worker : NameThenReport(toCoord'[v])
    BY <2>1 DEF ClientsNamed
  <2> HIDE DEF name
  <2> QED BY <1>4, <2>2, <2>3, <2>4, <2>5 DEF ClientsNamed
<1> QED BY <1>9, <1>10, <1>11

\* A program is launched, or begins a fork.
LEMMA BirthScript ==
  ASSUME DiskInv, RoundInv, EndsRunning, PeersAreClients, ClientsNamed, NEW w \in Worker,
         Launch(w) \/ \E c \in Worker : BeginFork(w, c), CoordinatorKept, images' = images
  PROVE  EndsRunning' /\ PeersAreClients' /\ ClientsNamed'
<1>0. /\ pc \in [Worker -> Point] /\ Launchable \subseteq Worker /\ clients \subseteq Worker
      /\ toCoord \in [Worker -> Seq(ToCoordMsg)] /\ parent \in [Worker -> Group]
  BY WorkerAssumption DEF DiskInv, TypeOK, WorkerTypeOK, CoordTypeOK, NetTypeOK
<1>1. PICK u \in Worker, h \in ToCoordMsg :
        /\ Connect(u, h) /\ Move(u, "hello") /\ pc[u] = "unborn" /\ h.type = "HELLO_COORDINATOR"
        /\ UNCHANGED <<toWorker, wCohort>>
        /\ \/ parent' = parent
           \/ parent' = [parent EXCEPT ![u] = w] /\ pc[w] \in {"run", "locking"}
  <2>1. /\ Hello("UNKNOWN", Nobody, 0, {}) \in ToCoordMsg
        /\ Hello("RUNNING", Nobody, 0, {}) \in ToCoordMsg
        /\ \A s : Hello(s, Nobody, 0, {}).type = "HELLO_COORDINATOR"
    BY BoundAssumption DEF Hello, ToCoordMsg, Group, Generation
  <2> QED BY <1>0, <2>1 DEF Launch, BeginFork, identityVars
<1>2. /\ \A v \in Worker : pc'[v] = IF v = u THEN "hello" ELSE pc[v]
      /\ \A v \in Worker : toCoord'[v] = IF v = u THEN <<h>> ELSE toCoord[v]
      /\ u \notin clients
      /\ UNCHANGED <<clients, cstate, suspendSent, generation, restartFilenames, killInProgress>>
  BY <1>0, <1>1 DEF Connect, Move, CoordinatorKept, DiskInv, HelloFirst
<1>3. EndsRunning'
  <2>1. ASSUME NEW v \in clients, Dead(v)'
        PROVE  RanLast(v)'
    <3>1. v \in Worker /\ toCoord'[v] = toCoord[v] /\ Dead(v)
      BY <1>0, <1>2, <2>1 DEF Dead
    <3>2. RanLast(v) /\ Reports(v)' = Reports(v)
      BY <2>1, <3>1 DEF EndsRunning, Reports
    <3> QED BY <1>2, <3>1, <3>2 DEF RanLast, Said
  <2>2. ASSUME NEW c \in Worker, parent'[c] # Nobody
        PROVE  pc'[parent'[c]] \in {"run", "locking"}
    <3>1. \/ parent'[c] = parent[c]
          \/ parent'[c] = w /\ pc[w] \in {"run", "locking"}
      BY <1>0, <1>1
    <3>2. parent'[c] \in Worker /\ pc[parent'[c]] \in {"run", "locking"}
      BY <1>0, <2>2, <3>1 DEF EndsRunning, Group
    <3> QED BY <1>1, <1>2, <3>2
  <2> QED BY <1>1, <1>2, <2>1, <2>2 DEF EndsRunning
<1>4. PeersAreClients'
  <2>1. \A v \in Worker : /\ pc'[v] \in Knowing => pc[v] \in Knowing
                          /\ pc'[v] = "written" => pc[v] = "written"
    BY <1>2 DEF Knowing
  <2>2. \A v \in Worker : NameOf(v, generation)' = NameOf(v, generation)
    BY <1>2 DEF NameOf
  <2>3. Knowing' = Knowing
    BY DEF Knowing
  <2> QED BY <1>1, <1>2, <2>1, <2>2, <2>3 DEF PeersAreClients
<1>5. ClientsNamed'
  <2>1. NameThenReport(<<h>>)
    <3>1. \A i \in 1 .. Len(<<h>>) : <<h>>[i] = h
      OBVIOUS
    <3> QED BY <1>1, <3>1 DEF NameThenReport, IsName
  <2>2. \A v \in Worker : NameThenReport(toCoord'[v])
    BY <1>2, <2>1 DEF ClientsNamed
  <2>3. ASSUME NEW v \in clients
        PROVE  NamesSent(v)' = NamesSent(v) /\ (Named(v) => Named(v)')
    <3>1. toCoord'[v] = toCoord[v] /\ Reports(v)' = Reports(v)
      BY <1>0, <1>2 DEF Reports
    <3>2. NamesSent(v)' = NamesSent(v) /\ NameOf(v, generation)' = NameOf(v, generation)
      BY <1>2, <3>1, NamesKept DEF NameOf
    <3> QED BY <1>2, <3>1, <3>2 DEF Named
  <2>4. /\ InCheckpoint' = InCheckpoint
        /\ \A v \in Worker : NameOf(v, generation)' = NameOf(v, generation)
    BY <1>2 DEF InCheckpoint, NameOf
  <2> QED BY <1>0, <1>2, <2>2, <2>3, <2>4 DEF ClientsNamed
<1> QED BY <1>3, <1>4, <1>5

-----------------------------------------------------------------------------
(* The coordinator. *)

\* What is under way to a process it writes to.
LEMMA PostAdds ==
  ASSUME NEW chan \in [Worker -> Seq(ToWorkerMsg)], NEW W, NEW m \in ToWorkerMsg
  PROVE  /\ Post(chan, W, m) \in [Worker -> Seq(ToWorkerMsg)]
         /\ \A v \in Worker : \A i \in 1 .. Len(Post(chan, W, m)[v]) :
              \/ Post(chan, W, m)[v][i] = m
              \/ \E k \in 1 .. Len(chan[v]) : Post(chan, W, m)[v][i] = chan[v][k]
<1>1. \A v \in Worker : Append(chan[v], m) \in Seq(ToWorkerMsg) /\ chan[v] \in Seq(ToWorkerMsg)
  OBVIOUS
<1>2. Post(chan, W, m) \in [Worker -> Seq(ToWorkerMsg)]
  BY <1>1 DEF Post
<1>3. ASSUME NEW v \in Worker, NEW i \in 1 .. Len(Append(chan[v], m))
      PROVE  \/ Append(chan[v], m)[i] = m
             \/ i \in 1 .. Len(chan[v]) /\ Append(chan[v], m)[i] = chan[v][i]
  BY <1>1
<1> QED BY <1>2, <1>3 DEF Post

\* A message that kills nobody and tells of no peers but the clients.
Fits(m) ==
  m \in ToWorkerMsg /\ m.type # "KILL_PEER"
  /\ (m.type = "DO_FD_LEADER_ELECTION" => m.cohort = clients')

AddsFitting(v) ==
  \A i \in 1 .. Len(toWorker'[v]) :
    Fits(toWorker'[v][i]) \/ \E k \in 1 .. Len(toWorker[v]) : toWorker'[v][i] = toWorker[v][k]

\* A fitting message is written to some.
LEMMA PostFits ==
  ASSUME DiskInv, NEW W, NEW m \in ToWorkerMsg, Fits(m), toWorker' = Post(toWorker, W, m)
  PROVE  \A v \in Worker : AddsFitting(v)
<1>1. toWorker \in [Worker -> Seq(ToWorkerMsg)]
  BY DEF DiskInv, TypeOK, NetTypeOK
<1>2. /\ Post(toWorker, W, m) \in [Worker -> Seq(ToWorkerMsg)]
      /\ \A v \in Worker : \A i \in 1 .. Len(Post(toWorker, W, m)[v]) :
           \/ Post(toWorker, W, m)[v][i] = m
           \/ \E k \in 1 .. Len(toWorker[v]) : Post(toWorker, W, m)[v][i] = toWorker[v][k]
  BY ONLY <1>1, PostAdds, m \in ToWorkerMsg
<1>3. PICK chan : chan = Post(toWorker, W, m)
  OBVIOUS
<1>4. \A v \in Worker : \A i \in 1 .. Len(chan[v]) :
        chan[v][i] = m \/ \E k \in 1 .. Len(toWorker[v]) : chan[v][i] = toWorker[v][k]
  BY ONLY <1>2, <1>3
<1>5. toWorker' = chan
  BY <1>3
<1> QED BY <1>4, <1>5 DEF AddsFitting

\* The clients and the checkpoint change only when nobody is concerned.
LEMMA CoordinatorPeers ==
  ASSUME DiskInv, EndsRunning, PeersAreClients, UNCHANGED <<pc, wCohort, images>>,
         (clients' = clients /\ generation' = generation) \/ \A v \in Worker : ~Concerned(v),
         \A v \in Worker : AddsFitting(v)
  PROVE  /\ PeersAreClients'
         /\ \A w \in Worker : \A i \in 1 .. Len(toWorker'[w]) : toWorker'[w][i].type # "KILL_PEER"
<1>1. \A w \in Worker : \A i \in 1 .. Len(toWorker'[w]) : toWorker'[w][i].type # "KILL_PEER"
  BY DEF AddsFitting, Fits, EndsRunning
<1>2. ASSUME NEW w \in Worker, NEW i \in 1 .. Len(toWorker'[w]),
             toWorker'[w][i].type = "DO_FD_LEADER_ELECTION"
      PROVE  toWorker'[w][i].cohort = clients'
  BY <1>2 DEF AddsFitting, Fits, PeersAreClients, Concerned
<1>3. \A w \in Worker : pc'[w] \in Knowing => wCohort'[w] = clients'
  BY DEF PeersAreClients, Concerned
<1>4. ASSUME NEW w \in Worker, pc'[w] = "written"
      PROVE  /\ NameOf(w, generation') \in DOMAIN images'
             /\ images'[NameOf(w, generation')].cohort = clients'
  BY <1>4 DEF PeersAreClients, Concerned
<1>5. /\ \A w \in Worker : NameOf(w, generation)' = NameOf(w, generation')
      /\ Knowing' = Knowing
  BY DEF NameOf, Knowing
<1> QED BY <1>1, <1>2, <1>3, <1>4, <1>5 DEF PeersAreClients

\* Processes end as they did, when none is killed and those listed have said what they said.
LEMMA CoordinatorEnds ==
  ASSUME EndsRunning, UNCHANGED <<pc, parent>>, ~killInProgress',
         \A w \in Worker : \A i \in 1 .. Len(toWorker'[w]) : toWorker'[w][i].type # "KILL_PEER",
         \A v \in clients' : \/ v \in clients /\ (RanLast(v) => RanLast(v)')
                             \/ RanLast(v)'
  PROVE  EndsRunning'
BY DEF EndsRunning, Dead

\* A process whose messages are left, or read, has said the same last.
LEMMA RanLastKept ==
  ASSUME NEW v, toCoord'[v] = toCoord[v], cstate'[v] = cstate[v], RanLast(v)
  PROVE  RanLast(v)'
<1>1. Reports(v)' = Reports(v) /\ \A i \in Reports(v) : Said(v, i)' = Said(v, i)
  BY DEF Reports, Said
<1> QED BY <1>1 DEF RanLast

LEMMA RanLastRead ==
  ASSUME DiskInv, NEW w \in Worker, toCoord[w] # <<>>, RanLast(w),
         toCoord' = [toCoord EXCEPT ![w] = Tail(@)],
         cstate'[w] = IF Head(toCoord[w]).type = "OK" THEN Head(toCoord[w]).state ELSE cstate[w]
  PROVE  RanLast(w)'
<1>1. /\ \A i \in Reports(w)' :
           i \in Nat \ {0} /\ i + 1 \in Reports(w) /\ Said(w, i)' = Said(w, i + 1)
      /\ \A i \in Reports(w) : i = 1 \/ (i - 1 \in Reports(w)' /\ Said(w, i - 1)' = Said(w, i))
      /\ 1 \in Reports(w) <=> Head(toCoord[w]).type = "OK"
      /\ Said(w, 1) = Level(Head(toCoord[w]).state)
      /\ Reports(w) \subseteq Nat \ {0}
  BY TakesReport, Positions
<1>2. CASE Level(cstate[w]) = 0 /\ \A i \in Reports(w) : Said(w, i) = 0
  BY <1>1, <1>2 DEF RanLast
<1>3. CASE \E i \in Reports(w) : \A k \in Reports(w) : i <= k => Said(w, k) = 0
  <2>1. PICK i \in Reports(w) : \A k \in Reports(w) : i <= k => Said(w, k) = 0
    BY <1>3
  <2>2. CASE i = 1
    <3>1. \A k \in Reports(w) : Said(w, k) = 0
      BY <1>1, <2>1, <2>2
    <3> QED BY <1>1, <2>2, <3>1 DEF RanLast
  <2>3. CASE i # 1
    <3>1. i - 1 \in Reports(w)'
      BY <1>1, <2>3
    <3>2. ASSUME NEW k \in Reports(w)', i - 1 <= k
          PROVE  Said(w, k)' = 0
      <4>1. k + 1 \in Reports(w) /\ Said(w, k)' = Said(w, k + 1) /\ k \in Nat /\ i \in Nat
        BY <1>1
      <4>2. i <= k + 1
        BY <3>2, <4>1
      <4> QED BY <2>1, <4>1, <4>2
    <3> QED BY <3>1, <3>2 DEF RanLast
  <2> QED BY <2>2, <2>3
<1> QED BY <1>2, <1>3 DEF RanLast

\* Names, when no message of a client is read.
LEMMA QuietNamed ==
  ASSUME DiskInv, ClientsNamed, UNCHANGED <<clients, cstate, restartFilenames>>,
         \A v \in clients : toCoord'[v] = toCoord[v],
         \A v \in Worker : NameThenReport(toCoord'[v]),
         suspendSent' => suspendSent, clients = {} \/ generation' = generation,
         clients = {} => ~suspendSent'
  PROVE  ClientsNamed'
<1>1. \A v \in clients : NamesSent(v)' = NamesSent(v) /\ Reports(v)' = Reports(v)
  BY NamesKept DEF Reports
<1>2. InCheckpoint' => InCheckpoint /\ clients # {}
  BY DEF InCheckpoint
<1>3. ASSUME generation' = generation
      PROVE  /\ \A v \in Worker : NameOf(v, generation)' = NameOf(v, generation)
             /\ clients \subseteq Worker
             /\ \A v \in clients : Named(v) => Named(v)'
  <2>1. \A v \in Worker : NameOf(v, generation)' = NameOf(v, generation)
    BY <1>3 DEF NameOf
  <2>2. clients \subseteq Worker
    BY DEF DiskInv, TypeOK, CoordTypeOK
  <2>3. ASSUME NEW v \in clients, Named(v)
        PROVE  Named(v)'
    BY <1>1, <2>1, <2>2, <2>3 DEF Named
  <2> QED BY <2>1, <2>2, <2>3
<1>4. CASE generation' = generation
  BY <1>1, <1>2, <1>3, <1>4 DEF ClientsNamed
<1>5. CASE clients = {}
  BY <1>2, <1>5 DEF ClientsNamed
<1> QED BY <1>4, <1>5

\* Names, when a message of a client is read.
LEMMA NamedRead ==
  ASSUME DiskInv, NEW w \in Worker, toCoord[w] # <<>>, Named(w), NameThenReport(toCoord[w]),
         toCoord' = [toCoord EXCEPT ![w] = Tail(@)], generation' = generation,
         restartFilenames \subseteq restartFilenames',
         IsName(Head(toCoord[w])) => Head(toCoord[w]).file \in restartFilenames',
         cstate'[w] = IF Head(toCoord[w]).type = "OK" THEN Head(toCoord[w]).state ELSE cstate[w]
  PROVE  Named(w)'
<1> DEFINE name == NameOf(w, generation)
<1>1. name' = name
  BY DEF NameOf
<1>2. /\ NamesSent(w)' \subseteq {name} /\ (cstate[w] = "CHECKPOINTED" => name \in restartFilenames)
      /\ IsName(Head(toCoord[w])) => name \in restartFilenames'
  BY TakesNames DEF Named
<1>3. CASE name \in restartFilenames'
  BY <1>1, <1>2, <1>3 DEF Named
<1>4. CASE name \notin restartFilenames'
  <2>1. /\ toCoord[w] \in Seq(ToCoordMsg) /\ Head(toCoord[w]) = toCoord[w][1]
        /\ \A i \in 1 .. Len(toCoord[w]) :
             i = 1 \/ (i - 1 \in 1 .. Len(toCoord'[w]) /\ toCoord'[w][i - 1] = toCoord[w][i])
    BY DEF DiskInv, TypeOK, NetTypeOK
  <2>2. /\ \A i \in Reports(w)' : /\ i \in Nat \ {0} /\ i + 1 \in Reports(w)
                                  /\ toCoord'[w][i].state = toCoord[w][i + 1].state
        /\ 1 \in Reports(w) <=> Head(toCoord[w]).type = "OK"
    BY TakesReport
  <2>3. /\ IsName(CkptFilename(name))
        /\ \A i \in Reports(w) : toCoord[w][i].state = "CHECKPOINTED" =>
             \E k \in 1 .. Len(toCoord[w]) : k < i /\ toCoord[w][k] = CkptFilename(name)
    BY <1>4 DEF Named, IsName, CkptFilename
  <2>4. cstate'[w] # "CHECKPOINTED"
    <3>1. cstate[w] # "CHECKPOINTED"
      BY <1>2, <1>4
    <3>2. ASSUME Head(toCoord[w]).type = "OK"
          PROVE  Head(toCoord[w]).state # "CHECKPOINTED"
      <4> SUFFICES ASSUME Head(toCoord[w]).state = "CHECKPOINTED"
                   PROVE  FALSE
        OBVIOUS
      <4> HIDE DEF name
      <4>1. 1 \in Reports(w) /\ toCoord[w][1].state = "CHECKPOINTED"
        BY <2>1, <2>2, <3>2
      <4>2. PICK k \in 1 .. Len(toCoord[w]) : k < 1
        BY <2>3, <4>1
      <4> QED BY <4>2
    <3> QED BY <3>1, <3>2
  <2>5. ASSUME NEW i \in Reports(w)', toCoord'[w][i].state = "CHECKPOINTED"
        PROVE  \E k \in 1 .. Len(toCoord'[w]) : k < i /\ toCoord'[w][k] = CkptFilename(name)
    <3> HIDE DEF name
    <3>1. PICK k \in 1 .. Len(toCoord[w]) : k < i + 1 /\ toCoord[w][k] = CkptFilename(name)
      BY <2>2, <2>3, <2>5
    <3>2. k # 1
      BY <1>2, <1>4, <2>1, <2>3, <3>1
    <3>3. k - 1 < i
      BY <2>2, <3>1, <2>5
    <3> QED BY <2>1, <3>1, <3>2, <3>3
  <2> QED BY <1>1, <1>2, <2>4, <2>5 DEF Named
<1> QED BY <1>3, <1>4

\* Names of a process that is left alone.
LEMMA NamedKept ==
  ASSUME NEW v, toCoord'[v] = toCoord[v], cstate'[v] = cstate[v], generation' = generation,
         restartFilenames \subseteq restartFilenames', Named(v)
  PROVE  Named(v)'
<1>1. /\ NamesSent(v)' = NamesSent(v) /\ Reports(v)' = Reports(v)
      /\ NameOf(v, generation)' = NameOf(v, generation)
  BY NamesKept DEF Reports, NameOf
<1> QED BY <1>1 DEF Named

\* Nobody knows its peers when the coordinator lets a process in, or when one
\* that reported last that it runs is there.
LEMMA NobodyConcerned ==
  ASSUME DiskInv, RoundInv, restarts = 0, EndsRunning,
         \/ clients = {} \/ suspendSent
         \/ MinimumState(clients, cstate) \in {"RUNNING", "UNKNOWN"}
         \/ \E w \in clients : Dead(w)
  PROVE  /\ \A v \in Worker : ~Concerned(v)
         /\ InCheckpoint => suspendSent
<1>1. PICK j \in 0 .. 7 : Round(j)
  BY NeverRestored
<1>2. clients \subseteq Worker
  BY DEF DiskInv, TypeOK, CoordTypeOK
<1>3. clients = {} \/ j \in {0, 7}
  <2>1. CASE suspendSent
    BY <1>1, <2>1 DEF Round
  <2>2. CASE clients # {} /\ MinimumState(clients, cstate) \in {"RUNNING", "UNKNOWN"}
    <3>1. PICK v \in clients : Level(cstate[v]) = 0
      BY <2>2, LowestLevel
    <3>2. ReportsInRound(v, j) /\ After(j) = IF j = 7 THEN 0 ELSE j + 1
      BY <1>1 DEF Round, ClientInRound, After
    <3> QED BY <3>1, <3>2 DEF ReportsInRound
  <2>3. CASE \E w \in clients : Dead(w)
    <3>1. PICK w \in clients : Dead(w)
      BY <2>3
    <3>2. RanLast(w) /\ ReportsInRound(w, j)
      BY <1>1, <3>1 DEF Round, ClientInRound, EndsRunning
    <3> QED BY <1>2, <3>2, RanBetween
  <2> QED BY <2>1, <2>2, <2>3
<1>4. ASSUME NEW v \in Worker, Concerned(v)
      PROVE  FALSE
  BY <1>1, <1>3, <1>4, ConcernedInRound
<1>5. ASSUME InCheckpoint, ~suspendSent
      PROVE  FALSE
  <2>1. PICK v \in clients : Level(cstate[v]) \in 1 .. 2 \/ cstate[v] = "DRAINED"
    BY <1>5 DEF InCheckpoint
  <2>2. Level(cstate[v]) \in 1 .. 3
    BY <2>1 DEF Level
  <2>3. ReportsInRound(v, j) /\ After(0) = 1 /\ After(7) = 0 /\ (j = 0 => ~Told(v, 0))
    BY <1>1, <1>5 DEF Round, ClientInRound, After
  <2> QED BY <1>3, <2>2, <2>3 DEF ReportsInRound, Told
<1> QED BY <1>4, <1>5

\* What updateMinimumState broadcasts.
LEMMA UpdateAdds ==
  ASSUME DiskInv, NEW C \in SUBSET Worker, NEW old, NEW cs, UpdateMinimumState(old, C, cs),
         clients' = C
  PROVE  \A v \in Worker : AddsFitting(v)
<1>1. PICK t : t = BarrierMessage(old, MinimumState(C, cs))
  OBVIOUS
<1>2. PICK m : m = IF t = "DO_FD_LEADER_ELECTION" THEN DoElection(compId, C) ELSE Plain(t)
  OBVIOUS
<1>3. toWorker' = IF t = "none" THEN toWorker ELSE Post(toWorker, C, m)
  BY <1>1, <1>2 DEF UpdateMinimumState, WriteRestartScript
<1>4. t = "none" \/ Fits(m)
  <2>1. t \in {"none", "DO_FD_LEADER_ELECTION"} \/ t \in PlainType \ {"KILL_PEER"}
    BY <1>1 DEF BarrierMessage, PlainType
  <2>2. compId \in Group
    BY DEF DiskInv, TypeOK, CoordTypeOK
  <2> QED BY <1>2, <2>1, <2>2, OrderTypes DEF Fits, DoElection, Plain
<1>5. toWorker \in [Worker -> Seq(ToWorkerMsg)]
  BY DEF DiskInv, TypeOK, NetTypeOK
<1>6. CASE t = "none"
  BY <1>3, <1>6 DEF AddsFitting
<1>7. CASE t # "none"
  <2>1. m \in ToWorkerMsg /\ Fits(m) /\ toWorker' = Post(toWorker, C, m)
    BY <1>3, <1>4, <1>7 DEF Fits
  <2> QED BY <2>1, PostFits
<1> QED BY <1>6, <1>7

\* onConnect.
LEMMA OnConnectScript ==
  ASSUME DiskInv, RoundInv, restarts = 0, EndsRunning, PeersAreClients, ClientsNamed,
         NEW w \in Worker, OnConnect(w), coord' = "up"
  PROVE  EndsRunning' /\ PeersAreClients' /\ ClientsNamed'
<1> DEFINE hello == Head(toCoord[w])
<1>0. /\ cstate \in [Worker -> WorkerState] /\ clients \subseteq Worker /\ w \notin clients
      /\ toWorker \in [Worker -> Seq(ToWorkerMsg)] /\ compId \in Group /\ generation \in Generation
      /\ w \in backlog /\ toCoord[w] # <<>> /\ toCoord' = [toCoord EXCEPT ![w] = Tail(@)]
      /\ UNCHANGED <<pc, parent, wCohort, images, restartFilenames>>
  BY DEF DiskInv, TypeOK, CoordTypeOK, NetTypeOK, HelloFirst, OnConnect, workerVars, identityVars,
     diskVars
<1>1. /\ hello.state \in {"UNKNOWN", "RUNNING"} /\ Reports(w)' = {}
      /\ \A v \in Worker \ {w} : toCoord'[v] = toCoord[v]
  <2>1. \A v \in Worker \ {w} : toCoord'[v] = toCoord[v]
    BY <1>0
  <2>2. /\ Reports(w)' = {} /\ hello.state \in {"UNKNOWN", "RUNNING", "RESTARTING"}
        /\ hello.state = "RESTARTING" => restarts > 0
    BY <1>0, NotAccepted
  <2> QED BY <2>1, <2>2
<1>2. ~KillNow
  BY DEF KillNow, EndsRunning
<1>3. Refuse(w, "REJECT") \/ ConnectNew(w, hello)
  BY <1>1, <1>2 DEF OnConnect, ConnectRestarting
<1> HIDE DEF hello
<1>4. /\ suspendSent' = SuspendNow /\ killInProgress' = KillNow
      /\ \/ /\ clients' = clients /\ cstate' = cstate
         \/ /\ AddDataSocket(w, hello.state)
            /\ \/ clients = {} \/ suspendSent
               \/ MinimumState(clients, cstate) \in {"RUNNING", "UNKNOWN"}
      /\ clients = {} \/ generation' = generation
      /\ \/ toWorker' = Post(toWorker, {w}, Plain("REJECT"))
         \/ \E c \in Group, g \in Generation : toWorker' = Post(toWorker, {w}, HelloWorker(c, g))
         \/ toWorker' = Post(Post(toWorker, {w}, HelloWorker(compId, generation)),
                             {w}, DoSuspend(compId, generation))
  <2>1. /\ InitializeComputation =>
             /\ suspendSent' = SuspendNow /\ killInProgress' = KillNow
             /\ clients = {} \/ generation' = generation
        /\ CompNow = Nobody => clients = {}
        /\ SuspendNow => suspendSent
    BY DEF InitializeComputation, GenNow, Idle, CompNow, RoundInv, Connected, SuspendNow
  <2>2. CASE Refuse(w, "REJECT")
    BY <2>1, <2>2 DEF Refuse
  <2>3. CASE ConnectNew(w, hello) /\ ~Refuse(w, "REJECT")
    <3>1. ~Abort
      BY DEF Abort
    <3>2. CASE SuspendNow
      BY <2>1, <2>3, <3>1, <3>2 DEF ConnectNew
    <3>3. CASE ~SuspendNow
      <4> DEFINE first == CompNow = Nobody
                 comp == IF first THEN w ELSE compId
                 gen == IF first THEN 0 ELSE generation
      <4>1. /\ Idle \/ MinimumState(clients, cstate) \in {"RUNNING", "UNKNOWN"}
            /\ AddDataSocket(w, hello.state) /\ generation' = gen
            /\ suspendSent' = SuspendNow /\ killInProgress' = KillNow
            /\ toWorker' = Post(toWorker, {w}, HelloWorker(comp, gen))
        BY <2>3, <3>3 DEF ConnectNew
      <4>2. comp \in Group /\ gen \in Generation
        BY <1>0, BoundAssumption DEF Group, Generation
      <4>3. clients = {} \/ gen = generation
        BY <2>1
      <4> HIDE DEF comp, gen
      <4> QED BY <4>1, <4>2, <4>3 DEF Idle
    <3> QED BY <3>2, <3>3
  <2> QED BY <1>3, <2>2, <2>3
<1>5. \A v \in Worker : AddsFitting(v)
  <2>1. /\ Plain("REJECT") \in ToWorkerMsg /\ Fits(Plain("REJECT"))
        /\ \A c \in Group, g \in Generation :
             /\ HelloWorker(c, g) \in ToWorkerMsg /\ Fits(HelloWorker(c, g))
             /\ DoSuspend(c, g) \in ToWorkerMsg /\ Fits(DoSuspend(c, g))
    <3>1. "REJECT" \in PlainType
      BY DEF PlainType
    <3> QED BY <3>1, OrderTypes DEF Fits, Plain, HelloWorker, DoSuspend
  <2> DEFINE W == {w}
  <2> HIDE DEF W
  <2>2. toWorker \in [Worker -> Seq(ToWorkerMsg)]
    BY <1>0
  <2>3. ASSUME NEW m \in ToWorkerMsg, Fits(m), toWorker' = Post(toWorker, W, m)
        PROVE  \A v \in Worker : AddsFitting(v)
    BY <2>3, PostFits
  <2>4. ASSUME NEW a \in ToWorkerMsg, NEW b \in ToWorkerMsg, Fits(a), Fits(b),
               toWorker' = Post(Post(toWorker, W, a), W, b)
        PROVE  \A v \in Worker : AddsFitting(v)
    <3>1. /\ Post(toWorker, W, a) \in [Worker -> Seq(ToWorkerMsg)]
          /\ \A v \in Worker : \A i \in 1 .. Len(Post(toWorker, W, a)[v]) :
              \/ Post(toWorker, W, a)[v][i] = a
              \/ \E k \in 1 .. Len(toWorker[v]) : Post(toWorker, W, a)[v][i] = toWorker[v][k]
      BY ONLY <2>2, PostAdds, a \in ToWorkerMsg
    <3>2. PICK chan \in [Worker -> Seq(ToWorkerMsg)] : chan = Post(toWorker, W, a)
      BY <3>1
    <3>3. toWorker' = Post(chan, W, b)
      BY <2>4, <3>2
    <3>4. \A v \in Worker : \A i \in 1 .. Len(toWorker'[v]) :
              \/ toWorker'[v][i] = b
              \/ \E k \in 1 .. Len(chan[v]) : toWorker'[v][i] = chan[v][k]
      <4>1. \A v \in Worker : \A i \in 1 .. Len(Post(chan, W, b)[v]) :
              \/ Post(chan, W, b)[v][i] = b
              \/ \E k \in 1 .. Len(chan[v]) : Post(chan, W, b)[v][i] = chan[v][k]
        BY ONLY chan \in [Worker -> Seq(ToWorkerMsg)], b \in ToWorkerMsg, PostAdds
      <4> QED BY ONLY <3>3, <4>1
    <3>5. \A v \in Worker : \A k \in 1 .. Len(chan[v]) :
              \/ chan[v][k] = a
              \/ \E i \in 1 .. Len(toWorker[v]) : chan[v][k] = toWorker[v][i]
      BY <3>1, <3>2
    <3> SUFFICES ASSUME NEW v \in Worker, NEW i \in 1 .. Len(toWorker'[v])
                 PROVE  \/ Fits(toWorker'[v][i])
                        \/ \E k \in 1 .. Len(toWorker[v]) : toWorker'[v][i] = toWorker[v][k]
      BY DEF AddsFitting
    <3>6. CASE toWorker'[v][i] = b
      BY <2>4, <3>6
    <3>7. CASE \E k \in 1 .. Len(chan[v]) : toWorker'[v][i] = chan[v][k]
      BY <2>4, <3>5, <3>7
    <3> QED BY <3>4, <3>6, <3>7
  <2> QED BY <1>0, <1>4, <2>1, <2>3, <2>4 DEF W
<1>6. \/ clients' = clients /\ cstate' = cstate
      \/ /\ AddDataSocket(w, hello.state) /\ \A v \in Worker : ~Concerned(v)
         /\ InCheckpoint => suspendSent
  BY <1>4, NobodyConcerned
<1>7. clients = {} => \A v \in Worker : ~Concerned(v)
  BY NobodyConcerned
<1>8. /\ PeersAreClients'
      /\ \A v \in Worker : \A i \in 1 .. Len(toWorker'[v]) : toWorker'[v][i].type # "KILL_PEER"
  BY <1>0, <1>4, <1>5, <1>6, <1>7, CoordinatorPeers
<1>9. \A v \in clients : toCoord'[v] = toCoord[v] /\ cstate'[v] = cstate[v]
  BY <1>0, <1>1, <1>6 DEF AddDataSocket
<1>10. \A v \in clients' \ clients :
         v = w /\ cstate'[w] \in {"UNKNOWN", "RUNNING"} /\ AddDataSocket(w, hello.state)
  BY <1>0, <1>1, <1>6 DEF AddDataSocket
<1>11. EndsRunning'
  <2>1. \A v \in clients : RanLast(v) => RanLast(v)'
    BY <1>9, RanLastKept
  <2>2. \A v \in clients' \ clients : RanLast(v)'
    BY <1>1, <1>10 DEF RanLast, Level
  <2> QED BY <1>0, <1>2, <1>4, <1>8, <2>1, <2>2, CoordinatorEnds
<1>12. /\ \A v \in Worker : NameThenReport(toCoord'[v]) /\ NamesSent(w)' = {}
       /\ NameThenReport(toCoord'[w])
  <2>1. NameThenReport(toCoord[w]) /\ Reports(w) = {}
    BY <1>0 DEF ClientsNamed, RoundInv, Connected, ConnectionOf
  <2>2. NamesSent(w) = {}
    BY <2>1, NameMeansReport
  <2> QED BY <1>0, <1>1, <2>1, <2>2, TakesNames DEF ClientsNamed
<1>13. CASE clients' = clients /\ cstate' = cstate
  BY <1>0, <1>4, <1>8, <1>9, <1>11, <1>12, <1>13, QuietNamed DEF SuspendNow, Idle
<1>14. CASE AddDataSocket(w, hello.state) /\ (InCheckpoint => suspendSent)
  <2>1. /\ clients' = clients \cup {w} /\ cstate'[w] \in {"UNKNOWN", "RUNNING"}
    BY <1>0, <1>1, <1>14 DEF AddDataSocket
  <2>2. InCheckpoint' => suspendSent'
    <3> SUFFICES ASSUME InCheckpoint', ~suspendSent' PROVE FALSE
      OBVIOUS
    <3>1. PICK v \in clients' : Level(cstate'[v]) \in 1 .. 2 \/ cstate'[v] = "DRAINED"
      BY DEF InCheckpoint
    <3>2. v # w
      BY <2>1, <3>1 DEF Level
    <3>3. v \in clients /\ cstate'[v] = cstate[v]
      BY <1>9, <2>1, <3>2
    <3> QED BY <1>4, <1>14, <3>1, <3>3 DEF InCheckpoint, SuspendNow, Idle
  <2>3. ASSUME suspendSent'
        PROVE  /\ restartFilenames' = {} /\ generation' = generation
               /\ \A v \in clients : NamesSent(v)' = {} /\ Named(v)'
    <3>1. suspendSent /\ clients # {}
      BY <1>4, <2>3 DEF SuspendNow, Idle
    <3>2. restartFilenames' = {} /\ generation' = generation
      BY <1>0, <1>4, <3>1 DEF ClientsNamed
    <3>3. \A v \in clients : NamesSent(v) = {} /\ Named(v)
      BY <3>1 DEF ClientsNamed, InCheckpoint
    <3>4. \A v \in clients : NamesSent(v)' = {} /\ Named(v)'
      BY <1>0, <1>9, <3>2, <3>3, NamedKept, NamesKept
    <3> QED BY <3>2, <3>4
  <2>4. Named(w)'
    BY <1>1, <1>12, <2>1 DEF Named
  <2> QED BY <1>8, <1>11, <1>12, <2>1, <2>2, <2>3, <2>4 DEF ClientsNamed
<1> QED BY <1>6, <1>13, <1>14

\* Who ends while it runs ends between two checkpoints or before it has suspended: no script is
\* written then.
LEMMA LeavesNoScript ==
  ASSUME DiskInv, RoundInv, restarts = 0, EndsRunning, NEW w \in Worker, OnDisconnect(w)
  PROVE  cstate[w] # "DRAINED" /\ script' = script
<1>1. w \in clients /\ Dead(w)
  BY DEF OnDisconnect
<1>2. PICK j \in 0 .. 7 : Round(j)
  BY NeverRestored
<1>3. RanLast(w) /\ ReportsInRound(w, j)
  BY <1>1, <1>2 DEF Round, ClientInRound, EndsRunning
<1>4. j \in {0, 7}
  BY <1>3, RanBetween
<1>5. cstate[w] # "DRAINED"
  BY <1>3, <1>4 DEF ReportsInRound, After, Level
<1> QED BY <1>5 DEF OnDisconnect, UpdateMinimumState, WriteRestartScript

\* monitorSockets and onDisconnect.
LEMMA OnDisconnectScript ==
  ASSUME DiskInv, RoundInv, restarts = 0, EndsRunning, PeersAreClients, ClientsNamed,
         NEW w \in Worker, OnDisconnect(w), coord' = "up"
  PROVE  EndsRunning' /\ PeersAreClients' /\ ClientsNamed'
<1>0. /\ clients \subseteq Worker /\ w \in clients /\ Dead(w) /\ clients' = clients \ {w}
      /\ UNCHANGED <<pc, parent, wCohort, images, toCoord, cstate, generation>>
      /\ clients' \in SUBSET Worker
  BY DEF DiskInv, TypeOK, CoordTypeOK, OnDisconnect, workerVars, identityVars
<1>1. /\ \A v \in Worker : ~Concerned(v)
      /\ InCheckpoint => suspendSent
  BY <1>0, NobodyConcerned
<1>2. /\ cstate[w] # "DRAINED" /\ script' = script
  BY LeavesNoScript
<1>3. /\ script' = script /\ restartFilenames' = restartFilenames
      /\ suspendSent' => suspendSent
      /\ ~killInProgress' /\ \A v \in Worker : AddsFitting(v)
  <2>1. CASE clients' = {}
    <3>1. /\ ~ExitOnLast /\ killInProgress' = ExitOnLast /\ toWorker' = toWorker
          /\ UNCHANGED <<script, restartFilenames, suspendSent>>
      BY <2>1 DEF OnDisconnect
    <3> QED BY <3>1 DEF AddsFitting
  <2>2. CASE clients' # {}
    <3>1. /\ UpdateMinimumState(cstate[w], clients', cstate) /\ killInProgress' = killInProgress
      BY <2>2 DEF OnDisconnect
    <3>3. /\ restartFilenames' = restartFilenames
          /\ suspendSent' => suspendSent
      BY <1>2, <3>1 DEF UpdateMinimumState, WriteRestartScript
    <3>2. PICK C \in SUBSET Worker : C = clients'
      BY <1>0
    <3>4. \A v \in Worker : AddsFitting(v)
      BY <3>1, <3>2, UpdateAdds
    <3> QED BY <1>2, <3>1, <3>3, <3>4 DEF EndsRunning
  <2> QED BY <2>1, <2>2
<1>4. /\ PeersAreClients'
      /\ \A v \in Worker : \A i \in 1 .. Len(toWorker'[v]) : toWorker'[v][i].type # "KILL_PEER"
  BY <1>0, <1>1, <1>3, CoordinatorPeers
<1>5. EndsRunning'
  BY <1>0, <1>3, <1>4, RanLastKept, CoordinatorEnds
<1>6. InCheckpoint' => suspendSent
  <2> SUFFICES ASSUME InCheckpoint', ~suspendSent PROVE FALSE
    OBVIOUS
  <2>1. \E v \in clients' : Level(cstate'[v]) \in 1 .. 2 \/ cstate'[v] = "DRAINED"
    BY <1>3 DEF InCheckpoint
  <2> QED BY <1>0, <1>1, <2>1 DEF InCheckpoint
<1>7. ClientsNamed'
  <2>1. \A v \in Worker : NameThenReport(toCoord'[v]) /\ NamesSent(v)' = NamesSent(v)
    BY <1>0, NamesKept DEF ClientsNamed
  <2>2. \A v \in clients : Named(v) => Named(v)'
    BY <1>0, <1>3, NamedKept
  <2>3. suspendSent => /\ restartFilenames = {} /\ \A v \in clients : NamesSent(v) = {}
                       /\ \A v \in clients : Named(v)
    BY DEF ClientsNamed, InCheckpoint
  <2> QED BY <1>0, <1>3, <1>6, <2>1, <2>2, <2>3 DEF ClientsNamed
<1> QED BY <1>3, <1>4, <1>5, <1>7

\* A report reaches the coordinator; only the last that an image is complete writes a script.
LEMMA OnOkScript ==
  ASSUME DiskInv, RoundInv, restarts = 0, EndsRunning, PeersAreClients, ClientsNamed,
         NEW w \in Worker, OnOk(w)
  PROVE  EndsRunning' /\ PeersAreClients' /\ ClientsNamed'
<1>0. /\ clients \subseteq Worker /\ w \in clients /\ clients' = clients
      /\ cstate \in [Worker -> WorkerState] /\ toCoord \in [Worker -> Seq(ToCoordMsg)]
      /\ UNCHANGED <<pc, parent, wCohort, images, generation, killInProgress>>
      /\ toCoord[w] # <<>> /\ Head(toCoord[w]).type = "OK"
      /\ toCoord' = [toCoord EXCEPT ![w] = Tail(@)]
      /\ cstate' = [cstate EXCEPT ![w] = Head(toCoord[w]).state]
      /\ UpdateMinimumState(cstate[w], clients, cstate')
  BY DEF DiskInv, TypeOK, CoordTypeOK, NetTypeOK, OnOk, Arrives, Readable, workerVars, identityVars
<1>1. /\ cstate'[w] = Head(toCoord[w]).state
      /\ \A v \in Worker \ {w} : cstate'[v] = cstate[v] /\ toCoord'[v] = toCoord[v]
      /\ cstate'[w] \in WorkerState /\ cstate' \in [Worker -> WorkerState]
      /\ Head(toCoord[w]) = toCoord[w][1] /\ 1 \in Reports(w)
  <2>1. 1 \in Reports(w) /\ Head(toCoord[w]) = toCoord[w][1]
    BY <1>0 DEF Reports
  <2>2. toCoord[w][1].state \in WorkerState
    BY <2>1, Positions
  <2> QED BY <1>0, <2>1, <2>2
<1>2. \A v \in Worker : AddsFitting(v)
  <2>1. PICK C \in SUBSET Worker : C = clients
    BY <1>0
  <2> QED BY <1>0, <2>1, UpdateAdds
<1>3. /\ PeersAreClients'
      /\ \A v \in Worker : \A i \in 1 .. Len(toWorker'[v]) : toWorker'[v][i].type # "KILL_PEER"
  BY <1>0, <1>2, CoordinatorPeers
<1>4. EndsRunning'
  <2>1. RanLast(w) => RanLast(w)'
    BY <1>0, <1>1, RanLastRead
  <2>2. \A v \in clients : RanLast(v) => RanLast(v)'
    BY <1>0, <1>1, <2>1, RanLastKept
  <2> QED BY <1>0, <1>3, <2>2, CoordinatorEnds DEF EndsRunning
<1>5. /\ \A v \in Worker : NameThenReport(toCoord'[v]) /\ NamesSent(v)' \subseteq NamesSent(v)
  <2>1. NameThenReport(toCoord'[w]) /\ NamesSent(w)' \subseteq NamesSent(w)
    BY <1>0, TakesNames DEF ClientsNamed
  <2> QED BY <1>1, <2>1, NamesKept DEF ClientsNamed
<1>6. /\ suspendSent' => suspendSent
      /\ restartFilenames' = restartFilenames \/ restartFilenames' = {}
  BY <1>0 DEF UpdateMinimumState, WriteRestartScript
<1>7. ASSUME InCheckpoint'
      PROVE  InCheckpoint
  <2>1. CASE suspendSent'
    BY <1>6, <2>1 DEF InCheckpoint
  <2>2. CASE ~suspendSent'
    <3>1. PICK v \in clients : Level(cstate'[v]) \in 1 .. 2 \/ cstate'[v] = "DRAINED"
      BY <1>0, <1>7, <2>2 DEF InCheckpoint
    <3>2. CASE v # w
      BY <1>0, <1>1, <3>1, <3>2 DEF InCheckpoint
    <3>3. CASE v = w
      <4>1. Said(w, 1) \in 1 .. 3
        BY <1>1, <3>1, <3>3 DEF Said, Level
      <4> QED BY <1>0, <1>1, <4>1, ReportInCheckpoint
    <3> QED BY <3>2, <3>3
  <2> QED BY <2>1, <2>2
<1>8. ASSUME InCheckpoint'
      PROVE  restartFilenames' = restartFilenames
  <2> SUFFICES ASSUME cstate[w] = "DRAINED", MinimumState(clients, cstate') = "CHECKPOINTED"
               PROVE  FALSE
    BY <1>0 DEF UpdateMinimumState, WriteRestartScript
  <2>1. LowestState(clients, cstate') = "CHECKPOINTED"
    BY DEF MinimumState
  <2>2. PICK C \in SUBSET Worker : C = clients /\ C # {}
    BY <1>0
  <2>3. PICK cs \in [Worker -> WorkerState] : cs = cstate'
    BY <1>1
  <2>4. \A v \in clients : Level("CHECKPOINTED") <= Level(cs[v])
    BY <2>1, <2>2, <2>3, LowestAttained
  <2>5. \A v \in clients : Level(cstate'[v]) \notin 1 .. 2 /\ cstate'[v] # "DRAINED"
    BY <2>3, <2>4 DEF Level
  <2>6. suspendSent
    BY <1>0, <1>6, <1>8, <2>5 DEF InCheckpoint
  <2>7. Round(0) /\ ReportsInRound(w, 0)
    BY <1>0, <2>6, NeverRestored DEF Round, ClientInRound
  <2> QED BY <2>7 DEF ReportsInRound, After, Level
<1>9. ASSUME InCheckpoint'
      PROVE  \A v \in clients : Named(v)'
  <2>1. \A v \in clients : Named(v)
    BY <1>7, <1>9 DEF ClientsNamed
  <2>2. restartFilenames' = restartFilenames
    BY <1>8, <1>9
  <2>3. NameThenReport(toCoord[w]) /\ ~IsName(Head(toCoord[w]))
    BY <1>0 DEF ClientsNamed, IsName
  <2>4. Named(w)'
    BY <1>0, <1>1, <2>1, <2>2, <2>3, NamedRead
  <2>5. \A v \in clients \ {w} : Named(v)'
    BY <1>0, <1>1, <2>1, <2>2, NamedKept
  <2> QED BY <2>4, <2>5
<1>10. \A v \in Worker : NameOf(v, generation)' = NameOf(v, generation)
  BY <1>0 DEF NameOf
<1>11. ClientsNamed'
  BY <1>0, <1>5, <1>6, <1>7, <1>8, <1>9, <1>10 DEF ClientsNamed
<1> QED BY <1>3, <1>4, <1>11

\* A name or an address reaches the coordinator.
LEMMA OnDataScript ==
  ASSUME DiskInv, RoundInv, restarts = 0, EndsRunning, PeersAreClients, ClientsNamed,
         NEW w \in Worker, OnCkptFilename(w) \/ OnRegister(w)
  PROVE  EndsRunning' /\ PeersAreClients' /\ ClientsNamed'
<1>0. /\ clients \subseteq Worker /\ w \in clients
      /\ UNCHANGED <<pc, parent, wCohort, images, generation, killInProgress, clients, cstate,
                     toWorker, suspendSent>>
      /\ toCoord[w] # <<>> /\ Head(toCoord[w]).type # "OK"
      /\ toCoord' = [toCoord EXCEPT ![w] = Tail(@)]
      /\ \/ restartFilenames' = restartFilenames /\ ~IsName(Head(toCoord[w]))
         \/ /\ restartFilenames' = restartFilenames \cup {Head(toCoord[w]).file}
            /\ IsName(Head(toCoord[w]))
  BY DEF DiskInv, TypeOK, CoordTypeOK, OnCkptFilename, OnRegister, Arrives, Readable, workerVars,
     identityVars, diskVars, IsName
<1>1. /\ \A v \in Worker \ {w} : toCoord'[v] = toCoord[v]
      /\ \A v \in Worker : AddsFitting(v)
  BY <1>0 DEF AddsFitting, DiskInv, TypeOK, NetTypeOK
<1>2. /\ PeersAreClients'
      /\ \A v \in Worker : \A i \in 1 .. Len(toWorker'[v]) : toWorker'[v][i].type # "KILL_PEER"
  BY <1>0, <1>1, CoordinatorPeers
<1>3. EndsRunning'
  <2>1. RanLast(w) => RanLast(w)'
    BY <1>0, RanLastRead
  <2>2. \A v \in clients : RanLast(v) => RanLast(v)'
    BY <1>0, <1>1, <2>1, RanLastKept
  <2> QED BY <1>0, <1>2, <2>2, CoordinatorEnds DEF EndsRunning
<1>4. /\ NameThenReport(toCoord[w])
      /\ NameThenReport(toCoord'[w]) /\ NamesSent(w)' \subseteq NamesSent(w)
      /\ IsName(Head(toCoord[w])) => Head(toCoord[w]).file \in NamesSent(w)
  BY <1>0, TakesNames DEF ClientsNamed
<1>5. \A v \in Worker : NameThenReport(toCoord'[v]) /\ NamesSent(v)' \subseteq NamesSent(v)
  BY <1>1, <1>4, NamesKept DEF ClientsNamed
<1>6. suspendSent' => restartFilenames' = {} /\ \A v \in clients : NamesSent(v)' = {}
  BY <1>0, <1>4, <1>5 DEF ClientsNamed
<1>7. /\ InCheckpoint' = InCheckpoint
      /\ \A v \in Worker : NameOf(v, generation)' = NameOf(v, generation)
  BY <1>0 DEF InCheckpoint, NameOf
<1>8. ASSUME InCheckpoint
      PROVE  /\ restartFilenames' \subseteq {NameOf(v, generation) : v \in clients}
             /\ \A v \in clients : Named(v)'
  <2>1. /\ \A v \in clients : Named(v)
        /\ restartFilenames \subseteq {NameOf(v, generation) : v \in clients}
    BY <1>8 DEF ClientsNamed
  <2>2. IsName(Head(toCoord[w])) =>
          Head(toCoord[w]).file \in {NameOf(v, generation) : v \in clients}
    <3>1. NamesSent(w) \subseteq {NameOf(w, generation)}
      BY <1>0, <2>1 DEF Named
    <3> QED BY <1>0, <1>4, <3>1
  <2>3. /\ restartFilenames \subseteq restartFilenames'
        /\ IsName(Head(toCoord[w])) => Head(toCoord[w]).file \in restartFilenames'
    BY <1>0
  <2>4. Named(w)'
    BY <1>0, <1>4, <2>1, <2>3, NamedRead
  <2>5. \A v \in clients \ {w} : Named(v)'
    BY <1>0, <1>1, <2>1, <2>3, NamedKept
  <2> QED BY <1>0, <2>1, <2>2, <2>4, <2>5
<1>9. ClientsNamed'
  BY <1>0, <1>5, <1>6, <1>7, <1>8 DEF ClientsNamed
<1> QED BY <1>2, <1>3, <1>9

\* A checkpoint is asked for when nobody is in one, and its list of names is empty.
LEMMA UserScript ==
  ASSUME Commands \cap {"k", "f", "q"} = {}, DiskInv, RoundInv, restarts = 0,
         EndsRunning, PeersAreClients, ClientsNamed, UserStep
  PROVE  EndsRunning' /\ PeersAreClients' /\ ClientsNamed'
<1>0. /\ clients \subseteq Worker /\ toWorker \in [Worker -> Seq(ToWorkerMsg)]
      /\ compId \in Group
  BY DEF DiskInv, TypeOK, CoordTypeOK, NetTypeOK
<1>1. /\ UNCHANGED <<pc, parent, wCohort, images, clients, cstate, toCoord>>
      /\ \/ StartCheckpoint /\ killInProgress' = killInProgress
         \/ /\ InitializeComputation /\ toWorker' = toWorker /\ restartFilenames' = restartFilenames
  BY DEF UserStep, OnTimeoutInterval, CommandBlock, CommandCheckpoint, CommandKill, CommandForce,
     CommandQuit, UserCommand, workerVars, identityVars, netVars, diskVars
<1>2. /\ ~killInProgress' /\ \A v \in clients : RanLast(v) => RanLast(v)'
  <2>1. \A v \in clients : toCoord'[v] = toCoord[v] /\ cstate'[v] = cstate[v]
    BY <1>1
  <2>2. ~killInProgress'
    BY <1>1 DEF EndsRunning, InitializeComputation, KillNow
  <2> QED BY <2>1, <2>2, RanLastKept
<1>3. \A v \in Worker : NameThenReport(toCoord'[v]) /\ NamesSent(v)' = NamesSent(v)
  BY <1>1, NamesKept DEF ClientsNamed
<1>4. CASE StartCheckpoint
  <2>1. Round(0) /\ clients # {} /\ \A v \in clients : ~Told(v, 0)
    BY <1>4, CheckpointAccepted DEF StartCheckpoint
  <2>2. /\ \A v \in Worker : ~Concerned(v)
        /\ suspendSent' /\ restartFilenames' = {} /\ generation' \in Generation
        /\ toWorker' = Post(toWorker, clients, DoSuspend(compId, generation'))
    <3>1. \A v \in Worker : ~Concerned(v)
      BY <2>1, ConcernedInRound
    <3>2. generation' \in Generation
      BY <1>4, BoundAssumption DEF StartCheckpoint, Generation, DiskInv, TypeOK, CoordTypeOK
    <3> QED BY <1>4, <3>1, <3>2 DEF StartCheckpoint
  <2>3. \A v \in Worker : AddsFitting(v)
    <3>1. PICK m \in ToWorkerMsg : m = DoSuspend(compId, generation')
      BY <1>0, <2>2, OrderTypes
    <3>2. Fits(m)
      BY <3>1 DEF Fits, DoSuspend
    <3>3. toWorker' = Post(toWorker, clients, m)
      BY <2>2, <3>1
    <3> QED BY <3>2, <3>3, PostFits
  <2>4. /\ PeersAreClients'
        /\ \A v \in Worker : \A i \in 1 .. Len(toWorker'[v]) : toWorker'[v][i].type # "KILL_PEER"
    BY <1>1, <2>2, <2>3, CoordinatorPeers
  <2>5. EndsRunning'
    BY <1>1, <1>2, <2>4, CoordinatorEnds
  <2>6. ASSUME NEW v \in clients
        PROVE  NamesSent(v)' = {} /\ Named(v)'
    <3>1. /\ v \in Worker /\ NameThenReport(toCoord[v]) /\ Level(cstate[v]) \in {0, 1}
          /\ \A i \in Reports(v) : Said(v, i) \in {0, 1}
      BY <1>0, <2>1 DEF Round, ClientInRound, ReportsInRound, After, ClientsNamed
    <3>2. NamesSent(v)' = {}
      BY <1>3, <3>1, NameMeansReport
    <3>3. /\ cstate'[v] # "CHECKPOINTED"
          /\ \A i \in Reports(v)' : toCoord'[v][i].state # "CHECKPOINTED"
      BY <1>1, <3>1 DEF Reports, Said, Level
    <3> QED BY <3>2, <3>3 DEF Named
  <2> QED BY <1>1, <1>3, <2>2, <2>4, <2>5, <2>6 DEF ClientsNamed
<1>5. CASE /\ InitializeComputation /\ toWorker' = toWorker /\ restartFilenames' = restartFilenames
  <2>1. /\ suspendSent' => suspendSent /\ clients # {}
        /\ clients = {} \/ generation' = generation
    BY <1>5 DEF InitializeComputation, SuspendNow, GenNow, Idle
  <2>2. /\ clients = {} => \A v \in Worker : ~Concerned(v)
        /\ \A v \in Worker : AddsFitting(v)
    BY <1>5, NobodyConcerned DEF AddsFitting
  <2>3. /\ PeersAreClients'
        /\ \A v \in Worker : \A i \in 1 .. Len(toWorker'[v]) : toWorker'[v][i].type # "KILL_PEER"
    BY <1>1, <2>1, <2>2, CoordinatorPeers
  <2>4. EndsRunning'
    BY <1>1, <1>2, <2>3, CoordinatorEnds
  <2>5. ClientsNamed'
    BY <1>1, <1>3, <1>5, <2>1, QuietNamed
  <2> QED BY <2>3, <2>4, <2>5
<1> QED BY <1>1, <1>4, <1>5

-----------------------------------------------------------------------------
(* The invariant, and the theorem. *)

\* Nobody is there at first.
LEMMA InitScript == Init => ScriptInv
<1> SUFFICES ASSUME Init PROVE ScriptInv
  OBVIOUS
<1>1. \A w \in Worker : /\ toCoord[w] = <<>> /\ toWorker[w] = <<>> /\ parent[w] = Nobody
                        /\ pc[w] = "unborn"
  BY DEF Init
<1>2. EndsRunning
  BY <1>1 DEF Init, EndsRunning
<1>3. PeersAreClients
  BY <1>1 DEF PeersAreClients, Knowing
<1>4. ClientsNamed
  BY <1>1 DEF Init, ClientsNamed, NameThenReport, InCheckpoint
<1> QED BY <1>2, <1>3, <1>4 DEF ScriptInv

\* No process is restored when there is no restart.
LEMMA NoRestarts ==
  ASSUME MaxRestart = 0, DiskInv, RoundInv, Next
  PROVE  restarts = 0 /\ ~RunScript /\ \A f : ~RestartStep(f)
<1>1. restarts = 0 /\ ~RunScript
  BY DEF DiskInv, TypeOK, EnvTypeOK, RunScript
<1> QED BY <1>1, NeverRestored DEF RestartStep, RestartProcess

\* No step, when no process crashes, is killed or restored.
LEMMA NextScript ==
  ASSUME MaxCrash = 0, MaxRestart = 0, Commands \cap {"k", "f", "q"} = {}
  PROVE  DiskInv /\ RoundInv /\ MessageInv /\ ScriptInv /\ [Next]_vars => ScriptInv'
<1> SUFFICES ASSUME DiskInv, RoundInv, MessageInv, ScriptInv, [Next]_vars, coord' = "up"
             PROVE  EndsRunning' /\ PeersAreClients' /\ ClientsNamed'
  BY DEF ScriptInv
<1>1. CASE UNCHANGED vars
  <2>1. /\ coord = "up"
        /\ \A w : /\ NamesSent(w)' = NamesSent(w) /\ Reports(w)' = Reports(w)
                  /\ RanLast(w)' <=> RanLast(w)
    <3>1. UNCHANGED <<coord, toCoord, cstate>>
      BY <1>1 DEF vars, coordVars, netVars
    <3>2. \A w : /\ NamesSent(w)' = NamesSent(w) /\ Reports(w)' = Reports(w)
                 /\ RanLast(w)' <=> RanLast(w)
      BY <3>1 DEF NamesSent, Reports, RanLast, Said, IsName
    <3> QED BY <3>1, <3>2
  <2>2. \A w : NameOf(w, generation)' = NameOf(w, generation) /\ (Named(w)' <=> Named(w))
    BY <1>1, <2>1 DEF vars, coordVars, netVars, NameOf, Named
  <2> QED BY <1>1, <2>1, <2>2 DEF vars, coordVars, workerVars, identityVars, netVars, diskVars,
          ScriptInv, EndsRunning, Dead, PeersAreClients, Knowing, ClientsNamed, InCheckpoint
<1>2. CASE Next
  <2>1. restarts = 0 /\ ~RunScript /\ \A f : ~RestartStep(f)
    BY <1>2, NoRestarts
  <2>2. ASSUME coord = "up"
        PROVE  EndsRunning /\ PeersAreClients /\ ClientsNamed
    BY <2>2 DEF ScriptInv
  <2>3. ASSUME NEW w \in Worker, CoordinatorStep(w)
        PROVE  EndsRunning' /\ PeersAreClients' /\ ClientsNamed'
    <3>1. coord = "up"
      BY <2>3 DEF CoordinatorStep, OnConnect, OnDisconnect, OnOk, OnCkptFilename, OnRegister,
         OnQuery, Arrives, Readable
    <3>2. ~OnQuery(w)
      <4>1. toCoord[w] \in Seq(ToCoordMsg) /\ NoQuery(w)
        BY <2>1 DEF DiskInv, TypeOK, NetTypeOK, MessagesOf, MessageInv
      <4>2. toCoord[w] # <<>> => Head(toCoord[w]) = toCoord[w][1] /\ 1 \in 1 .. Len(toCoord[w])
        BY <4>1
      <4> QED BY <4>1, <4>2 DEF OnQuery, Arrives, Readable, NoQuery
    <3> QED BY <2>1, <2>2, <2>3, <3>1, <3>2, OnConnectScript, OnDisconnectScript, OnOkScript,
               OnDataScript DEF CoordinatorStep
  <2>4. ASSUME NEW w \in Worker, WorkerStep(w) \/ UserProcessStep(w)
        PROVE  EndsRunning' /\ PeersAreClients' /\ ClientsNamed'
    <3> DEFINE Living ==
                 \/ Handshake(w) \/ TurnedAway(w) \/ WaitForStage1Suspend(w) \/ Suspend(w)
                 \/ WaitForCoordinatorMsg(w) \/ FinishStage(w) \/ RegisterNSData(w)
                 \/ SendQueries(w) \/ QueryAnswered(w) \/ Resume(w) \/ CoordinatorLost(w)
                 \/ InformCoordinatorOfRUNNINGState(w) \/ FinishFork(w) \/ Exit(w) \/ Crash(w)
    <3>1. /\ CoordinatorKept
          /\ \/ WriteImage(w)
             \/ Living /\ images' = images
             \/ (Launch(w) \/ \E c \in Worker : BeginFork(w, c)) /\ images' = images
      BY <2>4 DEF WorkerStep, CkptThreadStep, MainThreadStep, UserProcessStep, diskVars
    <3>2. coord = "up"
      BY <2>4 DEF WorkerStep, CkptThreadStep, MainThreadStep, UserProcessStep, CoordinatorLost,
         Handshake, TurnedAway, WaitForStage1Suspend, Suspend, WaitForCoordinatorMsg, FinishStage,
         RegisterNSData, SendQueries, QueryAnswered, Resume, InformCoordinatorOfRUNNINGState,
         FinishFork, Exit, Crash, Launch, BeginFork, WriteImage
    <3>3. CASE WriteImage(w)
      BY <2>1, <2>2, <3>1, <3>2, <3>3, WriteScript
    <3>4. CASE Living /\ images' = images
      <4>1. /\ EndsWhereItRuns /\ ForksRun /\ LearnsPeers /\ \A v \in Worker : Lost(v)
            /\ toCoord' = toCoord \/ \E u \in Worker : ReportsNoImage(u)
        BY <2>1, <2>2, <3>2, <3>4, LivingScript
      <4> QED BY <2>1, <2>2, <3>1, <3>2, <3>4, <4>1, EndsKept, PeersKept, NamesStay
    <3>5. CASE (Launch(w) \/ \E c \in Worker : BeginFork(w, c)) /\ images' = images
      BY <2>2, <3>1, <3>2, <3>5, BirthScript
    <3> QED BY <3>1, <3>3, <3>4, <3>5
  <2>5. ASSUME UserStep
        PROVE  EndsRunning' /\ PeersAreClients' /\ ClientsNamed'
    <3>1. coord = "up"
      BY <2>5 DEF UserStep, OnTimeoutInterval, CommandBlock, CommandCheckpoint, CommandKill,
         CommandForce, CommandQuit, UserCommand
    <3> QED BY <2>1, <2>2, <2>5, <3>1, UserScript
  <2> QED BY <1>2, <2>1, <2>3, <2>4, <2>5 DEF Next
<1> QED BY <1>1, <1>2

\* The script written by the step of an invariant state.
LEMMA ScriptWritten ==
  ASSUME DiskInv, RoundInv, restarts = 0, EndsRunning, PeersAreClients, ClientsNamed,
         NEW w \in Worker, OnOk(w), script' # script
  PROVE  \A f \in script' : images'[f].cohort = {g[1] : g \in script'}
<1>0. /\ clients \subseteq Worker /\ w \in clients /\ images' = images /\ generation \in Generation
      /\ cstate \in [Worker -> WorkerState] /\ toCoord \in [Worker -> Seq(ToCoordMsg)]
      /\ toCoord[w] # <<>> /\ Head(toCoord[w]).type = "OK"
      /\ cstate' = [cstate EXCEPT ![w] = Head(toCoord[w]).state]
      /\ UpdateMinimumState(cstate[w], clients, cstate')
  BY DEF DiskInv, TypeOK, CoordTypeOK, NetTypeOK, OnOk, Arrives, Readable
<1>1. /\ cstate[w] = "DRAINED" /\ script' = restartFilenames /\ InCheckpoint
      /\ LowestState(clients, cstate') = "CHECKPOINTED"
  BY <1>0 DEF UpdateMinimumState, WriteRestartScript, MinimumState, InCheckpoint
<1>2. /\ cstate'[w] = Head(toCoord[w]).state /\ \A v \in Worker \ {w} : cstate'[v] = cstate[v]
      /\ Head(toCoord[w]) = toCoord[w][1] /\ 1 \in Reports(w) /\ cstate' \in [Worker -> WorkerState]
  <2>1. 1 \in Reports(w) /\ Head(toCoord[w]) = toCoord[w][1]
    BY <1>0 DEF Reports
  <2>2. toCoord[w][1].state \in WorkerState
    BY <2>1, Positions
  <2> QED BY <1>0, <2>1, <2>2
<1>3. \A v \in clients : Level(cstate'[v]) >= 4
  <2>1. PICK C \in SUBSET Worker : C = clients /\ C # {}
    BY <1>0
  <2>2. PICK cs \in [Worker -> WorkerState] : cs = cstate'
    BY <1>2
  <2>3. /\ \A v \in C : Level(LowestState(C, cs)) <= Level(cs[v])
        /\ LowestState(C, cs) = "CHECKPOINTED" /\ Level("CHECKPOINTED") = 4
    BY <1>1, <2>1, <2>2, LowestAttained DEF Level
  <2>4. \A v \in C : Level(cs[v]) \in 0 .. 7
    BY <2>1 DEF Level
  <2> QED BY <2>1, <2>2, <2>3, <2>4
<1>4. PICK j \in 0 .. 7 : Round(j)
  BY NeverRestored
<1>5. After(j) = IF j = 7 THEN 0 ELSE j + 1
  BY DEF After
<1>6. j = 3
  <2>1. Level(cstate[w]) = 3
    BY <1>1 DEF Level
  <2>2. ReportsInRound(w, j)
    BY <1>0, <1>4 DEF Round, ClientInRound
  <2>3. Said(w, 1) >= 4 /\ Said(w, 1) \in {j, After(j)}
    BY <1>0, <1>2, <1>3, <2>2 DEF ReportsInRound, Said
  <2> QED BY <1>5, <2>1, <2>2, <2>3 DEF ReportsInRound
<1>7. ASSUME NEW v \in clients
      PROVE  /\ images[NameOf(v, generation)].cohort = clients
             /\ NameOf(v, generation) \in restartFilenames
  <2>1. /\ v \in Worker /\ Alive(v) /\ Named(v)
    BY <1>0, <1>1, <1>4, <1>6, InsideRound DEF ClientsNamed
  <2>2. ClientInRound(v, 3) /\ After(3) = 4
    BY <1>4, <1>5, <1>6 DEF Round
  <2>3. Told(v, 3)
    <3>1. CASE v = w
      <4>1. Said(w, 1) \in {3, 4} /\ Said(w, 1) >= 4
        BY <1>2, <1>3, <2>2, <3>1 DEF ClientInRound, ReportsInRound, Said
      <4> QED BY <1>2, <2>2, <3>1, <4>1 DEF Told
    <3>2. CASE v # w
      <4>1. Level(cstate[v]) >= 4 /\ Level(cstate[v]) \in {3, 4}
        BY <1>2, <1>3, <2>1, <2>2, <3>2 DEF ClientInRound, ReportsInRound
      <4> QED BY <2>2, <4>1 DEF Told
    <3> QED BY <3>1, <3>2
  <2>4. Reached(v) = 4 /\ (pc[v] \in WorkPoint => Reached(v) = 3)
    BY <2>1, <2>2, <2>3 DEF ClientInRound, PlaceInRound
  <2>5. pc[v] = "written"
    BY <2>4 DEF Reached, WorkPoint
  <2>6. \A s \in WorkerState : Level(s) = 4 => s = "CHECKPOINTED"
    BY DEF Level
  <2>7. NameOf(v, generation) \in restartFilenames
    <3>1. CASE v = w
      <4>1. toCoord[w][1].state = "CHECKPOINTED"
        <5>1. Said(w, 1) = 4 /\ toCoord[w][1].state \in WorkerState
          <6>1. Said(w, 1) \in {3, 4} /\ Said(w, 1) >= 4
            BY <1>2, <1>3, <2>2, <3>1 DEF ClientInRound, ReportsInRound, Said
          <6> QED BY <1>0, <1>2, <6>1, Positions
        <5> QED BY <2>6, <5>1 DEF Said
      <4>2. \A k \in 1 .. Len(toCoord[w]) : ~(k < 1)
        BY <1>0
      <4> QED BY <1>2, <2>1, <3>1, <4>1, <4>2 DEF Named
    <3>2. CASE v # w
      <4>1. Level(cstate[v]) = 4 /\ cstate[v] \in WorkerState
        BY <1>0, <1>2, <1>3, <2>1, <2>2, <3>2 DEF ClientInRound, ReportsInRound
      <4> QED BY <2>1, <2>6, <4>1 DEF Named
    <3> QED BY <3>1, <3>2
  <2> QED BY <2>1, <2>5, <2>7 DEF PeersAreClients
<1>8. restartFilenames = {NameOf(v, generation) : v \in clients}
  BY <1>1, <1>7 DEF ClientsNamed
<1>9. \A v \in clients : NameOf(v, generation)[1] = v
  BY <1>0, FileNameType
<1>10. {g[1] : g \in script'} = clients
  BY <1>1, <1>8, <1>9
<1> QED BY <1>0, <1>1, <1>7, <1>8, <1>10

\* When no process crashes, is killed or is restored, whoever forks, joins and ends meanwhile, a
\* restart script names exactly the processes that each image it names believes to be its peers.
THEOREM ScriptComplete ==
  ASSUME MaxCrash = 0, MaxRestart = 0, Commands \cap {"k", "f", "q"} = {}
  PROVE  Spec => ScriptNamesEveryPeer
<1> DEFINE Inv == DiskInv /\ RoundInv /\ MessageInv /\ ScriptInv
           Step == script' # script => \A f \in script' : images'[f].cohort = {g[1] : g \in script'}
<1>1. Init => Inv
  BY InitDiskInv, InitRound, InitMessages, InitScript
<1>2. Inv /\ [Next]_vars => Inv'
  <2>1. "f" \notin Commands
    OBVIOUS
  <2> QED BY <2>1, NextDiskInv, NextRound, NextMessages, NextScript
<1>3. Inv /\ [Next]_vars => Step
  <2> SUFFICES ASSUME DiskInv, RoundInv, ScriptInv, [Next]_vars, script' # script PROVE Step
    OBVIOUS
  <2>1. Next /\ restarts = 0
    <3>1. Next
      BY DEF vars, diskVars
    <3> QED BY <3>1, NoRestarts
  <2>2. PICK w \in Worker : OnOk(w) \/ OnDisconnect(w)
    BY <2>1, NoRestarts DEF Next, CoordinatorStep, WorkerStep, CkptThreadStep, MainThreadStep,
       UserProcessStep, WriteImage, UserStep, OnTimeoutInterval, CommandBlock, CommandCheckpoint,
       CommandKill, CommandForce, CommandQuit, OnConnect, OnCkptFilename, OnRegister, OnQuery,
       diskVars
  <2>3. EndsRunning /\ PeersAreClients /\ ClientsNamed /\ coord = "up"
    BY <2>2 DEF ScriptInv, OnOk, OnDisconnect, Arrives, Readable
  <2>4. ~OnDisconnect(w)
    BY <2>1, <2>3, LeavesNoScript
  <2> QED BY <2>1, <2>2, <2>3, <2>4, ScriptWritten
<1>4. Spec => [][Step]_vars
  <2>1. Inv /\ [Next]_vars => [Step]_vars
    BY <1>3
  <2> QED BY <1>1, <1>2, <2>1, PTL DEF Spec
<1> QED BY <1>4 DEF ScriptNamesEveryPeer
=============================================================================
