------------------------------ MODULE Terminals ------------------------------
(***************************************************************************)
(* Pseudo-terminals and a FIFO across a checkpoint and a restart (ipc/file *)
(* with its wrappers, SharedData's names of terminals).  A program is told *)
(* a virtual name, and the shared area says which device it stands for: a  *)
(* restart opens the masters anew, under whatever names the kernel gives,  *)
(* and then the slaves by the names their masters have entered.            *)
(***************************************************************************)
EXTENDS Integers, Sequences, SequencesExt, FiniteSets

CONSTANTS
  Term,          \* the terminals that programs open
  Device,        \* the names /dev/pts/<n> the kernel gives
  MasterProc,    \* [Term -> the process that opens it]
  SlaveProc,     \* [Term -> the process that opens its slave]
  LeaderOf,      \* [processes -> the leader of their session]
  FifoProcs,     \* the processes that have the FIFO open
  PacketTerms,   \* the terminals that their programs put in packet mode
  NoDevice,
  MaxVirtual,    \* bound on the virtual names made
  FifoRoom,      \* bound on the data in the FIFO
  MaxPtyCkpt,    \* bounds on the checkpoints
  MaxPtyRestart  \* and the restarts

PtyProc == {MasterProc[t] : t \in Term} \cup {SlaveProc[t] : t \in Term} \cup FifoProcs

ASSUME TerminalsAssumption ==
  /\ NoDevice \notin Device /\ LeaderOf \in [PtyProc -> PtyProc]
  /\ {MaxVirtual, FifoRoom, MaxPtyCkpt, MaxPtyRestart} \subseteq Nat

VARIABLES
  ptyNameMap,    \* the shared area: a sequence of [real, virt]
  nextPtyId,     \* and nextVirtualPtyId; 0 while a restart has no area yet
  ownPtyId,      \* [PtyProc -> nextVirtualPtyId of the process]
  master,        \* [Term -> the master's connection: device and virtual name]
  slave,         \* [Term -> the slave's]
  packetMode,    \* [Term -> whether the master is in packet mode]
  sawPacket,     \* [Term -> _ptmxIsPacketMode]
  ctty,          \* [PtyProc -> the controlling terminal of the session it leads]
  devTty,        \* the processes that have /dev/tty open
  fifo,          \* the data in the FIFO
  inData,        \* [FifoProcs -> _in_data]
  ptyStage,      \* [PtyProc -> how far each is]
  ptySaved,      \* what the images hold
  ptyCounts      \* checkpoints and restarts so far

areaVars == <<ptyNameMap, nextPtyId, ownPtyId>>
endVars == <<master, slave, packetMode, sawPacket>>
ttyVars == <<ctty, devTty>>
fifoVars == <<fifo, inData>>
termVars == <<areaVars, endVars, ttyVars, fifoVars, ptyStage, ptySaved, ptyCounts>>

NoEnd == [dev |-> NoDevice, virt |-> 0]
Has(end, t) == end[t].virt # 0
Used == {master[t].dev : t \in Term} \cup {slave[t].dev : t \in Term}
AllAt(stages) == \A p \in PtyProc : ptyStage[p] \in stages
PtyGoes(p, stage) == ptyStage' = [ptyStage EXCEPT ![p] = stage]
PtysRun == AllAt({"run"})

\* getRealPtyName and getVirtPtyName: the first entry that has the other name.
RealName(v) ==
  LET i == SelectInSeq(ptyNameMap, LAMBDA e : e.virt = v) IN IF i = 0 THEN NoDevice ELSE ptyNameMap[i].real
VirtName(map, d) ==
  LET i == SelectInSeq(map, LAMBDA e : e.real = d) IN IF i = 0 THEN 0 ELSE map[i].virt
\* createVirtualPtyName, insertPtyNameMap
Entered(map, v, d) == Append(map, [real |-> d, virt |-> v])

\* The connection of an end, as its constructor makes it: a master gets a new virtual
\* name, a slave the one it finds for the device.
MasterOf(d) == [dev |-> d, virt |-> nextPtyId]
SlaveOf(d) == [dev |-> d, virt |-> VirtName(ptyNameMap, d)]
\* What ptsname tells the program.
PtsName(t) == master[t].virt

PtySaving == [master |-> master, slave |-> slave, sawPacket |-> sawPacket, devTty |-> devTty,
              inData |-> inData, fifo |-> fifo]

TermInit ==
  /\ ptyNameMap = <<>> /\ nextPtyId = 1 /\ ownPtyId = [p \in PtyProc |-> 0]
  /\ master = [t \in Term |-> NoEnd] /\ slave = master
  /\ packetMode = [t \in Term |-> FALSE] /\ sawPacket = packetMode
  /\ ctty = [p \in PtyProc |-> NoDevice] /\ devTty = {}
  /\ fifo = <<>> /\ inData = [p \in FifoProcs |-> <<>>]
  /\ ptyStage = [p \in PtyProc |-> "run"]
  /\ ptySaved = PtySaving /\ ptyCounts = [ckpt |-> 0, restart |-> 0]

(***************************************************************************)
(* The programs.                                                           *)
(***************************************************************************)
\* getpt, posix_openpt or open("/dev/ptmx"), then processFileConnection.
OpenMaster(t) ==
  /\ PtysRun /\ ~Has(master, t) /\ ~Has(slave, t) /\ nextPtyId <= MaxVirtual
  /\ \E d \in Device \ Used :
       /\ ptyNameMap' = Entered(ptyNameMap, nextPtyId, d)
       /\ master' = [master EXCEPT ![t] = MasterOf(d)]
  /\ nextPtyId' = nextPtyId + 1
  /\ packetMode' = [packetMode EXCEPT ![t] = t \in PacketTerms]
  /\ UNCHANGED <<ownPtyId, slave, sawPacket, ttyVars, fifoVars, ptyStage, ptySaved, ptyCounts>>

\* A leader of a session without a controlling terminal gets the one it opens.
Controls(p, d) ==
  ctty' = IF LeaderOf[p] = p /\ ctty[p] = NoDevice THEN [ctty EXCEPT ![p] = d] ELSE ctty

\* open(ptsname(master)): the wrapper opens the device of the virtual name, and the
\* connection of the slave looks the device up again.
OpenSlave(t) ==
  LET d == RealName(PtsName(t)) IN
  /\ PtysRun /\ Has(master, t) /\ ~Has(slave, t)
  /\ slave' = [slave EXCEPT ![t] = SlaveOf(d)]
  /\ Controls(SlaveProc[t], d)
  /\ UNCHANGED <<areaVars, master, packetMode, sawPacket, devTty, fifoVars, ptyStage, ptySaved, ptyCounts>>

CloseSlave(t) ==
  /\ PtysRun /\ Has(slave, t) /\ slave[t].dev \notin {ctty[p] : p \in {LeaderOf[q] : q \in devTty}}
  /\ slave' = [slave EXCEPT ![t] = NoEnd]
  /\ UNCHANGED <<areaVars, master, packetMode, sawPacket, ttyVars, fifoVars, ptyStage, ptySaved, ptyCounts>>

\* The last close of a terminal gives its name back to the kernel.
CloseMaster(t) ==
  /\ PtysRun /\ Has(master, t) /\ ~Has(slave, t)
  /\ master' = [master EXCEPT ![t] = NoEnd]
  /\ ctty' = [p \in PtyProc |-> IF ctty[p] = master[t].dev THEN NoDevice ELSE ctty[p]]
  /\ UNCHANGED <<areaVars, slave, packetMode, sawPacket, devTty, fifoVars, ptyStage, ptySaved, ptyCounts>>

\* /dev/tty, in a session whose leader has opened its terminal.
OpenTty(p) ==
  /\ PtysRun /\ p \notin devTty /\ ctty[LeaderOf[p]] # NoDevice
  /\ \E t \in Term : SlaveProc[t] = LeaderOf[p] /\ Has(slave, t) /\ slave[t].dev = ctty[LeaderOf[p]]
  /\ devTty' = devTty \cup {p}
  /\ UNCHANGED <<areaVars, endVars, ctty, fifoVars, ptyStage, ptySaved, ptyCounts>>

UseFifo(p) ==
  /\ PtysRun /\ p \in FifoProcs
  /\ \/ Len(fifo) < FifoRoom /\ fifo' = Append(fifo, p)
     \/ fifo # <<>> /\ fifo' = Tail(fifo)
  /\ UNCHANGED <<areaVars, endVars, ttyVars, inData, ptyStage, ptySaved, ptyCounts>>

(***************************************************************************)
(* The checkpoint.                                                         *)
(***************************************************************************)
SuspendPtys ==
  /\ PtysRun /\ ptyCounts.ckpt < MaxPtyCkpt
  /\ ptyCounts' = [ptyCounts EXCEPT !.ckpt = @ + 1]
  /\ ptyStage' = [p \in PtyProc |-> "suspended"]
  /\ ptySaved' = [ptySaved EXCEPT !.fifo = fifo]
  /\ UNCHANGED <<areaVars, endVars, ttyVars, fifoVars>>

\* PtyConnection::drain of a master finds out its packet mode by an experiment, which
\* opens the slave without O_NOCTTY.
Probed(p) ==
  LET ends == {t \in Term : MasterProc[t] = p /\ Has(master, t)} IN
  /\ sawPacket' = [t \in Term |-> IF t \in ends THEN packetMode[t] ELSE sawPacket[t]]
  /\ IF ends = {} THEN UNCHANGED ctty ELSE \E t \in ends : Controls(p, master[t].dev)

\* FifoConnection::drain: whoever comes first has what is in the FIFO.
FifoDrained(p) ==
  IF p \in FifoProcs THEN fifo' = <<>> /\ inData' = [inData EXCEPT ![p] = fifo] ELSE UNCHANGED fifoVars

DrainPtys(p) ==
  /\ ptyStage[p] = "suspended" /\ PtyGoes(p, "drained")
  /\ Probed(p)
  /\ FifoDrained(p)
  /\ UNCHANGED <<areaVars, master, slave, packetMode, devTty, ptySaved, ptyCounts>>

\* SharedData::preCkpt, and the image.
SavePtys(p) ==
  /\ ptyStage[p] = "drained" /\ AllAt({"drained", "saved"}) /\ PtyGoes(p, "saved")
  /\ ownPtyId' = [ownPtyId EXCEPT ![p] = nextPtyId]
  /\ ptySaved' = [PtySaving EXCEPT !.fifo = ptySaved.fifo]
  /\ UNCHANGED <<ptyNameMap, nextPtyId, endVars, ttyVars, fifoVars, ptyCounts>>

\* FifoConnection::refill
FifoRefilled(p) == IF p \in FifoProcs THEN fifo' = fifo \o inData[p] ELSE UNCHANGED fifo
RefillForResume(p) ==
  /\ ptyStage[p] = "saved" /\ AllAt({"saved", "refilled"}) /\ PtyGoes(p, "refilled")
  /\ FifoRefilled(p)
  /\ UNCHANGED <<areaVars, endVars, ttyVars, inData, ptySaved, ptyCounts>>

PtysGoOn ==
  /\ AllAt({"refilled"}) /\ ptyStage' = [p \in PtyProc |-> "run"]
  /\ UNCHANGED <<areaVars, endVars, ttyVars, fifoVars, ptySaved, ptyCounts>>

(***************************************************************************)
(* The restart: no descriptor of the old computation is open any more.     *)
(***************************************************************************)
CrashPtys ==
  /\ PtysRun /\ ptyCounts.ckpt > 0 /\ ptyCounts.restart < MaxPtyRestart
  /\ ptyCounts' = [ptyCounts EXCEPT !.restart = @ + 1]
  /\ ptyStage' = [p \in PtyProc |-> "restarted"]
  /\ ptyNameMap' = <<>> /\ nextPtyId' = 0
  /\ master' = [t \in Term |-> [ptySaved.master[t] EXCEPT !.dev = NoDevice]]
  /\ slave' = [t \in Term |-> [ptySaved.slave[t] EXCEPT !.dev = NoDevice]]
  /\ packetMode' = [t \in Term |-> FALSE] /\ sawPacket' = ptySaved.sawPacket
  /\ ctty' = [p \in PtyProc |-> NoDevice] /\ devTty' = ptySaved.devTty
  /\ fifo' = <<>> /\ inData' = ptySaved.inData
  /\ UNCHANGED <<ownPtyId, ptySaved>>

\* SharedData::initialize: the first process that needs it makes the area.
AreaMade(p) == nextPtyId' = IF nextPtyId = 0 THEN ownPtyId[p] ELSE nextPtyId

\* PtyConnection::postRestart of a master.  The ioctl for the packet mode is
\* made on the descriptor that does not refer to the new master yet.
ReopenMaster(t) ==
  /\ ptyStage[MasterProc[t]] = "restarted" /\ Has(master, t) /\ master[t].dev = NoDevice
  /\ AreaMade(MasterProc[t])
  /\ \E d \in Device \ Used :
       /\ master' = [master EXCEPT ![t].dev = d]
       /\ ptyNameMap' = Entered(ptyNameMap, master[t].virt, d)
  /\ UNCHANGED <<ownPtyId, slave, packetMode, sawPacket, ttyVars, fifoVars, ptyStage, ptySaved, ptyCounts>>

RestoredMasters(p) ==
  /\ ptyStage[p] = "restarted"
  /\ \A t \in Term : MasterProc[t] = p /\ Has(master, t) => master[t].dev # NoDevice
PtysRestored(p) ==
  /\ RestoredMasters(p) /\ PtyGoes(p, "restored")
  /\ UNCHANGED <<areaVars, endVars, ttyVars, fifoVars, ptySaved, ptyCounts>>

\* PtyConnection::preRefill of a slave, once every process has restored its masters.
ReopenSlave(t) ==
  LET d == RealName(slave[t].virt)
      p == SlaveProc[t]
  IN /\ ptyStage[p] = "restored" /\ AllAt({"restored", "refilled", "aborted"})
     /\ Has(slave, t) /\ slave[t].dev = NoDevice
     /\ AreaMade(p)
     /\ IF d = NoDevice THEN PtyGoes(p, "aborted") /\ UNCHANGED <<slave, ctty>>
        ELSE /\ slave' = [slave EXCEPT ![t].dev = d]
             /\ Controls(p, d) /\ UNCHANGED ptyStage
     /\ UNCHANGED <<ptyNameMap, ownPtyId, master, packetMode, sawPacket, devTty, fifoVars, ptySaved, ptyCounts>>

\* The refill phase of a process whose slaves are open: /dev/tty has to be there.
RefillForRestart(p) ==
  /\ ptyStage[p] = "restored" /\ AllAt({"restored", "refilled", "aborted"})
  /\ \A t \in Term : SlaveProc[t] = p /\ Has(slave, t) => slave[t].dev # NoDevice
  /\ AreaMade(p)
  /\ IF p \in devTty /\ ctty[LeaderOf[p]] = NoDevice THEN PtyGoes(p, "aborted") /\ UNCHANGED fifo
     ELSE PtyGoes(p, "refilled") /\ FifoRefilled(p)
  /\ UNCHANGED <<ptyNameMap, ownPtyId, endVars, ttyVars, inData, ptySaved, ptyCounts>>

TermNext ==
  \/ SuspendPtys \/ PtysGoOn \/ CrashPtys
  \/ \E t \in Term :
       OpenMaster(t) \/ OpenSlave(t) \/ CloseSlave(t) \/ CloseMaster(t) \/ ReopenMaster(t) \/ ReopenSlave(t)
  \/ \E p \in PtyProc :
       \/ OpenTty(p) \/ UseFifo(p) \/ DrainPtys(p) \/ SavePtys(p) \/ RefillForResume(p)
       \/ PtysRestored(p) \/ RefillForRestart(p)

(***************************************************************************)
(* Properties.                                                             *)
(***************************************************************************)
\* A slave that was opened under a device's name that an earlier terminal had: the
\* shared area keeps the names of terminals that are gone, and finds theirs first.
Misnamed(t) == Has(slave, t) /\ Has(master, t) /\ slave[t].virt # master[t].virt
Misled(p) == \E t \in Term : SlaveProc[t] = p /\ Misnamed(t)

\* Each virtual name stands for the terminal of its master, and a slave is on the
\* terminal it was on.  A restart is refused only where a slave has the name of a
\* terminal that is gone, or where /dev/tty is opened by a process of a session
\* whose leader has not opened its slave again.
TerminalsKept ==
  /\ \A t \in Term :
       /\ Has(master, t) /\ master[t].dev # NoDevice => RealName(master[t].virt) = master[t].dev
       /\ slave[t].dev # NoDevice /\ Has(master, t) => slave[t].dev = master[t].dev
  /\ \A p \in PtyProc : ptyStage[p] = "aborted" =>
       Misled(p) \/ (p \in devTty /\ (Misled(LeaderOf[p]) \/ LeaderOf[p] # p))

\* When all go on, the FIFO holds what it held when they were stopped.
FifoKept == AllAt({"refilled"}) => fifo = ptySaved.fifo
=============================================================================
