---------------------------- MODULE VirtualPids ----------------------------
(***************************************************************************)
(* Virtual pids: the coordinator hands them out and forgets them when a    *)
(* connection ends; each process keeps a table from virtual to real pids,  *)
(* which fork copies, exec carries over, wait4 prunes, and a restart, in   *)
(* which every real pid changes, rebuilds through a file that all share.   *)
(***************************************************************************)
EXTENDS Naturals, FiniteSets, Functions

CONSTANTS
  Progs,        \* processes, numbered in the order in which they are made
  Numbers,      \* how many virtual pids there are: 0 .. Numbers - 1
  MaxExecs,     \* bound: exec calls of one process
  MaxFailures,  \* bound: fork calls that fail
  MaxRestarts,  \* bound: restarts of the computation
  NewCoordinators,  \* a restart may have a new coordinator, which counts from 0 again;
                \* the next three bound only a computation that it has happened to
  LateExecs,    \* bound: then exec is called
  Reuse,        \* bound: then a number whose process is gone is handed out again
  LateAsks,     \* bound: then a number is asked for while processes are restored, or was
                \* asked of the old coordinator and is yet to be used
  HandlerWaits  \* bound: a signal handler waits for children inside fork

ASSUME PidsAssumption ==
  /\ Progs \subseteq Nat \ {0} /\ Progs # {} /\ IsFiniteSet(Progs)
  /\ Numbers \in Nat /\ Cardinality(Progs) < Numbers
  /\ MaxExecs \in Nat /\ MaxFailures \in Nat /\ MaxRestarts \in Nat
  /\ NewCoordinators \in BOOLEAN /\ LateExecs \in BOOLEAN /\ Reuse \in BOOLEAN
  /\ LateAsks \in BOOLEAN /\ HandlerWaits \in BOOLEAN

NoProg == 0

VARIABLES
  stage,        \* "absent", "asked", "made", "live", "execing", "zombie", "gone",
                \* "saved" or "restored"
  vpid,         \* the virtual pid of each process
  realPid,      \* its real pid
  mother,       \* the process that made it, when that one is alive
  idTable,      \* its _idMapTable: a function from virtual to real pids
  making,       \* the child it is making in fork
  execs,        \* its exec calls
  failures,     \* fork calls that failed
  nextReal,     \* the kernel's next pid; it reuses none between two restarts
  registered,   \* the domain of the coordinator's _virtualPidToChunkReaderMap
  nextVirtual,  \* the coordinator's _nextVirtualPid
  ends,         \* closed connections that the coordinator has not read yet
  pidFile,      \* the maps in the file of the restart
  peers,        \* the processes that the last restart restored
  restarts,     \* restarts so far
  renumbered    \* a restart had a new coordinator

procVars == <<stage, vpid, realPid, mother, making, execs, failures, nextReal>>
coordVars == <<registered, nextVirtual, ends>>
restartVars == <<pidFile, peers, restarts, renumbered>>
pidVars == <<procVars, idTable, coordVars, restartVars>>

Empty == [v \in {} |-> 0]

\* updateMapping: the entry of v in the table is r.
Put(table, v, r) == [u \in DOMAIN table \union {v} |-> IF u = v THEN r ELSE table[u]]

\* VirtualIdTable::erase.
Erased(table, v) == Restrict(table, DOMAIN table \ {v})

PidsInit ==
  /\ stage = [t \in Progs |-> "absent"]
  /\ vpid = [t \in Progs |-> 0] /\ realPid = [t \in Progs |-> 0]
  /\ mother = [t \in Progs |-> NoProg] /\ making = [t \in Progs |-> NoProg]
  /\ idTable = [t \in Progs |-> Empty]
  /\ execs = [t \in Progs |-> 0] /\ failures = 0
  /\ nextReal = 1
  /\ registered = {} /\ nextVirtual = 0 /\ ends = {}
  /\ pidFile = Empty /\ peers = {} /\ restarts = 0 /\ renumbered = FALSE

IsRunning == \A t \in Progs : stage[t] \notin {"saved", "restored"}

Alive == {t \in Progs : stage[t] \in {"live", "execing"}}

IsNext(t) == stage[t] = "absent" /\ \A u \in Progs : u < t => stage[u] # "absent"

(***************************************************************************)
(* The coordinator.                                                        *)
(***************************************************************************)

\* getNewVirtualPid: the first number from nextVirtual on that no connection has. It
\* looks at the map alone: a number given to a process yet to connect is not in it.
Candidate(k) == (nextVirtual + k) % Numbers

\* A bug the properties must catch: the next number is taken as it is.
StepsMutant == 0

Steps == CHOOSE k \in 0 .. Numbers - 1 :
           /\ Candidate(k) \notin registered
           /\ \A j \in 0 .. k - 1 : Candidate(j) \in registered

NewVirtualPid(v) ==
  /\ Cardinality(registered) < Numbers
  /\ v = Candidate(Steps)
  /\ nextVirtual' = Candidate(Steps + 1)
  /\ \/ Reuse \/ ~renumbered
     \/ \A t \in Progs : stage[t] \in {"asked", "gone", "zombie"} => vpid[t] # v

\* onDisconnect erases the number of the connection, whoever registered it last.
OnPidDisconnect(e) ==
  /\ e \in ends
  /\ ends' = ends \ {e}
  /\ registered' = registered \ {vpid[e[1]]}
  /\ UNCHANGED <<procVars, idTable, nextVirtual, restartVars>>

(***************************************************************************)
(* The processes.                                                          *)
(***************************************************************************)

\* dmtcp_checkpoint asks for the number of the program that it will become, which the
\* coordinator gives whatever the computation does ...
AskVirtualPid(t) ==
  /\ IsNext(t)
  /\ IsRunning \/ LateAsks \/ ~renumbered
  /\ \E v \in 0 .. Numbers - 1 : NewVirtualPid(v) /\ vpid' = [vpid EXCEPT ![t] = v]
  /\ stage' = [stage EXCEPT ![t] = "asked"]
  /\ UNCHANGED <<realPid, mother, making, execs, failures, nextReal, idTable,
                 registered, ends, restartVars>>

\* ... the program says hello with it ...
StartProgram(t) ==
  /\ IsRunning /\ stage[t] = "asked"
  /\ stage' = [stage EXCEPT ![t] = "live"]
  /\ registered' = registered \union {vpid[t]}
  /\ realPid' = [realPid EXCEPT ![t] = nextReal] /\ nextReal' = nextReal + 1
  /\ idTable' = [idTable EXCEPT ![t] = Put(Empty, vpid[t], nextReal)]
  /\ UNCHANGED <<vpid, mother, making, execs, failures, nextVirtual, ends, restartVars>>

\* ... and is refused, and ends, while processes are restored.
RefuseProgram(t) ==
  /\ ~IsRunning /\ stage[t] = "asked"
  /\ stage' = [stage EXCEPT ![t] = "gone"]
  /\ UNCHANGED <<vpid, realPid, mother, making, execs, failures, nextReal, idTable,
                 coordVars, restartVars>>

\* fork: the parent makes the child's connection, and the coordinator its number.
ConnectBeforeFork(p, c) ==
  /\ IsRunning /\ stage[p] = "live" /\ making[p] = NoProg /\ IsNext(c)
  /\ \E v \in 0 .. Numbers - 1 :
       /\ NewVirtualPid(v)
       /\ vpid' = [vpid EXCEPT ![c] = v]
       /\ registered' = registered \union {v}
  /\ stage' = [stage EXCEPT ![c] = "made"]
  /\ making' = [making EXCEPT ![p] = c]
  /\ UNCHANGED <<realPid, mother, execs, failures, nextReal, idTable, ends, restartVars>>

\* The kernel refuses the child: the parent closes its connection.
ForkFails(p) ==
  /\ making[p] # NoProg /\ stage[making[p]] = "made" /\ failures < MaxFailures
  /\ failures' = failures + 1
  /\ stage' = [stage EXCEPT ![making[p]] = "gone"]
  /\ ends' = ends \union {<<making[p], 0>>}
  /\ making' = [making EXCEPT ![p] = NoProg]
  /\ UNCHANGED <<vpid, realPid, mother, execs, nextReal, idTable, registered,
                 nextVirtual, restartVars>>

\* The child starts with a copy of the parent's table, to which its handler of fork
\* adds itself and its parent.
RealFork(p) ==
  /\ making[p] # NoProg /\ stage[making[p]] = "made"
  /\ LET c == making[p]
     IN /\ stage' = [stage EXCEPT ![c] = "live"]
        /\ mother' = [mother EXCEPT ![c] = p]
        /\ realPid' = [realPid EXCEPT ![c] = nextReal] /\ nextReal' = nextReal + 1
        /\ idTable' = [idTable EXCEPT ![c] =
                        Put(Put(idTable[p], vpid[c], nextReal), vpid[p], realPid[p])]
  /\ UNCHANGED <<vpid, making, execs, failures, coordVars, restartVars>>

\* The parent enters the child in its own table and leaves fork.
UpdateMapping(p) ==
  /\ making[p] # NoProg /\ stage[making[p]] # "made"
  /\ idTable' = [idTable EXCEPT ![p] = Put(@, vpid[making[p]], realPid[making[p]])]
  /\ making' = [making EXCEPT ![p] = NoProg]
  /\ UNCHANGED <<stage, vpid, realPid, mother, execs, failures, nextReal, coordVars,
                 restartVars>>

\* exec: the new program inherits the coordinator's socket and the saved table, opens
\* a second connection over the first, which closes that one ...
ExecProgram(p) ==
  /\ IsRunning /\ stage[p] = "live" /\ making[p] = NoProg /\ execs[p] < MaxExecs
  /\ LateExecs \/ ~renumbered
  /\ stage' = [stage EXCEPT ![p] = "execing"]
  /\ ends' = ends \union {<<p, execs[p]>>}
  /\ execs' = [execs EXCEPT ![p] = @ + 1]
  /\ UNCHANGED <<vpid, realPid, mother, making, failures, nextReal, idTable, registered,
                 nextVirtual, restartVars>>

\* ... and says hello with the number it had.
HelloAfterExec(p) ==
  /\ stage[p] = "execing"
  /\ stage' = [stage EXCEPT ![p] = "live"]
  /\ registered' = registered \union {vpid[p]}
  /\ UNCHANGED <<vpid, realPid, mother, making, execs, failures, nextReal, idTable,
                 nextVirtual, ends, restartVars>>

\* A process ends: its zombie stays for the mother that is alive, its children are
\* init's.
ExitProgram(p) ==
  /\ IsRunning /\ stage[p] = "live" /\ making[p] = NoProg
  /\ stage' = [t \in Progs |->
                 CASE t = p -> IF mother[p] = NoProg THEN "gone" ELSE "zombie"
                   [] stage[t] = "zombie" /\ mother[t] = p -> "gone"
                   [] OTHER -> stage[t]]
  /\ mother' = [t \in Progs |-> IF mother[t] = p THEN NoProg ELSE mother[t]]
  /\ ends' = ends \union {<<p, execs[p]>>}
  /\ UNCHANGED <<vpid, realPid, making, execs, failures, nextReal, idTable, registered,
                 nextVirtual, restartVars>>

\* realToVirtual: the first entry with the real pid, or the real pid itself, for which
\* no virtual pid is mistaken.
Unknown == Numbers

VirtualNumber(table, r) ==
  LET named == {v \in DOMAIN table : table[v] = r}
  IN IF named = {} THEN Unknown ELSE CHOOSE v \in named : \A u \in named : v <= u

\* A bug the properties must catch: wait4 does not take the lock.
CanWaitMutant(p) == TRUE

\* wait4 takes a zombie; the lock of the wrappers, which fork holds exclusively, keeps
\* other threads of the parent out, but not a signal handler of the forking thread.
CanWait(p) == making[p] = NoProg \/ HandlerWaits

WaitProgram(p, c) ==
  /\ IsRunning /\ stage[p] = "live" /\ CanWait(p)
  /\ stage[c] = "zombie" /\ mother[c] = p
  /\ stage' = [stage EXCEPT ![c] = "gone"]
  /\ idTable' = [idTable EXCEPT ![p] = Erased(@, VirtualNumber(@, realPid[c]))]
  /\ UNCHANGED <<vpid, realPid, mother, making, execs, failures, nextReal, coordVars,
                 restartVars>>

(***************************************************************************)
(* Checkpoint and restart.                                                 *)
(***************************************************************************)

\* A checkpoint of the live processes, their end, and a restart, with the coordinator
\* that is there or with a new one; the kernel counts its pids anew.
CheckpointAndEnd ==
  /\ IsRunning /\ restarts < MaxRestarts
  /\ \E t \in Progs : stage[t] = "live"
  /\ \A t \in Progs : stage[t] \notin {"made", "execing"} /\ making[t] = NoProg
  /\ restarts' = restarts + 1
  /\ peers' = {t \in Progs : stage[t] = "live"}
  /\ stage' = [t \in Progs |-> CASE stage[t] = "live" -> "saved"
                                  [] stage[t] = "zombie" -> "gone"
                                  [] OTHER -> stage[t]]
  /\ nextReal' = 1
  /\ registered' = {} /\ ends' = {}
  /\ \/ UNCHANGED <<nextVirtual, renumbered>>
     \/ /\ NewCoordinators
        /\ LateAsks \/ \A t \in Progs : stage[t] # "asked"
        /\ nextVirtual' = 0 /\ renumbered' = TRUE
  /\ pidFile' = Empty
  /\ UNCHANGED <<vpid, realPid, mother, making, execs, failures, idTable>>

\* A bug the properties must catch: the entries of before the restart stay.
KeptMutant(table) == table

\* What postRestart leaves of a table.
Kept(table) == Empty

\* A process is restored below its mother: it says hello with its number, empties its
\* table, enters itself and its parent, and writes what it knows to the shared file.
RestoreProgram(t) ==
  /\ stage[t] = "saved"
  /\ mother[t] # NoProg => stage[mother[t]] = "restored"
  /\ stage' = [stage EXCEPT ![t] = "restored"]
  /\ registered' = registered \union {vpid[t]}
  /\ realPid' = [realPid EXCEPT ![t] = nextReal] /\ nextReal' = nextReal + 1
  /\ LET own == Put(Kept(idTable[t]), vpid[t], nextReal)
         table == IF mother[t] = NoProg THEN own
                  ELSE Put(own, vpid[mother[t]], realPid[mother[t]])
     IN /\ idTable' = [idTable EXCEPT ![t] = table]
        /\ pidFile' = [v \in DOMAIN pidFile \union DOMAIN table |->
                         IF v \in DOMAIN table THEN table[v] ELSE pidFile[v]]
  /\ UNCHANGED <<vpid, mother, making, execs, failures, nextVirtual, ends, peers, restarts,
                 renumbered>>

\* A bug the properties must catch: a process reads the file when it has written it.
AllWroteMutant == TRUE

\* The barrier before the processes read the file.
AllWrote == \A t \in Progs : stage[t] # "saved"

\* postRestartRefill: every process reads the maps of all; then they run.
ReadMaps ==
  /\ AllWrote
  /\ \E t \in Progs :
       /\ stage[t] = "restored"
       /\ stage' = [stage EXCEPT ![t] = "live"]
       /\ idTable' = [idTable EXCEPT ![t] =
                       [v \in DOMAIN @ \union DOMAIN pidFile |->
                          IF v \in DOMAIN pidFile THEN pidFile[v] ELSE @[v]]]
  /\ UNCHANGED <<vpid, realPid, mother, making, execs, failures, nextReal, coordVars,
                 restartVars>>

PidsNext ==
  \/ \E t \in Progs : AskVirtualPid(t) \/ StartProgram(t) \/ RefuseProgram(t)
  \/ \E t \in Progs : RestoreProgram(t)
  \/ \E p \in Progs : ForkFails(p) \/ RealFork(p) \/ UpdateMapping(p)
  \/ \E p \in Progs : ExecProgram(p) \/ HelloAfterExec(p) \/ ExitProgram(p)
  \/ \E p, c \in Progs : ConnectBeforeFork(p, c) \/ WaitProgram(p, c)
  \/ \E e \in ends : OnPidDisconnect(e)
  \/ CheckpointAndEnd \/ ReadMaps

PidsSpec == PidsInit /\ [][PidsNext]_pidVars

(***************************************************************************)
(* Properties.                                                             *)
(***************************************************************************)

\* No two processes of the computation have one virtual pid: execwrappers.cpp:83 says
\* that the coordinator's virtual pids avoid the pid conflict totally.
DistinctVirtual ==
  \A t, u \in Progs :
    /\ t # u
    /\ {stage[t], stage[u]} \subseteq {"asked", "made", "live", "execing", "saved", "restored"}
    => vpid[t] # vpid[u]

\* What a process's table says of a live process is its real pid, no entry names
\* another process's, and after a restart every process knows all that were restored.
TablesTrue ==
  IsRunning =>
    \A p, q \in Alive :
      /\ vpid[q] \in DOMAIN idTable[p] => idTable[p][vpid[q]] = realPid[q]
      /\ \A v \in DOMAIN idTable[p] : idTable[p][v] = realPid[q] => v = vpid[q]
      /\ {p, q} \subseteq peers => vpid[q] \in DOMAIN idTable[p]

\* wait4 returns the virtual pid of the child that it took.
WaitNamesChild ==
  [][\A c \in Progs :
       stage[c] = "zombie" /\ stage'[c] = "gone" /\ stage'[mother[c]] = "live"
         => VirtualNumber(idTable[mother[c]], realPid[c]) = vpid[c]]_pidVars
=============================================================================
