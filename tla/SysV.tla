-------------------------------- MODULE SysV --------------------------------
(***************************************************************************)
(* System V objects across a checkpoint (plugin/ipc/sysv): one shared      *)
(* memory segment, one semaphore and one message queue used by every       *)
(* process of a computation.  The processes elect the one that saves an    *)
(* object by touching it in turn and reading back who touched it last, and *)
(* after a restart that process alone makes the object again.              *)
(*                                                                         *)
(* The coordinator's barriers (module Dmtcp) separate the stages: a        *)
(* process starts a stage when all have ended the one before it.  The      *)
(* user's programs run until they are suspended and from the moment they   *)
(* are resumed, while others may still be suspended.                       *)
(***************************************************************************)
EXTENDS Integers, Sequences, FiniteSets

CONSTANTS
  Proc,          \* the processes of the computation
  Addr,          \* addresses a segment can be attached at
  Message,       \* contents of a message
  Id,            \* ids the kernel gives to objects
  VirtualId,     \* [Proc -> ids]: equal for processes that inherited the ids
                 \* by fork, different when each called shmget, semget, msgget
  NewIds,        \* ids that objects made again after a restart may get
  Removal,       \* the kinds of object a program may remove
  MaxOps,        \* bound on the calls of the programs
  MaxSysVCkpt,   \* bound on the checkpoints
  AfterRestart   \* whether a checkpoint may follow a restart

ASSUME SysVAssumption ==
  /\ IsFiniteSet(Proc) /\ Proc # {}
  /\ 1 \in Id /\ 1 \in Addr /\ NewIds \subseteq Id /\ NewIds # {} /\ Id \subseteq Nat \ {0}
  /\ Addr \subseteq Nat \ {0} /\ DOMAIN VirtualId = Proc
  /\ Removal \subseteq {"sem", "msq"}

VARIABLES
  stage,         \* the last stage each process has ended
  restarted,     \* whether the objects come from a restart
  ops, ckpts,    \* calls of the programs and checkpoints so far
  \* the kernel
  attached,      \* [Proc -> [Addr -> id of the segment there, or 0]]
  seg, segPid,   \* a segment's contents; the last to attach or detach it
  sem, semPid,   \* a semaphore's value plus one, or None; the last to use it
  queue, lastSender, \* a queue's messages, as [body, len], and their last sender
  \* the tables of each process
  addrs,         \* _shmaddrToFlag
  mapped,        \* _dmtcpMappedAddr, as the address attached, or 0
  leads,         \* the kinds of object it is the _isCkptLeader of
  real,          \* _realId of its three objects
  saved,         \* the segment's contents in its memory, _semval, _msgInQueue
  qnum, semadj,  \* _qnum and _semadj
  idMap,         \* SharedData's ipcIdMap: the real ids of a virtual id
  sysvFailed,    \* processes ended by an assertion
  \* what the programs rely on
  uses,          \* the addresses a program has attached and not detached
  was            \* the objects when the last process was suspended

stageVars == <<stage, restarted, ops, ckpts>>
shmVars == <<attached, seg, segPid, addrs, mapped, uses>>
semVars == <<sem, semPid, semadj>>
msqVars == <<queue, lastSender, qnum>>
tableVars == <<leads, real, saved, idMap, was>>
sysvVars == <<stageVars, shmVars, semVars, msqVars, tableVars, sysvFailed>>

Kinds == {"shm", "sem", "msq"}
None == 0                     \* no segment, no semaphore, no process
NoQueue == <<[body |-> None, len |-> 0]>>

(***************************************************************************)
(* The stages, in the order of the events of dmtcpworker.cpp: suspended,   *)
(* LEADER_ELECTION, DRAIN, WRITE_CKPT, RESTART (nothing when the program   *)
(* goes on), REFILL, THREADS_RESUME.                                       *)
(***************************************************************************)
Running == 0
Suspended == 1
Elected == 2
Drained == 3
Written == 4
Restored == 5
Refilled == 6

All(k) == \A p \in Proc \ sysvFailed : stage[p] = k
After(k) == IF k = Refilled THEN Running ELSE k + 1
\* p goes through the stage after k: it has ended k, and no process is still
\* before it.
Enters(p, k) ==
  /\ p \notin sysvFailed /\ stage[p] = k
  /\ \A q \in Proc \ sysvFailed : stage[q] \in {k, After(k)}
  /\ stage' = [stage EXCEPT ![p] = After(k)]
  /\ UNCHANGED <<restarted, ops, ckpts>>

RealId(p, kind) == idMap[VirtualId[p]][kind]
\* An object by its id, which a process may lack.
Object(objects, i) == IF i = None THEN None ELSE objects[i]

\* Every process has the three objects and has attached the segment, as children
\* of one that made and attached it have.
SysVInit ==
  /\ stage = [p \in Proc |-> Running] /\ restarted = FALSE /\ ops = 0 /\ ckpts = 0
  /\ attached = [p \in Proc |-> [a \in Addr |-> IF a = 1 THEN 1 ELSE None]]
  /\ seg = [i \in Id |-> IF i = 1 THEN 1 ELSE None] /\ segPid = [i \in Id |-> None]
  /\ sem = [i \in Id |-> IF i = 1 THEN 1 ELSE None] /\ semPid = [i \in Id |-> None]
  /\ queue = [i \in Id |-> IF i = 1 THEN <<>> ELSE NoQueue]
  /\ lastSender = [i \in Id |-> None]
  /\ addrs = [p \in Proc |-> {1}] /\ mapped = [p \in Proc |-> None]
  /\ leads = [p \in Proc |-> {}] /\ real = [p \in Proc |-> [k \in Kinds |-> 1]]
  /\ saved = [p \in Proc |-> [shm |-> None, sem |-> None, msq |-> <<>>]]
  /\ qnum = [p \in Proc |-> 0] /\ semadj = [p \in Proc |-> 0]
  /\ idMap = [v \in {VirtualId[p] : p \in Proc} |-> [k \in Kinds |-> 1]]
  /\ sysvFailed = {} /\ uses = [p \in Proc |-> {1}]
  /\ was = [shm |-> 1, sem |-> 1, msq |-> <<>>]

\* A failed JASSERT ends the process, and with it what it has attached.
Fails(p) ==
  /\ sysvFailed' = sysvFailed \cup {p}
  /\ attached' = [attached EXCEPT ![p] = [a \in Addr |-> None]]
  /\ UNCHANGED <<seg, segPid, addrs, mapped, uses, semVars, msqVars, tableVars>>
Requires(p, condition) == condition /\ UNCHANGED sysvFailed

(***************************************************************************)
(* The calls of the programs, through the wrappers of sysvipcwrappers.cpp. *)
(***************************************************************************)
Calls(p) ==
  /\ p \notin sysvFailed /\ stage[p] = Running /\ ops < MaxOps
  /\ ops' = ops + 1 /\ UNCHANGED <<stage, restarted, ckpts, tableVars, sysvFailed>>

Shmat(p, a) ==
  LET i == RealId(p, "shm")
  IN /\ Calls(p) /\ seg[i] # None /\ attached[p][a] = None
     /\ attached' = [attached EXCEPT ![p][a] = i]
     /\ segPid' = [segPid EXCEPT ![i] = p]
     /\ addrs' = [addrs EXCEPT ![p] = @ \cup {a}]
     /\ uses' = [uses EXCEPT ![p] = @ \cup {a}]
     /\ UNCHANGED <<seg, mapped, semVars, msqVars>>

Shmdt(p, a) ==
  /\ Calls(p) /\ a \in uses[p] /\ attached[p][a] # None
  /\ attached' = [attached EXCEPT ![p][a] = None]
  /\ segPid' = [segPid EXCEPT ![attached[p][a]] = p]
  /\ addrs' = [addrs EXCEPT ![p] = @ \ {a}]
  /\ uses' = [uses EXCEPT ![p] = @ \ {a}]
  /\ UNCHANGED <<seg, mapped, semVars, msqVars>>

\* A program writes into the segment.
Store(p) ==
  /\ Calls(p)
  /\ \E a \in uses[p], d \in {1, 2} :
       attached[p][a] # None /\ seg' = [seg EXCEPT ![attached[p][a]] = d]
  /\ UNCHANGED <<attached, segPid, addrs, mapped, uses, semVars, msqVars>>

\* on_semop counts the operation in _semadj whether or not it has SEM_UNDO.
Semop(p, d) ==
  LET i == RealId(p, "sem")
  IN /\ Calls(p) /\ real[p]["sem"] # None /\ sem[i] # None /\ sem[i] - 1 + d >= 0
     /\ sem' = [sem EXCEPT ![i] = @ + d] /\ semPid' = [semPid EXCEPT ![i] = p]
     /\ semadj' = [semadj EXCEPT ![p] = @ - d]
     /\ UNCHANGED <<shmVars, msqVars>>

Msgsnd(p, m) ==
  LET i == RealId(p, "msq")
  IN /\ Calls(p) /\ queue[i] # NoQueue
     /\ queue' = [queue EXCEPT ![i] = Append(@, [body |-> m, len |-> 1])]
     /\ lastSender' = [lastSender EXCEPT ![i] = p]
     /\ UNCHANGED <<qnum, shmVars, semVars>>

Msgrcv(p) ==
  LET i == RealId(p, "msq")
  IN /\ Calls(p) /\ queue[i] \notin {NoQueue, <<>>}
     /\ queue' = [queue EXCEPT ![i] = Tail(@)]
     /\ UNCHANGED <<lastSender, qnum, shmVars, semVars>>

\* semctl and msgctl with IPC_RMID: the caller's table forgets the object.
Rmid(p, kind) ==
  /\ p \notin sysvFailed /\ stage[p] = Running /\ ops < MaxOps /\ ops' = ops + 1
  /\ kind \in Removal /\ real[p][kind] # None
  /\ \/ /\ kind = "sem" /\ sem[RealId(p, "sem")] # None
        /\ sem' = [sem EXCEPT ![RealId(p, "sem")] = None]
        /\ UNCHANGED <<semPid, semadj, msqVars>>
     \/ /\ kind = "msq" /\ queue[RealId(p, "msq")] # NoQueue
        /\ queue' = [queue EXCEPT ![RealId(p, "msq")] = NoQueue]
        /\ UNCHANGED <<lastSender, qnum, semVars>>
  /\ real' = [real EXCEPT ![p][kind] = None]
  /\ UNCHANGED <<stage, restarted, ckpts, shmVars, leads, saved, idMap, was, sysvFailed>>

UserCall(p) ==
  \/ \E a \in Addr : Shmat(p, a) \/ Shmdt(p, a)
  \/ Store(p)
  \/ \E d \in {-1, 1} : Semop(p, d)
  \/ \E m \in Message : Msgsnd(p, m)
  \/ Msgrcv(p)
  \/ \E kind \in Kinds : Rmid(p, kind)

(***************************************************************************)
(* The stages of a checkpoint.                                             *)
(***************************************************************************)
\* All objects as the programs left them, once the last is suspended.
Suspend(p) ==
  /\ p \notin sysvFailed /\ stage[p] = Running
  /\ \A q \in Proc \ sysvFailed : stage[q] \in {Running, Suspended}
  /\ \/ All(Running) /\ ckpts < MaxSysVCkpt /\ (AfterRestart \/ ~restarted)
        /\ ckpts' = ckpts + 1 /\ restarted' = FALSE
     \/ ~All(Running) /\ UNCHANGED <<ckpts, restarted>>
  /\ stage' = [stage EXCEPT ![p] = Suspended]
  /\ was' = [shm |-> Object(seg, RealId(p, "shm")), sem |-> Object(sem, RealId(p, "sem")),
             msq |-> Object(queue, RealId(p, "msq"))]
  /\ UNCHANGED <<ops, shmVars, semVars, msqVars, leads, real, saved, idMap, sysvFailed>>

\* A removed semaphore that the table still has.
StaleMutant(i) == FALSE
Stale(i) == i # None /\ sem[i] = None

\* LEADER_ELECTION: the segment is attached and detached, removed semaphores are
\* forgotten and the others raised and lowered, the messages counted.
ShmLeaderElection(p) == segPid' = [segPid EXCEPT ![real[p]["shm"]] = p]

SemLeaderElection(p) ==
  LET i == real[p]["sem"]
  IN /\ semPid' = [j \in Id |-> IF j = i /\ ~Stale(i) /\ sem[j] # None THEN p ELSE semPid[j]]
     /\ real' = [real EXCEPT ![p]["sem"] = IF Stale(i) THEN None ELSE @]

HasQueue(p) == real[p]["msq"] # None
MsqLeaderElection(p) ==
  qnum' = [qnum EXCEPT ![p] = IF HasQueue(p) THEN Len(queue[real[p]["msq"]]) ELSE @]

LeaderElection(p) ==
  LET present == seg[real[p]["shm"]] # None /\ (HasQueue(p) => queue[real[p]["msq"]] # NoQueue)
  IN /\ Enters(p, Suspended)
     /\ \/ /\ Requires(p, present)
           /\ ShmLeaderElection(p) /\ SemLeaderElection(p) /\ MsqLeaderElection(p)
           /\ UNCHANGED <<attached, seg, addrs, mapped, uses, sem, semadj,
                          queue, lastSender, leads, saved, idMap, was>>
        \/ ~present /\ Fails(p)

\* DRAIN: the last to touch an object is its leader, and attaches a segment it
\* does not have attached; every process sends one message more.
LeadsShm(p) == segPid[real[p]["shm"]] = p
LeadsSem(p) == Object(sem, real[p]["sem"]) # None /\ semPid[real[p]["sem"]] = p

ShmPreCkptDrain(p) ==
  LET maps == LeadsShm(p) /\ addrs[p] = {}
  IN \/ /\ maps
        /\ \E a \in {b \in Addr : attached[p][b] = None} :
             /\ attached' = [attached EXCEPT ![p][a] = real[p]["shm"]]
             /\ addrs' = [addrs EXCEPT ![p] = {a}] /\ mapped' = [mapped EXCEPT ![p] = a]
     \/ ~maps /\ mapped' = [mapped EXCEPT ![p] = None] /\ UNCHANGED <<attached, addrs>>

SemPreCkptDrain(p) ==
  saved' = [saved EXCEPT ![p].sem = IF LeadsSem(p) THEN sem[real[p]["sem"]] ELSE @]

MsqPreCkptDrain(p) ==
  LET i == real[p]["msq"]
  IN /\ queue' = [j \in Id |-> IF j = i THEN Append(queue[j], [body |-> None, len |-> 0])
                                        ELSE queue[j]]
     /\ lastSender' = [j \in Id |-> IF j = i THEN p ELSE lastSender[j]]

PreCkptDrain(p) ==
  /\ Enters(p, Elected) /\ UNCHANGED sysvFailed
  /\ leads' = [leads EXCEPT ![p] =
       {k \in {"shm", "sem"} : (k = "shm" /\ LeadsShm(p)) \/ (k = "sem" /\ LeadsSem(p))}]
  /\ ShmPreCkptDrain(p) /\ SemPreCkptDrain(p) /\ MsqPreCkptDrain(p)
  /\ UNCHANGED <<seg, segPid, uses, semVars, qnum, real, idMap, was>>

\* The mapping that the leader of a segment keeps, the first of its table.
First(as) == CHOOSE a \in as : \A b \in as : a <= b
Kept(p) == IF "shm" \in leads[p] THEN {First(addrs[p])} ELSE {}
\* The mappings to attach again when the program resumes.
AgainMutant(p) == addrs[p] \ {a \in addrs[p] : a = First(addrs[p])}
Again(p) == addrs[p] \ Kept(p)

\* The messages of the programs, which the processes' own follow.
TakenMutant(q, n) == q
Taken(q, n) == SubSeq(q, 1, n)

\* WRITE_CKPT, and the image that is written when it has ended: the leader of the
\* segment keeps one mapping, whose contents are part of its image, the others
\* none.
Drops(p) == addrs[p] \ Kept(p)
ShmPreCheckpoint(p) ==
  /\ attached' = [attached EXCEPT ![p] = [a \in Addr |-> IF a \in Drops(p) THEN None ELSE @[a]]]
  /\ segPid' = [i \in Id |-> IF \E a \in Drops(p) : attached[p][a] = i THEN p ELSE segPid[i]]
Content(p) ==
  IF Kept(p) = {} THEN None ELSE Object(seg, attached[p][First(addrs[p])])

\* The leader of the queue takes the messages out and then those that the
\* processes added.
LeadsMsq(p) == HasQueue(p) /\ lastSender[real[p]["msq"]] = p
MsqPreCheckpoint(p) ==
  /\ saved' = [saved EXCEPT ![p].shm = Content(p),
        ![p].msq = IF LeadsMsq(p) THEN Taken(queue[real[p]["msq"]], qnum[p]) ELSE @]
  /\ queue' = [i \in Id |-> IF LeadsMsq(p) /\ i = real[p]["msq"] THEN <<>> ELSE queue[i]]
  /\ leads' = [leads EXCEPT ![p] = @ \cup {k \in {"msq"} : LeadsMsq(p)}]

PreCheckpoint(p) ==
  /\ Enters(p, Drained)
  /\ \/ /\ Requires(p, \A a \in Drops(p) : attached[p][a] # None)
        /\ ShmPreCheckpoint(p) /\ MsqPreCheckpoint(p)
        /\ UNCHANGED <<seg, addrs, mapped, uses, semVars, lastSender, qnum, real, idMap, was>>
     \/ (\E a \in Drops(p) : attached[p][a] = None) /\ Fails(p)

\* The processes are killed and their images restored: on the same machine, where
\* the objects still are, with whatever the programs did since, or on another.
Restart ==
  /\ All(Written) /\ ~restarted /\ sysvFailed = {}
  /\ restarted' = TRUE /\ UNCHANGED <<stage, ops, ckpts>>
  /\ \/ /\ \E d \in {1, 2} : seg' = [seg EXCEPT ![1] = d]
        /\ \E v \in {1, 2} : sem' = [sem EXCEPT ![1] = IF @ = None THEN None ELSE v]
        /\ \E q \in {<<>>} \cup {<<[body |-> m, len |-> 1]>> : m \in Message} :
             queue' = [queue EXCEPT ![1] = IF @ = NoQueue THEN NoQueue ELSE q]
     \/ /\ seg' = [i \in Id |-> None] /\ sem' = [i \in Id |-> None]
        /\ queue' = [i \in Id |-> NoQueue]
  /\ attached' = [p \in Proc |-> [a \in Addr |-> None]]
  /\ segPid' = [i \in Id |-> None] /\ semPid' = [i \in Id |-> None]
  /\ lastSender' = [i \in Id |-> None]
  /\ idMap' = [v \in DOMAIN idMap |-> [k \in Kinds |-> None]]
  /\ UNCHANGED <<addrs, mapped, uses, semadj, qnum, leads, real, saved, was, sysvFailed>>

\* The program goes on after the image is written: nothing is made again.
GoesOn(p) ==
  /\ ~restarted /\ Enters(p, Written)
  /\ UNCHANGED <<shmVars, semVars, msqVars, tableVars, sysvFailed>>

\* RESTART: the leaders make the objects again (or find them, by their keys) and
\* publish the new ids.  The contents of a segment are copied from the image;
\* its first mapping is attached again unless the checkpoint had attached it.
ShmPostRestart(p, new) ==
  LET leader == "shm" \in leads[p]
  IN /\ seg' = [i \in Id |-> IF leader /\ i = new["shm"] THEN saved[p].shm ELSE seg[i]]
     /\ segPid' = [i \in Id |-> IF leader /\ i = new["shm"] THEN p ELSE segPid[i]]
     /\ attached' = [attached EXCEPT ![p] =
          [a \in Addr |-> IF a \in Kept(p) /\ mapped[p] = None THEN new["shm"] ELSE @[a]]]

SemPostRestart(p, new) ==
  LET leader == "sem" \in leads[p]
  IN /\ sem' = [i \in Id |-> IF leader /\ i = new["sem"] THEN saved[p].sem ELSE sem[i]]
     /\ semPid' = [i \in Id |-> IF leader /\ i = new["sem"] THEN p ELSE semPid[i]]

MsqPostRestart(p, new) ==
  queue' = [i \in Id |-> IF "msq" \in leads[p] /\ new["msq"] = i /\ queue[i] = NoQueue
                         THEN <<>> ELSE queue[i]]

SetIdMap(p, ids) == idMap' = [idMap EXCEPT ![VirtualId[p]] = ids]

PostRestart(p) ==
  /\ restarted /\ Enters(p, Written) /\ UNCHANGED sysvFailed
  /\ \E new \in [leads[p] -> NewIds] :
       LET Known(ids) == [k \in Kinds |-> IF k \in leads[p] THEN new[k] ELSE ids[k]]
       IN /\ ShmPostRestart(p, new) /\ SemPostRestart(p, new) /\ MsqPostRestart(p, new)
          /\ real' = [real EXCEPT ![p] = Known(@)]
          /\ SetIdMap(p, Known(idMap[VirtualId[p]]))
  /\ UNCHANGED <<addrs, mapped, uses, semadj, lastSender, qnum, leads, saved, was>>

\* REFILL does nothing unless the image was restored.
RefillNothing(p) ==
  /\ ~restarted /\ Enters(p, Restored)
  /\ UNCHANGED <<shmVars, semVars, msqVars, tableVars, sysvFailed>>

\* REFILL after a restart.  A process finds the semaphore under its own virtual
\* id and raises and lowers it by _semadj.
SemRefill(p) ==
  LET has == real[p]["sem"] # None
      i == RealId(p, "sem")
  IN /\ real' = [real EXCEPT ![p]["sem"] = IF has THEN i ELSE @]
     /\ semPid' = [j \in Id |-> IF has /\ j = i /\ semadj[p] # 0 THEN p ELSE semPid[j]]

\* The leader of the queue empties it and sends what it saved; msgsnd is given the
\* size of the buffer, which counts the long of the message's type, so that a
\* message grows by one long.
MsqRefill(p) ==
  LET i == real[p]["msq"]
      leader == "msq" \in leads[p]
      resent == [n \in DOMAIN saved[p].msq |-> [saved[p].msq[n] EXCEPT !.len = @ + 1]]
  IN /\ queue' = [j \in Id |-> IF leader /\ j = i THEN resent ELSE queue[j]]
     /\ lastSender' = [j \in Id |-> IF leader /\ j = i /\ resent # <<>> THEN p ELSE lastSender[j]]
     /\ qnum' = [qnum EXCEPT ![p] = 0] /\ saved' = [saved EXCEPT ![p].msq = <<>>]

Refill(p) ==
  LET lost == real[p]["sem"] # None /\ RealId(p, "sem") = None
  IN /\ restarted /\ Enters(p, Restored)
     /\ \/ /\ Requires(p, ~lost) /\ SemRefill(p) /\ MsqRefill(p)
           /\ UNCHANGED <<shmVars, sem, semadj, leads, idMap, was>>
        \/ lost /\ Fails(p)

\* THREADS_RESUME: the mappings that were dropped are attached again, under the
\* id that the process has for the segment.
PreResume(p) ==
  LET i == real[p]["shm"]
      again == Again(p)
  IN /\ Enters(p, Refilled)
     /\ \/ /\ Requires(p, again # {} => seg[i] # None)
           /\ attached' = [attached EXCEPT ![p] = [a \in Addr |-> IF a \in again THEN i ELSE @[a]]]
           /\ segPid' = [j \in Id |-> IF j = i /\ again # {} THEN p ELSE segPid[j]]
           /\ UNCHANGED <<seg, addrs, mapped, uses, semVars, msqVars, tableVars>>
        \/ again # {} /\ seg[i] = None /\ Fails(p)

SysVStep(p) ==
  \/ Suspend(p) \/ LeaderElection(p) \/ PreCkptDrain(p) \/ PreCheckpoint(p)
  \/ GoesOn(p) \/ PostRestart(p) \/ RefillNothing(p) \/ Refill(p) \/ PreResume(p)

SysVNext == (\E p \in Proc : UserCall(p) \/ SysVStep(p)) \/ Restart

SysVSpec == SysVInit /\ [][SysVNext]_sysvVars

(***************************************************************************)
(* Properties.                                                             *)
(***************************************************************************)
Bodies(q) == [n \in DOMAIN q |-> q[n].body]

\* After REFILL, and before any program runs, the objects are those that the
\* programs left when the last was suspended: the election has found one process
\* for each object (none would leave it unmade, two would leave two), the drain
\* has taken neither more nor less than the messages it added, and what the
\* programs did between the checkpoint and the restart is undone.  Messages are
\* compared after a restart only.
ObjectsKept ==
  All(Refilled) =>
    \A p \in Proc :
      /\ seg[RealId(p, "shm")] = was.shm
      /\ real[p]["sem"] # None => sem[RealId(p, "sem")] = was.sem
      /\ restarted /\ real[p]["msq"] # None => Bodies(queue[RealId(p, "msq")]) = Bodies(was.msq)

\* The programs that run have attached what they attached before, and share it:
\* no process is left on another segment, or with none, at an address it uses.
SegmentShared ==
  \A p, q \in Proc \ sysvFailed : \A a \in uses[p], b \in uses[q] :
    stage[p] = Running /\ stage[q] = Running =>
      attached[p][a] # None /\ attached[p][a] = attached[q][b]

\* No process is ended by an assertion of a stage, where the ids the kernel gives
\* do not change, queues are not removed and no checkpoint follows a restart.
NoObjectAssertion == sysvFailed = {}

\* The messages of the queue are in it again when the programs resume.
MessagesKept ==
  All(Refilled) => \A p \in Proc :
    real[p]["msq"] # None => Bodies(queue[RealId(p, "msq")]) = Bodies(was.msq)
===============================================================================
