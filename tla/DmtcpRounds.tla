---------------------------- MODULE DmtcpRounds ----------------------------
(***************************************************************************)
(* The rounds of a checkpoint: an inductive invariant of Dmtcp.  Round j   *)
(* begins when updateMinimumState broadcasts the j-th message of the       *)
(* protocol; round 0 is before the first one, and ends back in round 0     *)
(* once every client has reported RUNNING after DO_RESUME, the 7th.        *)
(* Four invariants rest on the rounds: NameInv, on which checkpoint the    *)
(* images of a script are of; MessageInv, on what a process is sent;       *)
(* SurvivalInv, on what the coordinator is told; and ScriptInv, on whom    *)
(* the script names.                                                       *)
(***************************************************************************)
EXTENDS Dmtcp

\* The barrier a reported state stands for; 0 before the first and after the last.
Level(s) ==
  CASE s = "SUSPENDED" -> 1
    [] s = "FD_LEADER_ELECTION" -> 2
    [] s \in {"DRAINED", "RESTARTING"} -> 3
    [] s = "CHECKPOINTED" -> 4
    [] s = "NAME_SERVICE_DATA_REGISTERED" -> 5
    [] s = "DONE_QUERYING" -> 6
    [] s = "REFILLED" -> 7
    [] OTHER -> 0

\* The barrier a message of the coordinator opens.
Number(t) ==
  CASE t = "DO_FD_LEADER_ELECTION" -> 1
    [] t = "DO_DRAIN" -> 2
    [] t = "DO_CHECKPOINT" -> 3
    [] t = "DO_REGISTER_NAME_SERVICE_DATA" -> 4
    [] t = "DO_SEND_QUERIES" -> 5
    [] t = "DO_REFILL" -> 6
    [] t = "DO_RESUME" -> 7
    [] OTHER -> 0

After(j) == IF j = 7 THEN 0 ELSE j + 1

\* Positions of the reports under way from w, and the levels they report.
Reports(w) == {i \in 1 .. Len(toCoord[w]) : toCoord[w][i].type = "OK"}
Said(w, i) == Level(toCoord[w][i].state)

\* Positions of the messages under way to w that open a barrier, or suspend it.
Orders(w) == {i \in 1 .. Len(toWorker[w]) : Number(toWorker[w][i].type) # 0}
Suspends(w) == {i \in 1 .. Len(toWorker[w]) : toWorker[w][i].type = "DO_SUSPEND"}

-----------------------------------------------------------------------------
(* One client in round j.  What it has reported, and what is under way, is *)
(* a run of reports of level j followed by a run of reports of the next.   *)

Told(v, j) ==
  \/ Level(cstate[v]) = After(j)
  \/ \E i \in Reports(v) : Said(v, i) = After(j)

ReportsInRound(v, j) ==
  /\ cstate[v] # "RESTARTING"
  /\ Level(cstate[v]) \in {j, After(j)}
  /\ \A i \in Reports(v) :
       /\ Said(v, i) \in {j, After(j)}
       /\ Level(cstate[v]) = After(j) => Said(v, i) = After(j)
  /\ \A i, k \in Reports(v) : i < k /\ Said(v, i) = After(j) => Said(v, k) = After(j)

\* Where the process is.  An order under way finds it waiting at the barrier
\* it opens; after a restart orders it will not survive may precede the last.
PlaceInRound(v, j) ==
  /\ pc[v] = "hello" => fromImage[v] = 0
  /\ Reached(v) = IF Told(v, j) THEN After(j) ELSE j
  /\ pc[v] \in WorkPoint => Reached(v) = j
  /\ \A i \in Orders(v) :
       /\ pc[v] \in WaitPoint /\ Reached(v) = j
       /\ Number(toWorker[v][i].type) = j \/ (j = 7 /\ restarts > 0)
       /\ Number(toWorker[v][i].type) = j => \A k \in Orders(v) : k <= i

\* A process that is to suspend is asked once, on behalf of this checkpoint.
SuspendInRound(v, j) ==
  /\ suspendSent \/ (pc[v] # "locking" /\ Suspends(v) = {})
  /\ \A i \in Suspends(v) :
       /\ pc[v] \in {"hello", "run"}
       /\ toWorker[v][i].comp = compId /\ toWorker[v][i].gen = generation
       /\ \A k \in Suspends(v) : k = i
  /\ pc[v] = "locking" \/ Reached(v) \in 1 .. 3
       => wComp[v] = compId /\ wGen[v] = generation /\ generation # 0

ClientInRound(v, j) ==
  /\ ReportsInRound(v, j)
  /\ j = 0 /\ ~suspendSent => ~Told(v, j)
  /\ Alive(v) => PlaceInRound(v, j) /\ SuspendInRound(v, j)

Round(j) ==
  /\ suspendSent => j = 0 /\ generation # 0
  /\ \A v \in clients : ClientInRound(v, j)

-----------------------------------------------------------------------------
(* A computation that comes back from its images: no process is before     *)
(* barrier 3 or beyond barrier 7, but they may be at different ones, when  *)
(* the coordinator still lists processes that ended before the restart.    *)

ReportsBack(v) ==
  /\ cstate[v] # "DRAINED" /\ Level(cstate[v]) \in 3 .. 7
  /\ \A i \in Reports(v) :
       Said(v, i) \in 4 .. 7 /\ Level(cstate[v]) <= Said(v, i)
  /\ \A i, k \in Reports(v) : i < k => Said(v, i) <= Said(v, k)

PlaceBack(v) ==
  /\ pc[v] \notin {"drained", "writing", "resuming"} /\ Reached(v) \in 3 .. 7
  /\ Level(cstate[v]) <= Reached(v)
  /\ \A i \in Reports(v) : Said(v, i) <= Reached(v)
  /\ Suspends(v) = {}
  /\ \A i \in Orders(v) : Number(toWorker[v][i].type) \in 4 .. 6

ClientBack(v) == ReportsBack(v) /\ (Alive(v) => PlaceBack(v))

Back ==
  /\ ~suspendSent /\ restarts > 0
  /\ \A v \in clients : ClientBack(v)

-----------------------------------------------------------------------------
(* Connections.  A process beyond the handshake is a client; one that is   *)
(* not has at most been refused; nothing is under way to a process that    *)
(* has ended or is not accepted, and no report from one not accepted.      *)

ConnectionOf(w) ==
  /\ Alive(w) /\ pc[w] # "hello" => w \in clients
  /\ ~Alive(w) \/ w \in backlog => toWorker[w] = <<>>
  /\ w \notin clients => \A i \in 1 .. Len(toWorker[w]) :
                           toWorker[w][i].type \in {"REJECT", "KILL_PEER"}
  /\ pc[w] = "hello" \/ w \in backlog => Reports(w) = {}

Connected ==
  /\ \A w \in Worker : ConnectionOf(w)
  /\ clients # {} => compId # Nobody

\* Restored processes say so, and were written by a process of a computation.
HelloOf(w) ==
  /\ pc[w] = "unborn" => fromImage[w] = 0
  /\ parent[w] # Nobody => pc[w] = "hello" /\ fromImage[w] = 0
  /\ fromImage[w] # 0 => restarts > 0
  /\ w \in backlog =>
       /\ Head(toCoord[w]).state = "RESTARTING" =>
            restarts > 0 /\ Head(toCoord[w]).comp # Nobody
       /\ Alive(w) => (Head(toCoord[w]).state = "RESTARTING" <=> fromImage[w] # 0)
  /\ \A i \in Reports(w) : toCoord[w][i].state # "RESTARTING"

RestoredHello ==
  /\ \A w \in Worker : HelloOf(w)
  /\ restarting # {} => restarts > 0
  /\ \A f \in DOMAIN images : images[f].comp # Nobody /\ images[f].gen # 0

RoundInv ==
  /\ Connected /\ RestoredHello
  /\ Back \/ \E j \in 0 .. 7 : Round(j)

-----------------------------------------------------------------------------
(* The names of the images, in a build with UNIQUE_CHECKPOINT_FILENAMES.   *)
(* While a checkpoint goes on, every name the coordinator has or is sent   *)
(* is of its generation; the script names one generation, and so are the   *)
(* processes restored from it.                                             *)

\* A checkpoint has been asked for, and its images are not all reported.
InCheckpoint ==
  suspendSent \/ \E v \in clients : Level(cstate[v]) \in 1 .. 2 \/ cstate[v] = "DRAINED"

IsName(m) == m.type = "CKPT_FILENAME"
NamesSent(w) ==
  {toCoord[w][i].file : i \in {k \in 1 .. Len(toCoord[w]) : IsName(toCoord[w][k])}}

\* A file name is followed by the report that its image is complete.
NameThenReport(s) ==
  \A i \in 1 .. Len(s) :
    IsName(s[i]) => i + 1 \in 1 .. Len(s) /\ s[i + 1] = Ok("CHECKPOINTED")

NamesOfCheckpoint ==
  InCheckpoint =>
    \A f \in restartFilenames \cup UNION {NamesSent(w) : w \in clients} : f[2] = generation

OneCheckpoint ==
  /\ \A f, g \in script : f[2] = g[2]
  /\ \E g \in Generation :
       /\ \A f \in restarting : f[2] = g
       /\ \A w \in Worker : Alive(w) /\ fromImage[w] # 0 => fromImage[w] = g

NameInv ==
  /\ \A w \in Worker : NameThenReport(toCoord[w])
  /\ NamesOfCheckpoint
  /\ OneCheckpoint

-----------------------------------------------------------------------------
(* What a process is sent before any restart, when nobody forces one: the  *)
(* answer to its hello comes first and finds it waiting for that, and no   *)
(* message answers a question nobody has asked.                            *)

NoQuery(w) == \A i \in 1 .. Len(toCoord[w]) : toCoord[w][i].type # "NAME_SERVICE_QUERY"

Due(w, i) ==
  LET m == toWorker[w][i] IN
  /\ m.type \notin {"FORCE_RESTART", "NAME_SERVICE_QUERY_RESPONSE"}
  /\ m.type \in {"HELLO_WORKER", "REJECT"} => i = 1 /\ pc[w] = "hello"
  /\ m.type = "DO_FD_LEADER_ELECTION" => m.comp = compId

MessagesOf(w) ==
  /\ pc[w] \notin {"asking", "abort"}
  /\ NoQuery(w)
  /\ \A i \in 1 .. Len(toWorker[w]) : Due(w, i)

MessageInv == restarts = 0 => \A w \in Worker : MessagesOf(w)

-----------------------------------------------------------------------------
(* What the coordinator is told before any restart, when one program is    *)
(* launched and all other processes are forked in it.                      *)

NoneBorn == \A v \in Worker : pc[v] = "unborn"

\* While the hello of the launched process waits it is alone, and nobody has
\* asked for a checkpoint; a child is forked by a process that is there.
FirstInv ==
  /\ (\E l \in Launchable : pc[l] = "unborn") => NoneBorn
  /\ NoneBorn => ~suspendSent
  /\ \A w \in backlog :
       Head(toCoord[w]).state = "UNKNOWN" => ~suspendSent /\ \A v \in Worker \ {w} : pc[v] = "unborn"
  /\ \A w \in Worker : parent[w] # Nobody => pc[parent[w]] # "unborn"

\* Between the suspend message and the election some client has not reported:
\* the last report begins the election.
RequestInv ==
  suspendSent => /\ \A v \in clients : cstate[v] # "UNKNOWN"
                 /\ clients # {} => \E v \in clients : cstate[v] = "RUNNING"

Reported == WorkerState \ {"UNKNOWN", "PRE_FORK", "PRE_EXEC"}

\* No query, and no report of a state onData has no answer to.
SaidClean(s) ==
  \A i \in 1 .. Len(s) : /\ s[i].type # "NAME_SERVICE_QUERY"
                         /\ s[i].type = "OK" => s[i].state \in Reported
SaidInv ==
  /\ \A w \in Worker : SaidClean(toCoord[w])
  /\ \A w \in clients : cstate[w] \in Reported \cup {"UNKNOWN"}

SurvivalInv == coord # "aborted" /\ FirstInv /\ RequestInv /\ SaidInv

-----------------------------------------------------------------------------
(* Whom the script names, when no process crashes or is killed: processes  *)
(* end only while they run user code, so the clients of the election are   *)
(* those that write images.                                                *)

\* The last that a process reported is that it runs, or nothing yet.
RanLast(w) ==
  \/ Level(cstate[w]) = 0 /\ \A i \in Reports(w) : Said(w, i) = 0
  \/ \E i \in Reports(w) : \A k \in Reports(w) : i <= k => Said(w, k) = 0

EndsRunning ==
  /\ \A w \in clients : Dead(w) => RanLast(w)
  /\ \A c \in Worker : parent[c] # Nobody => pc[parent[c]] \in {"run", "locking"}
  /\ ~killInProgress
  /\ \A w \in Worker : \A i \in 1 .. Len(toWorker[w]) : toWorker[w][i].type # "KILL_PEER"

\* Points of a process that has been told its peers and has not written its image.
Knowing == {"electing", "elected", "draining", "drained", "writing"}

\* The peers a process is told, knows and writes into its image.
PeersAreClients ==
  /\ \A w \in Worker : \A i \in 1 .. Len(toWorker[w]) :
       toWorker[w][i].type = "DO_FD_LEADER_ELECTION" => toWorker[w][i].cohort = clients
  /\ \A w \in Worker :
       pc[w] \in Knowing => wCohort[w] = clients
  /\ \A w \in Worker :
       pc[w] = "written" =>
         /\ NameOf(w, generation) \in DOMAIN images
         /\ images[NameOf(w, generation)].cohort = clients

\* The names of a checkpoint that goes on are of the clients' images; who has
\* reported CHECKPOINTED has been named.
Named(w) ==
  LET name == NameOf(w, generation) IN
  /\ NamesSent(w) \subseteq {name}
  /\ cstate[w] = "CHECKPOINTED" => name \in restartFilenames
  /\ \A i \in Reports(w) : toCoord[w][i].state = "CHECKPOINTED" =>
       \/ name \in restartFilenames
       \/ \E k \in 1 .. Len(toCoord[w]) : k < i /\ toCoord[w][k] = CkptFilename(name)

ClientsNamed ==
  /\ \A w \in Worker : NameThenReport(toCoord[w])
  /\ suspendSent => restartFilenames = {} /\ \A w \in clients : NamesSent(w) = {}
  /\ InCheckpoint => /\ restartFilenames \subseteq {NameOf(w, generation) : w \in clients}
                     /\ \A w \in clients : Named(w)

ScriptInv == coord = "up" => EndsRunning /\ PeersAreClients /\ ClientsNamed
=============================================================================
