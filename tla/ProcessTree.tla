---------------------------- MODULE ProcessTree ----------------------------
(***************************************************************************)
(* The tree of a computation's processes and its sessions: what fork,      *)
(* setsid, setpgid and exit make of them, what ProcessInfo saves of each   *)
(* process with its image, how dmtcp_restart creates the processes again,  *)
(* and how they restore their groups.                                      *)
(***************************************************************************)
EXTENDS Naturals, Sequences, FiniteSets, SequencesExt

CONSTANTS
  Tasks,          \* processes of the computation, numbered as their virtual pids
  Launched,       \* those that dmtcp_checkpoint starts; fork makes the others
  DeepSessions,   \* bound: a process forks although a process of the computation
                  \* that is not itself leads its session
  GroupSize,      \* bound: processes of one group that setpgid made
  MaxExits        \* bound: processes that end before the checkpoint

ASSUME TreeAssumption ==
  /\ Tasks \subseteq Nat \ {0} /\ Launched \subseteq Tasks /\ Launched # {}
  /\ DeepSessions \in BOOLEAN /\ GroupSize \in Nat /\ MaxExits \in Nat

\* The parent, the session and the group of a process can be outside the computation.
Outside == 0

VARIABLES
  treePhase,   \* what the computation does: "running", "creating", "refilling", "restored"
  started,     \* tasks that were started
  live,        \* tasks that run
  parent,      \* the kernel's parent of each task; Outside when it is init or a shell
  sid, gid,    \* session and process group of each task
  children,    \* ProcessInfo's _childTable
  isRoot,      \* ProcessInfo's _isRootOfProcessTree
  pInfo,       \* what the images hold of each process: a function on the saved tasks
  made,        \* the processes that dmtcp_restart made, in order
  origin       \* the live tasks' parents, sessions and groups at the checkpoint

treeVars == <<treePhase, started, live, parent, sid, gid, children, isRoot, pInfo, made, origin>>

TreeInit ==
  /\ treePhase = "running"
  /\ started = {} /\ live = {}
  /\ parent = [t \in Tasks |-> Outside]
  /\ sid = [t \in Tasks |-> Outside]
  /\ gid = [t \in Tasks |-> Outside]
  /\ children = [t \in Tasks |-> {}]
  /\ isRoot = [t \in Tasks |-> FALSE]
  /\ pInfo = <<>> /\ made = <<>> /\ origin = <<>>

(***************************************************************************)
(* The running computation.                                                *)
(***************************************************************************)

\* dmtcp_checkpoint: the program's environment names it as a root.
LaunchTask(t) ==
  /\ treePhase = "running"
  /\ t \in Launched \ started
  /\ started' = started \union {t} /\ live' = live \union {t}
  /\ isRoot' = [isRoot EXCEPT ![t] = TRUE]
  /\ UNCHANGED <<treePhase, parent, sid, gid, children, pInfo, made, origin>>

\* A process in a session that another process of the computation leads.
FollowsLeader(t) == sid[t] \in live \ {t}

\* A group that setpgid made, not setsid or a shell, stays within its bound with c.
RoomInGroup(g, c) ==
  (g # Outside /\ sid[g] # g) =>
    Cardinality({t \in live : gid[t] = g} \union {c}) <= GroupSize

\* fork: the parent enters the child in its table; the child starts with an empty
\* one, in its parent's session and group. ProcessInfo::resetOnFork.
ForkTask(t, c) ==
  /\ treePhase = "running"
  /\ t \in live /\ c \in Tasks \ (started \union Launched)
  /\ \A d \in Tasks \ (started \union Launched) : c <= d
  /\ DeepSessions \/ ~FollowsLeader(t)
  /\ RoomInGroup(gid[t], c)
  /\ started' = started \union {c} /\ live' = live \union {c}
  /\ parent' = [parent EXCEPT ![c] = t]
  /\ sid' = [sid EXCEPT ![c] = sid[t]]
  /\ gid' = [gid EXCEPT ![c] = gid[t]]
  /\ children' = [children EXCEPT ![t] = @ \union {c}, ![c] = {}]
  /\ isRoot' = [isRoot EXCEPT ![c] = FALSE]
  /\ UNCHANGED <<treePhase, pInfo, made, origin>>

\* setsid, which the kernel refuses to the leader of a group.
SetSid(t) ==
  /\ treePhase = "running"
  /\ t \in live /\ gid[t] # t
  /\ sid' = [sid EXCEPT ![t] = t]
  /\ gid' = [gid EXCEPT ![t] = t]
  /\ UNCHANGED <<treePhase, started, live, parent, children, isRoot, pInfo, made, origin>>

\* setpgid(0, g): a group of its own, or one of its session; not a session leader's.
SetPgid(t, g) ==
  /\ treePhase = "running"
  /\ t \in live /\ sid[t] # t /\ gid[t] # g
  /\ RoomInGroup(g, t)
  /\ g = t \/ \E u \in live : gid[u] = g /\ g # Outside /\ sid[u] = sid[t]
  /\ gid' = [gid EXCEPT ![t] = g]
  /\ UNCHANGED <<treePhase, started, live, parent, sid, children, isRoot, pInfo, made, origin>>

\* A process ends: init becomes its children's parent, and its own parent's wait4
\* takes it out of the table (or refreshChildTable does).
ExitTask(t) ==
  /\ treePhase = "running"
  /\ t \in live
  /\ Cardinality(started \ live) < MaxExits
  /\ live' = live \ {t}
  /\ parent' = [c \in Tasks |-> IF parent[c] = t THEN Outside ELSE parent[c]]
  /\ children' = [p \in Tasks |-> children[p] \ {t}]
  /\ UNCHANGED <<treePhase, started, sid, gid, isRoot, pInfo, made, origin>>

\* ProcessInfo::refresh and serialize: a process whose parent is init is a root too.
Saved(t) ==
  [children |-> children[t], sid |-> sid[t], gid |-> gid[t],
   isRoot |-> isRoot[t] \/ (parent[t] = Outside)]

(***************************************************************************)
(* dmtcp_restart.                                                          *)
(***************************************************************************)
Targets == DOMAIN pInfo

\* main: the roots that no other target leads the session of.
IndependentRoots(info) ==
  {t \in DOMAIN info : info[t].isRoot /\ info[t].sid \notin DOMAIN info \ {t}}

Least(S) == CHOOSE t \in S : \A u \in S : t <= u

\* A process of the restart: its image, the process that created it (Outside when
\* that one ended at once), its session and group, which are the numbers of the
\* processes that lead them.
Process(t, by, s, g) ==
  [image |-> t, by |-> by, sid |-> s, gid |-> g, start |-> "fork", pc |-> "creating"]

\* A checkpoint, the end of every process, and the start of dmtcp_restart, which
\* becomes the first of the independent roots. A shell that controls jobs makes it
\* the leader of a group, and the exec of dmtcp_restart_script.sh leaves it that; a
\* program or ssh does not.
CheckpointAndRestart ==
  /\ treePhase = "running"
  /\ live # {}
  /\ treePhase' = "creating"
  /\ pInfo' = [t \in live |-> Saved(t)]
  /\ origin' = [t \in live |-> [parent |-> parent[t], sid |-> sid[t], gid |-> gid[t]]]
  /\ LET roots == IndependentRoots(pInfo')
     IN /\ roots # {}
        /\ \E start \in {"shell", "program"} :
             made' = << [Process(Least(roots), Outside, Outside,
                                 IF start = "shell" THEN 1 ELSE Outside)
                          EXCEPT !.start = start] >>
  /\ UNCHANGED <<started, live, parent, sid, gid, children, isRoot>>

\* A bug the properties must catch: every child is made early, those of the session too.
EarlyChildrenMutant(t) == {c \in Targets \ {t} : c \in pInfo[t].children}

\* The children that createProcess makes before it becomes a session leader ...
EarlyChildren(t) ==
  {c \in Targets \ {t} : c \in pInfo[t].children /\ pInfo[c].sid # t}

\* ... the other roots, which the first process makes ...
OtherRoots(n) == IF made[n].start # "fork" THEN IndependentRoots(pInfo) \ {made[n].image} ELSE {}

\* ... and the processes of its session, its children or not, that it makes after.
SessionOf(t) == {c \in Targets \ {t} : pInfo[c].sid = t}

\* RestoreTarget::createProcess of the process n, up to mtcp_restart. The kernel
\* refuses setsid to the leader of a group, which is warned of and goes on.
CreateProcess(n) ==
  /\ treePhase = "creating"
  /\ n \in DOMAIN made /\ made[n].pc = "creating"
  /\ LET t == made[n].image
         leads == pInfo[t].sid = t /\ made[n].gid # n
         s == IF leads THEN n ELSE made[n].sid
         g == IF leads THEN n ELSE made[n].gid
         early == {Process(c, n, made[n].sid, made[n].gid) : c \in EarlyChildren(t)}
         roots == {Process(c, Outside, made[n].sid, made[n].gid) : c \in OtherRoots(n)}
         late == {Process(c, IF c \in pInfo[t].children THEN n ELSE Outside, s, g) :
                    c \in SessionOf(t)}
     IN made' = [made EXCEPT ![n].pc = "created", ![n].sid = s, ![n].gid = g]
                  \o SetToSeq(early) \o SetToSeq(roots) \o SetToSeq(late)
  /\ UNCHANGED <<treePhase, started, live, parent, sid, gid, children, isRoot, pInfo, origin>>

\* The barrier before refill: every process was created and wrote its pid map.
BarrierPassed ==
  /\ treePhase = "creating"
  /\ \A n \in DOMAIN made : made[n].pc = "created"
  /\ treePhase' = "refilling"
  /\ UNCHANGED <<started, live, parent, sid, gid, children, isRoot, pInfo, made, origin>>

\* The virtual pid that a group or session of the restart has in the computation.
VirtualOf(n) == IF n = Outside THEN Outside ELSE made[n].image

\* ProcessInfo::restoreProcessGroupInfo: a group whose leader is known is joined when
\* the kernel allows it: it exists in the session, or is the process's own.
RestoreProcessGroupInfo(n) ==
  /\ treePhase = "refilling"
  /\ n \in DOMAIN made /\ made[n].pc = "created"
  /\ LET g == pInfo[made[n].image].gid
         joins == /\ g \in Targets /\ g # VirtualOf(made[n].gid)
                  /\ made[n].sid # n
         groups == {m \in DOMAIN made :
                      /\ made[m].image = g
                      /\ m = n \/ \E o \in DOMAIN made :
                                    made[o].gid = m /\ made[o].sid = made[n].sid}
     IN made' = [made EXCEPT ![n].pc = "refilled",
                             ![n].gid = IF joins /\ groups # {} THEN Least(groups) ELSE @]
  /\ UNCHANGED <<treePhase, started, live, parent, sid, gid, children, isRoot, pInfo, origin>>

Restored ==
  /\ treePhase = "refilling"
  /\ \A n \in DOMAIN made : made[n].pc = "refilled"
  /\ treePhase' = "restored"
  /\ UNCHANGED <<started, live, parent, sid, gid, children, isRoot, pInfo, made, origin>>

TreeNext ==
  \/ \E t \in Tasks : LaunchTask(t) \/ SetSid(t) \/ ExitTask(t)
  \/ \E t, u \in Tasks : ForkTask(t, u) \/ SetPgid(t, u)
  \/ CheckpointAndRestart \/ BarrierPassed \/ Restored
  \/ \E n \in DOMAIN made : CreateProcess(n) \/ RestoreProcessGroupInfo(n)

(***************************************************************************)
(* Properties.                                                             *)
(***************************************************************************)

\* The restart makes one process of each image. autotest.py waits for the
\* computation's number of peers after a restart.
RestoredOnce ==
  treePhase \in {"refilling", "restored"} =>
    \A t \in Targets : Cardinality({n \in DOMAIN made : made[n].image = t}) = 1

\* A group that a process of the computation led has its members again.
GroupsRestored ==
  treePhase = "restored" =>
    \A n \in DOMAIN made :
      LET g == origin[made[n].image].gid IN g \in Targets => VirtualOf(made[n].gid) = g

\* The sessions that a restart makes again: all that processes of the computation led,
\* but for that of the first process when dmtcp_restart leads a group of its shell.
SessionsMade == Targets \ {made[n].image : n \in {m \in DOMAIN made : made[m].start = "shell"}}

\* A restored computation has the tree it had: each process once, below its parent, in
\* the group that processes of the computation led and the session that can be made.
TreeRestored ==
  /\ RestoredOnce
  /\ GroupsRestored
  /\ treePhase = "restored" =>
       \A n \in DOMAIN made :
         LET was == origin[made[n].image]
         IN /\ VirtualOf(made[n].by) = was.parent
            /\ was.sid \in SessionsMade => VirtualOf(made[n].sid) = was.sid
=============================================================================
