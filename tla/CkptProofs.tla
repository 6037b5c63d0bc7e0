----------------------------- MODULE CkptProofs -----------------------------
(***************************************************************************)
(* For every set of threads: the checkpoint thread stops all threads of    *)
(* its process, and stops none inside a wrapper (StoppedSafely), and no    *)
(* restored thread goes on before all are restored (RestoredTogether).     *)
(*                                                                         *)
(* The invariant says, for each place of the checkpoint thread, in which   *)
(* states the threads may be (StageInv); what the five locks and the count *)
(* of uninitialised threads exclude (LockInv, UninitializedInv); what the  *)
(* two other counters count (HaltedInv, RestoreInv); and that the threads  *)
(* form a tree below the first one, whatever threads have died (TreeInv).  *)
(*                                                                         *)
(* And for images and pipes of any size: the file under the image's name   *)
(* is a whole image (ImageWhole), and the program has its own handler of   *)
(* SIGCHLD (HandlerKept).                                                  *)
(***************************************************************************)
EXTENDS CkptThreads, CkptFile, FiniteSetTheorems, SequenceTheorems, TLAPS

-----------------------------------------------------------------------------
(* Where a thread can be stopped, and the stages of the checkpoint thread. *)

StopPlace == {"user", "timedout", "exiting", "closed", "destroying"}

Preparing  == {"listen", "libdl", "tcl", "wel", "uninit"}
Scanning   == {"rescan", "scan"}
Restoring  == {"uncloned", "cloning", "restored"}

-----------------------------------------------------------------------------
(* The invariant. *)

TypeInv ==
  /\ at \in [Thread -> UserPlace] /\ hand \in [Thread -> HandlerPlace]
  /\ target \in [Thread -> Thread \cup {Nobody}]
  /\ tstate \in [Thread -> ThreadState \ {"SIGDISABLED"}]
  /\ threads \in SUBSET Thread /\ parent \in [Thread -> Thread \cup {Nobody}]
  /\ signalled \in SUBSET Thread
  /\ threadsLock \in Thread \cup {Ckpt, Nobody} /\ libdlLock \in Thread \cup {Ckpt, Nobody}
  /\ destroyLock \in Thread \cup {Ckpt, Nobody}
  /\ exiting \in Thread \cup {Nobody}
  /\ ckpt \in CkptPlace /\ todo \in SUBSET Thread /\ needRescan \in BOOLEAN
  /\ fate \in {"runs", "ended"}
  /\ ckpts \in 0 .. MaxCkpt /\ restarts \in 0 .. MaxRestart

\* A thread that has begun to run and is not gone has a descriptor in the
\* list, whose state says where the thread is.
DescriptorInv ==
  \A t \in Thread :
    /\ at[t] \in {"unborn", "starting"} => t \notin threads
    /\ at[t] \notin {"unborn", "starting", "gone"} => t \in threads
    /\ tstate[t] = "RUNDISABLED" <=> at[t] \in {"unborn", "starting", "linked"}
    /\ tstate[t] = "ZOMBIE" <=> at[t] \in {"zombie", "gone"}
    /\ t = Main => at[t] \notin {"unborn", "starting", "linked", "gone"}

\* The state of a descriptor and the place of its thread in the handler.
HandlerInv ==
  \A t \in Thread :
    /\ hand[t] \notin {"out", "enter"} => at[t] \in StopPlace
    /\ tstate[t] = "SUSPINPROG" <=> hand[t] = "saving"
    /\ tstate[t] = "SUSPENDED" => hand[t] \in {"late", "halted", "uncloned", "cloning"}
    /\ hand[t] \in {"late", "uncloned", "cloning"} => tstate[t] = "SUSPENDED"
    /\ hand[t] = "halted" => tstate[t] \in {"SUSPENDED", "RUNENABLED"}
    /\ hand[t] \in {"leaving", "restored"} => tstate[t] = "RUNENABLED"

\* What the place of the checkpoint thread says of the others.
StageInv ==
  \A t \in Thread :
    /\ tstate[t] \in {"SIGENABLED", "SUSPINPROG"} => ckpt \in Scanning
    /\ ckpt \in Preparing => hand[t] \in {"out", "enter"}
    /\ ckpt \in Scanning \cup {"rest", "reap", "stopped", "barriers", "post", "gone"} =>
         /\ hand[t] \in {"out", "enter", "saving", "late", "halted"}
         /\ hand[t] = "halted" => tstate[t] = "SUSPENDED"
    /\ ckpt = "scan" /\ t \in todo => t \in threads
    /\ ckpt = "scan" /\ ~needRescan /\ t \in threads \ todo => tstate[t] \in {"SUSPENDED", "ZOMBIE"}
    /\ ckpt \in {"rest", "reap"} /\ t \in threads => tstate[t] \in {"SUSPENDED", "ZOMBIE"}
    /\ ckpt \in {"stopped", "barriers", "post"} =>
         IF t \in threads THEN tstate[t] = "SUSPENDED" ELSE at[t] \in {"unborn", "gone"}
    /\ ckpt \in {"post", "resume", "sleep"} => hand[t] # "late"
    /\ ckpt = "resume" =>
         /\ tstate[t] = "SUSPENDED" <=> t \in todo
         /\ hand[t] \notin {"uncloned", "cloning", "restored"}
         /\ t \in todo => hand[t] = "halted"
    /\ ckpt = "sleep" => hand[t] # "cloning" /\ (hand[t] = "halted" => tstate[t] = "RUNENABLED")
    /\ ckpt \in Restoring =>
         /\ t \notin signalled
         /\ IF t \in threads THEN hand[t] \in {"uncloned", "cloning", "restored"}
            ELSE hand[t] = "out" /\ at[t] \in {"unborn", "gone"}

\* What the locks exclude.
LockInv ==
  /\ threadsLock = Ckpt <=> ckpt \in {"scan", "reap", "resume"}
  /\ \A t \in Thread : at[t] = "killing" <=> threadsLock = t
  /\ TclWanted => libdlLock = Ckpt
  /\ \A t \in Thread : at[t] \in {"dl", "dlwrap", "dlexcl"} => libdlLock = t
  /\ WelWanted => TclReaders = {}
  /\ WelHeld => WelReaders = {} /\ WelWriters = {}
  /\ WelHeld /\ ckpt # "uninit" => uninitialized = 0

\* Threads counted once, and those counted a second time.
Making  == {t \in Thread : at[t] \in
              {"create", "clone", "failed", "starting", "linked", "ready", "started"}}
Cloning == {t \in Thread : at[t] \in {"clone", "starting", "linked", "ready"}}

UninitializedInv == uninitialized = Cardinality(Making) + Cardinality(Cloning)

\* A thread that is being made is made by one thread.
TargetInv ==
  /\ \A t \in Thread : at[t] \in {"create", "clone"} =>
       target[t] \in Thread /\ at[target[t]] = "unborn"
  /\ \A t, u \in Thread : target[t] = target[u] /\ target[t] # Nobody => t = u

Halted == {t \in Thread : hand[t] \in {"halted", "leaving", "uncloned", "cloning", "restored"}}

HaltedInv == preResumeCount = Cardinality(Halted)

Recreated == {t \in Thread : hand[t] = "cloning"}

RestoreInv ==
  restoreInProg = IF ckpt \in Restoring
                  THEN Cardinality(Recreated) + (IF ckpt = "cloning" THEN 2 ELSE 1) ELSE 0

\* An image is of threads that were stopped, all of them counted.
ImageInv ==
  image # NoImage =>
    /\ image.threads \in SUBSET Thread /\ Main \in image.threads
    /\ image.at \in [Thread -> UserPlace] /\ image.tstate \in [Thread -> ThreadState]
    /\ image.parent \in [Thread -> Thread \cup {Nobody}]
    /\ image.count = Cardinality(image.threads) /\ image.unborn = 0
    /\ \A t \in Thread :
         IF t \in image.threads THEN image.at[t] \in StopPlace /\ image.tstate[t] = "SUSPENDED"
         ELSE \/ image.at[t] = "unborn" /\ image.tstate[t] = "RUNDISABLED"
              \/ image.at[t] = "gone" /\ image.tstate[t] = "ZOMBIE"

SafeInv ==
  /\ TypeInv /\ DescriptorInv /\ HandlerInv /\ StageInv /\ LockInv /\ UninitializedInv
  /\ TargetInv /\ HaltedInv /\ RestoreInv /\ ImageInv

\* Every thread but the first is below another one of the list, and no threads
\* are below one another only.
IsTree(ths, par) ==
  /\ \A t \in ths \ {Main} : par[t] \in ths
  /\ \A S \in SUBSET (ths \ {Main}) : S # {} => \E t \in S : par[t] \notin S

\* A thread that has still to link itself has a parent that is not ending.
BegunInv ==
  \A t \in Thread : at[t] = "starting" =>
    parent[t] \in Thread
    /\ at[parent[t]] \notin {"unborn", "starting", "dying", "zombie", "gone"}

\* Until all threads are created, one that is not has a parent that will
\* create it.
UnclonedInv ==
  \A t \in Thread : hand[t] = "uncloned" =>
    /\ ckpt \in Restoring /\ t \in threads /\ t # Main
    /\ hand[parent[t]] \in {"uncloned", "cloning"}

TreeInv ==
  /\ IsTree(threads, parent) /\ BegunInv /\ UnclonedInv
  /\ image # NoImage => IsTree(image.threads, image.parent)

-----------------------------------------------------------------------------
(* What the invariant says of the counts and of threads that run. *)

USE ThreadAssumption

\* The sets that are counted are finite.
LEMMA FiniteSets ==
  /\ Making \in SUBSET Thread /\ Cloning \in SUBSET Thread
  /\ Halted \in SUBSET Thread /\ Recreated \in SUBSET Thread
  /\ IsFiniteSet(Making) /\ Cardinality(Making) \in Nat
  /\ IsFiniteSet(Cloning) /\ Cardinality(Cloning) \in Nat
  /\ IsFiniteSet(Halted) /\ Cardinality(Halted) \in Nat
  /\ IsFiniteSet(Recreated) /\ Cardinality(Recreated) \in Nat
<1>1. /\ Making \in SUBSET Thread /\ Cloning \in SUBSET Thread
      /\ Halted \in SUBSET Thread /\ Recreated \in SUBSET Thread
  BY DEF Making, Cloning, Halted, Recreated
<1> QED BY <1>1, FS_Subset, FS_CardinalityType

\* A thread that joins a set of threads, or leaves it, is counted once.
LEMMA OneMore ==
  ASSUME NEW S \in SUBSET Thread, NEW t, t \notin S
  PROVE  Cardinality(S) \in Nat /\ Cardinality(S \cup {t}) = Cardinality(S) + 1
<1>1. IsFiniteSet(S)
  BY FS_Subset
<1> QED BY <1>1, FS_AddElement, FS_CardinalityType

\* The other way round.
LEMMA OneLess ==
  ASSUME NEW S \in SUBSET Thread, NEW t \in S
  PROVE  Cardinality(S) \in Nat /\ Cardinality(S \ {t}) = Cardinality(S) - 1
<1>1. IsFiniteSet(S)
  BY FS_Subset
<1> QED BY <1>1, FS_RemoveElement, FS_CardinalityType

\* While the count of uninitialised threads is zero, none is being made.
LEMMA NoneMade ==
  ASSUME UninitializedInv, uninitialized = 0
  PROVE  Making = {} /\ Cloning = {}
<1>1. Cardinality(Making) = 0 /\ Cardinality(Cloning) = 0
  BY FiniteSets DEF UninitializedInv
<1> QED BY <1>1, FiniteSets, FS_EmptySet

\* From the end of the scan to the resume, and during a restart, no thread
\* runs that could do anything.
LEMMA RunningThread ==
  ASSUME SafeInv, NEW t \in Thread, hand[t] = "out", at[t] \notin {"unborn", "gone"}
  PROVE  /\ ckpt \notin Restoring \cup {"stopped", "barriers", "post"}
         /\ tstate[t] \notin {"SUSPINPROG", "SUSPENDED"}
<1>1. tstate[t] # "SUSPENDED" /\ tstate[t] # "SUSPINPROG"
  BY DEF SafeInv, HandlerInv
<1> QED BY <1>1 DEF SafeInv, StageInv, Restoring

\* A step that changes neither the places in the handler nor the checkpoint
\* thread leaves the counts of halted and of recreated threads alone.
LEMMA CountsStay ==
  ASSUME SafeInv, hand' = hand, preResumeCount' = preResumeCount,
         ckpt' = ckpt, restoreInProg' = restoreInProg, image' = image
  PROVE  HaltedInv' /\ RestoreInv' /\ ImageInv'
<1>1. Halted' = Halted /\ Recreated' = Recreated
  BY DEF Halted, Recreated
<1> QED BY <1>1 DEF SafeInv, HaltedInv, RestoreInv, ImageInv

-----------------------------------------------------------------------------
(* The user threads. *)

\* The places between which a thread goes without more ado.
OrdinaryPlace ==
  {"user", "wrap", "popen", "dl", "dlwrap", "excl", "dlexcl", "joining", "timedout",
   "dying", "exiting", "closed"}

\* A thread takes or leaves a lock of its own.
LEMMA MovesKeep ==
  ASSUME SafeInv, NEW t \in Thread, NEW from \in OrdinaryPlace, NEW to \in OrdinaryPlace,
         Moves(t, from, to),
         to \in {"wrap", "popen", "dlwrap", "joining", "dying"} => CanRead,
         to \in {"excl", "dlexcl"} => CanWrite,
         to \in {"dl", "dlwrap", "dlexcl"} => from \in {"dl", "dlwrap", "dlexcl"}
  PROVE  SafeInv'
<1>1. /\ hand[t] = "out" /\ at[t] = from /\ at' = [at EXCEPT ![t] = to]
      /\ UNCHANGED <<target, hand, tstate, listVars, signalled, threadsLock, lockVars,
                 uninitialized, preResumeCount, exiting, ckptVars, restoreInProg, worldVars>>
  BY DEF Moves, Runs, Goes
<1> USE <1>1 DEF listVars, lockVars, ckptVars, worldVars, OrdinaryPlace
<1>2. /\ ckpt \notin Restoring \cup {"stopped", "barriers", "post"}
      /\ tstate[t] \notin {"SUSPINPROG", "SUSPENDED"}
  BY RunningThread
<1>3. TypeInv'
  BY DEF SafeInv, TypeInv, UserPlace
<1>4. /\ at'[t] = to /\ \A u \in Thread : u # t => at'[u] = at[u]
  BY DEF SafeInv, TypeInv
<1>5. DescriptorInv' 
  BY <1>4 DEF SafeInv, DescriptorInv
<1>6. HandlerInv'
  BY <1>4 DEF SafeInv, HandlerInv
<1>7. StageInv'
  BY <1>2, <1>4 DEF SafeInv, StageInv
<1>8. Making' = Making /\ Cloning' = Cloning
  BY <1>4 DEF Making, Cloning
<1>9. UninitializedInv' 
  BY <1>8 DEF SafeInv, UninitializedInv
<1>10. TargetInv'
  BY <1>4 DEF SafeInv, TargetInv
<1>11. LockInv'
  BY <1>4 DEF SafeInv, LockInv, TclWanted, WelWanted, WelHeld, TclReaders, WelReaders, WelWriters, CanRead, CanWrite
<1> QED BY <1>3, <1>5, <1>6, <1>7, <1>9, <1>10, <1>11, CountsStay DEF SafeInv

\* dlopen takes and releases its lock.
LEMMA DlopenKeeps ==
  ASSUME SafeInv, NEW t \in Thread, Dlopen(t)
  PROVE  SafeInv'
<1>1. /\ hand[t] = "out"
      /\ \/ at[t] = "user" /\ libdlLock = Nobody /\ at' = [at EXCEPT ![t] = "dl"] /\ libdlLock' = t
         \/ at[t] = "dl" /\ at' = [at EXCEPT ![t] = "user"] /\ libdlLock' = Nobody
      /\ UNCHANGED <<target, hand, tstate, listVars, signalled, threadsLock, destroyLock,
                     uninitialized, preResumeCount, exiting, ckptVars, restoreInProg, worldVars>>
  BY DEF Dlopen, Runs, Goes
<1> USE <1>1 DEF listVars, ckptVars, worldVars
<1>2. /\ ckpt \notin Restoring \cup {"stopped", "barriers", "post"}
      /\ tstate[t] \notin {"SUSPINPROG", "SUSPENDED"}
  BY RunningThread
<1>3. TypeInv'
  BY DEF SafeInv, TypeInv, UserPlace
<1>4. /\ at[t] \in {"user", "dl"} /\ at'[t] \in {"user", "dl"}
      /\ \A u \in Thread : u # t => at'[u] = at[u]
  BY DEF SafeInv, TypeInv
<1>5. DescriptorInv'
  BY <1>4 DEF SafeInv, DescriptorInv
<1>6. HandlerInv'
  BY <1>4 DEF SafeInv, HandlerInv
<1>7. StageInv'
  BY <1>2, <1>4 DEF SafeInv, StageInv
<1>8. Making' = Making /\ Cloning' = Cloning
  BY <1>4 DEF Making, Cloning
<1>9. UninitializedInv'
  BY <1>8 DEF SafeInv, UninitializedInv
<1>10. TargetInv'
  BY <1>4 DEF SafeInv, TargetInv
<1>11. LockInv'
  <2>1. /\ TclReaders' = TclReaders /\ WelReaders' = WelReaders /\ WelWriters' = WelWriters
    BY <1>4 DEF TclReaders, WelReaders, WelWriters
  <2>2. ~TclWanted
    BY DEF SafeInv, LockInv
  <2> QED BY <1>4, <2>1, <2>2 DEF SafeInv, TypeInv, LockInv, TclWanted, WelWanted, WelHeld
<1> QED BY <1>3, <1>5, <1>6, <1>7, <1>9, <1>10, <1>11, CountsStay DEF SafeInv

\* pthread_create counts the thread it is to make.
LEMMA CreateKeeps ==
  ASSUME SafeInv, NEW t \in Thread, NEW c \in Thread, PthreadCreate(t, c)
  PROVE  SafeInv'
<1>1. /\ hand[t] = "out" /\ at[t] = "user" /\ at[c] = "unborn"
      /\ \A u \in Thread : target[u] # c
      /\ ~TclWanted
      /\ at' = [at EXCEPT ![t] = "create"] /\ target' = [target EXCEPT ![t] = c]
      /\ uninitialized' = uninitialized + 1
      /\ UNCHANGED <<hand, tstate, listVars, signalled, threadsLock, lockVars,
                     preResumeCount, exiting, ckptVars, restoreInProg, worldVars>>
  BY DEF PthreadCreate, Runs, Goes, CanCreate
<1> USE <1>1 DEF listVars, lockVars, ckptVars, worldVars
<1>2. /\ ckpt \notin Restoring \cup {"stopped", "barriers", "post"}
      /\ tstate[t] \notin {"SUSPINPROG", "SUSPENDED"}
  BY RunningThread
<1>3. TypeInv'
  BY DEF SafeInv, TypeInv, UserPlace
<1>4. /\ at'[t] = "create" /\ target'[t] = c
      /\ \A u \in Thread : u # t => at'[u] = at[u] /\ target'[u] = target[u]
  BY DEF SafeInv, TypeInv
<1>5. DescriptorInv'
  BY <1>4 DEF SafeInv, DescriptorInv
<1>6. HandlerInv'
  BY <1>4 DEF SafeInv, HandlerInv
<1>7. StageInv'
  BY <1>2, <1>4 DEF SafeInv, StageInv
<1>8. Making' = Making \cup {t} /\ t \notin Making /\ Cloning' = Cloning
  BY <1>4 DEF Making, Cloning
<1>9. UninitializedInv'
  BY <1>8, FiniteSets, OneMore DEF SafeInv, UninitializedInv
<1>10. TargetInv'
  BY <1>4 DEF SafeInv, TargetInv
<1>11. LockInv'
  <2>1. WelReaders' = WelReaders /\ WelWriters' = WelWriters /\ ~TclWanted'
    BY <1>4 DEF WelReaders, WelWriters, TclWanted
  <2> QED BY <1>4, <2>1 DEF SafeInv, TypeInv, LockInv, TclWanted, WelWanted, WelHeld
<1> QED BY <1>3, <1>5, <1>6, <1>7, <1>9, <1>10, <1>11, CountsStay DEF SafeInv

\* __clone counts it too.
LEMMA CloneEnterKeeps ==
  ASSUME SafeInv, NEW t \in Thread, CloneEnter(t)
  PROVE  SafeInv'
<1>1. /\ hand[t] = "out" /\ at[t] = "create" /\ ~WelWanted /\ WelWriters = {}
      /\ at' = [at EXCEPT ![t] = "clone"] /\ uninitialized' = uninitialized + 1
      /\ UNCHANGED <<target, hand, tstate, listVars, signalled, threadsLock, lockVars,
                     preResumeCount, exiting, ckptVars, restoreInProg, worldVars>>
  BY DEF CloneEnter, Runs, Goes, CanRead
<1> USE <1>1 DEF listVars, lockVars, ckptVars, worldVars
<1>2. /\ ckpt \notin Restoring \cup {"stopped", "barriers", "post"}
      /\ tstate[t] \notin {"SUSPINPROG", "SUSPENDED"}
  BY RunningThread
<1>3. TypeInv'
  BY DEF SafeInv, TypeInv, UserPlace
<1>4. at'[t] = "clone" /\ \A u \in Thread : u # t => at'[u] = at[u]
  BY DEF SafeInv, TypeInv
<1>5. DescriptorInv'
  BY <1>4 DEF SafeInv, DescriptorInv
<1>6. HandlerInv'
  BY <1>4 DEF SafeInv, HandlerInv
<1>7. StageInv'
  BY <1>2, <1>4 DEF SafeInv, StageInv
<1>8. Making' = Making /\ Cloning' = Cloning \cup {t} /\ t \notin Cloning
  BY <1>4 DEF Making, Cloning
<1>9. UninitializedInv'
  BY <1>8, FiniteSets, OneMore DEF SafeInv, UninitializedInv
<1>10. TargetInv'
  BY <1>4 DEF SafeInv, TargetInv
<1>11. LockInv'
  <2>1. ~WelWanted' /\ ~WelHeld'
    BY DEF WelWanted, WelHeld
  <2> QED BY <1>4, <2>1 DEF SafeInv, TypeInv, LockInv, TclWanted
<1> QED BY <1>3, <1>5, <1>6, <1>7, <1>9, <1>10, <1>11, CountsStay DEF SafeInv

\* The kernel makes the thread, or does not.
LEMMA CloneKeeps ==
  ASSUME SafeInv, NEW t \in Thread, Clone(t)
  PROVE  SafeInv'
<1> DEFINE c == target[t]
<1>1. /\ hand[t] = "out" /\ at[t] = "clone"
      /\ UNCHANGED <<target, hand, tstate, threads, signalled, threadsLock, lockVars,
                     preResumeCount, exiting, ckptVars, restoreInProg, worldVars>>
  BY DEF Clone, Runs
<1>2. \/ /\ at' = [at EXCEPT ![t] = "created", ![c] = "starting"]
         /\ parent' = [parent EXCEPT ![c] = t]
         /\ uninitialized' = uninitialized
      \/ /\ at' = [at EXCEPT ![t] = "failed"] /\ uninitialized' = uninitialized - 1
         /\ parent' = parent
  BY DEF Clone, Goes
<1>3. /\ ckpt \notin Restoring \cup {"stopped", "barriers", "post"}
      /\ tstate[t] \notin {"SUSPINPROG", "SUSPENDED"}
  BY <1>1, RunningThread
<1>4. c \in Thread /\ at[c] = "unborn" /\ c # t
  BY <1>1 DEF SafeInv, TargetInv
<1> HIDE DEF c
<1> USE <1>1 DEF lockVars, ckptVars, worldVars
<1>5. ~WelWanted' /\ ~WelHeld' /\ TclWanted' = TclWanted
  <2>1. t \in WelReaders /\ t \in TclReaders
    BY DEF WelReaders, TclReaders
  <2>2. ~WelHeld /\ ~WelWanted
    BY <2>1 DEF SafeInv, LockInv
  <2> QED BY <2>2 DEF WelWanted, WelHeld, TclWanted
<1>6. t \in Making /\ t \in Cloning /\ c \notin Making /\ c \notin Cloning
  BY <1>4 DEF Making, Cloning
<1>7. uninitialized = Cardinality(Making) + Cardinality(Cloning)
  BY DEF SafeInv, UninitializedInv
<1>8. CASE /\ at' = [at EXCEPT ![t] = "created", ![c] = "starting"]
           /\ parent' = [parent EXCEPT ![c] = t]
           /\ uninitialized' = uninitialized
  <2>1. /\ at'[t] = "created" /\ at'[c] = "starting"
        /\ \A u \in Thread : u # t /\ u # c => at'[u] = at[u]
    BY <1>4, <1>8 DEF SafeInv, TypeInv
  <2>2. at' \in [Thread -> UserPlace] /\ parent' \in [Thread -> Thread \cup {Nobody}]
    BY <1>4, <1>8 DEF SafeInv, TypeInv, UserPlace
  <2>3. TypeInv'
    BY <2>2 DEF SafeInv, TypeInv
  <2>4. DescriptorInv'
    BY <1>4, <2>1 DEF SafeInv, DescriptorInv
  <2>5. HandlerInv'
    BY <1>4, <2>1 DEF SafeInv, HandlerInv, StopPlace
  <2>6. StageInv'
    BY <1>3, <1>4, <2>1 DEF SafeInv, StageInv
  <2>7. Making' = (Making \ {t}) \cup {c} /\ Cloning' = (Cloning \ {t}) \cup {c}
    BY <1>4, <2>1 DEF Making, Cloning
  <2>8. Cardinality(Making') = Cardinality(Making)
    <3>1. Making \ {t} \in SUBSET Thread /\ c \notin Making \ {t}
      BY <1>6, FiniteSets
    <3>2. Cardinality((Making \ {t}) \cup {c}) = Cardinality(Making \ {t}) + 1
      BY <1>4, <3>1, OneMore
    <3>3. Cardinality(Making \ {t}) = Cardinality(Making) - 1
      BY <1>6, FiniteSets, OneLess
    <3> QED BY <2>7, <3>2, <3>3, FiniteSets
  <2>9. Cardinality(Cloning') = Cardinality(Cloning)
    <3>1. Cloning \ {t} \in SUBSET Thread /\ c \notin Cloning \ {t}
      BY <1>6, FiniteSets
    <3>2. Cardinality((Cloning \ {t}) \cup {c}) = Cardinality(Cloning \ {t}) + 1
      BY <1>4, <3>1, OneMore
    <3>3. Cardinality(Cloning \ {t}) = Cardinality(Cloning) - 1
      BY <1>6, FiniteSets, OneLess
    <3> QED BY <2>7, <3>2, <3>3, FiniteSets
  <2>10. UninitializedInv'
    BY <1>7, <1>8, <2>8, <2>9 DEF UninitializedInv
  <2>11. TargetInv'
    BY <1>4, <2>1 DEF SafeInv, TargetInv, c
  <2>12. LockInv'
    BY <1>4, <1>5, <2>1 DEF SafeInv, TypeInv, LockInv
  <2> QED BY <2>3, <2>4, <2>5, <2>6, <2>10, <2>11, <2>12, CountsStay DEF SafeInv
<1>9. CASE /\ at' = [at EXCEPT ![t] = "failed"] /\ uninitialized' = uninitialized - 1
           /\ parent' = parent
  <2>1. at'[t] = "failed" /\ \A u \in Thread : u # t => at'[u] = at[u]
    BY <1>9 DEF SafeInv, TypeInv
  <2>2. TypeInv'
    BY <1>9 DEF SafeInv, TypeInv, UserPlace
  <2>3. DescriptorInv'
    BY <2>1 DEF SafeInv, DescriptorInv
  <2>4. HandlerInv'
    BY <2>1 DEF SafeInv, HandlerInv, StopPlace
  <2>5. StageInv'
    BY <1>3, <2>1 DEF SafeInv, StageInv
  <2>6. Making' = Making /\ Cloning' = Cloning \ {t}
    BY <2>1 DEF Making, Cloning
  <2>7. Cardinality(Cloning') = Cardinality(Cloning) - 1
    BY <1>6, <2>6, FiniteSets, OneLess
  <2>8. UninitializedInv'
    BY <1>7, <1>9, <2>6, <2>7, FiniteSets DEF UninitializedInv
  <2>9. TargetInv'
    BY <2>1 DEF SafeInv, TargetInv
  <2>10. LockInv'
    BY <1>5, <2>1 DEF SafeInv, TypeInv, LockInv
  <2> QED BY <2>2, <2>3, <2>4, <2>5, <2>8, <2>9, <2>10, CountsStay DEF SafeInv
<1> QED BY <1>2, <1>8, <1>9

\* pthread_create returns.
LEMMA CreateReturnKeeps ==
  ASSUME SafeInv, NEW t \in Thread, CreateReturn(t)
  PROVE  SafeInv'
<1>1. /\ hand[t] = "out" /\ at[t] \in {"created", "failed"}
      /\ at' = [at EXCEPT ![t] = "user"] /\ target' = [target EXCEPT ![t] = Nobody]
      /\ uninitialized' = IF at[t] = "failed" THEN uninitialized - 1 ELSE uninitialized
      /\ UNCHANGED <<hand, tstate, listVars, signalled, threadsLock, lockVars,
                     preResumeCount, exiting, ckptVars, restoreInProg, worldVars>>
  BY DEF CreateReturn, Runs, Goes
<1> USE <1>1 DEF listVars, lockVars, ckptVars, worldVars
<1>2. /\ ckpt \notin Restoring \cup {"stopped", "barriers", "post"}
      /\ tstate[t] \notin {"SUSPINPROG", "SUSPENDED"}
  BY RunningThread
<1>3. TypeInv'
  BY DEF SafeInv, TypeInv, UserPlace
<1>4. /\ at'[t] = "user" /\ target'[t] = Nobody
      /\ \A u \in Thread : u # t => at'[u] = at[u] /\ target'[u] = target[u]
  BY DEF SafeInv, TypeInv
<1>5. DescriptorInv'
  BY <1>4 DEF SafeInv, DescriptorInv
<1>6. HandlerInv'
  BY <1>4 DEF SafeInv, HandlerInv
<1>7. StageInv'
  BY <1>2, <1>4 DEF SafeInv, StageInv
<1>8. UninitializedInv'
  <2>1. Cloning' = Cloning
    BY <1>4 DEF Cloning
  <2>2. CASE at[t] = "failed"
    <3>1. t \in Making /\ Making' = Making \ {t}
      BY <1>4, <2>2 DEF Making
    <3> QED BY <2>1, <2>2, <3>1, FiniteSets, OneLess DEF SafeInv, UninitializedInv
  <2>3. CASE at[t] = "created"
    <3>1. Making' = Making
      BY <1>4, <2>3 DEF Making
    <3> QED BY <2>1, <2>3, <3>1 DEF SafeInv, UninitializedInv
  <2> QED BY <2>2, <2>3
<1>9. TargetInv'
  BY <1>4 DEF SafeInv, TargetInv
<1>10. LockInv'
  <2>1. t \in TclReaders /\ ~WelWanted /\ ~WelHeld
    BY DEF TclReaders, SafeInv, LockInv, WelWanted
  <2>2. ~WelWanted' /\ ~WelHeld' /\ TclWanted' = TclWanted
    BY <2>1 DEF WelWanted, WelHeld, TclWanted
  <2> QED BY <1>4, <2>2 DEF SafeInv, TypeInv, LockInv
<1> QED BY <1>3, <1>5, <1>6, <1>7, <1>8, <1>9, <1>10, CountsStay DEF SafeInv

\* Once the count of uninitialised threads has been found to be zero, no thread
\* is being made until the locks are released.
LEMMA BeingMade ==
  ASSUME SafeInv, NEW t \in Thread, t \in Making
  PROVE  ckpt \notin {"rescan", "scan", "rest", "reap", "stopped"}
<1>1. uninitialized # 0
  BY NoneMade DEF SafeInv
<1> QED BY <1>1 DEF SafeInv, LockInv, WelHeld

\* The thread links its descriptor, and drops those of dead threads.
LEMMA ThreadStartKeeps ==
  ASSUME SafeInv, NEW t \in Thread, ThreadStart(t)
  PROVE  SafeInv'
<1>1. /\ hand[t] = "out" /\ at[t] = "starting" /\ threadsLock = Nobody
      /\ at' = [at EXCEPT ![t] = "linked"] /\ tstate' = [tstate EXCEPT ![t] = "RUNDISABLED"]
      /\ threads' = (threads \cup {t}) \ DeadDescriptors
      /\ parent' \in [Thread -> Thread \cup {Nobody}]
      /\ UNCHANGED <<target, hand, signalled, threadsLock, lockVars, uninitialized,
                     preResumeCount, exiting, ckptVars, restoreInProg, worldVars>>
  BY DEF ThreadStart, Runs, Goes, Becomes, LockFree, Adopted
<1> USE <1>1 DEF lockVars, ckptVars, worldVars
<1>2. /\ ckpt \notin Restoring \cup {"stopped", "barriers", "post"}
      /\ tstate[t] \notin {"SUSPINPROG", "SUSPENDED"}
  BY RunningThread
<1>3. t \in Making
  BY DEF Making
<1>4. ckpt \notin {"rescan", "scan", "rest", "reap", "stopped", "resume"}
  BY <1>3, BeingMade DEF SafeInv, LockInv
<1>5. TypeInv'
  <2>1. threads' \in SUBSET Thread
    BY DEF SafeInv, TypeInv
  <2> QED BY <2>1 DEF SafeInv, TypeInv, UserPlace, ThreadState
<1>6. /\ at'[t] = "linked" /\ \A u \in Thread : u # t => at'[u] = at[u]
      /\ tstate'[t] = "RUNDISABLED" /\ \A u \in Thread : u # t => tstate'[u] = tstate[u]
  BY DEF SafeInv, TypeInv
<1>7. \A u \in Thread : u \in threads' <=>
        \/ u = t
        \/ u \in threads /\ ~(tstate[u] = "ZOMBIE" /\ at[u] = "gone")
  BY DEF DeadDescriptors
<1>8. DescriptorInv'
  BY <1>6, <1>7 DEF SafeInv, DescriptorInv
<1>9. HandlerInv'
  BY <1>6 DEF SafeInv, HandlerInv, StopPlace
<1>10. StageInv'
  BY <1>2, <1>4, <1>6 DEF SafeInv, StageInv, Scanning
<1>11. Making' = Making /\ Cloning' = Cloning
  BY <1>6 DEF Making, Cloning
<1>12. UninitializedInv'
  BY <1>11 DEF SafeInv, UninitializedInv
<1>13. TargetInv'
  BY <1>6 DEF SafeInv, TargetInv
<1>14. LockInv'
  <2>1. TclReaders' = TclReaders /\ WelReaders' = WelReaders /\ WelWriters' = WelWriters
    BY <1>6 DEF TclReaders, WelReaders, WelWriters
  <2> QED BY <1>6, <2>1 DEF SafeInv, LockInv, TclWanted, WelWanted, WelHeld
<1> QED BY <1>5, <1>8, <1>9, <1>10, <1>12, <1>13, <1>14, CountsStay DEF SafeInv

\* mtcp_ok: the thread can be stopped from now on.
LEMMA MtcpOkKeeps ==
  ASSUME SafeInv, NEW t \in Thread, MtcpOk(t)
  PROVE  SafeInv'
<1>1. tstate[t] # "SIGDISABLED"
  BY DEF SafeInv, TypeInv
<1>2. /\ hand[t] = "out" /\ at[t] = "linked" /\ threadsLock = Nobody
      /\ at' = [at EXCEPT ![t] = "ready"] /\ tstate' = [tstate EXCEPT ![t] = "RUNENABLED"]
      /\ hand' = hand
      /\ UNCHANGED <<target, listVars, signalled, threadsLock, lockVars, uninitialized,
                     preResumeCount, exiting, ckptVars, restoreInProg, worldVars>>
  BY <1>1 DEF MtcpOk, Runs, Goes, Becomes, LockFree, GetCurrentThread
<1> USE <1>2 DEF listVars, lockVars, ckptVars, worldVars
<1>3. /\ ckpt \notin Restoring \cup {"stopped", "barriers", "post"}
      /\ tstate[t] \notin {"SUSPINPROG", "SUSPENDED"}
  BY RunningThread
<1>4. t \in Making
  BY DEF Making
<1>5. ckpt \notin {"rescan", "scan", "rest", "reap", "stopped", "resume"}
  BY <1>4, BeingMade DEF SafeInv, LockInv
<1>6. TypeInv'
  BY DEF SafeInv, TypeInv, UserPlace, ThreadState
<1>7. /\ at'[t] = "ready" /\ \A u \in Thread : u # t => at'[u] = at[u]
      /\ tstate'[t] = "RUNENABLED" /\ \A u \in Thread : u # t => tstate'[u] = tstate[u]
  BY DEF SafeInv, TypeInv
<1>8. DescriptorInv'
  BY <1>7 DEF SafeInv, DescriptorInv
<1>9. HandlerInv'
  BY <1>7 DEF SafeInv, HandlerInv, StopPlace
<1>10. StageInv'
  BY <1>3, <1>5, <1>7 DEF SafeInv, StageInv, Scanning
<1>11. Making' = Making /\ Cloning' = Cloning
  BY <1>7 DEF Making, Cloning
<1>12. UninitializedInv'
  BY <1>11 DEF SafeInv, UninitializedInv
<1>13. TargetInv'
  BY <1>7 DEF SafeInv, TargetInv
<1>14. LockInv'
  <2>1. TclReaders' = TclReaders /\ WelReaders' = WelReaders /\ WelWriters' = WelWriters
    BY <1>7 DEF TclReaders, WelReaders, WelWriters
  <2> QED BY <1>7, <2>1 DEF SafeInv, LockInv, TclWanted, WelWanted, WelHeld
<1> QED BY <1>6, <1>8, <1>9, <1>10, <1>12, <1>13, <1>14, CountsStay DEF SafeInv

\* The two counts of a new thread are taken back.
LEMMA InitializedKeeps ==
  ASSUME SafeInv, NEW t \in Thread, ThreadFinishedInitialization(t)
  PROVE  SafeInv'
<1>1. /\ hand[t] = "out"
      /\ \/ at[t] = "ready" /\ at' = [at EXCEPT ![t] = "started"]
         \/ at[t] = "started" /\ at' = [at EXCEPT ![t] = "user"]
      /\ uninitialized' = uninitialized - 1
      /\ UNCHANGED <<target, hand, tstate, listVars, signalled, threadsLock, lockVars,
                     preResumeCount, exiting, ckptVars, restoreInProg, worldVars>>
  BY DEF ThreadFinishedInitialization, Runs, Goes
<1> USE <1>1 DEF listVars, lockVars, ckptVars, worldVars
<1>2. /\ ckpt \notin Restoring \cup {"stopped", "barriers", "post"}
      /\ tstate[t] \notin {"SUSPINPROG", "SUSPENDED"}
  BY RunningThread
<1>3. t \in Making
  BY DEF Making
<1>4. ckpt \notin {"rescan", "scan", "rest", "reap", "stopped"}
  BY <1>3, BeingMade
<1>5. TypeInv'
  BY DEF SafeInv, TypeInv, UserPlace
<1>6. /\ \A u \in Thread : u # t => at'[u] = at[u]
      /\ \/ at[t] = "ready" /\ at'[t] = "started"
         \/ at[t] = "started" /\ at'[t] = "user"
  BY DEF SafeInv, TypeInv
<1>7. DescriptorInv'
  BY <1>6 DEF SafeInv, DescriptorInv
<1>8. HandlerInv'
  BY <1>6 DEF SafeInv, HandlerInv, StopPlace
<1>9. StageInv'
  BY <1>2, <1>6 DEF SafeInv, StageInv
<1>10. UninitializedInv'
  <2>1. CASE at[t] = "ready"
    <3>1. Making' = Making /\ Cloning' = Cloning \ {t} /\ t \in Cloning
      BY <1>6, <2>1 DEF Making, Cloning
    <3> QED BY <3>1, FiniteSets, OneLess DEF SafeInv, UninitializedInv
  <2>2. CASE at[t] = "started"
    <3>1. Making' = Making \ {t} /\ Cloning' = Cloning
      BY <1>6, <2>2 DEF Making, Cloning
    <3> QED BY <1>3, <3>1, FiniteSets, OneLess DEF SafeInv, UninitializedInv
  <2> QED BY <2>1, <2>2
<1>11. TargetInv'
  BY <1>6 DEF SafeInv, TargetInv
<1>12. LockInv'
  <2>1. TclReaders' = TclReaders /\ WelReaders' = WelReaders /\ WelWriters' = WelWriters
    BY <1>6 DEF TclReaders, WelReaders, WelWriters
  <2> QED BY <1>4, <1>6, <2>1 DEF SafeInv, TypeInv, LockInv, TclWanted, WelWanted, WelHeld
<1> QED BY <1>5, <1>7, <1>8, <1>9, <1>10, <1>11, <1>12, CountsStay DEF SafeInv

\* A thread ends.
LEMMA ZombieKeeps ==
  ASSUME SafeInv, NEW t \in Thread, Zombie(t)
  PROVE  SafeInv'
<1>1. /\ hand[t] = "out" /\ at[t] = "dying"
      /\ at' = [at EXCEPT ![t] = "zombie"] /\ tstate' = [tstate EXCEPT ![t] = "ZOMBIE"]
      /\ UNCHANGED <<target, hand, listVars, signalled, threadsLock, lockVars, uninitialized,
                     preResumeCount, exiting, ckptVars, restoreInProg, worldVars>>
  BY DEF Zombie, Runs, Goes, Becomes
<1> USE <1>1 DEF listVars, lockVars, ckptVars, worldVars
<1>2. /\ ckpt \notin Restoring \cup {"stopped", "barriers", "post"}
      /\ tstate[t] \notin {"SUSPINPROG", "SUSPENDED"}
  BY RunningThread
<1>3. ~WelHeld
  BY DEF SafeInv, LockInv, WelReaders
<1>4. TypeInv'
  BY DEF SafeInv, TypeInv, UserPlace, ThreadState
<1>5. /\ at'[t] = "zombie" /\ \A u \in Thread : u # t => at'[u] = at[u]
      /\ tstate'[t] = "ZOMBIE" /\ \A u \in Thread : u # t => tstate'[u] = tstate[u]
  BY DEF SafeInv, TypeInv
<1>6. DescriptorInv'
  BY <1>5 DEF SafeInv, DescriptorInv
<1>7. HandlerInv'
  BY <1>5 DEF SafeInv, HandlerInv, StopPlace
<1>8. StageInv'
  BY <1>2, <1>3, <1>5 DEF SafeInv, StageInv, Scanning, WelHeld
<1>9. Making' = Making /\ Cloning' = Cloning
  BY <1>5 DEF Making, Cloning
<1>10. UninitializedInv'
  BY <1>9 DEF SafeInv, UninitializedInv
<1>11. TargetInv'
  BY <1>5 DEF SafeInv, TargetInv
<1>12. LockInv'
  <2>1. TclReaders' = TclReaders /\ ~WelHeld'
    BY <1>3, <1>5 DEF TclReaders, WelHeld
  <2> QED BY <1>5, <2>1 DEF SafeInv, LockInv, TclWanted, WelWanted, WelHeld
<1> QED BY <1>4, <1>6, <1>7, <1>8, <1>10, <1>11, <1>12, CountsStay DEF SafeInv

\* The kernel forgets a thread that has ended, but not the first one.
LEMMA VanishKeeps ==
  ASSUME SafeInv, NEW t \in Thread, Vanish(t)
  PROVE  SafeInv'
<1>1. /\ t # Main /\ hand[t] = "out" /\ at[t] = "zombie" /\ at' = [at EXCEPT ![t] = "gone"]
      /\ UNCHANGED <<target, hand, tstate, listVars, signalled, threadsLock, lockVars,
                     uninitialized, preResumeCount, exiting, ckptVars, restoreInProg, worldVars>>
  BY DEF Vanish, Moves, Runs, Goes
<1> USE <1>1 DEF listVars, lockVars, ckptVars, worldVars
<1>2. /\ ckpt \notin Restoring \cup {"stopped", "barriers", "post"}
      /\ tstate[t] \notin {"SUSPINPROG", "SUSPENDED"}
  BY RunningThread
<1>3. TypeInv'
  BY DEF SafeInv, TypeInv, UserPlace
<1>4. at'[t] = "gone" /\ \A u \in Thread : u # t => at'[u] = at[u]
  BY DEF SafeInv, TypeInv
<1>5. DescriptorInv'
  BY <1>4 DEF SafeInv, DescriptorInv
<1>6. HandlerInv'
  BY <1>4 DEF SafeInv, HandlerInv, StopPlace
<1>7. StageInv'
  BY <1>2, <1>4 DEF SafeInv, StageInv
<1>8. Making' = Making /\ Cloning' = Cloning
  BY <1>4 DEF Making, Cloning
<1>9. UninitializedInv'
  BY <1>8 DEF SafeInv, UninitializedInv
<1>10. TargetInv'
  BY <1>4 DEF SafeInv, TargetInv
<1>11. LockInv'
  <2>1. TclReaders' = TclReaders /\ WelReaders' = WelReaders /\ WelWriters' = WelWriters
    BY <1>4 DEF TclReaders, WelReaders, WelWriters
  <2> QED BY <1>4, <2>1 DEF SafeInv, LockInv, TclWanted, WelWanted, WelHeld
<1> QED BY <1>3, <1>5, <1>6, <1>7, <1>9, <1>10, <1>11, CountsStay DEF SafeInv

\* The steps of exit() hold at most the lock of the list.
LEMMA ExitKeeps ==
  ASSUME SafeInv, NEW t \in Thread,
         Exit(t) \/ DestroyTryLock(t) \/ KillCkpthread(t) \/ DestroyLock(t)
  PROVE  SafeInv'
<1>1. /\ hand[t] = "out" /\ at[t] \in {"user", "closed", "killing", "destroying"}
      /\ \/ /\ at' = at /\ threadsLock' = threadsLock
         \/ /\ at[t] = "user" /\ at' = [at EXCEPT ![t] = "exiting"]
            /\ threadsLock' = threadsLock
         \/ /\ at[t] = "closed" /\ at' = [at EXCEPT ![t] = "killing"]
            /\ threadsLock = Nobody /\ threadsLock' = t
         \/ /\ at[t] = "killing" /\ at' = [at EXCEPT ![t] = "destroying"]
            /\ threadsLock' = Nobody
      /\ exiting' \in {exiting, t} /\ destroyLock' \in {destroyLock, t}
      /\ fate' \in {fate, "ended"}
      /\ UNCHANGED <<target, hand, tstate, listVars, signalled, libdlLock, uninitialized,
                     preResumeCount, ckptVars, restoreInProg, image, ckpts, restarts>>
  BY DEF Exit, DestroyTryLock, KillCkpthread, DestroyLock, Runs, Goes, LockFree, Ended,
         userVars, listVars, lockVars, ckptVars, worldVars
<1> USE <1>1 DEF listVars, ckptVars
<1>2. at[t] \notin {"unborn", "gone"}
  OBVIOUS
<1>3. /\ ckpt \notin Restoring \cup {"stopped", "barriers", "post"}
      /\ tstate[t] \notin {"SUSPINPROG", "SUSPENDED"}
  BY <1>2, RunningThread
<1>4. TypeInv'
  <2>1. at' \in [Thread -> UserPlace]
    BY DEF SafeInv, TypeInv, UserPlace
  <2> QED BY <2>1 DEF SafeInv, TypeInv
<1>5. /\ at'[t] \in {"user", "closed", "exiting", "killing", "destroying"}
      /\ \A u \in Thread : u # t => at'[u] = at[u]
  BY DEF SafeInv, TypeInv
<1>6. DescriptorInv'
  BY <1>5 DEF SafeInv, DescriptorInv
<1>7. HandlerInv'
  BY <1>5 DEF SafeInv, HandlerInv, StopPlace
<1>8. StageInv'
  BY <1>3, <1>5 DEF SafeInv, StageInv
<1>9. Making' = Making /\ Cloning' = Cloning
  BY <1>5 DEF Making, Cloning
<1>10. UninitializedInv'
  BY <1>9 DEF SafeInv, UninitializedInv
<1>11. TargetInv'
  BY <1>5 DEF SafeInv, TargetInv
<1>12. LockInv'
  <2>1. TclReaders' = TclReaders /\ WelReaders' = WelReaders /\ WelWriters' = WelWriters
    BY <1>5 DEF TclReaders, WelReaders, WelWriters
  <2>2. \A u \in Thread : at'[u] = "killing" <=> threadsLock' = u
    BY <1>5 DEF SafeInv, TypeInv, LockInv
  <2>3. threadsLock' = Ckpt <=> threadsLock = Ckpt
    BY DEF SafeInv, TypeInv, LockInv
  <2> QED BY <1>5, <2>1, <2>2, <2>3 DEF SafeInv, LockInv, TclWanted, WelWanted, WelHeld
<1> QED BY <1>4, <1>6, <1>7, <1>8, <1>10, <1>11, <1>12, CountsStay DEF SafeInv

\* Every step of a user thread.
LEMMA UserStepKeeps ==
  ASSUME SafeInv, NEW t \in Thread, UserStep(t)
  PROVE  SafeInv'
<1>1. CASE Wrapper(t) \/ Popen(t) \/ Fork(t) \/ Join(t) \/ Return(t) \/ CloseConnection(t)
  BY <1>1, MovesKeep
     DEF Wrapper, Popen, Fork, Join, Return, CloseConnection, OrdinaryPlace
<1>2. CASE \E c \in Thread : PthreadCreate(t, c)
  BY <1>2, CreateKeeps
<1>3. CASE Exit(t) \/ DestroyTryLock(t) \/ KillCkpthread(t) \/ DestroyLock(t)
  BY <1>3, ExitKeeps
<1> QED BY <1>1, <1>2, <1>3, DlopenKeeps, CloneEnterKeeps, CloneKeeps, CreateReturnKeeps,
           ThreadStartKeeps, MtcpOkKeeps, InitializedKeeps, ZombieKeeps, VanishKeeps DEF UserStep

-----------------------------------------------------------------------------
(* The handler of STOPSIGNAL. *)

\* A step inside the handler leaves the locks and the list alone.
LEMMA HandlerStep ==
  ASSUME SafeInv, UNCHANGED <<userVars, threads, threadsLock, lockVars, uninitialized,
                              ckptVars, image>>
  PROVE  UninitializedInv' /\ TargetInv' /\ LockInv' /\ ImageInv'
<1> USE DEF userVars, lockVars, ckptVars
<1>1. Making' = Making /\ Cloning' = Cloning
  BY DEF Making, Cloning
<1>2. LockInv'
  BY DEF SafeInv, LockInv, TclWanted, WelWanted, WelHeld, TclReaders, WelReaders, WelWriters
<1> QED BY <1>1, <1>2 DEF SafeInv, UninitializedInv, TargetInv, ImageInv

\* The signal is delivered.
LEMMA DeliverKeeps ==
  ASSUME SafeInv, NEW t \in Thread, Deliver(t)
  PROVE  SafeInv'
<1>1. /\ t \in signalled /\ hand[t] = "out" /\ at[t] # "gone"
      /\ signalled' = signalled \ {t} /\ hand' = [hand EXCEPT ![t] = "enter"]
      /\ UNCHANGED <<userVars, tstate, listVars, threadsLock, lockVars, uninitialized,
                     preResumeCount, exiting, ckptVars, restoreInProg, worldVars>>
  BY DEF Deliver, Runs, Handles
<1> USE <1>1 DEF userVars, listVars, ckptVars, worldVars
<1>2. TypeInv'
  BY DEF SafeInv, TypeInv, HandlerPlace, lockVars
<1>3. hand'[t] = "enter" /\ \A u \in Thread : u # t => hand'[u] = hand[u]
  BY DEF SafeInv, TypeInv
<1>4. DescriptorInv'
  BY DEF SafeInv, DescriptorInv
<1>5. HandlerInv'
  BY <1>3 DEF SafeInv, HandlerInv
<1>6. StageInv'
  BY <1>3 DEF SafeInv, StageInv
<1>7. Halted' = Halted /\ Recreated' = Recreated
  BY <1>3 DEF Halted, Recreated
<1>8. HaltedInv' /\ RestoreInv'
  BY <1>7 DEF SafeInv, HaltedInv, RestoreInv
<1> QED BY <1>2, <1>4, <1>5, <1>6, <1>8, HandlerStep DEF SafeInv

\* While descriptors are scanned, a thread that is to stop and does not hold
\* the lock of the list is outside all wrappers.
LEMMA StopsOutside ==
  ASSUME SafeInv, NEW t \in Thread, tstate[t] = "SIGENABLED", threadsLock # t
  PROVE  at[t] \in StopPlace
<1>1. ckpt \in Scanning
  BY DEF SafeInv, StageInv
<1>2. /\ WelReaders = {} /\ WelWriters = {} /\ TclReaders = {} /\ libdlLock = Ckpt
      /\ uninitialized = 0
  BY <1>1 DEF SafeInv, LockInv, Scanning, WelHeld, WelWanted, TclWanted
<1>3. Making = {}
  BY <1>2, NoneMade DEF SafeInv
<1>4. at[t] \notin {"wrap", "popen", "dlwrap", "joining", "clone", "dying", "excl", "dlexcl",
                    "create", "created", "failed", "starting", "linked", "ready", "started"}
  BY <1>2, <1>3 DEF WelReaders, WelWriters, TclReaders, Making
<1>5. at[t] \notin {"dl", "killing"}
  BY <1>2 DEF SafeInv, LockInv
<1>6. at[t] \notin {"unborn", "zombie", "gone"}
  BY DEF SafeInv, DescriptorInv
<1> QED BY <1>4, <1>5, <1>6 DEF SafeInv, TypeInv, UserPlace, StopPlace

\* The handler finds out whether the thread is to stop.
LEMMA EnterHandlerKeeps ==
  ASSUME SafeInv, NEW t \in Thread, EnterHandler(t)
  PROVE  SafeInv'
<1>1. /\ hand[t] = "enter" /\ threadsLock = Nobody
      /\ \/ /\ tstate[t] = "SIGENABLED" /\ tstate' = [tstate EXCEPT ![t] = "SUSPINPROG"]
            /\ hand' = [hand EXCEPT ![t] = "saving"]
         \/ /\ tstate' = tstate /\ hand' = [hand EXCEPT ![t] = "out"]
      /\ UNCHANGED <<userVars, listVars, signalled, threadsLock, lockVars, uninitialized,
                     preResumeCount, exiting, ckptVars, restoreInProg, worldVars>>
  BY DEF EnterHandler, GetCurrentThread, LockFree, StepsInHandler, Handles, Becomes
<1> USE <1>1 DEF userVars, listVars, ckptVars, worldVars
<1>2. TypeInv'
  BY DEF SafeInv, TypeInv, HandlerPlace, ThreadState, lockVars
<1>3. /\ \A u \in Thread : u # t => hand'[u] = hand[u] /\ tstate'[u] = tstate[u]
      /\ \/ /\ tstate[t] = "SIGENABLED" /\ tstate'[t] = "SUSPINPROG" /\ hand'[t] = "saving"
            /\ at[t] \in StopPlace
         \/ tstate'[t] = tstate[t] /\ hand'[t] = "out"
  BY StopsOutside DEF SafeInv, TypeInv
<1>4. DescriptorInv'
  BY <1>3 DEF SafeInv, DescriptorInv
<1>5. HandlerInv'
  BY <1>3 DEF SafeInv, HandlerInv
<1>6. StageInv'
  BY <1>3 DEF SafeInv, StageInv, Scanning, Preparing, Restoring
<1>7. Halted' = Halted /\ Recreated' = Recreated
  BY <1>3 DEF Halted, Recreated
<1>8. HaltedInv' /\ RestoreInv'
  BY <1>7 DEF SafeInv, HaltedInv, RestoreInv
<1> QED BY <1>2, <1>4, <1>5, <1>6, <1>8, HandlerStep DEF SafeInv

\* It saves the registers.
LEMMA SaveStateKeeps ==
  ASSUME SafeInv, NEW t \in Thread, SaveState(t)
  PROVE  SafeInv'
<1>1. /\ hand[t] = "saving" /\ tstate' = [tstate EXCEPT ![t] = "SUSPENDED"]
      /\ hand' = [hand EXCEPT ![t] = "late"]
      /\ UNCHANGED <<userVars, listVars, signalled, threadsLock, lockVars, uninitialized,
                     preResumeCount, exiting, ckptVars, restoreInProg, worldVars>>
  BY DEF SaveState, StepsInHandler, Handles, Becomes
<1> USE <1>1 DEF userVars, listVars, ckptVars, worldVars
<1>2. tstate[t] = "SUSPINPROG" /\ ckpt \in Scanning
  BY DEF SafeInv, HandlerInv, StageInv
<1>3. TypeInv'
  BY DEF SafeInv, TypeInv, HandlerPlace, ThreadState, lockVars
<1>4. /\ \A u \in Thread : u # t => hand'[u] = hand[u] /\ tstate'[u] = tstate[u]
      /\ tstate'[t] = "SUSPENDED" /\ hand'[t] = "late"
  BY DEF SafeInv, TypeInv
<1>5. DescriptorInv'
  BY <1>2, <1>4 DEF SafeInv, DescriptorInv
<1>6. HandlerInv'
  BY <1>4 DEF SafeInv, HandlerInv
<1>7. StageInv'
  BY <1>2, <1>4 DEF SafeInv, StageInv, Scanning, Preparing, Restoring
<1>8. Halted' = Halted /\ Recreated' = Recreated
  BY <1>4 DEF Halted, Recreated
<1>9. HaltedInv' /\ RestoreInv'
  BY <1>8 DEF SafeInv, HaltedInv, RestoreInv
<1> QED BY <1>3, <1>5, <1>6, <1>7, <1>9, HandlerStep DEF SafeInv

\* It counts itself before it waits.
LEMMA PreSuspendKeeps ==
  ASSUME SafeInv, NEW t \in Thread, PreSuspend(t)
  PROVE  SafeInv'
<1>1. /\ hand[t] = "late" /\ hand' = [hand EXCEPT ![t] = "halted"]
      /\ preResumeCount' = preResumeCount + 1
      /\ UNCHANGED <<userVars, tstate, listVars, signalled, threadsLock, lockVars, uninitialized,
                     exiting, ckptVars, restoreInProg, worldVars>>
  BY DEF PreSuspend, StepsInHandler, Handles
<1> USE <1>1 DEF userVars, listVars, ckptVars, worldVars
<1>2. TypeInv'
  BY DEF SafeInv, TypeInv, HandlerPlace, lockVars
<1>3. hand'[t] = "halted" /\ \A u \in Thread : u # t => hand'[u] = hand[u]
  BY DEF SafeInv, TypeInv
<1>4. DescriptorInv'
  BY DEF SafeInv, DescriptorInv
<1>5. HandlerInv'
  BY <1>3 DEF SafeInv, HandlerInv
<1>6. StageInv'
  <2>1. ckpt \notin Preparing \cup Restoring \cup {"resume", "sleep"} /\ tstate[t] = "SUSPENDED"
    BY DEF SafeInv, StageInv, HandlerInv
  <2> QED BY <1>3, <2>1 DEF SafeInv, StageInv
<1>7. Halted' = Halted \cup {t} /\ t \notin Halted /\ Recreated' = Recreated
  BY <1>3 DEF Halted, Recreated
<1>8. HaltedInv' /\ RestoreInv'
  BY <1>7, FiniteSets, OneMore DEF SafeInv, HaltedInv, RestoreInv
<1> QED BY <1>2, <1>4, <1>5, <1>6, <1>8, HandlerStep DEF SafeInv

\* It stops waiting.
LEMMA WakeUpKeeps ==
  ASSUME SafeInv, NEW t \in Thread, WakeUp(t)
  PROVE  SafeInv'
<1>1. /\ \/ hand[t] = "halted" /\ tstate[t] # "SUSPENDED"
         \/ hand[t] = "restored" /\ restoreInProg = 0
      /\ hand' = [hand EXCEPT ![t] = "leaving"]
      /\ UNCHANGED <<userVars, tstate, listVars, signalled, threadsLock, lockVars, uninitialized,
                     preResumeCount, exiting, ckptVars, restoreInProg, worldVars>>
  BY DEF WakeUp, Woken, StepsInHandler, Handles
<1> USE <1>1 DEF userVars, listVars, ckptVars, worldVars
<1>2. TypeInv'
  BY DEF SafeInv, TypeInv, HandlerPlace, lockVars
<1>3. hand'[t] = "leaving" /\ \A u \in Thread : u # t => hand'[u] = hand[u]
  BY DEF SafeInv, TypeInv
<1>4. restoreInProg = 0 => ckpt \notin Restoring
  BY FiniteSets DEF SafeInv, RestoreInv
<1>5. ckpt \in {"resume", "sleep"} /\ tstate[t] = "RUNENABLED"
  <2>1. CASE hand[t] = "halted" /\ tstate[t] # "SUSPENDED"
    BY <2>1 DEF SafeInv, TypeInv, CkptPlace, StageInv, HandlerInv, Preparing, Scanning, Restoring
  <2>2. CASE hand[t] = "restored" /\ restoreInProg = 0
    BY <1>4, <2>2 DEF SafeInv, TypeInv, CkptPlace, StageInv, HandlerInv, Preparing, Scanning, Restoring
  <2> QED BY <2>1, <2>2
<1>6. DescriptorInv'
  BY DEF SafeInv, DescriptorInv
<1>7. HandlerInv'
  BY <1>3, <1>5 DEF SafeInv, HandlerInv
<1>8. StageInv'
  BY <1>3, <1>5 DEF SafeInv, StageInv, Preparing, Scanning, Restoring
<1>9. Halted' = Halted /\ Recreated' = Recreated
  BY <1>3 DEF Halted, Recreated
<1>10. HaltedInv' /\ RestoreInv'
  BY <1>9 DEF SafeInv, HaltedInv, RestoreInv
<1> QED BY <1>2, <1>6, <1>7, <1>8, <1>10, HandlerStep DEF SafeInv

\* It takes back its count, which is not zero.
LEMMA PreResumeKeeps ==
  ASSUME SafeInv, NEW t \in Thread, PreResume(t)
  PROVE  SafeInv'
<1>1. hand[t] = "leaving" /\ t \in Halted
  BY DEF PreResume, Halted
<1>2. Halted # {}
  BY <1>1
<1>3. preResumeCount > 0
  BY <1>2, FiniteSets, FS_EmptySet DEF SafeInv, HaltedInv
<1>4. /\ preResumeCount' = preResumeCount - 1 /\ hand' = [hand EXCEPT ![t] = "out"]
      /\ UNCHANGED <<userVars, tstate, listVars, signalled, threadsLock, lockVars, uninitialized,
                     exiting, ckptVars, restoreInProg, worldVars>>
  BY <1>3 DEF PreResume, StepsInHandler, Handles
<1> USE <1>1, <1>4 DEF userVars, listVars, ckptVars, worldVars
<1>5. TypeInv'
  BY DEF SafeInv, TypeInv, HandlerPlace, lockVars
<1>6. hand'[t] = "out" /\ \A u \in Thread : u # t => hand'[u] = hand[u]
  BY DEF SafeInv, TypeInv
<1>7. DescriptorInv'
  BY DEF SafeInv, DescriptorInv
<1>8. HandlerInv'
  BY <1>6 DEF SafeInv, HandlerInv
<1>9. StageInv'
  BY <1>6 DEF SafeInv, StageInv
<1>10. Halted' = Halted \ {t} /\ Recreated' = Recreated
  BY <1>6 DEF Halted, Recreated
<1>11. HaltedInv' /\ RestoreInv'
  BY <1>10, FiniteSets, OneLess DEF SafeInv, HaltedInv, RestoreInv
<1> QED BY <1>5, <1>7, <1>8, <1>9, <1>11, HandlerStep DEF SafeInv

-----------------------------------------------------------------------------
(* The checkpoint thread. *)

\* Its steps leave alone where the threads are, and what is counted there.
LEMMA CkptCounts ==
  ASSUME SafeInv, UNCHANGED <<userVars, hand, uninitialized, preResumeCount>>
  PROVE  /\ UninitializedInv' /\ TargetInv' /\ HaltedInv'
         /\ Recreated' = Recreated /\ TclReaders' = TclReaders
         /\ WelReaders' = WelReaders /\ WelWriters' = WelWriters
<1>1. /\ Making' = Making /\ Cloning' = Cloning /\ Halted' = Halted
  BY DEF Making, Cloning, Halted, userVars
<1>2. UninitializedInv' /\ HaltedInv' /\ TargetInv'
  BY <1>1 DEF SafeInv, UninitializedInv, HaltedInv, TargetInv, userVars
<1> QED BY <1>2 DEF Recreated, TclReaders, WelReaders, WelWriters, userVars

\* It waits for the next checkpoint when all threads have gone on.
LEMMA SleepKeeps ==
  ASSUME SafeInv, Sleep
  PROVE  SafeInv'
<1>1. /\ ckpt = "sleep" /\ preResumeCount = 0 /\ ckpt' \in {"gone", "listen"}
      /\ destroyLock' \in {destroyLock, Ckpt}
      /\ UNCHANGED <<userVars, hand, tstate, listVars, signalled, threadsLock, libdlLock,
                     uninitialized, preResumeCount, exiting, todo, needRescan, restoreInProg,
                     worldVars>>
  BY DEF Sleep, CkptGoes
<1> USE <1>1 DEF userVars, listVars, worldVars
<1>2. Halted = {}
  BY FiniteSets, FS_EmptySet DEF SafeInv, HaltedInv
<1>3. TypeInv'
  BY DEF SafeInv, TypeInv, CkptPlace
<1>4. DescriptorInv' /\ HandlerInv' /\ ImageInv'
  BY DEF SafeInv, DescriptorInv, HandlerInv, ImageInv
<1>5. \A t \in Thread : hand[t] \in {"out", "enter"}
  <2> TAKE t \in Thread
  <2>1. hand[t] \notin {"halted", "leaving", "uncloned", "cloning", "restored"}
    BY <1>2 DEF Halted
  <2>2. hand[t] \notin {"saving", "late"}
    BY DEF SafeInv, StageInv, HandlerInv, Scanning
  <2> QED BY <2>1, <2>2 DEF SafeInv, TypeInv, HandlerPlace
<1>6. StageInv'
  BY <1>5 DEF SafeInv, StageInv, HandlerInv, Scanning, Preparing, Restoring
<1>7. RestoreInv'
  BY CkptCounts DEF SafeInv, RestoreInv, Restoring
<1>8. LockInv'
  BY CkptCounts DEF SafeInv, LockInv, TclWanted, WelWanted, WelHeld
<1> QED BY <1>3, <1>4, <1>6, <1>7, <1>8, CkptCounts DEF SafeInv

\* It is told to make a checkpoint, or to leave.
LEMMA ListenKeeps ==
  ASSUME SafeInv, Listen
  PROVE  SafeInv'
<1>1. /\ ckpt = "listen" /\ ckpt' \in {"gone", "libdl"}
      /\ destroyLock' \in {destroyLock, Nobody}
      /\ ckpts' \in 0 .. MaxCkpt
      /\ UNCHANGED <<userVars, hand, tstate, listVars, signalled, threadsLock, libdlLock,
                     uninitialized, preResumeCount, exiting, todo, needRescan, restoreInProg,
                     image, fate, restarts>>
  BY DEF Listen, CkptGoes, Quits, SafeInv, TypeInv
<1> USE <1>1 DEF userVars, listVars
<1>2. TypeInv'
  BY DEF SafeInv, TypeInv, CkptPlace
<1>3. DescriptorInv' /\ HandlerInv' /\ ImageInv'
  BY DEF SafeInv, DescriptorInv, HandlerInv, ImageInv
<1>4. StageInv'
  BY DEF SafeInv, StageInv, Scanning, Preparing, Restoring
<1>5. RestoreInv'
  BY CkptCounts DEF SafeInv, RestoreInv, Restoring
<1>6. LockInv'
  BY CkptCounts DEF SafeInv, LockInv, TclWanted, WelWanted, WelHeld
<1> QED BY <1>2, <1>3, <1>4, <1>5, <1>6, CkptCounts DEF SafeInv

\* It takes the locks, one after the other, and waits for new threads.
LEMMA AcquireLocksKeeps ==
  ASSUME SafeInv, AcquireLocks
  PROVE  SafeInv'
<1>1. /\ \/ ckpt = "libdl" /\ ckpt' = "tcl" /\ libdlLock = Nobody /\ libdlLock' = Ckpt
         \/ ckpt = "tcl" /\ ckpt' = "wel" /\ TclReaders = {} /\ libdlLock' = libdlLock
         \/ /\ ckpt = "wel" /\ ckpt' = "uninit" /\ WelReaders = {} /\ WelWriters = {}
            /\ libdlLock' = libdlLock
         \/ /\ ckpt = "uninit" /\ ckpt' = "rescan" /\ uninitialized = 0
            /\ libdlLock' = libdlLock
      /\ UNCHANGED <<userVars, hand, tstate, listVars, signalled, threadsLock, destroyLock,
                     uninitialized, preResumeCount, exiting, todo, needRescan, restoreInProg,
                     image, ckpts, fate, restarts>>
  BY DEF AcquireLocks, CkptMoves, CkptGoes, AwaitInitialized
<1> USE <1>1 DEF userVars, listVars
<1>2. TypeInv'
  BY DEF SafeInv, TypeInv, CkptPlace
<1>3. DescriptorInv' /\ HandlerInv' /\ ImageInv'
  BY DEF SafeInv, DescriptorInv, HandlerInv, ImageInv
<1>4. StageInv'
  BY DEF SafeInv, StageInv, HandlerInv, Scanning, Preparing, Restoring
<1>5. RestoreInv'
  BY CkptCounts DEF SafeInv, RestoreInv, Restoring
<1>6. LockInv'
  <2>1. \A t \in Thread : at'[t] \in {"dl", "dlwrap", "dlexcl"} => libdlLock' = t
    BY DEF SafeInv, LockInv
  <2>2. TclWanted' => libdlLock' = Ckpt
    BY DEF SafeInv, LockInv, TclWanted
  <2> QED BY <2>1, <2>2, CkptCounts DEF SafeInv, LockInv, TclWanted, WelWanted, WelHeld
<1> QED BY <1>2, <1>3, <1>4, <1>5, <1>6, CkptCounts DEF SafeInv

\* It goes through the list.
LEMMA RescanKeeps ==
  ASSUME SafeInv, Rescan
  PROVE  SafeInv'
<1>1. /\ ckpt = "rescan" /\ ckpt' = "scan" /\ threadsLock = Nobody /\ threadsLock' = Ckpt
      /\ todo' = threads /\ needRescan' = FALSE
      /\ UNCHANGED <<userVars, hand, tstate, listVars, signalled, lockVars, uninitialized,
                     preResumeCount, exiting, restoreInProg, worldVars>>
  BY DEF Rescan, CkptMoves, CkptGoes, LockFree, worldVars
<1> USE <1>1 DEF userVars, listVars, lockVars, worldVars
<1>2. TypeInv'
  BY DEF SafeInv, TypeInv, CkptPlace
<1>3. DescriptorInv' /\ HandlerInv' /\ ImageInv'
  BY DEF SafeInv, DescriptorInv, HandlerInv, ImageInv
<1>4. StageInv'
  BY DEF SafeInv, StageInv, Scanning, Preparing, Restoring
<1>5. RestoreInv'
  BY CkptCounts DEF SafeInv, RestoreInv, Restoring
<1>6. LockInv'
  BY CkptCounts DEF SafeInv, LockInv, TclWanted, WelWanted, WelHeld
<1> QED BY <1>2, <1>3, <1>4, <1>5, <1>6, CkptCounts DEF SafeInv

\* It tells a thread to stop, waits for it, goes on to the next, or drops the
\* descriptor of a dead one.
LEMMA VisitKeeps ==
  ASSUME SafeInv, NEW t \in Thread, Visit(t)
  PROVE  SafeInv'
<1>1. /\ ckpt = "scan" /\ t \in todo
      /\ UNCHANGED <<userVars, hand, lockVars, uninitialized, preResumeCount, exiting,
                     restoreInProg, worldVars>>
  BY DEF Visit
<1>2. parent' \in [Thread -> Thread \cup {Nobody}]
  BY DEF Visit, Adopted, SafeInv, TypeInv, listVars
<1> USE <1>1 DEF userVars, lockVars, worldVars
<1>3. t \in threads /\ tstate[t] # "RUNDISABLED"
  <2>1. uninitialized = 0
    BY DEF SafeInv, LockInv, WelHeld
  <2>2. Making = {}
    BY <2>1, NoneMade DEF SafeInv
  <2>3. t \in threads
    BY DEF SafeInv, StageInv
  <2> QED BY <2>2, <2>3 DEF SafeInv, DescriptorInv, Making
<1>4. \/ /\ at[t] = "gone" /\ threads' = threads \ {t}
         /\ ckpt' = "rescan" /\ threadsLock' = Nobody
         /\ UNCHANGED <<tstate, signalled, todo, needRescan>>
      \/ /\ tstate[t] = "RUNENABLED" /\ tstate' = [tstate EXCEPT ![t] = "SIGENABLED"]
         /\ signalled' = signalled \cup {t} /\ needRescan' = TRUE /\ todo' = todo \ {t}
         /\ UNCHANGED <<ckpt, threadsLock, threads>>
      \/ /\ ckpt' = "rescan" /\ threadsLock' = Nobody
         /\ UNCHANGED <<tstate, signalled, todo, needRescan, threads>>
      \/ /\ tstate[t] \in {"SUSPENDED", "ZOMBIE"} /\ todo' = todo \ {t}
         /\ UNCHANGED <<ckpt, threadsLock, tstate, signalled, needRescan, threads>>
  BY <1>3 DEF Visit, Adopted, StartsOver, Tell, Becomes, CkptGoes, listVars
<1>5. TypeInv'
  <2>1. tstate' \in [Thread -> ThreadState \ {"SIGDISABLED"}]
    BY <1>4 DEF SafeInv, TypeInv, ThreadState
  <2>2. threads' \in SUBSET Thread /\ todo' \in SUBSET Thread /\ signalled' \in SUBSET Thread
    BY <1>4 DEF SafeInv, TypeInv
  <2>3. needRescan' \in BOOLEAN /\ ckpt' \in CkptPlace /\ threadsLock' \in Thread \cup {Ckpt, Nobody}
    BY <1>4 DEF SafeInv, TypeInv, CkptPlace
  <2> QED BY <1>2, <2>1, <2>2, <2>3 DEF SafeInv, TypeInv
<1>6. /\ \A u \in Thread : u # t => tstate'[u] = tstate[u] /\ (u \in threads' <=> u \in threads)
      /\ \/ tstate'[t] = tstate[t]
         \/ tstate[t] = "RUNENABLED" /\ tstate'[t] = "SIGENABLED"
      /\ t \in threads' \/ at[t] = "gone"
  BY <1>3, <1>4 DEF SafeInv, TypeInv
<1>7. DescriptorInv'
  BY <1>3, <1>6 DEF SafeInv, DescriptorInv
<1>8. HandlerInv'
  BY <1>6 DEF SafeInv, HandlerInv, StageInv, Scanning
<1>9. StageInv'
  <2>1. ckpt' \in {"scan", "rescan"}
    BY <1>4
  <2>2. \A u \in Thread : ckpt' = "scan" /\ u \in todo' => u \in threads'
    BY <1>4 DEF SafeInv, StageInv
  <2>3. \A u \in Thread : ckpt' = "scan" /\ ~needRescan' /\ u \in threads' \ todo' =>
          tstate'[u] \in {"SUSPENDED", "ZOMBIE"}
    BY <1>4 DEF SafeInv, StageInv
  <2>4. \A u \in Thread : /\ hand'[u] \in {"out", "enter", "saving", "late", "halted"}
                          /\ hand'[u] = "halted" => tstate'[u] = "SUSPENDED"
    BY <1>6 DEF SafeInv, StageInv, Scanning
  <2> QED BY <2>1, <2>2, <2>3, <2>4 DEF StageInv, Scanning, Preparing, Restoring
<1>10. RestoreInv'
  BY <1>4, CkptCounts DEF SafeInv, RestoreInv, Restoring
<1>11. LockInv'
  BY <1>4, CkptCounts DEF SafeInv, LockInv, TclWanted, WelWanted, WelHeld
<1>12. ImageInv'
  BY DEF SafeInv, ImageInv
<1> QED BY <1>5, <1>7, <1>8, <1>9, <1>10, <1>11, <1>12, CkptCounts DEF SafeInv

\* All threads in the list are suspended, or have ended.
LEMMA ScanEndsKeeps ==
  ASSUME SafeInv, ScanEnds
  PROVE  SafeInv'
<1>1. /\ ckpt = "scan" /\ todo = {} /\ threadsLock' = Nobody
      /\ ckpt' = IF needRescan THEN "rescan" ELSE "rest"
      /\ UNCHANGED <<userVars, hand, tstate, listVars, signalled, lockVars, uninitialized,
                     preResumeCount, exiting, todo, needRescan, restoreInProg, worldVars>>
  BY DEF ScanEnds, CkptMoves, CkptGoes, worldVars
<1> USE <1>1 DEF userVars, listVars, lockVars, worldVars
<1>2. TypeInv'
  BY DEF SafeInv, TypeInv, CkptPlace
<1>3. DescriptorInv' /\ HandlerInv' /\ ImageInv'
  BY DEF SafeInv, DescriptorInv, HandlerInv, ImageInv
<1>4. StageInv'
  <2>1. uninitialized = 0
    BY DEF SafeInv, LockInv, WelHeld
  <2>2. Making = {}
    BY <2>1, NoneMade DEF SafeInv
  <2>3. ASSUME ~needRescan, NEW t \in Thread
        PROVE  tstate[t] \in {"SUSPENDED", "ZOMBIE", "RUNDISABLED"}
    BY <2>3, <2>2 DEF SafeInv, StageInv, DescriptorInv, Making
  <2> QED BY <2>3 DEF SafeInv, StageInv, Scanning, Preparing, Restoring
<1>5. RestoreInv'
  BY CkptCounts DEF SafeInv, RestoreInv, Restoring
<1>6. LockInv'
  BY CkptCounts DEF SafeInv, TypeInv, LockInv, TclWanted, WelWanted, WelHeld
<1> QED BY <1>2, <1>3, <1>4, <1>5, <1>6, CkptCounts DEF SafeInv

\* It takes the lock again for those that have ended.
LEMMA LockForZombiesKeeps ==
  ASSUME SafeInv, LockForZombies
  PROVE  SafeInv'
<1>1. /\ ckpt = "rest" /\ ckpt' = "reap" /\ threadsLock = Nobody /\ threadsLock' = Ckpt
      /\ UNCHANGED <<userVars, hand, tstate, listVars, signalled, lockVars, uninitialized,
                     preResumeCount, exiting, todo, needRescan, restoreInProg, worldVars>>
  BY DEF LockForZombies, CkptMoves, CkptGoes, LockFree, worldVars
<1> USE <1>1 DEF userVars, listVars, lockVars, worldVars
<1>2. TypeInv'
  BY DEF SafeInv, TypeInv, CkptPlace
<1>3. DescriptorInv' /\ HandlerInv' /\ ImageInv'
  BY DEF SafeInv, DescriptorInv, HandlerInv, ImageInv
<1>4. StageInv'
  BY DEF SafeInv, StageInv, Scanning, Preparing, Restoring
<1>5. RestoreInv'
  BY CkptCounts DEF SafeInv, RestoreInv, Restoring
<1>6. LockInv'
  BY CkptCounts DEF SafeInv, TypeInv, LockInv, TclWanted, WelWanted, WelHeld
<1> QED BY <1>2, <1>3, <1>4, <1>5, <1>6, CkptCounts DEF SafeInv

\* It drops them: every thread of the process is suspended now.
LEMMA ReapZombiesKeeps ==
  ASSUME SafeInv, ReapZombies
  PROVE  SafeInv'
<1> DEFINE dead == {t \in threads : tstate[t] = "ZOMBIE"}
<1>1. /\ ckpt = "reap" /\ \A t \in dead : at[t] = "gone"
      /\ threads' = threads \ dead /\ parent' \in [Thread -> Thread \cup {Nobody}]
      /\ ckpt' = "stopped" /\ threadsLock' = Nobody /\ signalled' = {}
      /\ UNCHANGED <<userVars, hand, tstate, lockVars, uninitialized, preResumeCount, exiting,
                     todo, needRescan, restoreInProg, worldVars>>
  BY DEF ReapZombies, Adopted, CkptGoes
<1> USE <1>1 DEF userVars, lockVars, worldVars
<1>2. TypeInv'
  BY DEF SafeInv, TypeInv, CkptPlace
<1>3. \A t \in Thread : t \in threads' <=> t \in threads /\ tstate[t] # "ZOMBIE"
  OBVIOUS
<1>4. DescriptorInv'
  BY <1>3 DEF SafeInv, DescriptorInv
<1>5. HandlerInv' /\ ImageInv'
  BY DEF SafeInv, HandlerInv, ImageInv
<1>6. StageInv'
  <2>1. uninitialized = 0
    BY DEF SafeInv, LockInv, WelHeld
  <2>2. Making = {}
    BY <2>1, NoneMade DEF SafeInv
  <2>3. ASSUME NEW t \in Thread
        PROVE  IF t \in threads' THEN tstate[t] = "SUSPENDED" ELSE at[t] \in {"unborn", "gone"}
    BY <1>3, <2>2 DEF SafeInv, StageInv, DescriptorInv, Making
  <2>4. \A t \in Thread : tstate[t] \in {"SUSPENDED", "RUNDISABLED", "ZOMBIE"}
    BY <2>3 DEF SafeInv, DescriptorInv
  <2> HIDE DEF dead
  <2> QED BY <2>3, <2>4 DEF SafeInv, StageInv, Scanning, Preparing, Restoring
<1>7. RestoreInv'
  BY CkptCounts DEF SafeInv, RestoreInv, Restoring
<1>8. LockInv'
  BY CkptCounts DEF SafeInv, TypeInv, LockInv, TclWanted, WelWanted, WelHeld
<1> QED BY <1>2, <1>4, <1>5, <1>6, <1>7, <1>8, CkptCounts DEF SafeInv

\* It releases the locks, or leaves the process to exit().
LEMMA PreCkptKeeps ==
  ASSUME SafeInv, PreCkpt
  PROVE  SafeInv'
<1>1. /\ ckpt = "stopped" /\ destroyLock' = Nobody
      /\ \/ ckpt' = "gone" /\ libdlLock' = libdlLock
         \/ ckpt' = "barriers" /\ libdlLock' = Nobody
      /\ UNCHANGED <<userVars, hand, tstate, listVars, signalled, threadsLock, uninitialized,
                     preResumeCount, exiting, todo, needRescan, restoreInProg, worldVars>>
  BY DEF PreCkpt, CkptMoves, CkptGoes, worldVars
<1> USE <1>1 DEF userVars, listVars, worldVars
<1>2. TypeInv'
  BY DEF SafeInv, TypeInv, CkptPlace
<1>3. DescriptorInv' /\ HandlerInv' /\ ImageInv'
  BY DEF SafeInv, DescriptorInv, HandlerInv, ImageInv
<1>4. StageInv'
  BY DEF SafeInv, StageInv, Scanning, Preparing, Restoring
<1>5. RestoreInv'
  BY CkptCounts DEF SafeInv, RestoreInv, Restoring
<1>6. LockInv'
  <2>1. libdlLock = Ckpt
    BY DEF SafeInv, LockInv, TclWanted
  <2>2. \A t \in Thread : at[t] \notin {"dl", "dlwrap", "dlexcl"}
    BY <2>1 DEF SafeInv, LockInv
  <2> QED BY <2>2, CkptCounts DEF SafeInv, TypeInv, LockInv, TclWanted, WelWanted, WelHeld
<1> QED BY <1>2, <1>3, <1>4, <1>5, <1>6, CkptCounts DEF SafeInv

\* The image is written when all threads have come through their callback.
LEMMA WriteImageKeeps ==
  ASSUME SafeInv, WriteImage, ~SlowSuspend
  PROVE  SafeInv'
<1>1. /\ ckpt = "barriers" /\ ckpt' = "post" /\ \A t \in threads : hand[t] = "halted"
      /\ image' = [threads |-> threads, parent |-> parent, at |-> at, tstate |-> tstate,
                   count |-> preResumeCount, unborn |-> uninitialized]
      /\ UNCHANGED <<userVars, hand, tstate, listVars, signalled, threadsLock, lockVars,
                     uninitialized, preResumeCount, exiting, todo, needRescan, restoreInProg,
                     fate, ckpts, restarts>>
  BY DEF WriteImage, CkptMoves, CkptGoes
<1> USE <1>1 DEF userVars, listVars, lockVars
<1>2. TypeInv'
  BY DEF SafeInv, TypeInv, CkptPlace
<1>3. DescriptorInv' /\ HandlerInv'
  BY DEF SafeInv, DescriptorInv, HandlerInv
<1>4. \A t \in Thread : IF t \in threads THEN /\ hand[t] = "halted" /\ at[t] \in StopPlace
                                              /\ tstate[t] = "SUSPENDED"
                        ELSE hand[t] \in {"out", "enter"} /\ at[t] \in {"unborn", "gone"}
  BY DEF SafeInv, StageInv, HandlerInv, StopPlace
<1>5. StageInv'
  BY <1>4 DEF SafeInv, StageInv, Scanning, Preparing, Restoring
<1>6. RestoreInv'
  BY CkptCounts DEF SafeInv, RestoreInv, Restoring
<1>7. LockInv'
  BY CkptCounts DEF SafeInv, TypeInv, LockInv, TclWanted, WelWanted, WelHeld
<1>8. ImageInv'
  <2>1. Halted = threads
    BY <1>4 DEF Halted, SafeInv, TypeInv
  <2>2. Making = {} /\ Cloning = {}
    BY <1>4 DEF Making, Cloning, StopPlace
  <2>3. uninitialized = 0 /\ preResumeCount = Cardinality(threads)
    BY <2>1, <2>2, FS_EmptySet DEF SafeInv, UninitializedInv, HaltedInv
  <2>4. Main \in threads
    BY <1>4 DEF SafeInv, DescriptorInv
  <2>5. \A t \in Thread \ threads : \/ at[t] = "unborn" /\ tstate[t] = "RUNDISABLED"
                                    \/ at[t] = "gone" /\ tstate[t] = "ZOMBIE"
    BY <1>4 DEF SafeInv, DescriptorInv
  <2>6. /\ at \in [Thread -> UserPlace] /\ tstate \in [Thread -> ThreadState]
        /\ parent \in [Thread -> Thread \cup {Nobody}] /\ threads \in SUBSET Thread
    BY DEF SafeInv, TypeInv
  <2> QED BY <1>4, <2>3, <2>4, <2>5, <2>6 DEF ImageInv
<1> QED BY <1>2, <1>3, <1>5, <1>6, <1>7, <1>8, CkptCounts DEF SafeInv

\* It goes through the list again, to let the threads go on.
LEMMA StartResumeKeeps ==
  ASSUME SafeInv, StartResume
  PROVE  SafeInv'
<1>1. /\ ckpt = "post" /\ ckpt' = "resume" /\ threadsLock = Nobody /\ threadsLock' = Ckpt
      /\ todo' = threads
      /\ UNCHANGED <<userVars, hand, tstate, listVars, signalled, lockVars, uninitialized,
                     preResumeCount, exiting, needRescan, restoreInProg, worldVars>>
  BY DEF StartResume, CkptMoves, CkptGoes, LockFree, worldVars
<1> USE <1>1 DEF userVars, listVars, lockVars, worldVars
<1>2. TypeInv'
  BY DEF SafeInv, TypeInv, CkptPlace
<1>3. DescriptorInv' /\ HandlerInv' /\ ImageInv'
  BY DEF SafeInv, DescriptorInv, HandlerInv, ImageInv
<1>4. \A t \in Thread : tstate[t] = "SUSPENDED" <=> t \in threads
  BY DEF SafeInv, StageInv, DescriptorInv
<1>5. StageInv'
  BY <1>4 DEF SafeInv, StageInv, HandlerInv, Scanning, Preparing, Restoring
<1>6. RestoreInv'
  BY CkptCounts DEF SafeInv, RestoreInv, Restoring
<1>7. LockInv'
  BY CkptCounts DEF SafeInv, TypeInv, LockInv, TclWanted, WelWanted, WelHeld
<1> QED BY <1>2, <1>3, <1>5, <1>6, <1>7, CkptCounts DEF SafeInv

\* A thread that is let go on was suspended.
LEMMA ResumeThreadKeeps ==
  ASSUME SafeInv, NEW t \in Thread, ResumeThread(t)
  PROVE  SafeInv'
<1>1. ckpt = "resume" /\ t \in todo
  BY DEF ResumeThread
<1>2. tstate[t] = "SUSPENDED" /\ hand[t] = "halted"
  BY <1>1 DEF SafeInv, StageInv
<1>3. /\ tstate' = [tstate EXCEPT ![t] = "RUNENABLED"] /\ todo' = todo \ {t}
      /\ UNCHANGED <<userVars, hand, listVars, signalled, threadsLock, lockVars, uninitialized,
                     preResumeCount, exiting, ckpt, needRescan, restoreInProg, worldVars>>
  BY <1>2 DEF ResumeThread, Becomes, worldVars
<1> USE <1>1, <1>3 DEF userVars, listVars, lockVars, worldVars
<1>4. TypeInv'
  BY DEF SafeInv, TypeInv, ThreadState
<1>5. tstate'[t] = "RUNENABLED" /\ \A u \in Thread : u # t => tstate'[u] = tstate[u]
  BY DEF SafeInv, TypeInv
<1>6. DescriptorInv'
  BY <1>2, <1>5 DEF SafeInv, DescriptorInv
<1>7. HandlerInv'
  BY <1>2, <1>5 DEF SafeInv, HandlerInv
<1>8. StageInv'
  BY <1>2, <1>5 DEF SafeInv, StageInv, Scanning, Preparing, Restoring
<1>9. RestoreInv'
  BY CkptCounts DEF SafeInv, RestoreInv, Restoring
<1>10. LockInv' /\ ImageInv'
  BY CkptCounts DEF SafeInv, LockInv, ImageInv, TclWanted, WelWanted, WelHeld
<1> QED BY <1>4, <1>6, <1>7, <1>8, <1>9, <1>10, CkptCounts DEF SafeInv

\* All of them have been let go on.
LEMMA ResumeEndsKeeps ==
  ASSUME SafeInv, ResumeEnds
  PROVE  SafeInv'
<1>1. /\ ckpt = "resume" /\ ckpt' = "sleep" /\ todo = {} /\ threadsLock' = Nobody
      /\ UNCHANGED <<userVars, hand, tstate, listVars, signalled, lockVars, uninitialized,
                     preResumeCount, exiting, todo, needRescan, restoreInProg, worldVars>>
  BY DEF ResumeEnds, CkptMoves, CkptGoes, worldVars
<1> USE <1>1 DEF userVars, listVars, lockVars, worldVars
<1>2. TypeInv'
  BY DEF SafeInv, TypeInv, CkptPlace
<1>3. DescriptorInv' /\ HandlerInv' /\ ImageInv'
  BY DEF SafeInv, DescriptorInv, HandlerInv, ImageInv
<1>4. StageInv'
  BY DEF SafeInv, StageInv, HandlerInv, Scanning, Preparing, Restoring
<1>5. RestoreInv'
  BY CkptCounts DEF SafeInv, RestoreInv, Restoring
<1>6. LockInv'
  BY CkptCounts DEF SafeInv, TypeInv, LockInv, TclWanted, WelWanted, WelHeld
<1> QED BY <1>2, <1>3, <1>4, <1>5, <1>6, CkptCounts DEF SafeInv

\* Every step of the checkpoint thread up to the resume.
LEMMA CkptStepKeeps ==
  ASSUME SafeInv, ~SlowSuspend,
         \/ Sleep \/ Listen \/ AcquireLocks \/ Rescan \/ ScanEnds \/ LockForZombies
         \/ ReapZombies \/ PreCkpt \/ WriteImage \/ StartResume \/ ResumeEnds
         \/ \E t \in Thread : Visit(t) \/ ResumeThread(t)
  PROVE  SafeInv'
BY SleepKeeps, ListenKeeps, AcquireLocksKeeps, RescanKeeps, ScanEndsKeeps, LockForZombiesKeeps,
   ReapZombiesKeeps, PreCkptKeeps, WriteImageKeeps, StartResumeKeeps, ResumeEndsKeeps,
   VisitKeeps, ResumeThreadKeeps

-----------------------------------------------------------------------------
(* A restart from the image. *)

\* A process is made from the image: its threads, all of them suspended, have
\* still to be created.
LEMMA RestoreKeeps ==
  ASSUME SafeInv, Restore
  PROVE  SafeInv'
<1>1. /\ image # NoImage
      /\ fate' = "runs" /\ at' = image.at /\ tstate' = image.tstate
      /\ threads' = image.threads /\ parent' = image.parent
      /\ preResumeCount' = image.count /\ uninitialized' = image.unborn
      /\ hand' = [t \in Thread |-> IF t = Main THEN "cloning"
                                   ELSE IF t \in image.threads THEN "uncloned" ELSE "out"]
      /\ ckpt' = "uncloned" /\ restoreInProg' = 2
      /\ target' = [t \in Thread |-> Nobody]
      /\ signalled' = {} /\ threadsLock' = Nobody /\ libdlLock' = Nobody /\ destroyLock' = Nobody
      /\ exiting' = Nobody /\ todo' = {} /\ needRescan' = FALSE
      /\ restarts' \in 0 .. MaxRestart /\ UNCHANGED <<image, ckpts>>
  BY DEF Restore, SafeInv, TypeInv
<1> USE <1>1
<1>2. /\ image.threads \in SUBSET Thread /\ Main \in image.threads
      /\ image.at \in [Thread -> UserPlace] /\ image.tstate \in [Thread -> ThreadState]
      /\ image.parent \in [Thread -> Thread \cup {Nobody}]
      /\ image.count = Cardinality(image.threads) /\ image.unborn = 0
      /\ \A t \in Thread :
           IF t \in image.threads THEN image.at[t] \in StopPlace /\ image.tstate[t] = "SUSPENDED"
           ELSE \/ image.at[t] = "unborn" /\ image.tstate[t] = "RUNDISABLED"
                \/ image.at[t] = "gone" /\ image.tstate[t] = "ZOMBIE"
  BY DEF SafeInv, ImageInv
<1>3. \A t \in Thread :
        IF t \in threads'
        THEN /\ at'[t] \in StopPlace /\ tstate'[t] = "SUSPENDED"
             /\ hand'[t] = IF t = Main THEN "cloning" ELSE "uncloned"
        ELSE /\ t # Main /\ hand'[t] = "out"
             /\ \/ at'[t] = "unborn" /\ tstate'[t] = "RUNDISABLED"
                \/ at'[t] = "gone" /\ tstate'[t] = "ZOMBIE"
  BY <1>2
<1>4. TypeInv'
  <2>1. \A t \in Thread : image.tstate[t] \in ThreadState \ {"SIGDISABLED"}
    BY <1>2
  <2>2. tstate' \in [Thread -> ThreadState \ {"SIGDISABLED"}]
    BY <1>2, <2>1
  <2>3. hand' \in [Thread -> HandlerPlace]
    BY DEF HandlerPlace
  <2> QED BY <1>2, <2>2, <2>3 DEF SafeInv, TypeInv, CkptPlace
<1>5. DescriptorInv'
  BY <1>3 DEF DescriptorInv, StopPlace
<1>6. HandlerInv'
  BY <1>3 DEF HandlerInv
<1>7. StageInv'
  BY <1>3 DEF StageInv, Scanning, Preparing, Restoring
<1>8. LockInv'
  <2>1. \A t \in Thread : at'[t] \in StopPlace \cup {"unborn", "gone"}
    BY <1>3
  <2> QED BY <2>1 DEF LockInv, TclWanted, WelWanted, WelHeld, StopPlace
<1>9. UninitializedInv'
  <2>1. Making' = {} /\ Cloning' = {}
    BY <1>3 DEF Making, Cloning, StopPlace
  <2> QED BY <1>2, <2>1, FS_EmptySet DEF UninitializedInv
<1>10. TargetInv'
  BY <1>3 DEF TargetInv, StopPlace
<1>11. HaltedInv'
  <2>1. Halted' = image.threads
    BY <1>2, <1>3 DEF Halted
  <2> QED BY <1>2, <2>1 DEF HaltedInv
<1>12. RestoreInv'
  <2>1. Recreated' = {Main}
    BY <1>2, <1>3 DEF Recreated
  <2> QED BY <2>1, FS_Singleton DEF RestoreInv, Restoring
<1>13. ImageInv'
  BY DEF SafeInv, ImageInv
<1> QED BY <1>4, <1>5, <1>6, <1>7, <1>8, <1>9, <1>10, <1>11, <1>12, <1>13 DEF SafeInv

\* Threads are recreated only during a restart.
LEMMA CloningRestores ==
  ASSUME SafeInv, NEW t \in Thread, hand[t] = "cloning"
  PROVE  ckpt \in Restoring /\ t \in threads /\ tstate[t] = "SUSPENDED"
<1>1. ckpt \in Restoring /\ tstate[t] = "SUSPENDED"
  BY DEF SafeInv, TypeInv, CkptPlace, StageInv, HandlerInv, Scanning, Preparing, Restoring
<1> QED BY <1>1 DEF SafeInv, StageInv

\* A thread creates one of its children, or the first thread the checkpoint
\* thread.
LEMMA RestartThreadKeeps ==
  ASSUME SafeInv, NEW t \in Thread, RestartThread(t)
  PROVE  SafeInv'
<1>1. /\ hand[t] = "cloning" /\ restoreInProg' = restoreInProg + 1
      /\ UNCHANGED <<userVars, tstate, listVars, signalled, threadsLock, lockVars, uninitialized,
                     preResumeCount, exiting, todo, needRescan, worldVars>>
  BY DEF RestartThread, RestartStep
<1>2. ckpt \in Restoring
  BY <1>1, CloningRestores
<1>3. \/ \E c \in threads : /\ hand[c] = "uncloned" /\ hand' = [hand EXCEPT ![c] = "cloning"]
                            /\ ckpt' = ckpt
      \/ ckpt = "uncloned" /\ ckpt' = "cloning" /\ hand' = hand
  BY DEF RestartThread, Children, Handles, CkptGoes
<1> USE <1>1, <1>2 DEF userVars, listVars, lockVars, worldVars
<1>4. DescriptorInv' /\ ImageInv'
  BY DEF SafeInv, DescriptorInv, ImageInv
<1>5. CASE ckpt = "uncloned" /\ ckpt' = "cloning" /\ hand' = hand
  <2> USE <1>5
  <2>1. TypeInv'
    BY DEF SafeInv, TypeInv, CkptPlace
  <2>2. HandlerInv'
    BY DEF SafeInv, HandlerInv
  <2>3. StageInv'
    BY DEF SafeInv, StageInv, Scanning, Preparing, Restoring
  <2>4. RestoreInv'
    BY CkptCounts, FiniteSets DEF SafeInv, RestoreInv, Restoring
  <2>5. LockInv'
    BY CkptCounts DEF SafeInv, LockInv, TclWanted, WelWanted, WelHeld
  <2> QED BY <1>4, <2>1, <2>2, <2>3, <2>4, <2>5, CkptCounts DEF SafeInv
<1>6. ASSUME NEW c \in threads,
             hand[c] = "uncloned", hand' = [hand EXCEPT ![c] = "cloning"], ckpt' = ckpt
      PROVE  SafeInv'
  <2> USE <1>6 DEF ckptVars
  <2>1. c \in Thread
    BY DEF SafeInv, TypeInv
  <2>2. TypeInv'
    BY DEF SafeInv, TypeInv, HandlerPlace
  <2>3. hand'[c] = "cloning" /\ \A u \in Thread : u # c => hand'[u] = hand[u]
    BY <2>1 DEF SafeInv, TypeInv
  <2>4. HandlerInv'
    BY <2>1, <2>3 DEF SafeInv, HandlerInv
  <2>5. StageInv'
    BY <2>1, <2>3 DEF SafeInv, StageInv, Scanning, Preparing, Restoring
  <2>6. Halted' = Halted /\ Recreated' = Recreated \cup {c} /\ c \notin Recreated
    BY <2>1, <2>3 DEF Halted, Recreated
  <2>7. HaltedInv'
    BY <2>6 DEF SafeInv, HaltedInv
  <2>8. RestoreInv'
    BY <2>1, <2>6, FiniteSets, OneMore DEF SafeInv, RestoreInv
  <2> QED BY <1>4, <2>2, <2>4, <2>5, <2>7, <2>8, HandlerStep DEF SafeInv
<1> QED BY <1>3, <1>5, <1>6

\* A restored thread jumps back to where it was stopped.
LEMMA JumpBackKeeps ==
  ASSUME SafeInv, NEW t \in Thread, JumpBack(t)
  PROVE  SafeInv'
<1>1. /\ hand[t] = "cloning" /\ restoreInProg' = restoreInProg - 1
      /\ tstate' = [tstate EXCEPT ![t] = "RUNENABLED"] /\ hand' = [hand EXCEPT ![t] = "restored"]
      /\ UNCHANGED <<userVars, listVars, signalled, threadsLock, lockVars, uninitialized,
                     preResumeCount, exiting, ckptVars, worldVars>>
  BY DEF JumpBack, RestartStep, Becomes, Handles, ckptVars
<1>2. ckpt \in Restoring /\ t \in threads /\ tstate[t] = "SUSPENDED"
  BY <1>1, CloningRestores
<1> USE <1>1, <1>2 DEF userVars, listVars, ckptVars, worldVars
<1>3. TypeInv'
  BY DEF SafeInv, TypeInv, HandlerPlace, ThreadState, lockVars
<1>4. /\ hand'[t] = "restored" /\ \A u \in Thread : u # t => hand'[u] = hand[u]
      /\ tstate'[t] = "RUNENABLED" /\ \A u \in Thread : u # t => tstate'[u] = tstate[u]
  BY DEF SafeInv, TypeInv
<1>5. DescriptorInv' /\ ImageInv'
  BY <1>4 DEF SafeInv, DescriptorInv, ImageInv
<1>6. HandlerInv'
  BY <1>4 DEF SafeInv, HandlerInv
<1>7. StageInv'
  BY <1>4 DEF SafeInv, StageInv, Scanning, Preparing, Restoring
<1>8. Halted' = Halted /\ Recreated' = Recreated \ {t} /\ t \in Recreated
  BY <1>4 DEF Halted, Recreated
<1>9. HaltedInv'
  BY <1>8 DEF SafeInv, HaltedInv
<1>10. RestoreInv'
  BY <1>8, FiniteSets, OneLess DEF SafeInv, RestoreInv
<1> QED BY <1>3, <1>5, <1>6, <1>7, <1>9, <1>10, HandlerStep DEF SafeInv

\* The checkpoint thread is restored, and ends the restart when no other
\* thread is being recreated.
LEMMA CkptRestoredKeeps ==
  ASSUME SafeInv, CkptRestored
  PROVE  SafeInv'
<1>1. /\ \/ ckpt = "cloning" /\ ckpt' = "restored" /\ restoreInProg' = restoreInProg - 1
         \/ ckpt = "restored" /\ ckpt' = "sleep" /\ restoreInProg = 1 /\ restoreInProg' = 0
      /\ UNCHANGED <<userVars, hand, tstate, listVars, signalled, threadsLock, lockVars,
                     uninitialized, preResumeCount, exiting, todo, needRescan, worldVars>>
  BY DEF CkptRestored, CkptGoes
<1> USE <1>1 DEF userVars, listVars, lockVars, worldVars
<1>2. TypeInv'
  BY DEF SafeInv, TypeInv, CkptPlace
<1>3. DescriptorInv' /\ HandlerInv' /\ ImageInv'
  BY DEF SafeInv, DescriptorInv, HandlerInv, ImageInv
<1>4. ckpt = "restored" => Recreated = {}
  BY FiniteSets, FS_EmptySet DEF SafeInv, RestoreInv, Restoring
<1>5. StageInv'
  <2>1. \A t \in Thread : ckpt = "restored" => hand[t] # "cloning"
    BY <1>4 DEF Recreated
  <2> QED BY <2>1 DEF SafeInv, StageInv, Scanning, Preparing, Restoring
<1>6. RestoreInv'
  BY CkptCounts, FiniteSets DEF SafeInv, RestoreInv, Restoring
<1>7. LockInv'
  BY CkptCounts DEF SafeInv, LockInv, TclWanted, WelWanted, WelHeld
<1> QED BY <1>2, <1>3, <1>5, <1>6, <1>7, CkptCounts DEF SafeInv

-----------------------------------------------------------------------------
(* Every behaviour of the process. *)

\* initializeMtcpEngine establishes the invariant.
LEMMA InitSafe ==
  ASSUME Init
  PROVE  SafeInv
<1> USE DEF Init
<1>1. TypeInv
  <2>1. at \in [Thread -> UserPlace] /\ hand \in [Thread -> HandlerPlace]
    BY DEF UserPlace, HandlerPlace
  <2>2. tstate \in [Thread -> ThreadState \ {"SIGDISABLED"}]
    BY DEF ThreadState
  <2>3. ckpts \in 0 .. MaxCkpt /\ restarts \in 0 .. MaxRestart
    OBVIOUS
  <2> QED BY <2>1, <2>2, <2>3 DEF TypeInv, CkptPlace
<1>2. DescriptorInv /\ HandlerInv /\ TargetInv
  BY DEF DescriptorInv, HandlerInv, TargetInv, StopPlace
<1>3. StageInv
  BY DEF StageInv, Scanning, Preparing, Restoring
<1>4. LockInv
  BY DEF LockInv, TclWanted, WelWanted, WelHeld
<1>5. /\ Making = {} /\ Cloning = {} /\ Halted = {} /\ Recreated = {}
  BY DEF Making, Cloning, Halted, Recreated
<1>6. UninitializedInv /\ HaltedInv /\ RestoreInv /\ ImageInv
  BY <1>5, FS_EmptySet DEF UninitializedInv, HaltedInv, RestoreInv, ImageInv, Restoring
<1> QED BY <1>1, <1>2, <1>3, <1>4, <1>6 DEF SafeInv

\* No step of the process, nor a restart, breaks it.
LEMMA NextSafe ==
  ASSUME SafeInv, ~SlowSuspend, [Next]_vars
  PROVE  SafeInv'
<1>1. ASSUME NEW t \in Thread, UserStep(t)
      PROVE  SafeInv'
  BY <1>1, UserStepKeeps
<1>2. ASSUME NEW t \in Thread, Handler(t)
      PROVE  SafeInv'
  BY <1>2, DeliverKeeps, EnterHandlerKeeps, SaveStateKeeps, PreSuspendKeeps, WakeUpKeeps,
     PreResumeKeeps DEF Handler
<1>3. ASSUME NEW t \in Thread, RestoreStep(t)
      PROVE  SafeInv'
  BY <1>3, RestartThreadKeeps, JumpBackKeeps DEF RestoreStep
<1>4. CASE CkptStep \/ Listen
  BY <1>4, CkptStepKeeps, CkptRestoredKeeps DEF CkptStep
<1>5. CASE Restore
  BY <1>5, RestoreKeeps
<1>6. CASE UNCHANGED vars
  <2>1. /\ Making' = Making /\ Cloning' = Cloning /\ Halted' = Halted /\ Recreated' = Recreated
        /\ TclReaders' = TclReaders /\ WelReaders' = WelReaders /\ WelWriters' = WelWriters
    BY <1>6 DEF vars, userVars, Making, Cloning, Halted, Recreated, TclReaders, WelReaders, WelWriters
  <2> USE <1>6, <2>1 DEF vars, userVars, listVars, lockVars, ckptVars, worldVars
  <2>2. TypeInv' /\ DescriptorInv' /\ HandlerInv' /\ TargetInv' /\ ImageInv'
    BY DEF SafeInv, TypeInv, DescriptorInv, HandlerInv, TargetInv, ImageInv
  <2>3. StageInv'
    BY DEF SafeInv, StageInv
  <2>4. LockInv'
    BY DEF SafeInv, LockInv, TclWanted, WelWanted, WelHeld
  <2>5. UninitializedInv' /\ HaltedInv' /\ RestoreInv'
    BY DEF SafeInv, UninitializedInv, HaltedInv, RestoreInv
  <2> QED BY <2>2, <2>3, <2>4, <2>5 DEF SafeInv
<1> QED BY <1>1, <1>2, <1>3, <1>4, <1>5, <1>6 DEF Next

\* So it holds throughout, for every set of threads and any number of
\* checkpoints and restarts.
LEMMA SafeInvariant ==
  ASSUME ~SlowSuspend
  PROVE  Spec => []SafeInv
<1>1. Init => SafeInv
  BY InitSafe
<1>2. SafeInv /\ [Next]_vars => SafeInv'
  BY NextSafe
<1> QED BY <1>1, <1>2, PTL DEF Spec

\* The variables keep their types; both counts stay within their bounds.
THEOREM CkptTypeCorrect ==
  ASSUME ~SlowSuspend
  PROVE  Spec => []TypeOK
<1>1. SafeInv => TypeOK
  <2> SUFFICES ASSUME SafeInv PROVE TypeOK
    OBVIOUS
  <2>1. /\ Cardinality(Making) <= Cardinality(Thread)
        /\ Cardinality(Cloning) <= Cardinality(Thread)
        /\ Cardinality(Halted) <= Cardinality(Thread)
        /\ Cardinality(Recreated) <= Cardinality(Thread)
        /\ Cardinality(Thread) \in Nat
    BY FiniteSets, FS_Subset, FS_CardinalityType
  <2>2. uninitialized \in 0 .. 2 * Cardinality(Thread)
    BY <2>1, FiniteSets DEF SafeInv, UninitializedInv
  <2>3. preResumeCount \in 0 .. Cardinality(Thread)
    BY <2>1, FiniteSets DEF SafeInv, HaltedInv
  <2>4. restoreInProg \in 0 .. Cardinality(Thread) + 2
    BY <2>1, FiniteSets DEF SafeInv, RestoreInv
  <2>5. tstate \in [Thread -> ThreadState]
    BY DEF SafeInv, TypeInv
  <2> QED BY <2>2, <2>3, <2>4, <2>5 DEF SafeInv, TypeInv, TypeOK
<1> QED BY <1>1, SafeInvariant, PTL

\* From "everything suspended" to the resume all threads of the process are
\* stopped, none of them inside a wrapper, and neither the assertion of
\* processPreResumeCB nor that on the state of a resumed thread ever fails.
THEOREM StopsSafely ==
  ASSUME ~SlowSuspend
  PROVE  Spec => []StoppedSafely
<1>1. SafeInv => StoppedSafely
  <2> SUFFICES ASSUME SafeInv PROVE StoppedSafely
    OBVIOUS
  <2>1. EveryThreadHalted
    BY DEF SafeInv, StageInv, EveryThreadHalted
  <2>2. StoppedOutsideWrappers
    BY DEF SafeInv, HandlerInv, StoppedOutsideWrappers, StopPlace
  <2>3. NoAbort
    BY DEF SafeInv, TypeInv, NoAbort
  <2> QED BY <2>1, <2>2, <2>3 DEF StoppedSafely
<1> QED BY <1>1, SafeInvariant, PTL

-----------------------------------------------------------------------------
(* The tree of threads. *)

\* Whether threads form a tree depends on the parents of those threads only.
LEMMA SameTree ==
  ASSUME NEW ths, NEW par, NEW par2, IsTree(ths, par), \A t \in ths : par2[t] = par[t]
  PROVE  IsTree(ths, par2)
<1>1. \A S \in SUBSET (ths \ {Main}) : \A t \in S : par2[t] = par[t]
  OBVIOUS
<1> QED BY <1>1 DEF IsTree

\* threadisdead: what is left when the children of all threads of a set have
\* been given on is a tree again.
LEMMA AdoptedTree ==
  ASSUME NEW dead, NEW linked \in SUBSET Thread, IsTree(linked, parent),
         dead \subseteq linked \ {Main}, Adopted(dead, linked)
  PROVE  IsTree(threads', parent')
<1> DEFINE par == parent'
<1>1. threads' = linked \ dead
  BY DEF Adopted
<1>2. \A t \in linked : par[t] = IF parent[t] \in dead THEN par[parent[t]] ELSE parent[t]
  BY DEF Adopted
<1> HIDE DEF par
<1>3. \A t \in linked \ {Main} : par[t] \in linked \ dead
  <2> DEFINE S == {t \in linked \ {Main} : par[t] \notin linked \ dead}
  <2>1. SUFFICES ASSUME S # {} PROVE FALSE
    OBVIOUS
  <2>2. PICK t \in S : parent[t] \notin S
    BY <2>1 DEF IsTree
  <2>3. parent[t] \in linked
    BY DEF IsTree
  <2>4. CASE parent[t] \in dead
    BY <1>2, <2>2, <2>3, <2>4
  <2>5. CASE parent[t] \notin dead
    BY <1>2, <2>3, <2>5
  <2> QED BY <2>4, <2>5
<1>4. ASSUME NEW S \in SUBSET ((linked \ dead) \ {Main}), S # {}
      PROVE  \E t \in S : par[t] \notin S
  <2> DEFINE Below == S \cup {d \in dead : par[d] \in S}
  <2>1. Below \in SUBSET (linked \ {Main}) /\ Below # {}
    BY <1>4
  <2>2. PICK t \in Below : parent[t] \notin Below
    BY <2>1 DEF IsTree
  <2>3. t \in linked
    BY <2>1
  <2>4. CASE t \in S
    <3>1. CASE parent[t] \in dead
      BY <1>2, <2>2, <2>3, <2>4, <3>1
    <3>2. CASE parent[t] \notin dead
      BY <1>2, <2>2, <2>3, <2>4, <3>2
    <3> QED BY <3>1, <3>2
  <2>5. CASE t \in dead /\ par[t] \in S
    BY <1>2, <2>2, <2>3, <2>5
  <2> QED BY <2>4, <2>5
<1> QED BY <1>1, <1>3, <1>4 DEF IsTree, par

\* A thread that links itself comes below a thread of the list.
LEMMA LinkedTree ==
  ASSUME SafeInv, TreeInv, NEW t \in Thread, at[t] = "starting"
  PROVE  IsTree(threads \cup {t}, parent)
<1>1. parent[t] \in threads /\ t \notin threads /\ t # Main
  BY DEF SafeInv, DescriptorInv, TreeInv, BegunInv
<1>2. \A u \in (threads \cup {t}) \ {Main} : parent[u] \in threads
  BY <1>1 DEF TreeInv, IsTree
<1>3. ASSUME NEW S \in SUBSET ((threads \cup {t}) \ {Main}), S # {}
      PROVE  \E u \in S : parent[u] \notin S
  <2>1. CASE S = {t}
    BY <1>1, <2>1
  <2>2. CASE S \ {t} # {}
    <3>1. PICK u \in S \ {t} : parent[u] \notin S \ {t}
      BY <2>2 DEF TreeInv, IsTree
    <3>2. parent[u] # t
      BY <1>1, <1>2
    <3> QED BY <3>1, <3>2
  <2> QED BY <1>3, <2>1, <2>2
<1> QED BY <1>2, <1>3 DEF IsTree

\* Outside a restart no thread has still to be created.
LEMMA NoneUncloned ==
  ASSUME TreeInv, ckpt \notin Restoring, NEW t \in Thread
  PROVE  hand[t] # "uncloned"
BY DEF TreeInv, UnclonedInv

\* A step that leaves the list and the image alone, creates no thread, and ends
\* none that has made one which has still to begin.
LEMMA TreeStays ==
  ASSUME SafeInv, TreeInv, UNCHANGED <<listVars, image>>,
         \A u \in Thread : at'[u] = "starting" =>
           /\ at[u] = "starting"
           /\ at'[parent[u]] \notin {"unborn", "starting", "dying", "zombie", "gone"},
         \A u \in Thread : hand'[u] = "uncloned" =>
           /\ hand[u] = "uncloned" /\ ckpt' \in Restoring
           /\ hand'[parent[u]] \in {"uncloned", "cloning"}
  PROVE  TreeInv'
BY DEF TreeInv, BegunInv, UnclonedInv, listVars

\* The steps of a user thread other than making one, linking itself and
\* ending.
LEMMA UserTree ==
  ASSUME SafeInv, TreeInv, ~Abandons, NEW t \in Thread, UserStep(t),
         ~Clone(t), ~ThreadStart(t)
  PROVE  TreeInv'
<1>1. tstate[t] # "SIGDISABLED"
  BY DEF SafeInv, TypeInv
<1>2. /\ hand[t] = "out" /\ hand' = hand /\ ckpt' = ckpt /\ UNCHANGED <<listVars, image>>
      /\ at[t] \notin {"unborn", "starting", "gone"}
      /\ \E p \in UserPlace :
           /\ at' = [at EXCEPT ![t] = p]
           /\ p \in {"unborn", "starting"} => FALSE
           /\ p = "dying" => \A c \in Thread : at[c] = "starting" => parent[c] # t
           /\ p \in {"zombie", "gone"} => at[t] \in {"dying", "zombie"}
  <2> USE DEF Runs, Goes, Moves, UserPlace, listVars, lockVars, ckptVars, worldVars, userVars
  <2>1. CASE Wrapper(t)
    BY <2>1 DEF Wrapper
  <2>2. CASE Popen(t)
    BY <2>2 DEF Popen
  <2>3. CASE Fork(t)
    BY <2>3 DEF Fork
  <2>4. CASE Dlopen(t)
    BY <2>4 DEF Dlopen
  <2>5. CASE \E c \in Thread : PthreadCreate(t, c)
    BY <2>5 DEF PthreadCreate
  <2>6. CASE CloneEnter(t) \/ CreateReturn(t)
    BY <2>6 DEF CloneEnter, CreateReturn
  <2>7. CASE MtcpOk(t)
    BY <1>1, <2>7 DEF MtcpOk
  <2>8. CASE ThreadFinishedInitialization(t)
    BY <2>8 DEF ThreadFinishedInitialization
  <2>9. CASE Join(t)
    BY <2>9 DEF Join
  <2>10. CASE Return(t)
    BY <2>10 DEF Return
  <2>11. CASE Zombie(t) \/ Vanish(t)
    BY <2>11 DEF Zombie, Vanish
  <2>12. CASE Exit(t) \/ CloseConnection(t) \/ KillCkpthread(t)
    BY <2>12 DEF Exit, CloseConnection, KillCkpthread
  <2>13. CASE DestroyTryLock(t) \/ DestroyLock(t)
    <3>1. at[t] \in {"closed", "destroying"} /\ at' \in {at, [at EXCEPT ![t] = "killing"]}
      BY <2>13 DEF DestroyTryLock, DestroyLock
    <3>2. at = [at EXCEPT ![t] = at[t]]
      BY DEF SafeInv, TypeInv
    <3> QED BY <2>13, <3>1, <3>2 DEF DestroyTryLock, DestroyLock, Ended
  <2> QED BY <2>1, <2>2, <2>3, <2>4, <2>5, <2>6, <2>7, <2>8, <2>9, <2>10, <2>11, <2>12, <2>13
          DEF UserStep
<1>3. ckpt \notin Restoring
  BY <1>2, RunningThread
<1>4. \A u \in Thread : at'[u] = "starting" =>
        /\ at[u] = "starting"
        /\ at'[parent[u]] \notin {"unborn", "starting", "dying", "zombie", "gone"}
  BY <1>2 DEF SafeInv, TypeInv, TreeInv, BegunInv
<1> QED BY <1>2, <1>3, <1>4, NoneUncloned, TreeStays

\* A new thread has a parent that is not ending.
LEMMA CloneTree ==
  ASSUME SafeInv, TreeInv, NEW t \in Thread, Clone(t)
  PROVE  TreeInv'
<1> DEFINE c == target[t]
<1>1. /\ hand[t] = "out" /\ at[t] = "clone"
      /\ UNCHANGED <<hand, threads, ckptVars, image>>
  BY DEF Clone, Runs, worldVars
<1>2. \/ /\ at' = [at EXCEPT ![t] = "created", ![c] = "starting"]
         /\ parent' = [parent EXCEPT ![c] = t]
      \/ at' = [at EXCEPT ![t] = "failed"] /\ parent' = parent
  BY DEF Clone, Goes
<1>3. ckpt \notin Restoring
  BY <1>1, RunningThread
<1>4. c \in Thread /\ at[c] = "unborn" /\ c # t /\ c \notin threads
  BY <1>1 DEF SafeInv, TargetInv, DescriptorInv
<1> HIDE DEF c
<1>5. \A u \in threads : parent'[u] = parent[u]
  BY <1>2, <1>4 DEF SafeInv, TypeInv
<1>6. IsTree(threads', parent')
  BY <1>1, <1>5, SameTree DEF TreeInv
<1>7. BegunInv'
  BY <1>1, <1>2, <1>4 DEF SafeInv, TypeInv, TreeInv, BegunInv
<1>8. UnclonedInv'
  BY <1>1, <1>3, NoneUncloned DEF UnclonedInv, ckptVars
<1> QED BY <1>1, <1>6, <1>7, <1>8 DEF TreeInv

\* The children of dead threads are given on; those that have still to link
\* themselves have no dead parent.
LEMMA AdoptedKeeps ==
  ASSUME SafeInv, TreeInv, NEW dead, NEW linked \in SUBSET Thread,
         IsTree(linked, parent), dead \subseteq linked, \A t \in dead : at[t] = "gone",
         Adopted(dead, linked), ckpt \notin Restoring, hand' = hand, image' = image,
         \A u \in Thread : \/ at'[u] = at[u]
                           \/ u \in linked /\ at'[u] = "linked"
  PROVE  TreeInv'
<1>1. Main \notin dead
  BY DEF SafeInv, DescriptorInv
<1>2. IsTree(threads', parent')
  BY <1>1, AdoptedTree
<1>3. \A u \in Thread : at'[u] = "starting" => at[u] = "starting" /\ parent'[u] = parent[u]
  <2> TAKE u \in Thread
  <2> HAVE at'[u] = "starting"
  <2>1. at[u] = "starting" /\ parent[u] \notin dead
    BY DEF TreeInv, BegunInv
  <2> QED BY <2>1 DEF Adopted
<1>4. BegunInv'
  BY <1>3 DEF TreeInv, BegunInv
<1>5. UnclonedInv'
  BY NoneUncloned DEF UnclonedInv
<1> QED BY <1>2, <1>4, <1>5 DEF TreeInv

\* mtcp_thread_start: the thread comes into the tree, dead ones leave it.
LEMMA ThreadStartTree ==
  ASSUME SafeInv, TreeInv, NEW t \in Thread, ThreadStart(t)
  PROVE  TreeInv'
<1>1. /\ hand[t] = "out" /\ at[t] = "starting" /\ at' = [at EXCEPT ![t] = "linked"]
      /\ Adopted(DeadDescriptors, threads \cup {t}) /\ hand' = hand /\ image' = image
  BY DEF ThreadStart, Runs, Goes, worldVars
<1>2. ckpt \notin Restoring
  BY <1>1, RunningThread
<1>3. threads \cup {t} \in SUBSET Thread
  BY DEF SafeInv, TypeInv
<1>4. IsTree(threads \cup {t}, parent)
  BY <1>1, LinkedTree
<1>5. \A u \in Thread : at'[u] = at[u] \/ (u \in threads \cup {t} /\ at'[u] = "linked")
  BY <1>1 DEF SafeInv, TypeInv
<1> QED BY <1>1, <1>2, <1>3, <1>4, <1>5, AdoptedKeeps DEF DeadDescriptors

\* The steps in the handler create no thread and change no list.
LEMMA HandlerTree ==
  ASSUME SafeInv, TreeInv, NEW t \in Thread, Handler(t)
  PROVE  TreeInv'
<1>1. /\ UNCHANGED <<userVars, listVars, image, ckpt>>
      /\ \/ hand' = hand
         \/ /\ t \in signalled \/ hand[t] \in {"enter", "saving", "late", "leaving"} \/ Woken(t)
            /\ \E p \in {"out", "enter", "saving", "late", "halted", "leaving"} :
                 hand' = [hand EXCEPT ![t] = p]
  BY DEF Handler, Deliver, EnterHandler, SaveState, PreSuspend, WakeUp, PreResume, StepsInHandler,
         Handles, ckptVars, worldVars
<1>2. hand' = hand \/ ckpt \notin Restoring
  <2>1. restoreInProg = 0 => ckpt \notin Restoring
    BY FiniteSets DEF SafeInv, RestoreInv
  <2> QED BY <1>1, <2>1 DEF SafeInv, StageInv, HandlerInv, Woken, Scanning, Restoring
<1>3. \A u \in Thread : hand'[u] = "uncloned" =>
        hand' = hand /\ hand[u] = "uncloned" /\ ckpt \in Restoring
  BY <1>1, <1>2, NoneUncloned DEF SafeInv, TypeInv, TreeInv, UnclonedInv
<1> QED BY <1>1, <1>3, TreeStays DEF TreeInv, BegunInv, UnclonedInv, userVars

\* The checkpoint thread drops the descriptors of dead threads, and writes the
\* list into the image.
LEMMA CkptTree ==
  ASSUME SafeInv, TreeInv, CkptStep \/ Listen
  PROVE  TreeInv'
<1>1. UNCHANGED <<at, hand>>
  BY DEF CkptStep, Listen, Sleep, AcquireLocks, Rescan, ScanEnds, LockForZombies, ReapZombies,
         PreCkpt, WriteImage, StartResume, ResumeEnds, CkptRestored, Visit, ResumeThread,
         CkptMoves, userVars
<1>2. CASE ReapZombies
  <2> DEFINE dead == {t \in threads : tstate[t] = "ZOMBIE"}
  <2>1. /\ ckpt = "reap" /\ \A t \in dead : at[t] = "gone"
        /\ Adopted(dead, threads) /\ image' = image
    BY <1>2 DEF ReapZombies, worldVars
  <2>2. dead \subseteq threads /\ threads \in SUBSET Thread
    BY DEF SafeInv, TypeInv
  <2>3. ckpt \notin Restoring
    BY <2>1 DEF Restoring
  <2> HIDE DEF dead
  <2> QED BY <1>1, <2>1, <2>2, <2>3, AdoptedKeeps DEF TreeInv
<1>3. CASE \E t \in Thread : Visit(t)
  <2>1. PICK t \in Thread : Visit(t)
    BY <1>3
  <2>2. ckpt \notin Restoring /\ image' = image
    BY <2>1 DEF Visit, worldVars, Restoring
  <2>3. CASE at[t] = "gone"
    <3>1. t \in threads /\ Adopted({t}, threads)
      BY <2>1, <2>3 DEF Visit, SafeInv, StageInv
    <3>2. {t} \subseteq threads /\ threads \in SUBSET Thread
      BY <3>1 DEF SafeInv, TypeInv
    <3> QED BY <1>1, <2>2, <2>3, <3>1, <3>2, AdoptedKeeps DEF TreeInv
  <2>4. CASE at[t] # "gone"
    <3>1. UNCHANGED listVars
      BY <2>1, <2>4 DEF Visit
    <3> QED BY <1>1, <2>2, <3>1, NoneUncloned, TreeStays DEF TreeInv, BegunInv
  <2> QED BY <2>3, <2>4
<1>4. CASE WriteImage
  <2>1. /\ ckpt = "barriers" /\ UNCHANGED listVars
        /\ image'.threads = threads /\ image'.parent = parent
    BY <1>4 DEF WriteImage, CkptMoves
  <2>2. UnclonedInv'
    BY <1>1, <2>1, NoneUncloned DEF UnclonedInv, Restoring
  <2>3. BegunInv'
    BY <1>1, <2>1 DEF TreeInv, BegunInv, listVars
  <2> QED BY <2>1, <2>2, <2>3 DEF TreeInv, listVars
<1>5. CASE CkptRestored
  <2>1. /\ \/ ckpt = "cloning" /\ ckpt' = "restored"
           \/ ckpt = "restored" /\ restoreInProg = 1
        /\ UNCHANGED <<listVars, image>>
    BY <1>5 DEF CkptRestored, CkptGoes, worldVars
  <2>2. ASSUME ckpt = "restored", NEW t \in Thread, hand[t] = "uncloned"
        PROVE  FALSE
    <3> DEFINE S == {u \in Thread : hand[u] = "uncloned"}
    <3>1. Recreated = {}
      BY <2>1, <2>2, FiniteSets, FS_EmptySet DEF SafeInv, RestoreInv, Restoring
    <3>2. S \in SUBSET (threads \ {Main}) /\ S # {}
      BY <2>2 DEF TreeInv, UnclonedInv
    <3>3. PICK u \in S : parent[u] \notin S
      BY <3>2 DEF TreeInv, IsTree
    <3>4. parent[u] \in Thread /\ hand[parent[u]] \in {"uncloned", "cloning"}
      BY <3>2, <3>3 DEF TreeInv, IsTree, UnclonedInv, SafeInv, TypeInv
    <3> QED BY <3>1, <3>3, <3>4 DEF Recreated
  <2>3. \A t \in Thread : hand[t] = "uncloned" => ckpt' \in Restoring
    BY <2>1, <2>2, NoneUncloned DEF Restoring
  <2> QED BY <1>1, <2>1, <2>3, TreeStays DEF TreeInv, BegunInv, UnclonedInv
<1>6. CASE \/ Sleep \/ Listen \/ AcquireLocks \/ Rescan \/ ScanEnds \/ LockForZombies
           \/ PreCkpt \/ StartResume \/ ResumeEnds \/ \E t \in Thread : ResumeThread(t)
  <2>1. ckpt \notin Restoring /\ UNCHANGED <<listVars, image>>
    BY <1>6 DEF Listen, Sleep, AcquireLocks, Rescan, ScanEnds, LockForZombies, PreCkpt,
         StartResume, ResumeEnds, ResumeThread, CkptMoves, Restoring, worldVars
  <2> QED BY <1>1, <2>1, NoneUncloned, TreeStays DEF TreeInv, BegunInv
<1> QED BY <1>2, <1>3, <1>4, <1>5, <1>6 DEF CkptStep

\* A restart begins with the tree of the image, and goes down the tree.
LEMMA RestartTree ==
  ASSUME SafeInv, TreeInv, Restore \/ \E t \in Thread : RestoreStep(t)
  PROVE  TreeInv'
<1>1. CASE Restore
  <2>1. /\ image # NoImage /\ at' = image.at /\ threads' = image.threads
        /\ parent' = image.parent /\ ckpt' = "uncloned" /\ image' = image
        /\ hand' = [t \in Thread |-> IF t = Main THEN "cloning"
                                     ELSE IF t \in image.threads THEN "uncloned" ELSE "out"]
    BY <1>1 DEF Restore
  <2>2. /\ image.threads \in SUBSET Thread /\ IsTree(image.threads, image.parent)
        /\ \A t \in Thread : image.at[t] # "starting"
    BY <2>1 DEF SafeInv, ImageInv, TreeInv, StopPlace
  <2>3. BegunInv'
    BY <2>1, <2>2 DEF BegunInv
  <2>4. UnclonedInv'
    <3> SUFFICES ASSUME NEW t \in Thread, hand'[t] = "uncloned"
                 PROVE  /\ t \in threads' /\ t # Main
                        /\ hand'[parent'[t]] \in {"uncloned", "cloning"}
      BY <2>1 DEF UnclonedInv, Restoring
    <3>1. t \in image.threads \ {Main}
      BY <2>1
    <3>2. image.parent[t] \in image.threads
      BY <2>2, <3>1 DEF IsTree
    <3> QED BY <2>1, <2>2, <3>1, <3>2
  <2> QED BY <2>1, <2>2, <2>3, <2>4 DEF TreeInv
<1>2. ASSUME NEW t \in Thread, RestartThread(t)
      PROVE  TreeInv'
  <2>1. hand[t] = "cloning" /\ UNCHANGED <<userVars, listVars, image>>
    BY <1>2 DEF RestartThread, RestartStep, worldVars
  <2>2. ckpt \in Restoring /\ ckpt' \in Restoring
    <3>1. ckpt \in Restoring
      BY <2>1, CloningRestores
    <3> QED BY <1>2, <3>1 DEF RestartThread, CkptGoes, Restoring
  <2>3. hand' = hand \/ \E c \in threads : hand' = [hand EXCEPT ![c] = "cloning"]
    BY <1>2 DEF RestartThread, Children, Handles
  <2>4. \A u \in Thread : \/ hand'[u] = hand[u]
                          \/ hand'[u] = "cloning"
    BY <2>3 DEF SafeInv, TypeInv
  <2>5. \A u \in Thread : hand[u] = "uncloned" => parent[u] \in Thread
    BY DEF TreeInv, UnclonedInv, IsTree, SafeInv, TypeInv
  <2>6. \A u \in Thread : hand'[u] = "uncloned" =>
          /\ hand[u] = "uncloned" /\ ckpt' \in Restoring
          /\ hand'[parent[u]] \in {"uncloned", "cloning"}
    BY <2>2, <2>4, <2>5 DEF TreeInv, UnclonedInv
  <2> QED BY <2>1, <2>6, TreeStays DEF TreeInv, BegunInv, userVars
<1>3. ASSUME NEW t \in Thread, JumpBack(t)
      PROVE  TreeInv'
  <2>1. /\ hand[t] = "cloning" /\ hand' = [hand EXCEPT ![t] = "restored"] /\ ckpt' = ckpt
        /\ \A c \in Children(t) : hand[c] # "uncloned"
        /\ UNCHANGED <<userVars, listVars, image>>
    BY <1>3 DEF JumpBack, RestartStep, Handles, worldVars
  <2>2. \A u \in Thread : hand'[u] = hand[u] \/ (u = t /\ hand'[u] = "restored")
    BY <2>1 DEF SafeInv, TypeInv
  <2>3. \A u \in Thread : hand[u] = "uncloned" => parent[u] \in Thread /\ parent[u] # t
    BY <2>1 DEF TreeInv, UnclonedInv, IsTree, Children, SafeInv, TypeInv
  <2>4. \A u \in Thread : hand'[u] = "uncloned" =>
          /\ hand[u] = "uncloned" /\ ckpt' \in Restoring
          /\ hand'[parent[u]] \in {"uncloned", "cloning"}
    BY <2>1, <2>2, <2>3 DEF TreeInv, UnclonedInv
  <2> QED BY <2>1, <2>4, TreeStays DEF TreeInv, BegunInv, userVars
<1> QED BY <1>1, <1>2, <1>3 DEF RestoreStep

\* At first there is the first thread only.
LEMMA InitTree ==
  ASSUME Init
  PROVE  TreeInv
<1>1. IsTree(threads, parent)
  BY DEF Init, IsTree
<1>2. BegunInv /\ UnclonedInv
  BY DEF Init, BegunInv, UnclonedInv
<1> QED BY <1>1, <1>2 DEF Init, TreeInv

\* Every step keeps the tree, when no thread ends before one it made begins.
LEMMA NextTree ==
  ASSUME SafeInv, TreeInv, ~Abandons, [Next]_vars
  PROVE  TreeInv'
<1>1. ASSUME NEW t \in Thread, UserStep(t)
      PROVE  TreeInv'
  BY <1>1, UserTree, CloneTree, ThreadStartTree
<1>2. ASSUME NEW t \in Thread, Handler(t)
      PROVE  TreeInv'
  BY <1>2, HandlerTree
<1>3. CASE CkptStep \/ Listen
  BY <1>3, CkptTree
<1>4. CASE Restore \/ \E t \in Thread : RestoreStep(t)
  BY <1>4, RestartTree
<1>5. CASE UNCHANGED vars
  BY <1>5 DEF vars, userVars, listVars, ckptVars, worldVars, TreeInv, BegunInv, UnclonedInv
<1> QED BY <1>1, <1>2, <1>3, <1>4, <1>5 DEF Next

\* So the threads form a tree throughout.
LEMMA TreeInvariant ==
  ASSUME ~SlowSuspend, ~Abandons
  PROVE  Spec => [](SafeInv /\ TreeInv)
<1>1. Init => SafeInv /\ TreeInv
  BY InitSafe, InitTree
<1>2. SafeInv /\ TreeInv /\ [Next]_vars => (SafeInv /\ TreeInv)'
  BY NextSafe, NextTree
<1> QED BY <1>1, <1>2, PTL DEF Spec

\* While restoreinprog is zero no thread of the list has still to be created or
\* to jump back.
LEMMA AllRestored ==
  ASSUME SafeInv, TreeInv, restoreInProg = 0, NEW u \in threads
  PROVE  hand[u] \notin {"uncloned", "cloning"}
<1>1. ckpt \notin Restoring
  BY FiniteSets DEF SafeInv, RestoreInv
<1>2. u \in Thread
  BY DEF SafeInv, TypeInv
<1> QED BY <1>1, <1>2, NoneUncloned, CloningRestores

\* wait_for_all_restored: a restored thread goes on only when every thread of
\* the image has been created again and has jumped back, however the threads
\* had made one another, and whichever of them had died before the checkpoint.
THEOREM RestoresTogether ==
  ASSUME ~SlowSuspend, ~Abandons
  PROVE  Spec => RestoredTogether
<1> DEFINE Together == \A t \in Thread : hand[t] = "restored" /\ hand'[t] = "leaving" =>
                         \A u \in threads : hand[u] \notin {"uncloned", "cloning"}
<1>1. SafeInv /\ TreeInv /\ [Next]_vars => [Together]_vars
  <2> SUFFICES ASSUME SafeInv, TreeInv, Next,
                      NEW t \in Thread, hand[t] = "restored", hand'[t] = "leaving"
               PROVE  restoreInProg = 0
    BY AllRestored
  <2>1. ASSUME NEW u \in Thread, UserStep(u)
        PROVE  FALSE
    <3>1. tstate[u] # "SIGDISABLED"
      BY DEF SafeInv, TypeInv
    <3>2. hand' = hand
      BY <2>1, <3>1 DEF UserStep, Wrapper, Popen, Fork, Dlopen, PthreadCreate, CloneEnter, Clone,
         CreateReturn, ThreadStart, MtcpOk, ThreadFinishedInitialization, Join, Return, Zombie,
         Vanish, Exit, CloseConnection, DestroyTryLock, KillCkpthread, DestroyLock, Moves
    <3> QED BY <3>2
  <2>2. ASSUME NEW u \in Thread, Handler(u)
        PROVE  restoreInProg = 0
    <3>1. CASE u # t
      <4>1. hand' = hand \/ \E p \in HandlerPlace : hand' = [hand EXCEPT ![u] = p]
        BY <2>2 DEF Handler, Deliver, EnterHandler, SaveState, PreSuspend, WakeUp, PreResume,
           StepsInHandler, Handles, HandlerPlace
      <4> QED BY <3>1, <4>1 DEF SafeInv, TypeInv
    <3>2. CASE u = t
      <4>1. WakeUp(t)
        BY <2>2, <3>2 DEF Handler, Deliver, EnterHandler, SaveState, PreSuspend, PreResume, Runs
      <4> QED BY <4>1 DEF WakeUp, Woken
    <3> QED BY <3>1, <3>2
  <2>3. ASSUME NEW u \in Thread, RestoreStep(u)
        PROVE  FALSE
    <3>1. hand' = hand \/ \E c \in Thread, p \in {"cloning", "restored"} :
            hand' = [hand EXCEPT ![c] = p]
      BY <2>3 DEF RestoreStep, RestartThread, JumpBack, Children, Handles, SafeInv, TypeInv
    <3> QED BY <3>1 DEF SafeInv, TypeInv
  <2>4. ~Restore
    BY DEF Restore
  <2>5. ~(CkptStep \/ Listen)
    BY DEF CkptStep, Listen, Sleep, AcquireLocks, Rescan, ScanEnds, LockForZombies, ReapZombies,
       PreCkpt, WriteImage, StartResume, ResumeEnds, CkptRestored, Visit, ResumeThread, CkptMoves
  <2> QED BY <2>1, <2>2, <2>3, <2>4, <2>5 DEF Next
<1> QED BY <1>1, TreeInvariant, PTL DEF Spec, RestoredTogether

-----------------------------------------------------------------------------
(* The image's way to its name. *)

\* The pieces of an image up to the n-th.
Piece == Nat \X Nat
Upto(c, n) == [k \in 1..n |-> <<c, k>>]

WriterType == [place : {"none", "open", "write", "wait", "done", "dead"}, file : Nat, pieces : 0..Pieces]
GzipType == [place : {"none", "runs", "ended"}, pipe : Seq(Piece), out : Nat]

FileTypeOK ==
  /\ program \in {"runs", "waits", "dead"} /\ sigchld \in {"user", "ignored"}
  /\ started \in 0..Images
  /\ writer \in [Image -> WriterType] /\ compressor \in [Image -> GzipType]
  /\ inode \in [temp : Nat, perm : Nat] /\ disk \in Seq(Seq(Piece))

\* Only the latest checkpoint is under way, and the program waits for it; its gzip may outlive
\* the program.
Active(c) == writer[c].place \in {"open", "write", "wait"}
WritingInv ==
  /\ \A c \in Image : Active(c) <=> Own(c)
  /\ program = "waits" => started \in Image
  /\ \A c \in Image : writer[c].place # "none" => c <= started
  /\ \A c \in Image : compressor[c].place = "runs" =>
       c = started /\ program # "runs" /\ writer[c].place \in {"write", "wait", "dead"}
  /\ \A c \in Image : writer[c].place \in {"none", "open"} => writer[c] = [NoWriter EXCEPT !.place = writer[c].place]
                                                              /\ compressor[c] = NoGzip

\* The temporary name and the image's are of two files; what is written goes to the first.
NamesInv ==
  /\ inode.temp \in 0..Len(disk) /\ inode.perm \in 0..Len(disk)
  /\ inode.temp # 0 => inode.temp # inode.perm
  /\ \A c \in Image : writer[c].place \in {"write", "wait"} \/ compressor[c].place = "runs" =>
       writer[c].file = inode.temp /\ inode.temp # 0

\* What is in the file and in the pipe are the pieces written so far, in their order; gzip
\* ends when it has written all of them.
ContentInv ==
  \A c \in Image : writer[c].place \in {"write", "wait"} =>
    /\ writer[c].place = "wait" => writer[c].pieces = Pieces
    /\ compressor[c].place = "none" => disk[inode.temp] = Upto(c, writer[c].pieces)
    /\ compressor[c].place = "ended" => writer[c].place = "wait" /\ compressor[c].pipe = <<>>
    /\ compressor[c].place # "none" =>
         /\ disk[inode.temp] = Upto(c, compressor[c].out)
         /\ compressor[c].out + Len(compressor[c].pipe) = writer[c].pieces
         /\ \A k \in 1..Len(compressor[c].pipe) : compressor[c].pipe[k] = <<c, compressor[c].out + k>>

WholeInv ==
  inode.perm # 0 =>
    \E c \in Image : /\ disk[inode.perm] = Whole(c)
                     /\ \A d \in Image : writer[d].place = "done" => d <= c

FileInv == FileTypeOK /\ WritingInv /\ NamesInv /\ ContentInv /\ WholeInv

\* SIGCHLD is ignored from the opening of the pipe until gzip has been waited for.
SigchldInv ==
  /\ program = "runs" => sigchld = "user"
  /\ \A c \in Image : Own(c) =>
       sigchld = IF compressor[c].place = "none" THEN "user" ELSE "ignored"
-----------------------------------------------------------------------------

\* A sequence of pieces is a function on 1..n.
LEMMA PiecesAre ==
  ASSUME NEW n \in Nat, NEW e \in [1..n -> Piece]
  PROVE  e \in Seq(Piece) /\ Len(e) = n
<1>1. e \in Seq(Piece)
  BY SeqDef
<1>2. Len(e) \in Nat /\ DOMAIN e = 1..Len(e)
  BY <1>1, LenProperties
<1> QED BY <1>1, <1>2

\* What is written at the end of the pieces written so far is the next of them.
LEMMA NextPiece ==
  ASSUME NEW c \in Image, NEW n \in Nat
  PROVE  /\ Upto(c, n) \in Seq(Piece) /\ Len(Upto(c, n)) = n
         /\ WithPiece(Upto(c, n), n, <<c, n + 1>>) = Upto(c, n + 1)
<1>0. c \in Nat
  BY CkptFileAssumption DEF Image
<1>1. Upto(c, n) \in [1..n -> Piece]
  BY <1>0 DEF Upto, Piece
<1>2. Upto(c, n) \in Seq(Piece) /\ Len(Upto(c, n)) = n
  BY <1>1, PiecesAre
<1>3. WithPiece(Upto(c, n), n, <<c, n + 1>>) =
        [k \in 1..(n + 1) |-> IF k = n + 1 THEN <<c, n + 1>> ELSE IF k <= n THEN Upto(c, n)[k] ELSE Hole]
  BY <1>2 DEF WithPiece
<1>4. \A k \in 1..(n + 1) : k # n + 1 => k <= n /\ Upto(c, n)[k] = <<c, k>>
  BY DEF Upto
<1>5. WithPiece(Upto(c, n), n, <<c, n + 1>>) = [k \in 1..(n + 1) |-> <<c, k>>]
  BY <1>3, <1>4
<1> QED BY <1>2, <1>5 DEF Upto

\* A write leaves a file of pieces.
LEMMA PieceWritten ==
  ASSUME NEW content \in Seq(Piece), NEW offset \in Nat, NEW piece \in Piece
  PROVE  WithPiece(content, offset, piece) \in Seq(Piece)
<1>1. /\ Len(content) \in Nat /\ \A k \in 1..Len(content) : content[k] \in Piece
      /\ Hole \in Piece
  BY LenProperties DEF Hole, Piece
<1> DEFINE n == IF offset < Len(content) THEN Len(content) ELSE offset + 1
<1>2. n \in Nat
  BY <1>1
<1>3. WithPiece(content, offset, piece) \in [1..n -> Piece]
  BY <1>1 DEF WithPiece
<1> HIDE DEF n
<1> QED BY <1>2, <1>3, PiecesAre

WriterPlace == {"none", "open", "write", "wait", "done", "dead"}

\* What the records of a writer become.
LEMMA WriterBecomes ==
  ASSUME FileTypeOK, NEW c \in Image, NEW new \in WriterType, writer' = [writer EXCEPT ![c] = new]
  PROVE  /\ writer' \in [Image -> WriterType] /\ writer'[c] = new
         /\ \A d \in Image : d # c => writer'[d] = writer[d]
BY DEF FileTypeOK

\* A writer whose place alone changes keeps its file and its pieces.
LEMMA WriterMoves ==
  ASSUME FileTypeOK, NEW c \in Image, NEW place \in WriterPlace,
         writer' = [writer EXCEPT ![c].place = place]
  PROVE  /\ writer' \in [Image -> WriterType]
         /\ writer'[c] = [place |-> place, file |-> writer[c].file, pieces |-> writer[c].pieces]
         /\ \A d \in Image : d # c => writer'[d] = writer[d]
<1> DEFINE new == [place |-> place, file |-> writer[c].file, pieces |-> writer[c].pieces]
<1>1. writer[c] \in WriterType
  BY DEF FileTypeOK
<1>2. [writer[c] EXCEPT !.place = place] = new /\ new \in WriterType
  BY <1>1 DEF WriterType, WriterPlace
<1>3. writer' = [writer EXCEPT ![c] = [writer[c] EXCEPT !.place = place]]
  OBVIOUS
<1> HIDE DEF new
<1>4. writer' = [writer EXCEPT ![c] = new]
  BY <1>2, <1>3
<1>5. /\ writer' \in [Image -> WriterType] /\ writer'[c] = new
      /\ \A d \in Image : d # c => writer'[d] = writer[d]
  BY <1>2, <1>4, WriterBecomes
<1> QED BY <1>5 DEF new

\* What the records of gzip become.
LEMMA GzipBecomes ==
  ASSUME FileTypeOK, NEW c \in Image, NEW new \in GzipType, compressor' = [compressor EXCEPT ![c] = new]
  PROVE  /\ compressor' \in [Image -> GzipType] /\ compressor'[c] = new
         /\ \A d \in Image : d # c => compressor'[d] = compressor[d]
BY DEF FileTypeOK

\* The invariant holds before the first checkpoint.
LEMMA InitFileInv == CkptFileInit => FileInv /\ SigchldInv
<1> SUFFICES ASSUME CkptFileInit
             PROVE  FileInv /\ SigchldInv
  OBVIOUS
<1>1. /\ \A c \in Image : writer[c] = NoWriter /\ compressor[c] = NoGzip
      /\ program = "runs" /\ sigchld = "user" /\ started = 0
      /\ inode.temp = 0 /\ inode.perm = 0 /\ disk = <<>>
  BY DEF CkptFileInit
<1>2. /\ NoWriter \in WriterType
      /\ NoGzip \in GzipType
      /\ NoWriter.place = "none" /\ NoGzip.place = "none"
  BY CkptFileAssumption DEF NoWriter, NoGzip, WriterType, GzipType
<1>3. FileTypeOK
  BY <1>1, <1>2, CkptFileAssumption DEF CkptFileInit, FileTypeOK
<1>4. WritingInv
  <2>1. NoWriter = [NoWriter EXCEPT !.place = NoWriter.place]
    BY DEF NoWriter
  <2> QED BY <1>1, <1>2, <2>1 DEF WritingInv, Active, Own
<1>5. NamesInv /\ ContentInv /\ WholeInv /\ SigchldInv
  BY <1>1, <1>2, <1>3 DEF NamesInv, ContentInv, WholeInv, SigchldInv, FileTypeOK, Own
<1> QED BY <1>3, <1>4, <1>5 DEF FileInv

\* A checkpoint starts: the program waits for it.
LEMMA StartKeeps ==
  ASSUME ~Forked, FileInv, StartImage
  PROVE  FileInv' /\ (SigchldInv => SigchldInv')
<1> DEFINE c == started + 1
<1>1. /\ program = "runs" /\ c \in Image /\ started' = c /\ program' = "waits"
      /\ writer' = [writer EXCEPT ![c].place = "open"]
      /\ UNCHANGED <<sigchld, compressor, inode, disk>>
  BY DEF StartImage, fileVars
<1>2. started \in 0..Images /\ \A d \in Image : d \in Nat
  BY DEF FileInv, FileTypeOK, Image
<1> HIDE DEF c
<1>3. writer[c].place = "none"
  <2>1. ~(c <= started)
    BY <1>2 DEF c
  <2> QED BY <1>1, <2>1 DEF FileInv, WritingInv
<1>4. /\ writer[c] = NoWriter /\ compressor[c] = NoGzip
  BY <1>1, <1>3 DEF FileInv, WritingInv, NoWriter
<1>5. /\ writer'[c] = [place |-> "open", file |-> 0, pieces |-> 0]
      /\ \A d \in Image : d # c => writer'[d] = writer[d]
      /\ writer' \in [Image -> WriterType]
  <2>1. /\ writer'[c] = [place |-> "open", file |-> writer[c].file, pieces |-> writer[c].pieces]
        /\ \A d \in Image : d # c => writer'[d] = writer[d]
        /\ writer' \in [Image -> WriterType]
    BY <1>1, WriterMoves DEF FileInv, WriterPlace
  <2> QED BY <1>4, <2>1 DEF NoWriter
<1>6. FileTypeOK'
  BY <1>1, <1>5 DEF FileInv, FileTypeOK, Image
<1>7. WritingInv'
  <2>1. \A d \in Image : ~Active(d)
    BY <1>1 DEF FileInv, WritingInv, Own
  <2>2. \A d \in Image : Active(d)' <=> d = c
    BY <1>5, <2>1 DEF Active
  <2>3. \A d \in Image : Own(d)' <=> d = c
    BY <1>1 DEF Own
  <2>4. \A d \in Image : compressor[d].place # "runs"
    BY <1>1 DEF FileInv, WritingInv
  <2>5. \A d \in Image : writer'[d].place # "none" => d <= started'
    BY <1>1, <1>2, <1>5 DEF FileInv, WritingInv, c
  <2>6. writer'[c] = [NoWriter EXCEPT !.place = writer'[c].place] /\ compressor'[c] = NoGzip
    BY <1>1, <1>4, <1>5 DEF NoWriter
  <2> QED BY <1>1, <1>5, <2>2, <2>3, <2>4, <2>5, <2>6 DEF FileInv, WritingInv
<1>8. NamesInv' /\ ContentInv' /\ WholeInv'
  BY <1>1, <1>4, <1>5 DEF FileInv, NamesInv, ContentInv, WholeInv, NoGzip
<1>9. ASSUME SigchldInv
      PROVE  SigchldInv'
  BY <1>1, <1>4, <1>9 DEF SigchldInv, Own, NoGzip
<1> QED BY <1>6, <1>7, <1>8, <1>9 DEF FileInv

\* The writer of the checkpoint under way.
LEMMA UnderWay ==
  ASSUME FileInv, NEW c \in Image, Active(c)
  PROVE  /\ Own(c) /\ c = started /\ program = "waits"
         /\ \A d \in Image : d # c => ~Active(d) /\ ~Own(d) /\ compressor[d].place # "runs"
                                      /\ (writer[d].place = "done" => d <= c)
  BY DEF FileInv, WritingInv, Own

\* The temporary file is empty and another than the image's.
LEMMA TempOpened ==
  ASSUME FileTypeOK, NamesInv, OpenTemp
  PROVE  /\ Temp \in Nat \ {0} /\ Temp # inode.perm
         /\ inode' = [temp |-> Temp, perm |-> inode.perm]
         /\ disk' \in Seq(Seq(Piece)) /\ Temp \in 1..Len(disk') /\ inode.perm \in 0..Len(disk')
         /\ disk'[Temp] = <<>>
         /\ inode.perm # 0 => disk'[inode.perm] = disk[inode.perm]
<1>1. /\ inode \in [temp : Nat, perm : Nat] /\ disk \in Seq(Seq(Piece))
      /\ inode.temp \in 0..Len(disk) /\ inode.perm \in 0..Len(disk)
      /\ inode.temp # 0 => inode.temp # inode.perm
  BY DEF FileTypeOK, NamesInv
<1>2. Len(disk) \in Nat /\ <<>> \in Seq(Piece)
  BY <1>1, LenProperties
<1>3. /\ inode' = [inode EXCEPT !["temp"] = Temp]
      /\ disk' = IF Temp > Len(disk) THEN Append(disk, <<>>) ELSE [disk EXCEPT ![Temp] = <<>>]
  BY DEF OpenTemp, TempName
<1>4. Temp = IF inode.temp = 0 THEN Len(disk) + 1 ELSE inode.temp
  BY DEF Temp, TempName
<1>5. Temp \in Nat \ {0} /\ Temp # inode.perm
  BY <1>1, <1>2, <1>4
<1>6. inode' = [temp |-> Temp, perm |-> inode.perm]
  BY <1>1, <1>3
<1>7. CASE inode.temp = 0
  <2>1. Temp = Len(disk) + 1 /\ disk' = Append(disk, <<>>)
    BY <1>2, <1>3, <1>4, <1>7
  <2> QED BY <1>1, <1>2, <1>5, <1>6, <2>1, AppendProperties
<1>8. CASE inode.temp # 0
  <2>1. Temp \in 1..Len(disk) /\ disk' = [disk EXCEPT ![Temp] = <<>>]
    BY <1>1, <1>2, <1>3, <1>4, <1>8
  <2> QED BY <1>1, <1>2, <1>5, <1>6, <2>1, ExceptSeq
<1> QED BY <1>7, <1>8

\* perform_open_ckpt_image_fd: the temporary file is empty and its own.
LEMMA OpenKeeps ==
  ASSUME FileInv, NEW c \in Image, OpenImage(c)
  PROVE  FileInv' /\ ("fork" \notin Failures /\ SigchldInv => SigchldInv')
<1>1. /\ writer[c].place = "open" /\ OpenTemp /\ UNCHANGED started
      /\ FileTypeOK /\ WritingInv /\ NamesInv /\ ContentInv /\ WholeInv
  BY DEF OpenImage, FileInv
<1>2. /\ Own(c) /\ c = started /\ program = "waits"
      /\ \A d \in Image : d # c => ~Active(d) /\ ~Own(d) /\ compressor[d].place # "runs"
  BY <1>1, UnderWay DEF Active
<1>3. /\ writer[c] = [place |-> "open", file |-> 0, pieces |-> 0] /\ compressor[c] = NoGzip
  BY <1>1 DEF WritingInv, NoWriter
<1>4. /\ Temp \in Nat \ {0} /\ Temp # inode.perm
      /\ inode' = [temp |-> Temp, perm |-> inode.perm]
      /\ disk' \in Seq(Seq(Piece)) /\ Temp \in 1..Len(disk') /\ inode.perm \in 0..Len(disk')
      /\ disk'[Temp] = <<>>
      /\ inode.perm # 0 => disk'[inode.perm] = disk[inode.perm]
  BY <1>1, TempOpened
<1> HIDE DEF Temp
<1>5. PICK compress \in Compressions :
        /\ sigchld' = IF compress /\ Own(c) THEN "ignored" ELSE sigchld
        /\ \/ /\ compress /\ "pipe" \in Failures
              /\ Aborts(c) /\ UNCHANGED compressor
           \/ /\ writer' = [writer EXCEPT ![c].place = "write", ![c].file = Temp]
              /\ UNCHANGED program
              /\ \/ compress /\ compressor' = [compressor EXCEPT ![c].place = "runs"]
                 \/ (compress => "fork" \in Failures) /\ UNCHANGED compressor
  BY DEF OpenImage
<1>6. sigchld' \in {"user", "ignored"}
  BY <1>1, <1>5 DEF FileTypeOK
<1>7. WholeInv'
  <2>1. \A d \in Image : writer'[d].place = "done" => writer[d].place = "done"
    <3>1. \/ writer' = [writer EXCEPT ![c].place = "dead"]
          \/ writer' = [writer EXCEPT ![c].place = "write", ![c].file = Temp]
      BY <1>5 DEF Aborts
    <3>2. \A d \in Image : d # c => writer'[d] = writer[d]
      BY <1>1, <3>1 DEF FileTypeOK
    <3>3. writer'[c].place # "done"
      BY <1>1, <3>1 DEF FileTypeOK, WriterType
    <3> QED BY <3>2, <3>3
  <2> QED BY <1>1, <1>4, <2>1 DEF WholeInv
<1>8. CASE Aborts(c) /\ UNCHANGED compressor
  <2>0. writer' = [writer EXCEPT ![c].place = "dead"] /\ program' = "dead"
    BY <1>2, <1>8 DEF Aborts
  <2>1. /\ writer'[c] = [place |-> "dead", file |-> 0, pieces |-> 0]
        /\ \A d \in Image : d # c => writer'[d] = writer[d]
        /\ writer' \in [Image -> WriterType] /\ program' = "dead"
    <3>1. "dead" \in WriterPlace
      BY DEF WriterPlace
    <3>2. /\ writer'[c] = [place |-> "dead", file |-> writer[c].file, pieces |-> writer[c].pieces]
          /\ \A d \in Image : d # c => writer'[d] = writer[d]
          /\ writer' \in [Image -> WriterType]
      BY <1>1, <2>0, <3>1, WriterMoves
    <3>3. writer[c].file = 0 /\ writer[c].pieces = 0
      BY <1>3
    <3> QED BY <2>0, <3>2, <3>3
  <2>3. FileTypeOK'
    BY <1>1, <1>4, <1>6, <1>8, <2>1 DEF FileTypeOK
  <2>9. /\ writer'[c].place = "dead" /\ compressor'[c].place = "none"
        /\ \A d \in Image : ~Active(d)' /\ ~Own(d)'
        /\ \A d \in Image : compressor'[d].place # "runs"
    BY <1>2, <1>3, <1>8, <2>1 DEF Active, Own, NoGzip
  <2>4. WritingInv'
    <3>1. \A d \in Image : writer'[d].place # "none" => d <= started'
      BY <1>1, <1>2, <2>1, <2>9 DEF WritingInv, Image
    <3>2. \A d \in Image : writer'[d].place \in {"none", "open"} => d # c
      BY <2>9
    <3>3. \A d \in Image : writer'[d].place \in {"none", "open"} =>
            /\ writer'[d] = [NoWriter EXCEPT !.place = writer'[d].place]
            /\ compressor'[d] = NoGzip
      BY <1>1, <1>8, <2>1, <3>2 DEF WritingInv
    <3>4. \A d \in Image : Active(d)' <=> Own(d)'
      BY <2>9
    <3> QED BY <1>1, <1>2, <2>1, <2>9, <3>1, <3>3, <3>4 DEF WritingInv
  <2>5. NamesInv' /\ ContentInv'
    <3>1. inode'.temp = Temp /\ inode'.perm = inode.perm
      BY <1>4
    <3>2. Temp \in 0..Len(disk') /\ inode.perm \in 0..Len(disk') /\ Temp # 0 /\ Temp # inode.perm
      BY <1>4
    <3>3. \A d \in Image : writer'[d].place \notin {"write", "wait"} /\ compressor'[d].place # "runs"
      <4>1. \A d \in Image : ~Active(d)'
        BY <2>9
      <4>2. \A d \in Image : Active(d)' <=> writer'[d].place \in {"open", "write", "wait"}
        BY DEF Active
      <4> QED BY <2>9, <4>1, <4>2
    <3>4. NamesInv'
      BY <3>1, <3>2, <3>3 DEF NamesInv
    <3>5. ContentInv'
      BY <3>3 DEF ContentInv
    <3> QED BY <3>4, <3>5
  <2> QED BY <1>7, <2>1, <2>3, <2>4, <2>5 DEF FileInv, SigchldInv, Own
<1>9. CASE /\ writer' = [writer EXCEPT ![c].place = "write", ![c].file = Temp]
           /\ UNCHANGED program
           /\ compressor' = [compressor EXCEPT ![c].place = "runs"] \/ UNCHANGED compressor
  <2>1. /\ writer'[c] = [place |-> "write", file |-> Temp, pieces |-> 0]
        /\ \A d \in Image : d # c => writer'[d] = writer[d]
        /\ writer' \in [Image -> WriterType]
    <3> DEFINE new == [place |-> "write", file |-> Temp, pieces |-> 0]
    <3>1. new \in WriterType
      BY <1>4, CkptFileAssumption DEF WriterType
    <3>2. [[writer[c] EXCEPT !.place = "write"] EXCEPT !.file = Temp] = new
      <4>1. [writer[c] EXCEPT !.place = "write"] = [place |-> "write", file |-> 0, pieces |-> 0]
        BY <1>3
      <4>2. [[place |-> "write", file |-> 0, pieces |-> 0] EXCEPT !.file = Temp] = new
        OBVIOUS
      <4> HIDE DEF new
      <4> QED BY <4>1, <4>2
    <3>3. writer' = [writer EXCEPT ![c] = [[writer[c] EXCEPT !.place = "write"] EXCEPT !.file = Temp]]
      BY <1>1, <1>9 DEF FileTypeOK
    <3> HIDE DEF new
    <3>4. writer' = [writer EXCEPT ![c] = new]
      BY <3>2, <3>3
    <3>5. /\ writer'[c] = new /\ \A d \in Image : d # c => writer'[d] = writer[d]
          /\ writer' \in [Image -> WriterType]
      BY <1>1, <3>1, <3>4, WriterBecomes
    <3> QED BY <3>5 DEF new
  <2>2. /\ compressor'[c] = [place |-> "runs", pipe |-> <<>>, out |-> 0] \/ compressor'[c] = NoGzip
        /\ \A d \in Image : d # c => compressor'[d] = compressor[d]
        /\ compressor' \in [Image -> GzipType]
    <3> DEFINE new == [place |-> "runs", pipe |-> <<>>, out |-> 0]
    <3>1. new \in GzipType /\ [compressor[c] EXCEPT !.place = "runs"] = new
      BY <1>3 DEF GzipType, NoGzip
    <3>2. CASE compressor' = [compressor EXCEPT ![c].place = "runs"]
      <4>1. compressor' = [compressor EXCEPT ![c] = [compressor[c] EXCEPT !.place = "runs"]]
        BY <3>2
      <4> HIDE DEF new
      <4>2. compressor' = [compressor EXCEPT ![c] = new]
        BY <3>1, <4>1
      <4>3. /\ compressor'[c] = new /\ \A d \in Image : d # c => compressor'[d] = compressor[d]
            /\ compressor' \in [Image -> GzipType]
        BY <1>1, <3>1, <4>2, GzipBecomes
      <4> QED BY <4>3 DEF new
    <3>3. CASE UNCHANGED compressor
      BY <1>1, <1>3, <3>3 DEF FileTypeOK
    <3> QED BY <1>9, <3>2, <3>3
  <2>3. FileTypeOK'
    BY <1>1, <1>2, <1>4, <1>6, <1>9, <2>1, <2>2 DEF FileTypeOK
  <2>9. /\ writer'[c].place = "write" /\ writer'[c].file = Temp /\ writer'[c].pieces = 0
        /\ \A d \in Image : Active(d)' <=> d = c
        /\ \A d \in Image : Own(d)' <=> d = c
    <3>1. /\ writer'[c].place = "write" /\ writer'[c].file = Temp /\ writer'[c].pieces = 0
      BY <2>1
    <3>2. \A d \in Image : Active(d)' <=> d = c
      BY <1>2, <2>1, <3>1 DEF Active
    <3>3. \A d \in Image : Own(d)' <=> d = c
      BY <1>1, <1>2, <1>9 DEF Own
    <3> QED BY <3>1, <3>2, <3>3
  <2>4. WritingInv'
    <3>1. \A d \in Image : writer'[d].place # "none" => d <= started'
      BY <1>1, <1>2, <2>1, <2>9 DEF WritingInv, Image
    <3>2. \A d \in Image : compressor'[d].place = "runs" => d = c
      BY <1>2, <2>2
    <3>3. \A d \in Image : writer'[d].place \in {"none", "open"} => d # c
      BY <2>9
    <3> QED BY <1>1, <1>2, <1>9, <2>1, <2>2, <2>9, <3>1, <3>2, <3>3 DEF WritingInv
  <2>5. NamesInv'
    <3>1. \A d \in Image : writer'[d].place \in {"write", "wait"} \/ compressor'[d].place = "runs" => d = c
      BY <1>2, <2>2, <2>9 DEF Active
    <3>2. inode'.temp = Temp /\ inode'.perm = inode.perm
      BY <1>4
    <3> QED BY <1>4, <2>9, <3>1, <3>2 DEF NamesInv
  <2>6. ContentInv'
    <3>1. Upto(c, 0) = <<>>
      BY DEF Upto
    <3>2. /\ writer'[c].pieces = 0 /\ writer'[c].place = "write" /\ inode'.temp = Temp
          /\ compressor'[c].place # "ended" /\ compressor'[c].out = 0 /\ compressor'[c].pipe = <<>>
      BY <1>4, <2>1, <2>2 DEF NoGzip
    <3>3. \A d \in Image : d # c => writer'[d].place \notin {"write", "wait"}
      BY <1>2, <2>1 DEF Active
    <3>4. Len(compressor'[c].pipe) = 0
      BY <3>2
    <3>5. \A k \in 1..Len(compressor'[c].pipe) : FALSE
      BY <3>4
    <3>6. /\ disk'[inode'.temp] = Upto(c, 0)
          /\ compressor'[c].out + Len(compressor'[c].pipe) = writer'[c].pieces
      BY <1>4, <3>1, <3>2, <3>4
    <3> QED BY <3>2, <3>3, <3>5, <3>6 DEF ContentInv
  <2>7. ASSUME "fork" \notin Failures, SigchldInv
        PROVE  SigchldInv'
    <3>1. sigchld = "user"
      BY <1>2, <1>3, <2>7 DEF SigchldInv, NoGzip
    <3>2. sigchld' = IF compressor'[c].place = "none" THEN "user" ELSE "ignored"
      BY <1>1, <1>2, <1>3, <1>5, <1>9, <2>1, <2>7, <3>1 DEF Aborts, FileTypeOK, NoGzip
    <3> QED BY <1>1, <1>2, <1>9, <3>2 DEF SigchldInv, Own
  <2> QED BY <1>7, <2>3, <2>4, <2>5, <2>6, <2>7 DEF FileInv
<1> QED BY <1>5, <1>8, <1>9

\* What is written to a file other than the image's leaves the image as it is.
LEMMA FileWritten ==
  ASSUME FileTypeOK, NamesInv, NEW i \in 1..Len(disk), i # inode.perm, NEW content \in Seq(Piece),
         disk' = [disk EXCEPT ![i] = content]
  PROVE  /\ disk' \in Seq(Seq(Piece)) /\ Len(disk') = Len(disk) /\ disk'[i] = content
         /\ inode.perm # 0 => disk'[inode.perm] = disk[inode.perm]
<1>1. disk \in Seq(Seq(Piece)) /\ inode.perm \in 0..Len(disk)
  BY DEF FileTypeOK, NamesInv
<1>2. Len(disk) \in Nat
  BY <1>1, LenProperties
<1>3. /\ disk' \in Seq(Seq(Piece)) /\ Len(disk') = Len(disk)
      /\ \A k \in 1..Len(disk) : disk'[k] = IF k = i THEN content ELSE disk[k]
  BY <1>1, ExceptSeq
<1> QED BY <1>1, <1>2, <1>3

\* The image under the name stays when nothing is renamed.
LEMMA WholeStays ==
  ASSUME WholeInv, inode' = inode, inode.perm # 0 => disk'[inode.perm] = disk[inode.perm],
         \A d \in Image : writer'[d].place = "done" => writer[d].place = "done"
  PROVE  WholeInv'
BY DEF WholeInv

\* A writer that aborts takes the program with it.
LEMMA AbortKeeps ==
  ASSUME FileInv, NEW c \in Image, Active(c), writer[c].place # "open", Aborts(c),
         UNCHANGED <<sigchld, started, compressor, inode, disk>>
  PROVE  FileInv' /\ SigchldInv'
<1>1. /\ Own(c) /\ c = started /\ program = "waits"
      /\ \A d \in Image : d # c => ~Active(d) /\ ~Own(d) /\ compressor[d].place # "runs"
      /\ FileTypeOK /\ WritingInv /\ NamesInv /\ ContentInv /\ WholeInv
  BY UnderWay DEF FileInv
<1>2. writer' = [writer EXCEPT ![c].place = "dead"] /\ program' = "dead" /\ "dead" \in WriterPlace
  BY <1>1 DEF Aborts, WriterPlace
<1>3. /\ writer'[c] = [place |-> "dead", file |-> writer[c].file, pieces |-> writer[c].pieces]
      /\ \A d \in Image : d # c => writer'[d] = writer[d]
      /\ writer' \in [Image -> WriterType]
  BY <1>1, <1>2, WriterMoves
<1>4. /\ writer'[c].place = "dead" /\ writer'[c].file = writer[c].file
      /\ \A d \in Image : ~Active(d)' /\ ~Own(d)'
  BY <1>1, <1>2, <1>3 DEF Active, Own
<1>5. FileTypeOK'
  BY <1>1, <1>2, <1>3 DEF FileTypeOK
<1>6. WritingInv'
  <2>1. \A d \in Image : writer'[d].place # "none" => d <= started'
    BY <1>1, <1>3 DEF WritingInv, Image
  <2>2. \A d \in Image : writer'[d].place \in {"none", "open"} => d # c
    BY <1>4
  <2> QED BY <1>1, <1>2, <1>3, <1>4, <2>1, <2>2 DEF WritingInv
<1>7. NamesInv'
  <2>1. compressor[c].place = "runs" => writer[c].file = inode.temp /\ inode.temp # 0
    BY <1>1 DEF NamesInv
  <2> QED BY <1>1, <1>4, <2>1 DEF NamesInv, Active
<1>8. ContentInv' /\ SigchldInv'
  BY <1>2, <1>4 DEF ContentInv, SigchldInv, Active
<1>9. WholeInv'
  <2>1. \A d \in Image : writer'[d].place = "done" => writer[d].place = "done"
    BY <1>3, <1>4
  <2> QED BY <1>1, <2>1, WholeStays
<1> QED BY <1>5, <1>6, <1>7, <1>8, <1>9 DEF FileInv

\* mtcp_writefile: the next piece goes to the file or to gzip.
LEMMA WriteKeeps ==
  ASSUME "gzip" \notin Failures, FileInv, NEW c \in Image, WritePiece(c)
  PROVE  FileInv' /\ (SigchldInv => SigchldInv')
<1> DEFINE n == writer[c].pieces + 1
           i == writer[c].file
<1>1. /\ writer[c].place = "write" /\ n <= Pieces /\ UNCHANGED <<sigchld, started, inode>>
      /\ FileTypeOK /\ WritingInv /\ NamesInv /\ ContentInv /\ WholeInv
  BY DEF WritePiece, FileInv
<1>2. /\ Active(c) /\ Own(c) /\ c = started /\ program = "waits"
      /\ \A d \in Image : d # c => ~Active(d) /\ ~Own(d) /\ compressor[d].place # "runs"
  BY <1>1, UnderWay DEF Active
<1>3. writer[c] \in WriterType /\ compressor[c] \in GzipType
  BY <1>1 DEF FileTypeOK
<1>4. n \in 1..Pieces /\ n - 1 = writer[c].pieces /\ writer[c].pieces \in Nat
  BY <1>1, <1>3, CkptFileAssumption DEF WriterType
<1>5. i = inode.temp /\ i # 0 /\ i \in 1..Len(disk) /\ i # inode.perm
  BY <1>1 DEF NamesInv
<1>6. <<c, n>> \in Piece
  BY <1>4 DEF Piece, Image
<1>7. ASSUME writer' = [writer EXCEPT ![c].pieces = n]
      PROVE  /\ writer'[c] = [place |-> "write", file |-> i, pieces |-> n]
             /\ \A d \in Image : d # c => writer'[d] = writer[d]
             /\ writer' \in [Image -> WriterType]
  <2> DEFINE new == [place |-> "write", file |-> i, pieces |-> n]
  <2>1. [writer[c] EXCEPT !.pieces = n] = new /\ new \in WriterType
    BY <1>1, <1>3, <1>4 DEF WriterType
  <2>2. writer' = [writer EXCEPT ![c] = [writer[c] EXCEPT !.pieces = n]]
    BY <1>7
  <2> HIDE DEF new
  <2>3. writer' = [writer EXCEPT ![c] = new]
    BY <2>1, <2>2
  <2>4. /\ writer'[c] = new /\ \A d \in Image : d # c => writer'[d] = writer[d]
        /\ writer' \in [Image -> WriterType]
    BY <1>1, <2>1, <2>3, WriterBecomes
  <2> QED BY <2>4 DEF new
<1> HIDE DEF n, i
<1>8. ASSUME /\ writer'[c] = [place |-> "write", file |-> i, pieces |-> n]
             /\ \A d \in Image : d # c => writer'[d] = writer[d]
             /\ writer' \in [Image -> WriterType] /\ UNCHANGED program,
             compressor' \in [Image -> GzipType], compressor'[c].place = compressor[c].place,
             \A d \in Image : d # c => compressor'[d] = compressor[d],
             disk' \in Seq(Seq(Piece)), Len(disk') = Len(disk),
             inode.perm # 0 => disk'[inode.perm] = disk[inode.perm]
      PROVE  FileTypeOK' /\ WritingInv' /\ NamesInv' /\ WholeInv' /\ (SigchldInv => SigchldInv')
  <2>1. /\ writer'[c].place = "write" /\ writer'[c].file = i
        /\ \A d \in Image : (Active(d)' <=> Active(d)) /\ (Own(d)' <=> Own(d))
        /\ \A d \in Image : writer'[d].place = writer[d].place /\ writer'[d].file = writer[d].file
        /\ \A d \in Image : compressor'[d].place = compressor[d].place
    <3>1. /\ writer'[c].place = "write" /\ writer'[c].file = i
      BY <1>8
    <3>2. \A d \in Image : writer'[d].place = writer[d].place /\ writer'[d].file = writer[d].file
      BY <1>1, <1>8, <3>1 DEF i
    <3>3. \A d \in Image : compressor'[d].place = compressor[d].place
      BY <1>8
    <3>4. \A d \in Image : (Active(d)' <=> Active(d)) /\ (Own(d)' <=> Own(d))
      BY <1>1, <1>8, <3>2 DEF Active, Own
    <3> QED BY <3>1, <3>2, <3>3, <3>4
  <2>2. FileTypeOK'
    BY <1>1, <1>8 DEF FileTypeOK
  <2>3. WritingInv'
    <3>1. \A d \in Image : writer'[d].place \in {"none", "open"} => d # c
      BY <2>1
    <3>2. \A d \in Image : writer'[d].place \in {"none", "open"} =>
            writer'[d] = [NoWriter EXCEPT !.place = writer'[d].place] /\ compressor'[d] = NoGzip
      <4> SUFFICES ASSUME NEW d \in Image, writer'[d].place \in {"none", "open"}
                   PROVE  writer'[d] = [NoWriter EXCEPT !.place = writer'[d].place] /\ compressor'[d] = NoGzip
        OBVIOUS
      <4>1. writer'[d] = writer[d] /\ compressor'[d] = compressor[d]
        BY <1>8, <3>1
      <4> QED BY <1>1, <4>1 DEF WritingInv
    <3> QED BY <1>1, <1>8, <2>1, <3>2 DEF WritingInv
  <2>4. NamesInv'
    BY <1>1, <1>8, <2>1 DEF NamesInv
  <2>5. WholeInv'
    BY <1>1, <1>8, <2>1, WholeStays
  <2>6. SigchldInv => SigchldInv'
    BY <1>1, <1>2, <1>8, <2>1 DEF SigchldInv
  <2> QED BY <2>2, <2>3, <2>4, <2>5, <2>6
<1>9. CASE /\ compressor[c].place = "none"
           /\ disk' = [disk EXCEPT ![i] = WithPiece(@, n - 1, <<c, n>>)]
           /\ writer' = [writer EXCEPT ![c].pieces = n] /\ UNCHANGED <<program, compressor>>
  <2> DEFINE content == WithPiece(disk[i], n - 1, <<c, n>>)
  <2>1. disk' = [disk EXCEPT ![i] = content]
    BY <1>9
  <2>2. disk[i] = Upto(c, n - 1)
    BY <1>1, <1>4, <1>5, <1>9 DEF ContentInv
  <2>3. n - 1 \in Nat /\ (n - 1) + 1 = n
    BY <1>4
  <2>4. WithPiece(Upto(c, n - 1), n - 1, <<c, (n - 1) + 1>>) = Upto(c, (n - 1) + 1)
    BY <2>3, NextPiece
  <2>5. content = Upto(c, n)
    BY <2>2, <2>3, <2>4
  <2>6. content \in Seq(Piece)
    <3>1. n \in Nat
      BY <1>4
    <3> HIDE DEF content
    <3> QED BY <2>5, <3>1, NextPiece
  <2> HIDE DEF content
  <2>7. /\ disk' \in Seq(Seq(Piece)) /\ Len(disk') = Len(disk) /\ disk'[i] = content
        /\ inode.perm # 0 => disk'[inode.perm] = disk[inode.perm]
    BY <1>1, <1>5, <2>1, <2>6, FileWritten
  <2>8. /\ writer'[c] = [place |-> "write", file |-> i, pieces |-> n]
        /\ \A d \in Image : d # c => writer'[d] = writer[d]
        /\ writer' \in [Image -> WriterType]
    BY <1>7, <1>9
  <2>9. FileTypeOK' /\ WritingInv' /\ NamesInv' /\ WholeInv' /\ (SigchldInv => SigchldInv')
    BY <1>1, <1>8, <1>9, <2>7, <2>8 DEF FileTypeOK
  <2>10. ContentInv'
    <3>1. \A d \in Image : writer'[d].place \in {"write", "wait"} => d = c
      BY <1>2, <2>8 DEF Active
    <3>2. writer'[c].place = "write" /\ writer'[c].pieces = n /\ inode'.temp = i /\ compressor'[c].place = "none"
      BY <1>1, <1>5, <1>9, <2>8
    <3> QED BY <2>5, <2>7, <3>1, <3>2 DEF ContentInv
  <2> QED BY <2>9, <2>10 DEF FileInv
<1>10. CASE Aborts(c) /\ UNCHANGED <<compressor, disk>>
  BY <1>1, <1>2, <1>10, AbortKeeps
<1>11. CASE /\ compressor[c].place = "runs" /\ Len(compressor[c].pipe) < PipeRoom
            /\ compressor' = [compressor EXCEPT ![c].pipe = Append(@, <<c, n>>)]
            /\ writer' = [writer EXCEPT ![c].pieces = n] /\ UNCHANGED <<program, disk>>
  <2> DEFINE pipe == compressor[c].pipe
             new == [place |-> "runs", pipe |-> Append(pipe, <<c, n>>), out |-> compressor[c].out]
  <2>1. pipe \in Seq(Piece) /\ compressor[c].out \in Nat
    BY <1>3 DEF GzipType
  <2>2. /\ Append(pipe, <<c, n>>) \in Seq(Piece) /\ Len(Append(pipe, <<c, n>>)) = Len(pipe) + 1
        /\ \A k \in 1..Len(pipe) : Append(pipe, <<c, n>>)[k] = pipe[k]
        /\ Append(pipe, <<c, n>>)[Len(pipe) + 1] = <<c, n>> /\ Len(pipe) \in Nat
    <3> HIDE DEF pipe
    <3> QED BY <1>6, <2>1, AppendProperties, LenProperties
  <2>3. new \in GzipType
    BY <2>1, <2>2 DEF GzipType
  <2>4. [compressor[c] EXCEPT !.pipe = Append(pipe, <<c, n>>)] = new
    <3>1. compressor[c] = [place |-> "runs", pipe |-> compressor[c].pipe, out |-> compressor[c].out]
      BY <1>3, <1>11 DEF GzipType
    <3>2. \A rec, x : rec = [place |-> "runs", pipe |-> compressor[c].pipe, out |-> compressor[c].out]
                     => [rec EXCEPT !.pipe = x] = [place |-> "runs", pipe |-> x, out |-> compressor[c].out]
      OBVIOUS
    <3> QED BY <3>1, <3>2
  <2>5. compressor' = [compressor EXCEPT ![c] = [compressor[c] EXCEPT !.pipe = Append(pipe, <<c, n>>)]]
    BY <1>11
  <2>6. compressor' = [compressor EXCEPT ![c] = new]
    BY <2>4, <2>5
  <2>a. /\ new.place = "runs" /\ new.pipe = Append(pipe, <<c, n>>) /\ new.out = compressor[c].out
    OBVIOUS
  <2> HIDE DEF new
  <2>7. /\ compressor'[c] = new /\ \A d \in Image : d # c => compressor'[d] = compressor[d]
        /\ compressor' \in [Image -> GzipType]
    BY <1>1, <2>3, <2>6, GzipBecomes
  <2>8. /\ writer'[c] = [place |-> "write", file |-> i, pieces |-> n]
        /\ \A d \in Image : d # c => writer'[d] = writer[d]
        /\ writer' \in [Image -> WriterType]
    BY <1>7, <1>11
  <2>9. FileTypeOK' /\ WritingInv' /\ NamesInv' /\ WholeInv' /\ (SigchldInv => SigchldInv')
    BY <1>1, <1>8, <1>11, <2>7, <2>8, <2>a DEF FileTypeOK
  <2>10. ContentInv'
    <3>1. \A d \in Image : writer'[d].place \in {"write", "wait"} => d = c
      BY <1>2, <2>8 DEF Active
    <3>2. /\ writer'[c].place = "write" /\ writer'[c].pieces = n /\ inode'.temp = inode.temp
          /\ compressor'[c].place = "runs" /\ compressor'[c].out = compressor[c].out
          /\ compressor'[c].pipe = Append(pipe, <<c, n>>)
      BY <1>1, <2>7, <2>8, <2>a
    <3>3. /\ disk[inode.temp] = Upto(c, compressor[c].out)
          /\ compressor[c].out + Len(pipe) = n - 1
          /\ \A k \in 1..Len(pipe) : pipe[k] = <<c, compressor[c].out + k>>
      BY <1>1, <1>4, <1>11 DEF ContentInv
    <3>4. compressor[c].out + (Len(pipe) + 1) = n
      <4>1. compressor[c].out \in Nat /\ Len(pipe) \in Nat /\ n \in Nat
        BY <1>4, <2>1, <2>2
      <4>2. compressor[c].out + Len(pipe) = n - 1
        BY <3>3
      <4> HIDE DEF pipe
      <4> QED BY <4>1, <4>2
    <3>5. \A k \in 1..(Len(pipe) + 1) : Append(pipe, <<c, n>>)[k] = <<c, compressor[c].out + k>>
      <4>1. \A k \in 1..(Len(pipe) + 1) : k \in 1..Len(pipe) \/ k = Len(pipe) + 1
        BY <2>2
      <4> QED BY <2>2, <3>3, <3>4, <4>1
    <3> HIDE DEF pipe
    <3>6. /\ compressor'[c].out + Len(compressor'[c].pipe) = writer'[c].pieces
          /\ \A k \in 1..Len(compressor'[c].pipe) : compressor'[c].pipe[k] = <<c, compressor'[c].out + k>>
      BY <2>2, <3>2, <3>4, <3>5
    <3>7. disk'[inode'.temp] = Upto(c, compressor'[c].out)
      BY <1>11, <3>2, <3>3
    <3> QED BY <3>1, <3>2, <3>6, <3>7 DEF ContentInv
  <2> QED BY <2>9, <2>10 DEF FileInv
<1>12. compressor[c].place # "ended"
  BY <1>1 DEF ContentInv
<1> QED BY <1>9, <1>10, <1>11, <1>12 DEF WritePiece, n, i

\* gzip writes the next piece, or has written all of them.
LEMMA GzipKeeps ==
  ASSUME "gzip" \notin Failures, FileInv, NEW c \in Image, Gzip(c)
  PROVE  FileInv' /\ (SigchldInv => SigchldInv')
<1> DEFINE g == compressor[c]
<1>1. /\ g.place = "runs" /\ UNCHANGED <<program, sigchld, started, writer, inode>>
      /\ FileTypeOK /\ WritingInv /\ NamesInv /\ ContentInv /\ WholeInv
  BY DEF Gzip, FileInv
<1>2. /\ c = started /\ writer[c].place \in {"write", "wait", "dead"}
      /\ writer[c].file = inode.temp /\ inode.temp \in 1..Len(disk) /\ inode.temp # inode.perm
  BY <1>1 DEF WritingInv, NamesInv
<1>3. g \in GzipType /\ g = [place |-> "runs", pipe |-> g.pipe, out |-> g.out]
      /\ g.pipe \in Seq(Piece) /\ g.out \in Nat
  BY <1>1 DEF FileTypeOK, GzipType
<1>4. \A d \in Image : d # c => writer[d].place \notin {"write", "wait"}
  BY <1>1, <1>2 DEF WritingInv, Active, Own
<1>5. ASSUME NEW new \in GzipType, new.place # "none", compressor' = [compressor EXCEPT ![c] = new],
             disk' \in Seq(Seq(Piece)), Len(disk') = Len(disk),
             inode.perm # 0 => disk'[inode.perm] = disk[inode.perm]
      PROVE  /\ FileTypeOK' /\ WritingInv' /\ NamesInv' /\ WholeInv' /\ (SigchldInv => SigchldInv')
             /\ compressor'[c] = new
  <2>1. /\ compressor'[c] = new /\ \A d \in Image : d # c => compressor'[d] = compressor[d]
        /\ compressor' \in [Image -> GzipType]
    BY <1>1, <1>5, GzipBecomes
  <2>2. FileTypeOK' /\ WholeInv'
    BY <1>1, <1>5, <2>1, WholeStays DEF FileTypeOK
  <2>3. /\ \A d \in Image : compressor'[d].place = "runs" => compressor[d].place = "runs"
        /\ \A d \in Image : compressor'[d].place = "none" <=> compressor[d].place = "none"
    BY <1>1, <1>5, <2>1
  <2>4. WritingInv'
    <3>1. \A d \in Image : writer[d].place \in {"none", "open"} => d # c
      BY <1>2
    <3>2. \A d \in Image : (Active(d)' <=> Active(d)) /\ (Own(d)' <=> Own(d))
      BY <1>1 DEF Active, Own
    <3> QED BY <1>1, <2>1, <2>3, <3>1, <3>2 DEF WritingInv
  <2>5. NamesInv'
    BY <1>1, <1>5, <2>3 DEF NamesInv
  <2>6. SigchldInv => SigchldInv'
    BY <1>1, <2>3 DEF SigchldInv, Own
  <2> QED BY <2>1, <2>2, <2>4, <2>5, <2>6
<1>6. CASE /\ g.pipe # <<>>
           /\ disk' = [disk EXCEPT ![writer[c].file] = WithPiece(@, g.out, Head(g.pipe))]
           /\ compressor' = [compressor EXCEPT ![c].pipe = Tail(@), ![c].out = @ + 1]
  <2> DEFINE pipe == Tail(g.pipe)
             content == WithPiece(disk[inode.temp], g.out, Head(g.pipe))
             new == [place |-> "runs", pipe |-> pipe, out |-> g.out + 1]
  <2>1. /\ pipe \in Seq(Piece) /\ Len(pipe) = Len(g.pipe) - 1 /\ Head(g.pipe) \in Piece
        /\ Head(g.pipe) = g.pipe[1] /\ \A k \in 1..Len(pipe) : pipe[k] = g.pipe[k + 1]
        /\ Len(g.pipe) \in Nat \ {0} /\ Len(pipe) \in Nat
    BY <1>3, <1>6, HeadTailProperties, LenProperties, EmptySeq
  <2>2. disk[inode.temp] \in Seq(Piece)
    BY <1>1, <1>2, LenProperties DEF FileTypeOK
  <2>3. content \in Seq(Piece)
    BY <1>3, <2>1, <2>2, PieceWritten
  <2>4. disk' = [disk EXCEPT ![inode.temp] = content]
    BY <1>2, <1>6
  <2>5. new \in GzipType /\ new.place = "runs" /\ new.pipe = pipe /\ new.out = g.out + 1
    BY <1>3, <2>1 DEF GzipType
  <2>6. compressor' = [compressor EXCEPT ![c] = new]
    <3>1. \A rec, x : rec = [place |-> "runs", pipe |-> g.pipe, out |-> g.out]
                       => [rec EXCEPT !.pipe = x] = [place |-> "runs", pipe |-> x, out |-> g.out]
      OBVIOUS
    <3>4. \A rec, x, y : rec = [place |-> "runs", pipe |-> x, out |-> g.out]
                          => [rec EXCEPT !.out = y] = [place |-> "runs", pipe |-> x, out |-> y]
      OBVIOUS
    <3>2. [[g EXCEPT !.pipe = pipe] EXCEPT !.out = g.out + 1] = new
      <4>1. [g EXCEPT !.pipe = pipe] = [place |-> "runs", pipe |-> pipe, out |-> g.out]
        BY <1>3, <3>1
      <4>2. [[g EXCEPT !.pipe = pipe] EXCEPT !.out = g.out + 1] = [place |-> "runs", pipe |-> pipe, out |-> g.out + 1]
        <5> DEFINE h == [g EXCEPT !.pipe = pipe]
        <5> HIDE DEF g, pipe, h
        <5>1. h = [place |-> "runs", pipe |-> pipe, out |-> g.out]
          BY <4>1 DEF h
        <5>2. [h EXCEPT !.out = g.out + 1] = [place |-> "runs", pipe |-> pipe, out |-> g.out + 1]
          BY <3>4, <5>1
        <5> QED BY <5>2 DEF h
      <4> QED BY <4>2
    <3>3. compressor' = [compressor EXCEPT ![c] = [[g EXCEPT !.pipe = pipe] EXCEPT !.out = g.out + 1]]
      BY <1>1, <1>6, <1>3 DEF FileTypeOK
    <3> HIDE DEF new, pipe, g
    <3> QED BY <3>2, <3>3
  <2> HIDE DEF content, new
  <2>7. /\ disk' \in Seq(Seq(Piece)) /\ Len(disk') = Len(disk) /\ disk'[inode.temp] = content
        /\ inode.perm # 0 => disk'[inode.perm] = disk[inode.perm]
    BY <1>1, <1>2, <2>3, <2>4, FileWritten
  <2>8. /\ FileTypeOK' /\ WritingInv' /\ NamesInv' /\ WholeInv' /\ (SigchldInv => SigchldInv')
        /\ compressor'[c] = new
    BY <1>5, <2>5, <2>6, <2>7
  <2>9. ContentInv'
    <3> SUFFICES ASSUME writer[c].place \in {"write", "wait"}
                 PROVE  ContentInv'
      BY <1>1, <1>4 DEF ContentInv
    <3>1. /\ disk[inode.temp] = Upto(c, g.out)
          /\ g.out + Len(g.pipe) = writer[c].pieces
          /\ \A k \in 1..Len(g.pipe) : g.pipe[k] = <<c, g.out + k>>
          /\ writer[c].place = "wait" => writer[c].pieces = Pieces
      BY <1>1 DEF ContentInv
    <3>2. Head(g.pipe) = <<c, g.out + 1>>
      BY <2>1, <3>1
    <3>3. content = Upto(c, g.out + 1)
      BY <1>3, <3>1, <3>2, NextPiece DEF content
    <3>4. (g.out + 1) + Len(pipe) = writer[c].pieces
      <4>1. /\ g.out \in Nat /\ Len(g.pipe) \in Nat /\ Len(pipe) = Len(g.pipe) - 1
            /\ g.out + Len(g.pipe) = writer[c].pieces
        BY <1>3, <2>1, <3>1
      <4> HIDE DEF g, pipe
      <4> QED BY <4>1
    <3>5. \A k \in 1..Len(pipe) : pipe[k] = <<c, (g.out + 1) + k>>
      <4> SUFFICES ASSUME NEW k \in 1..Len(pipe)
                   PROVE  pipe[k] = <<c, (g.out + 1) + k>>
        OBVIOUS
      <4>1. k + 1 \in 1..Len(g.pipe) /\ g.out + (k + 1) = (g.out + 1) + k
        <5>1. g.out \in Nat /\ Len(g.pipe) \in Nat /\ Len(pipe) = Len(g.pipe) - 1
          BY <1>3, <2>1
        <5> HIDE DEF pipe, g
        <5> QED BY <5>1
      <4>2. pipe[k] = g.pipe[k + 1] /\ g.pipe[k + 1] = <<c, g.out + (k + 1)>>
        BY <2>1, <3>1, <4>1
      <4> QED BY <4>1, <4>2
    <3> HIDE DEF pipe, g
    <3>6. /\ compressor'[c].place = "runs" /\ compressor'[c].out = g.out + 1 /\ compressor'[c].pipe = pipe
          /\ inode' = inode /\ writer' = writer /\ disk'[inode.temp] = Upto(c, g.out + 1)
      BY <1>1, <2>5, <2>7, <2>8, <3>3
    <3>7. /\ compressor'[c].out + Len(compressor'[c].pipe) = writer'[c].pieces
          /\ \A k \in 1..Len(compressor'[c].pipe) : compressor'[c].pipe[k] = <<c, compressor'[c].out + k>>
          /\ disk'[inode'.temp] = Upto(c, compressor'[c].out)
          /\ compressor'[c].place = "runs"
          /\ writer'[c].place = "wait" => writer'[c].pieces = Pieces
          /\ \A d \in Image : d # c => writer'[d].place \notin {"write", "wait"}
      BY <1>4, <3>1, <3>4, <3>5, <3>6
    <3> QED BY <3>7 DEF ContentInv
  <2> QED BY <2>8, <2>9 DEF FileInv
<1>7. CASE /\ g.pipe = <<>> /\ writer[c].place # "write"
           /\ compressor' = [compressor EXCEPT ![c].place = "ended"] /\ UNCHANGED disk
  <2> DEFINE new == [place |-> "ended", pipe |-> <<>>, out |-> g.out]
  <2>1. new \in GzipType /\ new.place = "ended" /\ new.pipe = <<>> /\ new.out = g.out
    BY <1>3 DEF GzipType
  <2>2. compressor' = [compressor EXCEPT ![c] = new]
    <3>1. \A rec : rec = [place |-> "runs", pipe |-> g.pipe, out |-> g.out]
                     => [rec EXCEPT !.place = "ended"] = [place |-> "ended", pipe |-> g.pipe, out |-> g.out]
      OBVIOUS
    <3>2. [g EXCEPT !.place = "ended"] = new
      BY <1>3, <1>7, <3>1
    <3>3. compressor' = [compressor EXCEPT ![c] = [g EXCEPT !.place = "ended"]]
      BY <1>7
    <3> HIDE DEF new, g
    <3> QED BY <3>2, <3>3
  <2> HIDE DEF new
  <2>3. /\ FileTypeOK' /\ WritingInv' /\ NamesInv' /\ WholeInv' /\ (SigchldInv => SigchldInv')
        /\ compressor'[c] = new
    BY <1>1, <1>5, <1>7, <2>1, <2>2 DEF FileTypeOK
  <2>4. ContentInv'
    <3> SUFFICES ASSUME writer[c].place \in {"write", "wait"}
                 PROVE  ContentInv'
      BY <1>1, <1>4 DEF ContentInv
    <3>1. /\ disk[inode.temp] = Upto(c, g.out)
          /\ g.out + Len(g.pipe) = writer[c].pieces
          /\ writer[c].place = "wait" => writer[c].pieces = Pieces
      BY <1>1 DEF ContentInv
    <3>2. writer[c].place = "wait" /\ g.out + Len(<<>>) = writer[c].pieces
      BY <1>7, <3>1
    <3>3. /\ compressor'[c].place = "ended" /\ compressor'[c].pipe = <<>> /\ compressor'[c].out = g.out
          /\ disk' = disk /\ inode' = inode /\ writer' = writer
      BY <1>1, <1>7, <2>1, <2>3
    <3> HIDE DEF g
    <3>4. \A k \in 1..Len(<<>>) : FALSE
      OBVIOUS
    <3>5. /\ compressor'[c].out + Len(compressor'[c].pipe) = writer'[c].pieces
          /\ \A k \in 1..Len(compressor'[c].pipe) : compressor'[c].pipe[k] = <<c, compressor'[c].out + k>>
          /\ disk'[inode'.temp] = Upto(c, compressor'[c].out)
      BY <3>1, <3>2, <3>3, <3>4
    <3> QED BY <1>4, <3>1, <3>2, <3>3, <3>5 DEF ContentInv
  <2> QED BY <2>3, <2>4 DEF FileInv
<1> QED BY <1>6, <1>7 DEF Gzip

\* The image is closed when it is written.
LEMMA CloseKeeps ==
  ASSUME FileInv, NEW c \in Image, CloseImage(c)
  PROVE  FileInv' /\ (SigchldInv => SigchldInv')
<1>1. /\ writer[c].place = "write" /\ writer[c].pieces = Pieces
      /\ UNCHANGED <<sigchld, started, compressor, inode, disk>>
      /\ FileTypeOK /\ WritingInv /\ NamesInv /\ ContentInv /\ WholeInv
  BY DEF CloseImage, FileInv, fileVars
<1>2. /\ Active(c) /\ Own(c) /\ c = started /\ program = "waits"
      /\ \A d \in Image : d # c => ~Active(d) /\ ~Own(d) /\ compressor[d].place # "runs"
  BY <1>1, UnderWay DEF Active
<1>3. CASE writer' = [writer EXCEPT ![c].place = "wait"] /\ UNCHANGED program
  <2>0. "wait" \in WriterPlace
    BY DEF WriterPlace
  <2>1. /\ writer'[c] = [place |-> "wait", file |-> writer[c].file, pieces |-> writer[c].pieces]
        /\ \A d \in Image : d # c => writer'[d] = writer[d]
        /\ writer' \in [Image -> WriterType]
    BY <1>1, <1>3, <2>0, WriterMoves
  <2>2. /\ writer'[c].place = "wait" /\ writer'[c].pieces = Pieces
        /\ \A d \in Image : writer'[d].file = writer[d].file
        /\ \A d \in Image : writer'[d].place # "none" => d <= started
        /\ \A d \in Image : writer'[d].place = "done" => writer[d].place = "done"
    BY <1>1, <2>1 DEF WritingInv
  <2>3. \A d \in Image : (Active(d)' <=> Active(d)) /\ (Own(d)' <=> Own(d))
    BY <1>1, <1>3, <2>1 DEF Active, Own
  <2>4. FileTypeOK' /\ WholeInv'
    BY <1>1, <1>3, <2>1, <2>2, WholeStays DEF FileTypeOK
  <2>5. WritingInv'
    <3>1. \A d \in Image : writer'[d].place \in {"none", "open"} => writer'[d] = writer[d]
      BY <2>1, <2>2
    <3>2. \A d \in Image : writer'[d].place \in {"none", "open"} =>
            writer'[d] = [NoWriter EXCEPT !.place = writer'[d].place] /\ compressor'[d] = NoGzip
      <4> SUFFICES ASSUME NEW d \in Image, writer'[d].place \in {"none", "open"}
                   PROVE  writer'[d] = [NoWriter EXCEPT !.place = writer'[d].place] /\ compressor'[d] = NoGzip
        OBVIOUS
      <4>1. writer'[d] = writer[d]
        BY <3>1
      <4> QED BY <1>1, <4>1 DEF WritingInv
    <3>3. \A d \in Image : compressor[d].place = "runs" => writer'[d].place \in {"write", "wait", "dead"}
      BY <1>1, <2>1, <2>2 DEF WritingInv
    <3> QED BY <1>1, <1>3, <2>2, <2>3, <3>2, <3>3 DEF WritingInv
  <2>6. NamesInv'
    <3>1. \A d \in Image : writer'[d].place \in {"write", "wait"} => writer[d].place \in {"write", "wait"}
      BY <1>1, <2>1
    <3> QED BY <1>1, <2>2, <3>1 DEF NamesInv
  <2>7. ContentInv'
    <3>1. \A d \in Image : writer'[d].place \in {"write", "wait"} => d = c
      BY <1>2, <2>1 DEF Active
    <3> QED BY <1>1, <2>2, <3>1 DEF ContentInv
  <2>8. SigchldInv => SigchldInv'
    BY <1>1, <1>3, <2>3 DEF SigchldInv
  <2> QED BY <2>4, <2>5, <2>6, <2>7, <2>8 DEF FileInv
<1>4. CASE Aborts(c)
  BY <1>1, <1>2, <1>4, AbortKeeps
<1> QED BY <1>3, <1>4 DEF CloseImage

\* gzip has been waited for: the file that takes the name holds all pieces.
LEMMA RenameKeeps ==
  ASSUME FileInv, NEW c \in Image, RenameImage(c)
  PROVE  FileInv' /\ (SigchldInv => SigchldInv')
<1>1. /\ writer[c].place = "wait" /\ compressor[c].place # "runs"
      /\ UNCHANGED <<started, compressor, disk>>
      /\ FileTypeOK /\ WritingInv /\ NamesInv /\ ContentInv /\ WholeInv
  BY DEF RenameImage, MayRename, FileInv
<1>2. /\ Active(c) /\ Own(c) /\ c = started /\ program = "waits"
      /\ \A d \in Image : d # c => ~Active(d) /\ ~Own(d) /\ compressor[d].place # "runs"
                                   /\ (writer[d].place = "done" => d <= c)
  BY <1>1, UnderWay DEF Active
<1>3. inode \in [temp : Nat, perm : Nat] /\ inode.temp # 0 /\ inode.temp \in 0..Len(disk)
  BY <1>1 DEF FileTypeOK, NamesInv
<1>4. /\ inode' = [inode EXCEPT !.perm = inode["temp"], !.temp = 0]
      /\ writer' = [writer EXCEPT ![c].place = "done"] /\ program' = "runs"
      /\ sigchld' = Disposition(c)
  BY <1>2, <1>3 DEF RenameImage, TempName
<1>5. inode'.temp = 0 /\ inode'.perm = inode.temp /\ inode' \in [temp : Nat, perm : Nat]
  <2>1. inode["temp"] = inode.temp
    OBVIOUS
  <2>2. /\ inode'.temp = 0 /\ inode'.perm = inode["temp"]
        /\ inode' = [[inode EXCEPT !.perm = inode["temp"]] EXCEPT !.temp = 0]
    BY <1>3, <1>4
  <2>3. [inode EXCEPT !.perm = inode["temp"]] \in [temp : Nat, perm : Nat]
    BY <1>3
  <2>4. [[inode EXCEPT !.perm = inode["temp"]] EXCEPT !.temp = 0] \in [temp : Nat, perm : Nat]
    BY <2>3
  <2> QED BY <2>1, <2>2, <2>4
<1>0. "done" \in WriterPlace
  BY DEF WriterPlace
<1>6. /\ writer'[c] = [place |-> "done", file |-> writer[c].file, pieces |-> writer[c].pieces]
      /\ \A d \in Image : d # c => writer'[d] = writer[d]
      /\ writer' \in [Image -> WriterType]
  BY <1>0, <1>1, <1>4, WriterMoves
<1>7. /\ writer'[c].place = "done"
      /\ \A d \in Image : ~Active(d)' /\ ~Own(d)' /\ compressor'[d].place # "runs"
  BY <1>1, <1>2, <1>4, <1>6 DEF Active, Own
<1>8. sigchld' \in {"user", "ignored"}
  BY <1>1, <1>4 DEF FileTypeOK, Disposition
<1>9. FileTypeOK'
  BY <1>1, <1>4, <1>5, <1>6, <1>8 DEF FileTypeOK
<1>10. WritingInv'
  <2>1. \A d \in Image : writer'[d].place # "none" => d <= started'
    BY <1>1, <1>2, <1>6 DEF WritingInv, Image
  <2>2. \A d \in Image : writer'[d].place \in {"none", "open"} =>
          writer'[d] = [NoWriter EXCEPT !.place = writer'[d].place] /\ compressor'[d] = NoGzip
    <3> SUFFICES ASSUME NEW d \in Image, writer'[d].place \in {"none", "open"}
                 PROVE  writer'[d] = [NoWriter EXCEPT !.place = writer'[d].place] /\ compressor'[d] = NoGzip
      OBVIOUS
    <3>1. d # c
      BY <1>7
    <3>2. writer'[d] = writer[d]
      BY <1>6, <3>1
    <3> QED BY <1>1, <3>2 DEF WritingInv
  <2> QED BY <1>4, <1>7, <2>1, <2>2 DEF WritingInv
<1>11. NamesInv'
  <2>1. Len(disk') = Len(disk) /\ 0 \in 0..Len(disk)
    BY <1>1, LenProperties DEF FileTypeOK
  <2> QED BY <1>3, <1>5, <1>7, <2>1 DEF NamesInv, Active
<1>12. ContentInv'
  BY <1>7 DEF ContentInv, Active
<1>13. WholeInv'
  <2>1. disk[inode.temp] = Upto(c, Pieces)
    <3>1. CASE compressor[c].place = "none"
      BY <1>1, <3>1 DEF ContentInv
    <3>2. CASE compressor[c].place # "none"
      <4>1. compressor[c].place = "ended"
        BY <1>1, <3>2 DEF FileTypeOK, GzipType
      <4>2. /\ compressor[c].pipe = <<>> /\ compressor[c].out + Len(compressor[c].pipe) = Pieces
            /\ disk[inode.temp] = Upto(c, compressor[c].out)
        BY <1>1, <3>2, <4>1 DEF ContentInv
      <4>3. compressor[c].out \in Nat
        BY <1>1 DEF FileTypeOK, GzipType
      <4> QED BY <4>2, <4>3
    <3> QED BY <3>1, <3>2
  <2>2. disk'[inode'.perm] = Whole(c)
    BY <1>1, <1>5, <2>1 DEF Upto, Whole
  <2>3. \A d \in Image : writer'[d].place = "done" => d <= c
    BY <1>2, <1>6 DEF Image
  <2> QED BY <2>2, <2>3 DEF WholeInv
<1>14. SigchldInv => SigchldInv'
  BY <1>2, <1>4, <1>7 DEF SigchldInv, Disposition
<1> QED BY <1>9, <1>10, <1>11, <1>12, <1>13, <1>14 DEF FileInv

\* The program dies, its writer with it; gzip may go on with the temporary file.
LEMMA KillKeeps ==
  ASSUME FileInv, KillProgram
  PROVE  FileInv' /\ SigchldInv'
<1>1. /\ program' = "dead"
      /\ writer' = [c \in Image |-> IF Own(c) THEN [writer[c] EXCEPT !.place = "dead"] ELSE writer[c]]
      /\ UNCHANGED <<sigchld, started, compressor, inode, disk>>
      /\ FileTypeOK /\ WritingInv /\ NamesInv /\ ContentInv /\ WholeInv
  BY DEF KillProgram, FileInv, fileVars
<1>2. \A d \in Image : writer[d] \in WriterType
  BY <1>1 DEF FileTypeOK
<1>3. \A d \in Image : Own(d) => /\ [writer[d] EXCEPT !.place = "dead"] \in WriterType
                                 /\ writer'[d].place = "dead" /\ writer'[d].file = writer[d].file
  BY <1>1, <1>2 DEF WriterType
<1>4. /\ \A d \in Image : ~Own(d) => writer'[d] = writer[d]
      /\ writer' \in [Image -> WriterType]
  BY <1>1, <1>2, <1>3
<1>5. \A d \in Image : ~Active(d)' /\ ~Own(d)'
  BY <1>1, <1>3, <1>4 DEF WritingInv, Active, Own
<1>6. FileTypeOK'
  BY <1>1, <1>4 DEF FileTypeOK
<1>7. WritingInv'
  <2>1. \A d \in Image : writer'[d].place # "none" => d <= started'
    <3>1. \A d \in Image : Own(d) => d <= started
      BY DEF Own, Image
    <3> QED BY <1>1, <1>4, <3>1 DEF WritingInv
  <2>2. \A d \in Image : writer'[d].place \in {"none", "open"} =>
          writer'[d] = [NoWriter EXCEPT !.place = writer'[d].place] /\ compressor'[d] = NoGzip
    <3> SUFFICES ASSUME NEW d \in Image, writer'[d].place \in {"none", "open"}
                 PROVE  writer'[d] = [NoWriter EXCEPT !.place = writer'[d].place] /\ compressor'[d] = NoGzip
      OBVIOUS
    <3>1. writer'[d] = writer[d]
      BY <1>3, <1>4
    <3> QED BY <1>1, <3>1 DEF WritingInv
  <2>3. \A d \in Image : compressor[d].place = "runs" => writer'[d].place \in {"write", "wait", "dead"}
    BY <1>1, <1>3, <1>4 DEF WritingInv
  <2> QED BY <1>1, <1>5, <2>1, <2>2, <2>3 DEF WritingInv
<1>8. NamesInv'
  BY <1>1, <1>3, <1>4, <1>5 DEF NamesInv, Active
<1>9. ContentInv' /\ SigchldInv'
  BY <1>1, <1>5 DEF ContentInv, SigchldInv, Active
<1>10. WholeInv'
  <2>1. \A d \in Image : writer'[d].place = "done" => writer[d].place = "done"
    BY <1>3, <1>4
  <2> QED BY <1>1, <2>1, WholeStays
<1> QED BY <1>6, <1>7, <1>8, <1>9, <1>10 DEF FileInv

\* It is restarted from its image with the handlers saved in it.
LEMMA RestartFileKeeps ==
  ASSUME FileInv, RestartProgram
  PROVE  FileInv' /\ SigchldInv'
<1>1. /\ program = "dead" /\ program' = "runs" /\ sigchld' = "user"
      /\ \A c \in Image : compressor[c].place # "runs"
      /\ UNCHANGED <<started, writer, compressor, inode, disk>>
      /\ FileTypeOK /\ WritingInv /\ NamesInv /\ ContentInv /\ WholeInv
  BY DEF RestartProgram, FileInv, fileVars
<1>2. \A d \in Image : ~Active(d)' /\ ~Own(d)' /\ ~Active(d)
  BY <1>1 DEF WritingInv, Active, Own
<1>3. FileTypeOK'
  BY <1>1 DEF FileTypeOK
<1>4. WritingInv'
  BY <1>1, <1>2 DEF WritingInv
<1>5. NamesInv' /\ ContentInv' /\ WholeInv'
  BY <1>1 DEF NamesInv, ContentInv, WholeInv
<1> QED BY <1>1, <1>2, <1>3, <1>4, <1>5 DEF FileInv, SigchldInv

\* Every step of checkpoints that the program waits for keeps the invariant.
LEMMA NextFileInv ==
  ASSUME ~Forked, "gzip" \notin Failures
  PROVE  FileInv /\ [CkptFileNext]_ckptFileVars => FileInv'
<1> SUFFICES ASSUME FileInv, [CkptFileNext]_ckptFileVars
             PROVE  FileInv'
  OBVIOUS
<1>1. CASE UNCHANGED ckptFileVars
  BY <1>1 DEF ckptFileVars, fileVars, FileInv, FileTypeOK, WritingInv, NamesInv, ContentInv, WholeInv, Active, Own
<1> QED BY <1>1, StartKeeps, OpenKeeps, WriteKeeps, GzipKeeps, CloseKeeps, RenameKeeps, KillKeeps,
           RestartFileKeeps DEF CkptFileNext

\* Every step keeps it that a program that runs has its own handler of SIGCHLD.
LEMMA NextSigchldInv ==
  ASSUME ~Forked, Failures \cap {"gzip", "fork"} = {}
  PROVE  FileInv /\ SigchldInv /\ [CkptFileNext]_ckptFileVars => SigchldInv'
<1> SUFFICES ASSUME FileInv, SigchldInv, [CkptFileNext]_ckptFileVars
             PROVE  SigchldInv'
  OBVIOUS
<1>0. "gzip" \notin Failures /\ "fork" \notin Failures
  OBVIOUS
<1>1. CASE UNCHANGED ckptFileVars
  BY <1>1 DEF ckptFileVars, SigchldInv, Own
<1> QED BY <1>0, <1>1, StartKeeps, OpenKeeps, WriteKeeps, GzipKeeps, CloseKeeps, RenameKeeps, KillKeeps,
           RestartFileKeeps DEF CkptFileNext

\* Whenever a process dies, in the middle of a checkpoint too, or a disk is full, the file under
\* the image's name is a whole image of the latest checkpoint that has ended: the temporary
\* file, gzip and rename of mtcp_writeckpt.c, for images and pipes of any size.
THEOREM ImageIsWhole ==
  ASSUME ~Forked, "gzip" \notin Failures
  PROVE  CkptFileSpec => []ImageWhole
<1>1. FileInv => ImageWhole
  BY DEF FileInv, WholeInv, ImageWhole
<1>2. CkptFileInit => FileInv
  BY InitFileInv
<1>3. FileInv /\ [CkptFileNext]_ckptFileVars => FileInv'
  BY NextFileInv
<1> QED BY <1>1, <1>2, <1>3, PTL DEF CkptFileSpec

\* A checkpoint leaves the program with a whole image under the name and with its own handler
\* of SIGCHLD, whichever of its steps fail or are cut off, except for a fork.
THEOREM ImageIsKept ==
  ASSUME ~Forked, Failures \cap {"gzip", "fork"} = {}
  PROVE  CkptFileSpec => []ImageKept
<1>0. "gzip" \notin Failures
  OBVIOUS
<1>1. FileInv /\ SigchldInv => ImageKept
  BY DEF FileInv, WholeInv, SigchldInv, ImageKept, ImageWhole, HandlerKept
<1>2. CkptFileInit => FileInv /\ SigchldInv
  BY InitFileInv
<1>3. FileInv /\ [CkptFileNext]_ckptFileVars => FileInv'
  BY <1>0, NextFileInv
<1>4. FileInv /\ SigchldInv /\ [CkptFileNext]_ckptFileVars => SigchldInv'
  BY NextSigchldInv
<1> QED BY <1>1, <1>2, <1>3, <1>4, PTL DEF CkptFileSpec
=============================================================================
