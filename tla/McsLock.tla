------------------------------ MODULE McsLock ------------------------------
(***************************************************************************)
(* The MCS lock of both runtimes (mcs.c of Phoenix 2, synch.h of           *)
(* Phoenix++). The threads that want the lock form a queue: the lock has   *)
(* the last of them, each has its successor, and a thread spins on a word  *)
(* of its own until its predecessor clears it.                             *)
(***************************************************************************)
EXTENDS Naturals, Sequences

CONSTANTS
  Lockers,    \* threads
  NoLocker    \* NULL

ASSUME NoLockerAssumption == NoLocker \notin Lockers

VARIABLES
  lockHead,   \* head of mcs_lock
  lockNext,   \* next of each thread's mcs_lock_priv
  locked,     \* locked of each thread's mcs_lock_priv
  prevOf,     \* prev, local to acquire
  lockPc,     \* each thread's place
  lockQueue   \* auxiliary: the threads in the order of their exchanges

lockVars == <<lockHead, lockNext, locked, prevOf, lockPc, lockQueue>>

LockPlaces == {"idle", "swap", "mark", "link", "spin", "in", "swapBack", "awaitNext", "pass"}

LockInit ==
  /\ lockHead = NoLocker
  /\ lockNext = [t \in Lockers |-> NoLocker]
  /\ locked = [t \in Lockers |-> 0]
  /\ prevOf = [t \in Lockers |-> NoLocker]
  /\ lockPc = [t \in Lockers |-> "idle"]
  /\ lockQueue = <<>>

(***************************************************************************)
(* acquire                                                                 *)
(***************************************************************************)
Acquire(t) ==
  /\ lockPc[t] = "idle"
  /\ lockNext' = [lockNext EXCEPT ![t] = NoLocker]
  /\ lockPc' = [lockPc EXCEPT ![t] = "swap"]
  /\ UNCHANGED <<lockHead, locked, prevOf, lockQueue>>

\* atomic_xchg: with no predecessor the thread has the lock.
Swap(t) ==
  /\ lockPc[t] = "swap"
  /\ prevOf' = [prevOf EXCEPT ![t] = lockHead]
  /\ lockHead' = t
  /\ lockPc' = [lockPc EXCEPT ![t] = IF lockHead = NoLocker THEN "in" ELSE "mark"]
  /\ lockQueue' = Append(lockQueue, t)
  /\ UNCHANGED <<lockNext, locked>>

\* A bug the properties must catch: the thread's own word is left as it was.
MarkMutant(t) ==
  /\ lockPc[t] = "mark"
  /\ lockPc' = [lockPc EXCEPT ![t] = "link"]
  /\ UNCHANGED <<lockHead, lockNext, locked, prevOf, lockQueue>>

\* "this ordering is important": locked is set before the predecessor can see the thread.
Mark(t) ==
  /\ lockPc[t] = "mark"
  /\ locked' = [locked EXCEPT ![t] = 1]
  /\ lockPc' = [lockPc EXCEPT ![t] = "link"]
  /\ UNCHANGED <<lockHead, lockNext, prevOf, lockQueue>>

Link(t) ==
  /\ lockPc[t] = "link"
  /\ lockNext' = [lockNext EXCEPT ![prevOf[t]] = t]
  /\ lockPc' = [lockPc EXCEPT ![t] = "spin"]
  /\ UNCHANGED <<lockHead, locked, prevOf, lockQueue>>

Spin(t) ==
  /\ lockPc[t] = "spin"
  /\ locked[t] = 0
  /\ lockPc' = [lockPc EXCEPT ![t] = "in"]
  /\ UNCHANGED <<lockHead, lockNext, locked, prevOf, lockQueue>>

(***************************************************************************)
(* release                                                                 *)
(***************************************************************************)
Release(t) ==
  /\ lockPc[t] = "in"
  /\ lockPc' = [lockPc EXCEPT ![t] = IF lockNext[t] = NoLocker THEN "swapBack" ELSE "pass"]
  /\ UNCHANGED <<lockHead, lockNext, locked, prevOf, lockQueue>>

\* A bug the properties must catch: the head is cleared without a comparison.
EmptiesMutant(t) == TRUE

\* The comparison of cmp_and_swp: no thread came after this one.
Empties(t) == lockHead = t

\* cmp_and_swp: the lock is empty, or the thread must wait for its successor's write.
SwapBack(t) ==
  /\ lockPc[t] = "swapBack"
  /\ IF Empties(t)
     THEN /\ lockHead' = NoLocker
          /\ lockQueue' = Tail(lockQueue)
          /\ lockPc' = [lockPc EXCEPT ![t] = "idle"]
     ELSE /\ lockPc' = [lockPc EXCEPT ![t] = "awaitNext"]
          /\ UNCHANGED <<lockHead, lockQueue>>
  /\ UNCHANGED <<lockNext, locked, prevOf>>

AwaitNext(t) ==
  /\ lockPc[t] = "awaitNext"
  /\ lockNext[t] # NoLocker
  /\ lockPc' = [lockPc EXCEPT ![t] = "pass"]
  /\ UNCHANGED <<lockHead, lockNext, locked, prevOf, lockQueue>>

Pass(t) ==
  /\ lockPc[t] = "pass"
  /\ locked' = [locked EXCEPT ![lockNext[t]] = 0]
  /\ lockQueue' = Tail(lockQueue)
  /\ lockPc' = [lockPc EXCEPT ![t] = "idle"]
  /\ UNCHANGED <<lockHead, lockNext, prevOf>>

LockStep(t) ==
  \/ Acquire(t) \/ Swap(t) \/ Mark(t) \/ Link(t) \/ Spin(t)
  \/ Release(t) \/ SwapBack(t) \/ AwaitNext(t) \/ Pass(t)

LockNextStep == \E t \in Lockers : LockStep(t)

\* A thread that has asked for the lock goes on, and gives it back.
LockFairness ==
  \A t \in Lockers : WF_lockVars(lockPc[t] # "idle" /\ LockStep(t))

LockSpec == LockInit /\ [][LockNextStep]_lockVars

(***************************************************************************)
(* Properties.                                                             *)
(***************************************************************************)
LockTypeOK ==
  /\ lockHead \in Lockers \union {NoLocker}
  /\ lockNext \in [Lockers -> Lockers \union {NoLocker}]
  /\ locked \in [Lockers -> {0, 1}]
  /\ prevOf \in [Lockers -> Lockers \union {NoLocker}]
  /\ lockPc \in [Lockers -> LockPlaces]
  /\ lockQueue \in Seq(Lockers)

HasLock(t) == lockPc[t] \in {"in", "swapBack", "awaitNext", "pass"}

\* No two threads are between acquire and the end of release, and a thread that calls
\* acquire finds its word clear: "assert (priv->locked == 0)".
LockExclusive ==
  /\ \A t, u \in Lockers : HasLock(t) /\ HasLock(u) => t = u
  /\ \A t \in Lockers : lockPc[t] = "idle" => locked[t] = 0

Waits(t) == lockPc[t] \in {"swap", "mark", "link", "spin"}

\* A thread that asks for the lock gets it.
LockGranted == \A t \in Lockers : Waits(t) ~> HasLock(t)
=============================================================================
