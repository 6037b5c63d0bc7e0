------------------------------ MODULE RuntimeProofs ------------------------------
(***************************************************************************)
(* The Phoenix++ runtime, for every number of threads.                     *)
(*                                                                         *)
(* A pool whose client asks for phases of safe sizes keeps its phases      *)
(* apart: PoolBarrier is invariant, and the pool implements Phases.        *)
(*                                                                         *)
(* For every set of jobs, a map-reduce job asks the pool for phases of     *)
(* safe sizes until the parallel merge, if it comes to that: PhaseBarrier  *)
(* is invariant, and every step of a job that is not sorted is one of      *)
(* PoolSpec.  The first chunk fixes the size of all map phases and the     *)
(* sizes never fall afterwards, so a thread that is late to compare its    *)
(* count, which is no greater than the size of its phase, finds itself the *)
(* last only if the size is still that of its phase; that case is the      *)
(* pool's to exclude (PlaceInv).                                           *)
(*                                                                         *)
(* The MCS lock is exclusive for any set of threads.  The queue that the   *)
(* words of the threads form is not in any one place of the program, so    *)
(* the invariant relates the auxiliary lockQueue to the head, the          *)
(* successors and the words.                                               *)
(***************************************************************************)
EXTENDS MapReduce, McsLock, FiniteSetTheorems, TLAPS

USE NumThreadsAssumption

-----------------------------------------------------------------------------
(* Which thread runs which argument. *)

\* What integer division leaves.
LEMMA DivBounds ==
  ASSUME NEW a \in Nat, NEW n \in Nat \ {0}
  PROVE  /\ a \div n \in Nat
         /\ n * (a \div n) <= a
         /\ a < n * (a \div n) + n
  OBVIOUS

\* Multiplication keeps the order.
LEMMA TimesMonotone ==
  ASSUME NEW p \in Int, NEW q \in Int, NEW n \in Nat, p <= q
  PROVE  n * p <= n * q
  OBVIOUS

\* begin() never indexes thread_args beyond the pool's threads.
LEMMA SpreadInRange ==
  ASSUME NEW T \in Nat \ {0}, NEW n \in Nat \ {0}, NEW i \in Nat, i < n
  PROVE  (i * T) \div n \in 0 .. T - 1
<1> DEFINE p == (i * T) \div n
<1>1. i * T \in Nat /\ i * T < n * T
  OBVIOUS
<1>2. p \in Nat /\ n * p <= i * T
  BY <1>1, DivBounds
<1>3. SUFFICES ASSUME T <= p PROVE FALSE
  BY <1>2
<1>4. n * T <= n * p
  BY <1>2, <1>3, TimesMonotone
<1> HIDE DEF p
<1> QED BY <1>1, <1>2, <1>4

\* begin() never wakes one thread twice, as there are no more workers than
\* threads.
LEMMA SpreadIncreases ==
  ASSUME NEW T \in Nat \ {0}, NEW n \in Nat \ {0}, n <= T,
         NEW i \in Nat, NEW j \in Nat, i < j
  PROVE  (i * T) \div n < (j * T) \div n
<1> DEFINE p == (i * T) \div n
           q == (j * T) \div n
<1>1. i * T \in Nat /\ j * T \in Nat /\ j * T >= i * T + T
  <2>1. (i + 1) * T <= j * T
    BY TimesMonotone, i + 1 <= j
  <2> QED BY <2>1
<1>2. p \in Nat /\ q \in Nat /\ n * p <= i * T /\ j * T < n * q + n
  BY <1>1, DivBounds
<1>3. SUFFICES ASSUME q <= p PROVE FALSE
  BY <1>2
<1>4. n * q <= n * p
  BY <1>2, <1>3, TimesMonotone
<1>5. n * p + n <= i * T + T
  BY <1>2
<1> HIDE DEF p, q
<1> QED BY <1>1, <1>2, <1>4, <1>5

-----------------------------------------------------------------------------
(* The invariant. *)

\* A thread that counted itself in an earlier phase and has still to compare.
Late(w) == wpc[w] = "counted" /\ w \notin Finished

\* Where the owner's call is, and how far begin() or the destructor has come.
OwnerInv ==
  /\ die <=> owner \in {"killing", "joining", "deleted"}
  /\ owner = "killing" => posted < NumThreads
  /\ owner = "posting" => posted < numWorkers
  /\ owner = "waiting" => posted = numWorkers /\ numWorkers > 0

\* Only threads that have been woken are busy, once each.
ThreadInv ==
  \A w \in Thread :
    /\ wpc[w] \in {"parked", "working", "counted"}
    /\ semRun[w] <= 1
    /\ wpc[w] = "working" => semRun[w] = 0
    /\ Busy(w) => w \in Posted

\* num_workers_done counts the threads that are through with this phase, and
\* the local counts of those that have still to compare are their places.
PlaceInv ==
  /\ InPhase => numDone = Cardinality(Finished)
  /\ \A w \in Thread : Late(w) => mine[w] # numWorkers
  /\ \A w \in Finished : wpc[w] = "counted" => mine[w] <= numDone
  /\ \A v, w \in Finished :
       wpc[v] = "counted" /\ wpc[w] = "counted" /\ mine[v] = mine[w] => v = w

\* The owner's semaphore is raised once, when all are through, by the thread
\* in the last place, and nobody is left to raise it again.
AnnouncedInv ==
  semDone # 0 =>
    /\ semDone = 1 /\ owner = "waiting" /\ numDone = numWorkers
    /\ \A w \in Thread : wpc[w] = "counted" => mine[w] # numWorkers

PoolInv ==
  PoolTypeOK /\ OwnerInv /\ (~die => ThreadInv /\ PlaceInv /\ AnnouncedInv)

-----------------------------------------------------------------------------
(* What the invariant says of the threads of a phase. *)

\* The threads woken so far are threads, and no more than begin() has woken.
LEMMA PostedThreads ==
  ASSUME PoolInv
  PROVE  /\ Posted \subseteq Thread
         /\ IsFiniteSet(Posted)
         /\ InPhase => Cardinality(Posted) <= posted /\ posted <= numWorkers
         /\ IsFiniteSet(Finished)
         /\ Cardinality(Finished) \in Nat
         /\ Cardinality(Finished) <= Cardinality(Posted)
         /\ Cardinality(Finished) = Cardinality(Posted) => Finished = Posted
<1>1. CASE ~InPhase
  <2>1. Posted = {} /\ Finished = {}
    BY <1>1 DEF Posted, Finished
  <2> QED BY <1>1, <2>1, FS_EmptySet
<1>2. CASE InPhase
  <2>1. posted \in Nat /\ posted <= numWorkers /\ numWorkers \in Nat \ {0}
    BY <1>2 DEF PoolInv, PoolTypeOK, OwnerInv, InPhase
  <2>2. \A i \in 0 .. posted - 1 : ThreadOf(i) \in Thread
    BY <2>1, SpreadInRange DEF ThreadOf, Thread
  <2>3. Posted = {ThreadOf(i) : i \in 0 .. posted - 1}
    BY <1>2 DEF Posted
  <2> DEFINE f == [i \in 0 .. posted - 1 |-> ThreadOf(i)]
  <2>4. f \in Surjection(0 .. posted - 1, Posted)
    BY <2>3 DEF Surjection
  <2>5. IsFiniteSet(0 .. posted - 1) /\ Cardinality(0 .. posted - 1) = posted
    BY <2>1, FS_Interval
  <2>6. IsFiniteSet(Posted) /\ Cardinality(Posted) <= posted
    BY <2>4, <2>5, FS_Surjection
  <2>7. Finished \in SUBSET Posted
    BY DEF Finished
  <2>8. /\ IsFiniteSet(Finished)
        /\ Cardinality(Finished) <= Cardinality(Posted)
        /\ Cardinality(Finished) = Cardinality(Posted) => Finished = Posted
    BY <2>6, <2>7, FS_Subset
  <2>9. Cardinality(Finished) \in Nat
    BY <2>8, FS_CardinalityType
  <2> QED BY <1>2, <2>1, <2>2, <2>3, <2>6, <2>8, <2>9
<1> QED BY <1>1, <1>2

\* When as many threads have counted themselves as the phase has, it is over:
\* begin() has woken all of them and none is busy.
LEMMA AllDone ==
  ASSUME PoolInv, ~die, InPhase, numDone >= numWorkers
  PROVE  /\ posted = numWorkers /\ numDone = numWorkers
         /\ Finished = Posted
         /\ \A w \in Thread : ~Busy(w)
<1>1. posted \in Nat /\ numWorkers \in Nat
  BY DEF PoolInv, PoolTypeOK
<1>2. numDone = Cardinality(Finished)
  BY DEF PoolInv, PlaceInv
<1>3. /\ Cardinality(Posted) <= posted /\ posted <= numWorkers
      /\ Cardinality(Finished) <= Cardinality(Posted)
      /\ Cardinality(Finished) \in Nat
      /\ Cardinality(Finished) = Cardinality(Posted) => Finished = Posted
  BY PostedThreads
<1>4. Cardinality(Posted) \in Nat
  BY PostedThreads, FS_CardinalityType
<1>5. posted = numWorkers /\ numDone = numWorkers /\ Finished = Posted
  BY <1>1, <1>2, <1>3, <1>4
<1>6. \A w \in Thread : ~Busy(w)
  BY <1>5 DEF PoolInv, ThreadInv, Finished
<1> QED BY <1>5, <1>6

\* The barrier is what the invariant says of an idle owner.
LEMMA BarrierHolds == PoolInv => PoolBarrier
  BY DEF PoolInv, OwnerInv, ThreadInv, AnnouncedInv, PoolBarrier, Posted, InPhase

-----------------------------------------------------------------------------
(* The steps. *)

\* The constructor.
LEMMA InitPool == PoolInit => PoolInv
<1> SUFFICES ASSUME PoolInit PROVE PoolInv
  OBVIOUS
<1>1. PoolTypeOK
  <2>1. /\ owner \in OwnerPlace
        /\ posted \in 0 .. NumThreads /\ numWorkers \in 0 .. NumThreads
        /\ numDone \in Nat /\ semDone \in Nat
    BY DEF PoolInit, OwnerPlace
  <2>2. die \in BOOLEAN
    BY DEF PoolInit
  <2>3. semRun \in [Thread -> Nat] /\ mine \in [Thread -> Nat]
    BY DEF PoolInit
  <2>4. wpc \in [Thread -> WorkerPlace]
    BY DEF PoolInit, WorkerPlace
  <2> QED BY <2>1, <2>2, <2>3, <2>4 DEF PoolTypeOK
<1>2. OwnerInv
  BY DEF PoolInit, OwnerInv
<1>3. ThreadInv
  BY DEF PoolInit, ThreadInv, Busy
<1>4. PlaceInv
  BY DEF PoolInit, PlaceInv, InPhase, Late, Finished, Posted
<1>5. AnnouncedInv
  BY DEF PoolInit, AnnouncedInv
<1> QED BY <1>1, <1>2, <1>3, <1>4, <1>5 DEF PoolInv

\* set(): the size of a safe phase is the place of no late thread.
LEMMA SetKeeps ==
  ASSUME PoolInv, NEW n \in 0 .. NumThreads, SafeSize(n), Set(n)
  PROVE  PoolInv'
<1>1. ~die /\ ~die' /\ ~InPhase /\ ~InPhase'
  BY DEF Set, PoolInv, OwnerInv, InPhase
<1>2. PoolTypeOK'
  BY DEF Set, PoolInv, PoolTypeOK, OwnerPlace, workerVars
<1>3. OwnerInv'
  BY DEF Set, PoolInv, OwnerInv
<1>4. /\ Posted = {} /\ Posted' = {} /\ Finished = {} /\ Finished' = {}
      /\ \A w \in Thread : Busy(w)' = Busy(w)
  BY <1>1 DEF Posted, Finished, Busy, Set, workerVars
<1>5. ThreadInv'
  BY <1>1, <1>4 DEF Set, PoolInv, ThreadInv, workerVars
<1>6. PlaceInv'
  BY <1>1, <1>4 DEF Set, SafeSize, PlaceInv, Late, workerVars
<1>7. AnnouncedInv'
  BY <1>1 DEF Set, PoolInv, AnnouncedInv
<1> QED BY <1>1, <1>2, <1>3, <1>5, <1>6, <1>7 DEF PoolInv

\* begin() resets the count while no thread of a phase is left to change it.
LEMMA BeginKeeps ==
  ASSUME PoolInv, Begin
  PROVE  PoolInv'
<1>1. ~die /\ ~die' /\ ~InPhase
  BY DEF Begin, PoolInv, OwnerInv, InPhase
<1>2. PoolTypeOK'
  BY DEF Begin, PoolInv, PoolTypeOK, OwnerPlace, workerVars
<1>3. OwnerInv'
  BY DEF Begin, PoolInv, PoolTypeOK, OwnerInv
<1>4. /\ Posted = {} /\ Finished = {}
      /\ \A w \in Thread : Busy(w)' = Busy(w)
  BY <1>1 DEF Posted, Finished, Busy, Begin, workerVars
<1>5. Posted' = {} /\ Finished' = {}
  BY DEF Begin, Posted, InPhase, Finished
<1>6. ThreadInv'
  BY <1>1, <1>4, <1>5 DEF Begin, PoolInv, ThreadInv, workerVars
<1>7. PlaceInv'
  <2>1. InPhase' => numDone' = 0
    BY DEF Begin, InPhase
  <2>2. Cardinality(Finished') = 0
    BY <1>5, FS_EmptySet
  <2> QED BY <1>1, <1>4, <1>5, <2>1, <2>2 DEF Begin, PoolInv, PlaceInv, Late, workerVars
<1>8. AnnouncedInv'
  BY <1>1 DEF Begin, PoolInv, AnnouncedInv
<1> QED BY <1>1, <1>2, <1>3, <1>6, <1>7, <1>8 DEF PoolInv

\* begin() wakes a thread it has not woken before.
LEMMA PostKeeps ==
  ASSUME PoolInv, Post
  PROVE  PoolInv' /\ Finished' = Finished /\ InPhase' /\ InPhase
<1>1. ~die /\ ~die' /\ InPhase /\ InPhase'
  BY DEF Post, PoolInv, OwnerInv, InPhase
<1>2. /\ posted \in Nat /\ posted < numWorkers
      /\ numWorkers \in Nat \ {0} /\ numWorkers <= NumThreads
  BY DEF Post, PoolInv, PoolTypeOK, OwnerInv
<1>3. PICK j \in Thread : j = ThreadOf(posted)
  BY <1>2, SpreadInRange DEF ThreadOf, Thread
<1>4. j \notin Posted
  <2>1. \A i \in 0 .. posted - 1 : ThreadOf(i) < j
    BY <1>2, <1>3, SpreadIncreases DEF ThreadOf
  <2>2. j \in Nat
    BY <1>3 DEF Thread
  <2> QED BY <1>1, <2>1, <2>2 DEF Posted
<1>5. Posted' = Posted \cup {j}
  <2>1. 0 .. posted' - 1 = (0 .. posted - 1) \cup {posted}
    BY <1>2 DEF Post
  <2>2. \A i : ThreadOf(i)' = ThreadOf(i)
    BY DEF Post, ThreadOf
  <2> QED BY <1>1, <1>3, <2>1, <2>2 DEF Posted
<1>6. semRun[j] = 0 /\ wpc[j] # "working"
  BY <1>1, <1>3, <1>4 DEF PoolInv, PoolTypeOK, ThreadInv, Busy
<1>7. /\ semRun' = [semRun EXCEPT ![j] = 1]
      /\ wpc' = wpc /\ mine' = mine /\ numDone' = numDone /\ numWorkers' = numWorkers
      /\ semDone' = semDone
  BY <1>3, <1>6 DEF Post, workerVars
<1>8. /\ \A w \in Thread : w # j => (Busy(w)' <=> Busy(w))
      /\ Busy(j)'
  BY <1>3, <1>7 DEF Busy, PoolInv, PoolTypeOK
<1>9. Finished' = Finished
  BY <1>3, <1>4, <1>5, <1>8, PostedThreads DEF Finished
<1>10. PoolTypeOK'
  BY <1>2, <1>3, <1>6, <1>7 DEF Post, PoolInv, PoolTypeOK, OwnerPlace
<1>11. OwnerInv'
  BY <1>2 DEF Post, PoolInv, OwnerInv
<1>12. ThreadInv'
  BY <1>1, <1>3, <1>5, <1>6, <1>7, <1>8 DEF PoolInv, PoolTypeOK, ThreadInv
<1>13. PlaceInv'
  BY <1>1, <1>7, <1>9 DEF PoolInv, PlaceInv, Late
<1>14. AnnouncedInv'
  BY <1>1, <1>7 DEF Post, PoolInv, AnnouncedInv
<1> QED BY <1>1, <1>9, <1>10, <1>11, <1>12, <1>13, <1>14 DEF PoolInv

\* wait() returns when all are through.
LEMMA WaitKeeps ==
  ASSUME PoolInv, Wait
  PROVE  PoolInv' /\ Finished = Posted /\ posted = numWorkers /\ InPhase /\ ~InPhase'
<1>1. ~die /\ ~die' /\ InPhase /\ ~InPhase'
  BY DEF Wait, PoolInv, OwnerInv, InPhase
<1>2. /\ semDone = 1 /\ numDone = numWorkers /\ semDone' = 0
      /\ \A w \in Thread : wpc[w] = "counted" => mine[w] # numWorkers
  BY <1>1 DEF Wait, PoolInv, PoolTypeOK, AnnouncedInv
<1>3. posted = numWorkers /\ Finished = Posted /\ \A w \in Thread : ~Busy(w)
  BY <1>1, <1>2, AllDone DEF PoolInv, PoolTypeOK
<1>4. Posted' = {} /\ Finished' = {}
  BY <1>1 DEF Posted, Finished
<1>5. PoolTypeOK'
  BY <1>2 DEF Wait, PoolInv, PoolTypeOK, OwnerPlace, workerVars
<1>6. OwnerInv'
  BY DEF Wait, PoolInv, OwnerInv
<1>7. ThreadInv'
  BY <1>1, <1>3 DEF Wait, PoolInv, ThreadInv, Busy, workerVars
<1>8. PlaceInv'
  BY <1>1, <1>2, <1>4 DEF Wait, PlaceInv, Late, workerVars
<1>9. AnnouncedInv'
  BY <1>2 DEF AnnouncedInv
<1> QED BY <1>1, <1>3, <1>5, <1>6, <1>7, <1>8, <1>9 DEF PoolInv

\* A thread counts itself; if it is the last, it does not yet say so.
LEMMA FinishKeeps ==
  ASSUME PoolInv, NEW w \in Thread, Finish(w), ~die
  PROVE  /\ PoolInv'
         /\ InPhase /\ InPhase' /\ w \in Posted /\ w \notin Finished
         /\ Posted' = Posted /\ Finished' = Finished \cup {w}
<1>1. /\ semRun' = semRun /\ owner' = owner /\ posted' = posted /\ die' = die
      /\ numWorkers' = numWorkers /\ semDone' = semDone
      /\ numDone' = numDone + 1 /\ wpc[w] = "working"
      /\ wpc' = [wpc EXCEPT ![w] = "counted"]
      /\ mine' = [mine EXCEPT ![w] = numDone + 1]
  BY DEF Finish, CountedAs, ownerVars
<1>2. PoolTypeOK /\ OwnerInv /\ ThreadInv /\ PlaceInv /\ AnnouncedInv
  BY DEF PoolInv
<1>3. w \in Posted /\ semRun[w] = 0 /\ Busy(w) /\ w \notin Finished
  BY <1>1, <1>2 DEF ThreadInv, Busy, Finished
<1>4. InPhase /\ InPhase'
  BY <1>1, <1>3 DEF Posted, InPhase
<1>5. Posted' = Posted
  <2>1. \A i : ThreadOf(i)' = ThreadOf(i)
    BY <1>1 DEF ThreadOf
  <2> QED BY <1>1, <1>4, <2>1 DEF Posted
<1>6. /\ wpc'[w] = "counted" /\ mine'[w] = numDone + 1
      /\ \A v \in Thread : v # w => wpc'[v] = wpc[v] /\ mine'[v] = mine[v]
  BY <1>1, <1>2 DEF PoolTypeOK
<1>7. \A v \in Thread : Busy(v)' <=> Busy(v) /\ v # w
  BY <1>1, <1>3, <1>6 DEF Busy
<1>8. Finished' = Finished \cup {w}
  BY <1>3, <1>5, <1>7, PostedThreads DEF Finished
<1>9. numDone < numWorkers
  BY <1>2, <1>3, <1>4, AllDone DEF PoolTypeOK
<1>10. PoolTypeOK'
  BY <1>1, <1>2 DEF PoolTypeOK, WorkerPlace
<1>11. OwnerInv'
  BY <1>1, <1>2 DEF OwnerInv
<1>12. ThreadInv'
  BY <1>1, <1>2, <1>5, <1>6, <1>7 DEF ThreadInv
<1>13. PlaceInv'
  <2>1. InPhase' => numDone' = Cardinality(Finished')
    <3>1. IsFiniteSet(Finished) /\ numDone = Cardinality(Finished)
      BY <1>2, <1>4, PostedThreads DEF PlaceInv
    <3>2. Cardinality(Finished \cup {w}) = Cardinality(Finished) + 1
      BY <1>3, <3>1, FS_AddElement
    <3> QED BY <1>1, <1>8, <3>1, <3>2
  <2>2. \A v \in Thread : Late(v)' => mine'[v] # numWorkers'
    BY <1>1, <1>2, <1>6, <1>8 DEF PlaceInv, Late
  <2>3. Finished \subseteq Thread
    BY PostedThreads DEF Finished
  <2>4. \A v \in Finished : wpc[v] = "counted" => mine[v] <= numDone
    BY <1>2 DEF PlaceInv
  <2>5. numDone \in Nat /\ \A v \in Thread : mine[v] \in Nat
    BY <1>2 DEF PoolTypeOK
  <2>6. \A v \in Finished' : wpc'[v] = "counted" => mine'[v] <= numDone'
    BY <1>1, <1>6, <1>8, <2>3, <2>4, <2>5
  <2>7. \A u, v \in Finished :
          wpc[u] = "counted" /\ wpc[v] = "counted" /\ mine[u] = mine[v] => u = v
    BY <1>2 DEF PlaceInv
  <2>8. \A u, v \in Finished' :
          wpc'[u] = "counted" /\ wpc'[v] = "counted" /\ mine'[u] = mine'[v] => u = v
    BY <1>3, <1>6, <1>8, <2>3, <2>4, <2>5, <2>7
  <2> QED BY <2>1, <2>2, <2>6, <2>8 DEF PlaceInv
<1>14. AnnouncedInv'
  BY <1>1, <1>2, <1>9 DEF AnnouncedInv, PoolTypeOK
<1> QED BY <1>1, <1>3, <1>4, <1>5, <1>8, <1>10, <1>11, <1>12, <1>13, <1>14 DEF PoolInv

\* A thread that finds itself the last is the last of this phase, whichever
\* phase it counted itself in.
LEMMA CompareKeeps ==
  ASSUME PoolInv, NEW w \in Thread, Compare(w), ~die
  PROVE  /\ PoolInv' /\ Posted' = Posted /\ Finished' = Finished
<1>1. /\ semRun' = semRun /\ owner' = owner /\ posted' = posted /\ die' = die
      /\ numWorkers' = numWorkers /\ numDone' = numDone /\ mine' = mine
      /\ wpc[w] = "counted" /\ wpc' = [wpc EXCEPT ![w] = "parked"]
  BY DEF Compare, ownerVars
<1>2. PoolTypeOK /\ OwnerInv /\ ThreadInv /\ PlaceInv /\ AnnouncedInv
  BY DEF PoolInv
<1>3. \/ mine[w] = numWorkers /\ semDone' = semDone + 1
      \/ mine[w] # numWorkers /\ semDone' = semDone
  BY <1>2 DEF Compare, Announced, IsLast, OwnerInv
<1>4. Posted' = Posted /\ InPhase' = InPhase
  <2>1. \A i : ThreadOf(i)' = ThreadOf(i)
    BY <1>1 DEF ThreadOf
  <2> QED BY <1>1, <2>1 DEF Posted, InPhase
<1>5. /\ wpc'[w] = "parked"
      /\ \A v \in Thread : v # w => wpc'[v] = wpc[v]
  BY <1>1, <1>2 DEF PoolTypeOK
<1>6. \A v \in Thread : Busy(v)' <=> Busy(v)
  BY <1>1, <1>5 DEF Busy
<1>7. Finished' = Finished /\ Finished \subseteq Thread
  BY <1>4, <1>6, PostedThreads DEF Finished
<1>8. PoolTypeOK'
  BY <1>1, <1>2, <1>3 DEF PoolTypeOK, WorkerPlace
<1>9. OwnerInv'
  BY <1>1, <1>2 DEF OwnerInv
<1>10. ThreadInv'
  BY <1>1, <1>2, <1>4, <1>5, <1>6 DEF ThreadInv
<1>11. PlaceInv'
  BY <1>1, <1>2, <1>4, <1>5, <1>7 DEF PlaceInv, Late
<1>12. AnnouncedInv'
  <2>1. CASE mine[w] # numWorkers
    BY <1>1, <1>2, <1>3, <1>5, <2>1 DEF AnnouncedInv
  <2>2. CASE mine[w] = numWorkers
    <3>1. semDone = 0 /\ semDone' = 1
      BY <1>1, <1>2, <1>3, <2>2 DEF AnnouncedInv
    <3>2. w \in Finished
      BY <1>1, <1>2, <2>2 DEF PlaceInv, Late
    <3>3. InPhase
      BY <3>2 DEF Finished, Posted
    <3>4. numDone >= numWorkers
      BY <1>1, <1>2, <2>2, <3>2 DEF PlaceInv, PoolTypeOK
    <3>5. numDone = numWorkers /\ posted = numWorkers
      BY <3>3, <3>4, AllDone
    <3>6. owner = "waiting"
      BY <1>2, <3>3, <3>5 DEF InPhase, OwnerInv, PoolTypeOK
    <3>7. \A v \in Thread : v # w /\ wpc[v] = "counted" => mine[v] # numWorkers
      BY <1>1, <1>2, <2>2, <3>2 DEF PlaceInv, Late
    <3> QED BY <1>1, <1>5, <3>1, <3>5, <3>6, <3>7 DEF AnnouncedInv
  <2> QED BY <2>1, <2>2
<1> QED BY <1>1, <1>4, <1>7, <1>8, <1>9, <1>10, <1>11, <1>12 DEF PoolInv

\* A thread takes its wake-up and runs the function: it was, and is, busy.
LEMMA WakeKeeps ==
  ASSUME PoolInv, NEW w \in Thread, Wake(w), ~die
  PROVE  /\ PoolInv' /\ Posted' = Posted /\ Finished' = Finished
<1>1. /\ owner' = owner /\ posted' = posted /\ die' = die
      /\ numWorkers' = numWorkers /\ numDone' = numDone /\ mine' = mine
      /\ semDone' = semDone
      /\ wpc[w] = "parked" /\ wpc' = [wpc EXCEPT ![w] = "working"]
      /\ semRun[w] > 0 /\ semRun' = [semRun EXCEPT ![w] = semRun[w] - 1]
  BY DEF Wake, ownerVars
<1>2. PoolTypeOK /\ OwnerInv /\ ThreadInv /\ PlaceInv /\ AnnouncedInv
  BY DEF PoolInv
<1>3. Posted' = Posted /\ InPhase' = InPhase
  <2>1. \A i : ThreadOf(i)' = ThreadOf(i)
    BY <1>1 DEF ThreadOf
  <2> QED BY <1>1, <2>1 DEF Posted, InPhase
<1>4. /\ wpc'[w] = "working" /\ semRun[w] = 1 /\ semRun'[w] = 0
      /\ \A v \in Thread : v # w => wpc'[v] = wpc[v] /\ semRun'[v] = semRun[v]
  BY <1>1, <1>2 DEF PoolTypeOK, ThreadInv
<1>5. \A v \in Thread : Busy(v)' <=> Busy(v)
  BY <1>1, <1>4 DEF Busy
<1>6. Finished' = Finished /\ Finished \subseteq Thread
  BY <1>3, <1>5, PostedThreads DEF Finished
<1>7. PoolTypeOK'
  BY <1>1, <1>2 DEF PoolTypeOK, WorkerPlace
<1>8. OwnerInv'
  BY <1>1, <1>2 DEF OwnerInv
<1>9. ThreadInv'
  BY <1>2, <1>3, <1>4, <1>5 DEF ThreadInv
<1>10. PlaceInv'
  BY <1>1, <1>2, <1>3, <1>4, <1>6 DEF PlaceInv, Late
<1>11. AnnouncedInv'
  BY <1>1, <1>2, <1>4 DEF AnnouncedInv
<1> QED BY <1>1, <1>3, <1>6, <1>7, <1>8, <1>9, <1>10, <1>11 DEF PoolInv

\* After the destructor has raised the flag only the types and the owner's
\* place are left to keep.
LEMMA ShutdownKeeps ==
  ASSUME PoolInv, die, \/ Kill \/ Join
                       \/ \E w \in Thread : WorkerStep(w) \/ Finish(w)
  PROVE  PoolInv' /\ die'
<1>1. PoolTypeOK /\ OwnerInv
  BY DEF PoolInv
<1>2. CASE Kill
  <2>1. posted \in Nat /\ posted < NumThreads /\ posted \in Thread
    BY <1>1, <1>2 DEF Kill, OwnerInv, PoolTypeOK, Thread
  <2>2. PoolTypeOK' /\ die'
    BY <1>1, <1>2, <2>1 DEF Kill, PoolTypeOK, OwnerPlace, workerVars
  <2>3. OwnerInv'
    BY <1>1, <1>2, <2>1 DEF Kill, OwnerInv, PoolTypeOK
  <2> QED BY <2>2, <2>3 DEF PoolInv
<1>3. CASE Join
  <2>1. PoolTypeOK' /\ die'
    BY <1>1, <1>3 DEF Join, PoolTypeOK, OwnerPlace, workerVars
  <2>2. OwnerInv'
    BY <1>1, <1>3 DEF Join, OwnerInv
  <2> QED BY <2>1, <2>2 DEF PoolInv
<1>4. CASE \E w \in Thread : WorkerStep(w) \/ Finish(w)
  <2>1. PICK w \in Thread : Wake(w) \/ Compare(w) \/ Leave(w) \/ Exit(w) \/ Finish(w)
    BY <1>4 DEF WorkerStep
  <2>2. /\ owner' = owner /\ posted' = posted /\ die' = die
        /\ numWorkers' = numWorkers
    BY <2>1 DEF Wake, Compare, Leave, Exit, Finish, CountedAs, ownerVars
  <2>3. OwnerInv'
    BY <1>1, <2>2 DEF OwnerInv
  <2>4. wpc' \in [Thread -> WorkerPlace]
    BY <1>1, <2>1 DEF Wake, Compare, Leave, Exit, Finish, CountedAs, PoolTypeOK, WorkerPlace
  <2>5. semRun' \in [Thread -> Nat]
    <3>1. CASE Wake(w)
      <4>1. semRun' = [semRun EXCEPT ![w] = semRun[w] - 1] /\ semRun[w] > 0
        BY <3>1 DEF Wake
      <4> QED BY <1>1, <4>1 DEF PoolTypeOK
    <3>2. CASE ~Wake(w)
      <4>1. semRun' = semRun
        BY <2>1, <3>2 DEF Compare, Leave, Exit, Finish, CountedAs
      <4> QED BY <1>1, <4>1 DEF PoolTypeOK
    <3> QED BY <3>1, <3>2
  <2>6. numDone' \in Nat /\ mine' \in [Thread -> Nat] /\ semDone' \in Nat
    <3>1. CASE Leave(w) \/ Finish(w)
      <4>1. /\ numDone' = numDone + 1 /\ semDone' = semDone
            /\ mine' = [mine EXCEPT ![w] = numDone + 1]
        BY <3>1 DEF Leave, Finish, CountedAs
      <4> QED BY <1>1, <4>1 DEF PoolTypeOK
    <3>2. CASE Wake(w)
      BY <1>1, <3>2 DEF Wake, PoolTypeOK
    <3>3. CASE Compare(w) \/ Exit(w)
      <4>1. /\ numDone' = numDone /\ mine' = mine
            /\ semDone' = semDone \/ semDone' = semDone + 1
        BY <3>3 DEF Compare, Exit, Announced
      <4> QED BY <1>1, <4>1 DEF PoolTypeOK
    <3> QED BY <2>1, <3>1, <3>2, <3>3
  <2>7. PoolTypeOK'
    BY <1>1, <2>2, <2>4, <2>5, <2>6 DEF PoolTypeOK
  <2> QED BY <2>2, <2>3, <2>7 DEF PoolInv
<1> QED BY <1>2, <1>3, <1>4

\* The destructor is called between phases.
LEMMA DestroyKeeps ==
  ASSUME PoolInv, Destroy
  PROVE  PoolInv' /\ ~InPhase /\ ~InPhase'
<1>1. PoolTypeOK'
  BY DEF Destroy, PoolInv, PoolTypeOK, OwnerPlace, workerVars
<1>2. OwnerInv'
  BY DEF Destroy, PoolInv, OwnerInv
<1> QED BY <1>1, <1>2 DEF Destroy, PoolInv, InPhase

\* Before the destructor, a thread is in no place of the way out.
LEMMA NoneLeaving ==
  ASSUME PoolInv, ~die, NEW w \in Thread
  PROVE  ~Leave(w) /\ ~Exit(w) /\ ~Kill /\ ~Join
  BY DEF PoolInv, ThreadInv, OwnerInv, Leave, Exit, Kill, Join

\* Every step keeps the invariant.
LEMMA NextPool ==
  ASSUME PoolInv, [PoolNext]_poolVars
  PROVE  PoolInv'
<1>1. CASE UNCHANGED poolVars
  <2> USE <1>1 DEF poolVars, ownerVars, workerVars
  <2>1. Posted' = Posted /\ Finished' = Finished
    BY DEF Posted, Finished, InPhase, ThreadOf, Busy
  <2>2. PoolTypeOK' = PoolTypeOK /\ OwnerInv' = OwnerInv
    BY DEF PoolTypeOK, OwnerInv
  <2>3. ThreadInv' = ThreadInv
    BY <2>1 DEF ThreadInv, Busy
  <2>4. PlaceInv' = PlaceInv
    BY <2>1 DEF PlaceInv, Late, InPhase
  <2>5. AnnouncedInv' = AnnouncedInv
    BY DEF AnnouncedInv
  <2> QED BY <2>2, <2>3, <2>4, <2>5 DEF PoolInv
<1>2. CASE \E n \in 0 .. NumThreads : SafeSize(n) /\ Set(n)
  BY <1>2, SetKeeps
<1>3. CASE Begin
  BY <1>3, BeginKeeps
<1>4. CASE Post
  BY <1>4, PostKeeps
<1>5. CASE Wait
  BY <1>5, WaitKeeps
<1>6. CASE Kill \/ Join
  <2>1. die
    BY <1>6 DEF Kill, Join, PoolInv, OwnerInv
  <2> QED BY <1>6, <2>1, ShutdownKeeps
<1>7. CASE Destroy
  BY <1>7, DestroyKeeps
<1>8. CASE \E w \in Thread : WorkerStep(w) \/ Finish(w)
  <2>1. CASE die
    BY <1>8, <2>1, ShutdownKeeps
  <2>2. CASE ~die
    BY <1>8, <2>2, WakeKeeps, CompareKeeps, FinishKeeps, NoneLeaving DEF WorkerStep
  <2> QED BY <2>1, <2>2
<1> QED BY <1>1, <1>2, <1>3, <1>4, <1>5, <1>6, <1>7, <1>8 DEF PoolNext, OwnerStep

-----------------------------------------------------------------------------
(* The theorems. *)

\* The states and counts of the pool are of their types, and begin() and the
\* destructor never go past the pool's threads.
THEOREM PoolTypeCorrect == PoolSpec => []PoolTypeOK
<1>1. PoolInv => PoolTypeOK
  BY DEF PoolInv
<1> QED BY <1>1, InitPool, NextPool, PTL DEF PoolSpec

\* When wait() has returned, no thread runs the function of the phase or has
\* still to be woken for it, for any number of threads.
THEOREM PoolBarrierHolds == PoolSpec => []PoolBarrier
<1> QED BY BarrierHolds, InitPool, NextPool, PTL DEF PoolSpec

-----------------------------------------------------------------------------
(* The refinement. *)

\* The steps that leave the mapped state as it is.
LEMMA SamePhase ==
  ASSUME InPhase' = InPhase, numWorkers' = numWorkers, Finished' = Finished
  PROVE  UNCHANGED Ph!vars
<1>1. \A i : ThreadOf(i)' = ThreadOf(i)
  BY DEF ThreadOf
<1>2. Chosen' = Chosen
  BY <1>1 DEF Chosen
<1> QED BY <1>2 DEF Unfinished, Ph!vars

\* As do all steps outside a phase.
LEMMA NoPhase ==
  ASSUME ~InPhase, ~InPhase'
  PROVE  UNCHANGED Ph!vars
BY DEF InPhase, Unfinished, Ph!vars

\* begin() opens a phase for at least one thread, unless nobody is to work.
LEMMA BeginOpens ==
  ASSUME PoolInv, Begin
  PROVE  [Ph!Next]_(Ph!vars)
<1>1. ~InPhase /\ numWorkers \in Nat
  BY DEF Begin, InPhase, PoolInv, PoolTypeOK
<1>2. CASE numWorkers = 0
  <2>1. ~InPhase'
    BY <1>2 DEF Begin, InPhase
  <2> QED BY <1>1, <2>1, NoPhase
<1>3. CASE numWorkers # 0
  <2>1. InPhase' /\ numWorkers' = numWorkers
    BY <1>3 DEF Begin, InPhase
  <2>2. Finished' = {}
    BY <1>3 DEF Begin, InPhase, Posted, Finished
  <2>3. \A i : ThreadOf(i)' = ThreadOf(i)
    BY <2>1 DEF ThreadOf
  <2>4. Unfinished' = Chosen
    BY <2>1, <2>2, <2>3 DEF Unfinished, Chosen
  <2>5. \A i \in 0 .. numWorkers - 1 : ThreadOf(i) \in Thread
    BY <1>1, <1>3, SpreadInRange DEF ThreadOf, Thread
  <2>6. Chosen \in (SUBSET Thread) \ {{}}
    <3>1. ThreadOf(0) \in Chosen
      BY <1>1, <1>3 DEF Chosen
    <3>2. Chosen \subseteq Thread
      BY <2>5 DEF Chosen
    <3> QED BY <3>1, <3>2
  <2>7. Ph!Open
    BY <1>1, <2>1, <2>4, <2>6 DEF Ph!Open
  <2> QED BY <2>7 DEF Ph!Next
<1> QED BY <1>2, <1>3

\* A thread whose function returns leaves the phase, once.
LEMMA FinishIsDone ==
  ASSUME PoolInv, NEW w \in Thread, Finish(w), ~die
  PROVE  [Ph!Next]_(Ph!vars)
<1>1. /\ InPhase /\ InPhase' /\ w \in Posted /\ w \notin Finished
      /\ Finished' = Finished \cup {w}
  BY FinishKeeps
<1>2. numWorkers' = numWorkers
  BY DEF Finish, CountedAs
<1>3. \A i : ThreadOf(i)' = ThreadOf(i)
  BY <1>2 DEF ThreadOf
<1>4. Chosen' = Chosen
  BY <1>2, <1>3 DEF Chosen
<1>5. posted \in Nat /\ numWorkers \in Nat /\ posted <= numWorkers
  BY <1>1, PostedThreads DEF PoolInv, PoolTypeOK
<1>6. w \in Chosen
  BY <1>1, <1>5 DEF Posted, Chosen
<1>7. Ph!Done(w)
  BY <1>1, <1>4, <1>6 DEF Unfinished, Ph!Done
<1> QED BY <1>7 DEF Ph!Next

\* wait() closes a phase no thread has still to finish.
LEMMA WaitCloses ==
  ASSUME PoolInv, Wait
  PROVE  [Ph!Next]_(Ph!vars)
<1>1. Finished = Posted /\ posted = numWorkers /\ InPhase /\ ~InPhase'
  BY WaitKeeps
<1>2. Unfinished = {} /\ Unfinished' = {}
  BY <1>1 DEF Unfinished, Posted, Chosen
<1>3. Ph!Close
  BY <1>1, <1>2 DEF Ph!Close
<1> QED BY <1>3 DEF Ph!Next

\* Every step of the pool is one of Phases or leaves the mapped state alone.
LEMMA StepRefines ==
  ASSUME PoolInv, [PoolNext]_poolVars
  PROVE  [Ph!Next]_(Ph!vars)
<1>1. CASE UNCHANGED poolVars
  <2> USE <1>1 DEF poolVars, ownerVars, workerVars
  <2>1. InPhase' = InPhase /\ numWorkers' = numWorkers /\ Finished' = Finished
    BY DEF Posted, Finished, InPhase, ThreadOf, Busy
  <2> QED BY <2>1, SamePhase
<1>2. CASE \E n \in 0 .. NumThreads : SafeSize(n) /\ Set(n)
  <2>1. ~InPhase /\ ~InPhase'
    BY <1>2 DEF Set, InPhase
  <2> QED BY <2>1, NoPhase
<1>3. CASE Begin
  BY <1>3, BeginOpens
<1>4. CASE Post
  <2>1. InPhase' = InPhase /\ Finished' = Finished /\ numWorkers' = numWorkers
    BY <1>4, PostKeeps DEF Post
  <2> QED BY <2>1, SamePhase
<1>5. CASE Wait
  BY <1>5, WaitCloses
<1>6. CASE Kill \/ Join \/ Destroy
  <2>1. ~InPhase /\ ~InPhase'
    BY <1>6 DEF Kill, Join, Destroy, InPhase
  <2> QED BY <2>1, NoPhase
<1>7. CASE \E w \in Thread : WorkerStep(w) \/ Finish(w)
  <2>1. PICK w \in Thread : Wake(w) \/ Compare(w) \/ Leave(w) \/ Exit(w) \/ Finish(w)
    BY <1>7 DEF WorkerStep
  <2>2. owner' = owner /\ numWorkers' = numWorkers
    BY <2>1 DEF Wake, Compare, Leave, Exit, Finish, CountedAs, ownerVars
  <2>3. InPhase' = InPhase
    BY <2>2 DEF InPhase
  <2>4. CASE die
    <3>1. ~InPhase
      BY <2>4 DEF PoolInv, OwnerInv, InPhase
    <3> QED BY <2>3, <3>1, NoPhase
  <2>5. CASE ~die /\ Finish(w)
    BY <2>5, FinishIsDone
  <2>6. CASE ~die /\ ~Finish(w)
    <3>1. Finished' = Finished
      BY <2>1, <2>6, WakeKeeps, CompareKeeps, NoneLeaving
    <3> QED BY <2>2, <2>3, <3>1, SamePhase
  <2> QED BY <2>4, <2>5, <2>6
<1> QED BY <1>1, <1>2, <1>3, <1>4, <1>5, <1>6, <1>7 DEF PoolNext, OwnerStep

\* The pool keeps what start_workers relies on, for any number of threads:
\* phases do not overlap, each of them runs the function once on each of the
\* threads begin() chose, and wait() returns when all are through.
THEOREM PoolRefinesPhases == PoolSpec => PoolImplementsPhases
<1>1. PoolInit => Ph!Init
  BY DEF PoolInit, InPhase, Unfinished, Ph!Init
<1> QED
  BY <1>1, InitPool, NextPool, StepRefines, PTL
  DEF PoolSpec, PoolImplementsPhases, Ph!Spec

-----------------------------------------------------------------------------
(* The invariant. *)

\* No count that has still to be compared is greater than the phase's size.
CeilingInv ==
  \A w \in Thread : wpc[w] = "counted" => mine[w] \in 0 .. numWorkers

\* Before the first chunk is mapped the threads are as the constructor left
\* them.
UnusedInv ==
  first => owner = "idle" /\ \A w \in Thread : wpc[w] = "parked"

\* What the size of the last phase was, by where the master is.
SizeInv ==
  /\ ~first /\ mpc \in {"chunks", "joining", "mapping"} =>
       numWorkers = Smaller(numMapTasks, NumThreads)
  /\ mpc \in {"reducing", "merging"} => numWorkers = NumThreads
  /\ mpc \in {"joining", "mapping", "reducing", "merging"} => ~first
  /\ mpc \in {"start", "chunks", "joining", "mapping", "reducing", "merging", "done"} => ~die

MapReduceInv ==
  /\ mpc \in {"start", "chunks", "joining", "mapping", "reducing", "merging", "done", "over"}
  /\ mpc = "start" => first
  /\ mpc = "merging" => job.sorted
  /\ stage = "merge" => job.sorted /\ mpc \in {"merging", "done", "over"}
  /\ stage # "merge" => PoolInv /\ SizeInv /\ (~die => CeilingInv /\ UnusedInv)

-----------------------------------------------------------------------------
(* The sizes of the phases. *)

\* A phase no smaller than the last one is safe: at the size of the last one
\* by the pool's own invariant, above it by the ceiling.
LEMMA LargerIsSafe ==
  ASSUME PoolInv, CeilingInv, owner = "idle",
         NEW n \in 0 .. NumThreads, numWorkers <= n
  PROVE  SafeSize(n)
<1>1. ~die /\ numWorkers \in Nat /\ \A w \in Thread : mine[w] \in Nat
  BY DEF PoolInv, OwnerInv, PoolTypeOK
<1>2. \A w \in Thread : wpc[w] = "counted" => mine[w] # numWorkers
  BY <1>1 DEF PoolInv, PlaceInv, Late, Finished, Posted, InPhase
<1> QED BY <1>1, <1>2 DEF SafeSize, CeilingInv

\* While every thread is parked any size is safe: the first phase may be
\* smaller than what the constructor has set.
LEMMA UnusedIsSafe ==
  ASSUME first, UnusedInv, NEW n
  PROVE  SafeSize(n)
  BY DEF UnusedInv, SafeSize

\* set() leaves the counts below the new size, if that does not fall.
LEMMA SetKeepsCeiling ==
  ASSUME PoolInv, CeilingInv, NEW n \in 0 .. NumThreads, Set(n),
         numWorkers <= n \/ \A w \in Thread : wpc[w] # "counted"
  PROVE  CeilingInv'
<1>1. numWorkers' = n /\ wpc' = wpc /\ mine' = mine
  BY DEF Set, workerVars
<1>2. numWorkers \in Nat /\ n \in Nat
  BY DEF PoolInv, PoolTypeOK
<1> QED BY <1>1, <1>2 DEF CeilingInv

\* No other step of the pool changes the size of the phase, and a thread that
\* counts itself is one of those the phase has woken.
LEMMA StepKeepsCeiling ==
  ASSUME PoolInv, CeilingInv, ~die,
         OwnerStep \/ \E w \in Thread : WorkerStep(w) \/ Finish(w)
  PROVE  CeilingInv' /\ numWorkers' = numWorkers /\ ~die'
<1>1. CASE OwnerStep
  <2>1. ~Kill /\ ~Join
    BY DEF Kill, Join, PoolInv, OwnerInv
  <2>2. Begin \/ Post \/ Wait
    BY <1>1, <2>1 DEF OwnerStep
  <2>3. /\ numWorkers' = numWorkers /\ die' = die /\ wpc' = wpc /\ mine' = mine
    BY <2>2 DEF Begin, Post, Wait, workerVars
  <2> QED BY <2>3 DEF CeilingInv
<1>2. ASSUME NEW w \in Thread, Finish(w) PROVE CeilingInv' /\ numWorkers' = numWorkers /\ ~die'
  <2>1. /\ numWorkers' = numWorkers /\ die' = die
        /\ wpc' = [wpc EXCEPT ![w] = "counted"]
        /\ mine' = [mine EXCEPT ![w] = numDone + 1] /\ numDone' = numDone + 1
    BY <1>2 DEF Finish, CountedAs
  <2>2. InPhase /\ w \in Posted /\ w \notin Finished
    BY <1>2, FinishKeeps
  <2>3. numDone' <= numWorkers'
    <3>1. numDone = Cardinality(Finished)
      BY <2>2 DEF PoolInv, PlaceInv
    <3>2. /\ Cardinality(Finished) < Cardinality(Posted)
          /\ Cardinality(Posted) <= posted /\ posted <= numWorkers
      <4>1. Cardinality(Posted) \in Nat
        BY PostedThreads, FS_CardinalityType
      <4> QED BY <2>2, <4>1, PostedThreads
    <3>3. Cardinality(Finished) \in Nat /\ Cardinality(Posted) \in Nat
      BY PostedThreads, FS_CardinalityType
    <3>4. posted \in Nat /\ numWorkers \in Nat
      BY DEF PoolInv, PoolTypeOK
    <3> QED BY <2>1, <3>1, <3>2, <3>3, <3>4
  <2>4. numDone \in Nat /\ wpc \in [Thread -> WorkerPlace] /\ mine \in [Thread -> Nat]
        /\ numWorkers \in Nat
    BY DEF PoolInv, PoolTypeOK
  <2> QED BY <2>1, <2>3, <2>4 DEF CeilingInv
<1>3. ASSUME NEW w \in Thread, WorkerStep(w)
      PROVE  CeilingInv' /\ numWorkers' = numWorkers /\ ~die'
  <2>1. Wake(w) \/ Compare(w)
    BY <1>3, NoneLeaving DEF WorkerStep
  <2>2. /\ numWorkers' = numWorkers /\ die' = die /\ mine' = mine
        /\ wpc' = [wpc EXCEPT ![w] = "working"] \/ wpc' = [wpc EXCEPT ![w] = "parked"]
    BY <2>1 DEF Wake, Compare
  <2>3. wpc \in [Thread -> WorkerPlace]
    BY DEF PoolInv, PoolTypeOK
  <2> QED BY <2>2, <2>3 DEF CeilingInv
<1> QED BY <1>1, <1>2, <1>3
-----------------------------------------------------------------------------
(* The steps. *)

\* The constructor and a job that has not started.
LEMMA InitMapReduce == Init => MapReduceInv
<1> SUFFICES ASSUME Init PROVE MapReduceInv
  OBVIOUS
<1>1. PoolInit /\ PoolInv
  BY InitPool DEF Init
<1>2. mpc = "start" /\ first = TRUE /\ stage = "none"
  BY DEF Init
<1>3. SizeInv /\ CeilingInv /\ UnusedInv
  BY <1>1, <1>2 DEF PoolInit, SizeInv, CeilingInv, UnusedInv
<1> QED BY <1>1, <1>2, <1>3 DEF MapReduceInv

\* A chunk's phase has the size of the first chunk's, which is any size.
LEMMA ChunkPhase ==
  ASSUME MapReduceInv, stage # "merge", mpc = "chunks", NEW lines, RunMappers(lines)
  PROVE  /\ stage' = "map" /\ first' = FALSE
         /\ numWorkers' = Smaller(numMapTasks', NumThreads)
         /\ \E n \in 0 .. NumThreads : SafeSize(n) /\ Set(n)
         /\ PoolInv' /\ ~die' /\ CeilingInv' /\ UnusedInv'
<1> DEFINE n == Smaller(TaskCount(lines), NumThreads)
<1>1. /\ numMapTasks' = TaskCount(lines) /\ first' = FALSE /\ stage' = "map"
      /\ Set(n)
  BY DEF RunMappers, StartWorkers
<1>2. /\ n \in 0 .. NumThreads /\ owner = "idle" /\ numWorkers' = n /\ die' = die
  BY <1>1 DEF Set
<1>3. PoolInv /\ ~die /\ CeilingInv /\ UnusedInv /\ numWorkers \in Nat
  BY DEF MapReduceInv, SizeInv, PoolInv, PoolTypeOK
<1>4. first \/ n = numWorkers
  BY DEF MapReduceInv, SizeInv, TaskCount
<1> HIDE DEF n
<1>5. SafeSize(n)
  <2>1. CASE first
    BY <1>3, <2>1, UnusedIsSafe
  <2>2. CASE n = numWorkers
    BY <1>2, <1>3, <2>2, LargerIsSafe
  <2> QED BY <1>4, <2>1, <2>2
<1>6. PoolInv'
  BY <1>1, <1>2, <1>3, <1>5, SetKeeps
<1>7. CeilingInv'
  BY <1>1, <1>2, <1>3, <1>4, SetKeepsCeiling DEF UnusedInv
<1>8. numWorkers' = Smaller(numMapTasks', NumThreads)
  BY <1>1, <1>2 DEF n
<1> QED BY <1>1, <1>2, <1>3, <1>5, <1>6, <1>7, <1>8 DEF UnusedInv

\* A phase of all threads is no smaller than any other.
LEMMA FullPhase ==
  ASSUME MapReduceInv, stage # "merge", mpc \in {"mapping", "reducing"},
         NEW function, NEW tasks, StartWorkers(function, tasks, NumThreads, NumThreads)
  PROVE  /\ stage' = function /\ numWorkers' = NumThreads
         /\ \E n \in 0 .. NumThreads : SafeSize(n) /\ Set(n)
         /\ PoolInv' /\ ~die' /\ CeilingInv' /\ ~first
<1>1. stage' = function /\ Set(NumThreads)
  BY DEF StartWorkers, Smaller
<1>2. NumThreads \in 0 .. NumThreads /\ owner = "idle" /\ numWorkers' = NumThreads /\ die' = die
  BY <1>1 DEF Set
<1>3. /\ PoolInv /\ ~die /\ CeilingInv /\ ~first
      /\ numWorkers \in Nat /\ numWorkers <= NumThreads
  BY DEF MapReduceInv, SizeInv, PoolInv, PoolTypeOK
<1>4. SafeSize(NumThreads)
  BY <1>2, <1>3, LargerIsSafe
<1>5. PoolInv'
  BY <1>1, <1>2, <1>3, <1>4, SetKeeps
<1>6. CeilingInv'
  BY <1>1, <1>2, <1>3, SetKeepsCeiling
<1> QED BY <1>1, <1>2, <1>3, <1>4, <1>5, <1>6

\* The steps of the pool inside a phase.
LEMMA PhaseStep ==
  ASSUME MapReduceInv, stage # "merge",
         OwnerStep \/ \E w \in Thread : WorkerStep(w) \/ Finish(w),
         mpc' = mpc, first' = first, stage' = stage, job' = job, numMapTasks' = numMapTasks
  PROVE  MapReduceInv' /\ PoolNext
<1>1. PoolNext
  BY DEF PoolNext
<1>2. PoolInv'
  BY <1>1, NextPool DEF MapReduceInv
<1>3. CASE die
  <2>1. mpc = "over" /\ die'
    BY <1>3, ShutdownKeeps DEF MapReduceInv, SizeInv, OwnerStep, Begin, Post, Wait,
       PoolInv, OwnerInv
  <2> QED BY <1>1, <1>2, <2>1 DEF MapReduceInv, SizeInv
<1>4. CASE ~die
  <2>1. CeilingInv' /\ numWorkers' = numWorkers /\ ~die'
    BY <1>4, StepKeepsCeiling DEF MapReduceInv
  <2>2. ~first
    <3>1. SUFFICES ASSUME first PROVE FALSE
      OBVIOUS
    <3>2. owner = "idle" /\ \A w \in Thread : wpc[w] = "parked" /\ semRun[w] = 0
      BY <1>4, <3>1 DEF MapReduceInv, UnusedInv, PoolInv, ThreadInv, Busy, Posted, InPhase,
         PoolTypeOK
    <3> QED BY <3>2 DEF OwnerStep, Begin, Post, Wait, Kill, Join, WorkerStep, Finish,
            Wake, Compare, Leave, Exit
  <2>3. SizeInv'
    BY <1>4, <2>1, <2>2 DEF MapReduceInv, SizeInv
  <2> QED BY <1>1, <1>2, <1>4, <2>1, <2>2, <2>3 DEF MapReduceInv, UnusedInv
<1> QED BY <1>3, <1>4

\* The steps that leave the pool alone, or all but: until the merge no state
\* of the invariant but the master's place changes.
LEMMA MasterStaysSafe ==
  ASSUME MapReduceInv, stage # "merge", UNCHANGED poolVars, stage' = stage, job' = job,
         first' = first, numMapTasks' = numMapTasks,
         \/ mpc' = mpc
         \/ mpc = "start" /\ mpc' = "chunks"
         \/ mpc = "joining" /\ mpc' = "chunks"
         \/ mpc' = "done" /\ mpc \in {"reducing", "merging"}
  PROVE  MapReduceInv'
<1>1. PoolInv'
  BY NextPool DEF MapReduceInv
<1>2. SizeInv'
  BY DEF MapReduceInv, SizeInv, poolVars
<1>3. ~die' => CeilingInv' /\ UnusedInv'
  BY DEF MapReduceInv, CeilingInv, UnusedInv, poolVars, ownerVars, workerVars
<1> QED BY <1>1, <1>2, <1>3 DEF MapReduceInv

\* Every step keeps the invariant, and until the merge every step is one of
\* PoolSpec or does not touch the pool.
LEMMA NextMapReduce ==
  ASSUME MapReduceInv, [Next]_vars
  PROVE  MapReduceInv' /\ (~job.sorted => PoolNext \/ UNCHANGED poolVars)
<1> USE DEF masterVars, ingestVars, taskVars, jobVars
<1>1. CASE stage = "merge"
  <2>1. job.sorted /\ mpc \in {"merging", "done", "over"}
    BY <1>1 DEF MapReduceInv
  <2>2. CASE Merge
    BY <1>1, <2>1, <2>2 DEF Merge, StartWorkers, MapReduceInv
  <2>3. CASE Result \/ Delete
    BY <1>1, <2>1, <2>3 DEF Result, Delete, MapReduceInv
  <2>4. CASE OwnerStep /\ UNCHANGED jobVars
    BY <1>1, <2>1, <2>4 DEF MapReduceInv
  <2>5. CASE Read \/ \E w \in Thread : ThreadStep(w)
    <3>1. UNCHANGED masterVars
      BY <2>5 DEF Read, ThreadStep, Dequeue, Perform, Return
    <3> QED BY <1>1, <2>1, <3>1 DEF MapReduceInv
  <2>6. CASE UNCHANGED vars
    BY <1>1, <2>1, <2>6 DEF vars, MapReduceInv
  <2>7. ~Start /\ ~MapAndReadAhead /\ ~JoinReader /\ ~MapLastChunk /\ ~Reduce /\ ~Sort
    BY <2>1 DEF Start, MapAndReadAhead, JoinReader, MapLastChunk, Reduce, Sort
  <2> QED BY <2>2, <2>3, <2>4, <2>5, <2>6, <2>7 DEF Next, MasterStep
<1>2. CASE stage # "merge"
  <2>1. CASE Start \/ JoinReader \/ Result
    <3>1. UNCHANGED poolVars
      BY <2>1 DEF Start, JoinReader, Result
    <3>2. MapReduceInv'
      BY <1>2, <2>1, <3>1, MasterStaysSafe DEF Start, JoinReader, Result
    <3> QED BY <3>1, <3>2
  <2>2. ASSUME MapAndReadAhead \/ MapLastChunk
        PROVE  MapReduceInv' /\ PoolNext
    <3>1. /\ mpc = "chunks" /\ RunMappers(chunk.lines) /\ job' = job
          /\ mpc' \in {"joining", "mapping"}
      BY <2>2 DEF MapAndReadAhead, MapLastChunk
    <3>2. /\ stage' = "map" /\ first' = FALSE
          /\ numWorkers' = Smaller(numMapTasks', NumThreads)
          /\ \E n \in 0 .. NumThreads : SafeSize(n) /\ Set(n)
          /\ PoolInv' /\ ~die' /\ CeilingInv' /\ UnusedInv'
      BY <1>2, <3>1, ChunkPhase
    <3>3. SizeInv'
      BY <3>1, <3>2 DEF SizeInv
    <3>4. PoolNext
      BY <3>2 DEF PoolNext
    <3> QED BY <3>1, <3>2, <3>3, <3>4 DEF MapReduceInv
  <2>3. ASSUME Reduce \/ Sort
        PROVE  MapReduceInv' /\ PoolNext
    <3>1. /\ mpc \in {"mapping", "reducing"} /\ job' = job /\ first' = first
          /\ \/ mpc' = "reducing"
             \/ mpc' = "merging" /\ job.sorted
          /\ \E function \in {"reduce", "sort"} :
               StartWorkers(function, TasksNamed(NumThreads), NumThreads, NumThreads)
      BY <2>3 DEF Reduce, Sort
    <3>2. /\ stage' \in {"reduce", "sort"} /\ numWorkers' = NumThreads
          /\ \E n \in 0 .. NumThreads : SafeSize(n) /\ Set(n)
          /\ PoolInv' /\ ~die' /\ CeilingInv' /\ ~first
      BY <1>2, <3>1, FullPhase
    <3>3. SizeInv' /\ UnusedInv'
      BY <3>1, <3>2 DEF SizeInv, UnusedInv
    <3>4. PoolNext
      BY <3>2 DEF PoolNext
    <3> QED BY <3>1, <3>2, <3>3, <3>4 DEF MapReduceInv
  <2>4. CASE Merge
    BY <2>4 DEF Merge, StartWorkers, MapReduceInv
  <2>5. CASE Delete
    <3>1. PoolInv' /\ PoolNext /\ die' /\ mpc' = "over" /\ stage' = stage /\ job' = job
      BY <1>2, <2>5, DestroyKeeps DEF Delete, Destroy, MapReduceInv, PoolNext
    <3> QED BY <1>2, <3>1 DEF MapReduceInv, SizeInv
  <2>6. CASE OwnerStep /\ UNCHANGED jobVars
    BY <1>2, <2>6, PhaseStep
  <2>7. CASE \E w \in Thread : Return(w) \/ (WorkerStep(w) /\ UNCHANGED jobVars)
    <3>1. /\ \E w \in Thread : WorkerStep(w) \/ Finish(w)
          /\ UNCHANGED masterVars
      BY <2>7 DEF Return
    <3> QED BY <1>2, <3>1, PhaseStep
  <2>8. CASE Read \/ (\E w \in Thread : Dequeue(w) \/ Perform(w)) \/ UNCHANGED vars
    <3>1. UNCHANGED <<poolVars, masterVars>>
      BY <2>8 DEF Read, Dequeue, Perform, vars
    <3>2. MapReduceInv'
      BY <1>2, <3>1, MasterStaysSafe
    <3> QED BY <3>1, <3>2
  <2> QED BY <2>1, <2>2, <2>3, <2>4, <2>5, <2>6, <2>7, <2>8 DEF Next, MasterStep, ThreadStep
<1> QED BY <1>1, <1>2

-----------------------------------------------------------------------------
(* The theorems. *)

\* start_workers returns when the threads of its phase have run the function:
\* "Barrier, wait for all threads to finish", for all jobs, numbers of threads
\* and ways to read the input, until MapReduceSort merges in parallel.
THEOREM PhaseBarrierHolds == Spec => []PhaseBarrier
<1>1. MapReduceInv => PhaseBarrier
  BY BarrierHolds DEF MapReduceInv, PhaseBarrier
<1> QED BY <1>1, InitMapReduce, NextMapReduce, PTL DEF Spec

\* A job that is not sorted never sets a size that a late thread would take
\* for its own place: each of its steps is one PoolSpec allows.
THEOREM SafePhasesHold == Spec => SafePhases
<1>1. MapReduceInv /\ [Next]_vars => [~job.sorted => PoolNext \/ UNCHANGED poolVars]_vars
  BY NextMapReduce
<1> QED BY <1>1, InitMapReduce, NextMapReduce, PTL DEF Spec, SafePhases

\* So the pool of such jobs implements Phases, whose steps MapReduce's master
\* counts on.
THEOREM JobsKeepPhases ==
  ASSUME \A j \in Jobs : ~j.sorted
  PROVE  Spec => PoolImplementsPhases
<1> DEFINE Inv == MapReduceInv /\ ~job.sorted
<1>1. Init => Ph!Init /\ Inv
  BY InitMapReduce DEF Init, PoolInit, InPhase, Unfinished, Ph!Init
<1>2. Inv /\ [Next]_vars => Inv' /\ [Ph!Next]_(Ph!vars)
  <2> SUFFICES ASSUME MapReduceInv, ~job.sorted, [Next]_vars
               PROVE  MapReduceInv' /\ ~job'.sorted /\ [Ph!Next]_(Ph!vars)
    OBVIOUS
  <2>1. [PoolNext]_poolVars /\ PoolInv /\ MapReduceInv'
    BY NextMapReduce DEF MapReduceInv
  <2>2. job' = job
    BY DEF Next, MasterStep, ThreadStep, Start, MapAndReadAhead, JoinReader, MapLastChunk,
       Reduce, Sort, Merge, Result, Delete, Read, Dequeue, Perform, Return,
       vars, jobVars, masterVars
  <2> QED BY <2>1, <2>2, StepRefines
<1> HIDE DEF Inv
<1> QED BY <1>1, <1>2, PTL DEF Spec, PoolImplementsPhases, Ph!Spec

-----------------------------------------------------------------------------
(* The MCS lock. *)

Waiting == {"mark", "link", "spin"}

\* The threads of the queue, each once, are those past the exchange, and the head is the last.
QueueInv ==
  /\ \A i, j \in 1..Len(lockQueue) : lockQueue[i] = lockQueue[j] => i = j
  /\ \A t \in Lockers :
       (\E i \in 1..Len(lockQueue) : lockQueue[i] = t) <=> lockPc[t] \notin {"idle", "swap"}
  /\ Len(lockQueue) = 0 => lockHead = NoLocker
  /\ Len(lockQueue) # 0 => lockHead = lockQueue[Len(lockQueue)]

\* A thread behind another waits, its word is set before the other can see it.
BehindInv ==
  \A i \in 2..Len(lockQueue) :
    /\ lockPc[lockQueue[i]] \in Waiting
    /\ prevOf[lockQueue[i]] = lockQueue[i - 1]
    /\ lockPc[lockQueue[i]] # "mark" => locked[lockQueue[i]] = 1
    /\ lockPc[lockQueue[i]] = "spin" => lockNext[lockQueue[i - 1]] = lockQueue[i]
    /\ lockPc[lockQueue[i]] # "spin" => lockNext[lockQueue[i - 1]] = NoLocker

\* The first thread has the lock or will find its word clear; the last has no successor.
EndsInv ==
  Len(lockQueue) # 0 =>
    /\ lockPc[lockQueue[1]] \notin {"mark", "link"}
    /\ locked[lockQueue[1]] = 0
    /\ lockNext[lockQueue[Len(lockQueue)]] = NoLocker

\* What a thread's own words are outside the queue and before it passes the lock on.
OwnInv ==
  \A t \in Lockers :
    /\ lockPc[t] \in {"idle", "swap"} => locked[t] = 0
    /\ lockPc[t] = "swap" => lockNext[t] = NoLocker
    /\ lockPc[t] = "pass" => lockNext[t] # NoLocker

LockInv == LockTypeOK /\ QueueInv /\ BehindInv /\ EndsInv /\ OwnInv

-----------------------------------------------------------------------------
(* Positions of the queue. *)

\* Each thread of the queue is one of the threads.
LEMMA QueueOfLockers ==
  ASSUME LockTypeOK, NEW i \in 1..Len(lockQueue)
  PROVE  lockQueue[i] \in Lockers
BY DEF LockTypeOK

\* No thread is in the queue twice.
LEMMA EachOnce ==
  ASSUME LockInv, NEW i \in 1..Len(lockQueue), NEW j \in 1..Len(lockQueue),
         lockQueue[i] = lockQueue[j]
  PROVE  i = j
BY DEF LockInv, QueueInv

\* A thread that has the lock, or whose word is clear after the exchange, is the first.
LEMMA HolderIsFirst ==
  ASSUME LockInv, NEW t \in Lockers, HasLock(t)
  PROVE  Len(lockQueue) # 0 /\ lockQueue[1] = t
<1>1. PICK i \in 1..Len(lockQueue) : lockQueue[i] = t
  BY DEF LockInv, QueueInv, HasLock
<1>2. i \notin 2..Len(lockQueue)
  BY <1>1 DEF LockInv, BehindInv, Waiting, HasLock
<1> QED BY <1>1, <1>2 DEF LockInv, LockTypeOK

-----------------------------------------------------------------------------
(* The steps. *)

\* A thread outside the queue clears its successor.
LEMMA AcquireKeeps ==
  ASSUME LockInv, NEW t \in Lockers, Acquire(t)
  PROVE  LockInv'
<1> USE DEF LockInv, LockTypeOK
<1>1. LockTypeOK'
  BY DEF Acquire, LockPlaces
<1>2. QueueInv'
  BY DEF Acquire, QueueInv
<1>3. BehindInv'
  BY DEF Acquire, BehindInv, Waiting, QueueInv
<1>4. EndsInv'
  BY DEF Acquire, EndsInv, QueueInv
<1>5. OwnInv'
  BY DEF Acquire, OwnInv, QueueInv
<1> QED BY <1>1, <1>2, <1>3, <1>4, <1>5

\* The word is set while the predecessor cannot see the thread.
LEMMA MarkKeeps ==
  ASSUME LockInv, NEW t \in Lockers, Mark(t)
  PROVE  LockInv'
<1> USE DEF LockInv, LockTypeOK
<1>1. LockTypeOK'
  BY DEF Mark, LockPlaces
<1>2. QueueInv'
  BY DEF Mark, QueueInv
<1>3. BehindInv'
  BY DEF Mark, BehindInv, Waiting, QueueInv
<1>4. EndsInv'
  BY DEF Mark, EndsInv, QueueInv
<1>5. OwnInv'
  BY DEF Mark, OwnInv, QueueInv
<1> QED BY <1>1, <1>2, <1>3, <1>4, <1>5

\* The predecessor, which is still in the queue, learns its successor.
LEMMA LinkKeeps ==
  ASSUME LockInv, NEW t \in Lockers, Link(t)
  PROVE  LockInv'
<1>1. LockTypeOK'
  <2>1. prevOf[t] \in Lockers \union {NoLocker}
    BY DEF LockInv, LockTypeOK
  <2> QED BY <2>1 DEF Link, LockInv, LockTypeOK, LockPlaces
<1>2. PICK n \in 2..Len(lockQueue) : lockQueue[n] = t
  BY DEF Link, LockInv, LockTypeOK, QueueInv, EndsInv
<1>3. prevOf[t] = lockQueue[n - 1] /\ lockQueue[n - 1] \in Lockers
  BY <1>2, QueueOfLockers DEF LockInv, LockTypeOK, BehindInv
<1>4. /\ lockNext' = [lockNext EXCEPT ![lockQueue[n - 1]] = t]
      /\ lockPc' = [lockPc EXCEPT ![t] = "spin"]
      /\ UNCHANGED <<lockHead, locked, prevOf, lockQueue>>
  BY <1>3 DEF Link
<1> USE DEF LockInv, LockTypeOK
<1>5. QueueInv'
  BY DEF Link, QueueInv
<1>6. BehindInv'
  <2> SUFFICES ASSUME NEW i \in 2..Len(lockQueue)
               PROVE  /\ lockPc'[lockQueue[i]] \in Waiting
                      /\ prevOf[lockQueue[i]] = lockQueue[i - 1]
                      /\ lockPc'[lockQueue[i]] # "mark" => locked[lockQueue[i]] = 1
                      /\ lockPc'[lockQueue[i]] = "spin"
                           => lockNext'[lockQueue[i - 1]] = lockQueue[i]
                      /\ lockPc'[lockQueue[i]] # "spin"
                           => lockNext'[lockQueue[i - 1]] = NoLocker
    BY <1>4 DEF BehindInv
  <2>1. lockQueue[i] \in Lockers /\ lockQueue[i - 1] \in Lockers
    BY QueueOfLockers
  <2>2. CASE i = n
    BY <1>2, <1>3, <1>4, <2>1, <2>2, SMTT(20) DEF BehindInv, Waiting, Link
  <2>3. CASE i # n
    <3>1. lockQueue[i] # t /\ lockQueue[i - 1] # lockQueue[n - 1]
      BY <1>2, <2>3 DEF QueueInv
    <3> QED BY <1>4, <2>1, <3>1, SMTT(20) DEF BehindInv
  <2> QED BY <2>2, <2>3
<1>7. EndsInv'
  <2>1. lockQueue[Len(lockQueue)] # lockQueue[n - 1]
    BY <1>2 DEF QueueInv
  <2> QED BY <1>2, <1>3, <1>4, <2>1 DEF EndsInv
<1>8. OwnInv'
  <2>1. lockPc[lockQueue[n - 1]] \notin {"idle", "swap"}
    BY <1>2, <1>3 DEF QueueInv
  <2>2. t # NoLocker
    BY NoLockerAssumption
  <2> QED BY <1>3, <1>4, <2>1, <2>2 DEF OwnInv
<1> QED BY <1>1, <1>5, <1>6, <1>7, <1>8

\* Only the first of the queue finds its word clear.
LEMMA SpinKeeps ==
  ASSUME LockInv, NEW t \in Lockers, Spin(t)
  PROVE  LockInv'
<1> USE DEF LockInv, LockTypeOK
<1>1. LockTypeOK'
  BY DEF Spin, LockPlaces
<1>2. QueueInv'
  BY DEF Spin, QueueInv
<1>3. BehindInv'
  BY DEF Spin, BehindInv, Waiting, QueueInv
<1>4. EndsInv'
  BY DEF Spin, EndsInv, QueueInv
<1>5. OwnInv'
  BY DEF Spin, OwnInv, QueueInv
<1> QED BY <1>1, <1>2, <1>3, <1>4, <1>5

\* The holder reads its successor.
LEMMA ReleaseKeeps ==
  ASSUME LockInv, NEW t \in Lockers, Release(t)
  PROVE  LockInv'
<1> USE DEF LockInv, LockTypeOK
<1>1. LockTypeOK'
  BY DEF Release, LockPlaces
<1>2. QueueInv'
  BY DEF Release, QueueInv
<1>3. BehindInv'
  BY DEF Release, BehindInv, Waiting, QueueInv
<1>4. EndsInv'
  BY DEF Release, EndsInv, QueueInv
<1>5. OwnInv'
  BY DEF Release, OwnInv, QueueInv
<1> QED BY <1>1, <1>2, <1>3, <1>4, <1>5

\* The holder sees the successor that came meanwhile.
LEMMA AwaitNextKeeps ==
  ASSUME LockInv, NEW t \in Lockers, AwaitNext(t)
  PROVE  LockInv'
<1> USE DEF LockInv, LockTypeOK
<1>1. LockTypeOK'
  BY DEF AwaitNext, LockPlaces
<1>2. QueueInv'
  BY DEF AwaitNext, QueueInv
<1>3. BehindInv'
  BY DEF AwaitNext, BehindInv, Waiting, QueueInv
<1>4. EndsInv'
  BY DEF AwaitNext, EndsInv, QueueInv
<1>5. OwnInv'
  BY DEF AwaitNext, OwnInv, QueueInv
<1> QED BY <1>1, <1>2, <1>3, <1>4, <1>5

\* The exchange puts the thread at the end, behind the old head if there is one.
LEMMA SwapKeeps ==
  ASSUME LockInv, NEW t \in Lockers, Swap(t)
  PROVE  LockInv'
<1> DEFINE n == Len(lockQueue)
<1> USE DEF LockInv, LockTypeOK
<1>1. LockTypeOK'
  BY DEF Swap, LockPlaces
<1>2. /\ n \in Nat /\ Len(lockQueue') = n + 1 /\ lockQueue'[n + 1] = t
      /\ \A i \in 1..n : lockQueue'[i] = lockQueue[i] /\ lockQueue[i] \in Lockers
                          /\ lockQueue[i] # t
  BY DEF Swap, QueueInv
<1>3. lockHead = NoLocker <=> n = 0
  BY <1>2, NoLockerAssumption DEF QueueInv
<1>4. QueueInv'
  BY <1>2 DEF Swap, QueueInv
<1>5. BehindInv'
  <2> SUFFICES ASSUME NEW i \in 2..(n + 1)
               PROVE  /\ lockPc'[lockQueue'[i]] \in Waiting
                      /\ prevOf'[lockQueue'[i]] = lockQueue'[i - 1]
                      /\ lockPc'[lockQueue'[i]] # "mark" => locked'[lockQueue'[i]] = 1
                      /\ lockPc'[lockQueue'[i]] = "spin"
                           => lockNext'[lockQueue'[i - 1]] = lockQueue'[i]
                      /\ lockPc'[lockQueue'[i]] # "spin"
                           => lockNext'[lockQueue'[i - 1]] = NoLocker
    BY <1>2 DEF BehindInv
  <2>1. CASE i = n + 1
    <3>1. lockPc'[t] = "mark" /\ prevOf'[t] = lockQueue[n]
      BY <1>2, <1>3, <2>1 DEF Swap, QueueInv
    <3>2. lockNext'[lockQueue[n]] = NoLocker
      BY <1>2, <2>1 DEF Swap, EndsInv
    <3> QED BY <1>2, <2>1, <3>1, <3>2 DEF Waiting
  <2>2. CASE i # n + 1
    BY <1>2, <2>2 DEF Swap, BehindInv
  <2> QED BY <2>1, <2>2
<1>6. EndsInv'
  <2>1. lockNext'[t] = NoLocker
    BY DEF Swap, OwnInv
  <2>2. CASE n = 0
    BY <1>2, <1>3, <2>1, <2>2 DEF Swap, EndsInv, OwnInv
  <2>3. CASE n # 0
    BY <1>2, <2>1, <2>3 DEF Swap, EndsInv
  <2> QED BY <2>2, <2>3
<1>7. OwnInv'
  BY DEF Swap, OwnInv
<1> QED BY <1>1, <1>4, <1>5, <1>6, <1>7

\* The head is cleared only by a thread that is alone in the queue.
LEMMA SwapBackKeeps ==
  ASSUME LockInv, NEW t \in Lockers, SwapBack(t)
  PROVE  LockInv'
<1> USE DEF LockInv, LockTypeOK
<1>1. Len(lockQueue) # 0 /\ lockQueue[1] = t
  BY HolderIsFirst DEF SwapBack, HasLock
<1>2. CASE Empties(t)
  <2>1. lockQueue[Len(lockQueue)] = t
    BY <1>1, <1>2 DEF Empties, QueueInv
  <2>2. Len(lockQueue) = 1
    <3>1. 1 \in 1..Len(lockQueue) /\ Len(lockQueue) \in 1..Len(lockQueue)
      BY <1>1
    <3>2. 1 = Len(lockQueue)
      BY <1>1, <2>1, <3>1, EachOnce
    <3> QED BY <3>2
  <2>3. lockQueue' \in Seq(Lockers) /\ Len(lockQueue') = 0
        /\ lockHead' = NoLocker /\ lockPc' = [lockPc EXCEPT ![t] = "idle"]
        /\ UNCHANGED <<lockNext, locked, prevOf>>
    <3>1. lockQueue' = Tail(lockQueue)
      BY <1>2 DEF SwapBack
    <3>2. Tail(lockQueue) \in Seq(Lockers) /\ Len(Tail(lockQueue)) = Len(lockQueue) - 1
      BY <1>1
    <3> QED BY <1>2, <2>2, <3>1, <3>2 DEF SwapBack
  <2>4. LockTypeOK'
    BY <2>3 DEF LockPlaces
  <2>5. QueueInv'
    BY <1>1, <2>2, <2>3 DEF QueueInv
  <2>6. BehindInv' /\ EndsInv'
    BY <2>3 DEF BehindInv, EndsInv
  <2>7. OwnInv'
    BY <1>1, <2>3 DEF OwnInv, EndsInv
  <2> QED BY <2>4, <2>5, <2>6, <2>7
<1>3. CASE ~Empties(t)
  <2>1. lockPc' = [lockPc EXCEPT ![t] = "awaitNext"]
        /\ UNCHANGED <<lockHead, lockQueue, lockNext, locked, prevOf>>
    BY <1>3 DEF SwapBack
  <2>2. LockTypeOK'
    BY <2>1 DEF LockPlaces
  <2>3. QueueInv'
    BY <2>1 DEF QueueInv, SwapBack
  <2>4. BehindInv'
    BY <2>1 DEF BehindInv, SwapBack, Waiting
  <2>5. EndsInv'
    BY <2>1 DEF EndsInv
  <2>6. OwnInv'
    BY <2>1 DEF OwnInv
  <2> QED BY <2>2, <2>3, <2>4, <2>5, <2>6
<1> QED BY <1>2, <1>3

\* The holder clears the word of the second, which becomes the first.
LEMMA PassKeeps ==
  ASSUME LockInv, NEW t \in Lockers, Pass(t)
  PROVE  LockInv'
<1> DEFINE q == lockQueue
<1> USE DEF LockInv, LockTypeOK
<1>1. Len(q) # 0 /\ q[1] = t
  BY HolderIsFirst DEF Pass, HasLock
<1>2. Len(q) >= 2
  BY <1>1 DEF Pass, EndsInv, OwnInv
<1>3. q[2] \in Lockers /\ q[2] # t /\ lockPc[q[2]] = "spin" /\ lockNext[t] = q[2]
  BY <1>1, <1>2 DEF BehindInv, QueueInv, OwnInv, Pass
<1>4. /\ locked' = [locked EXCEPT ![q[2]] = 0]
      /\ lockPc' = [lockPc EXCEPT ![t] = "idle"]
      /\ UNCHANGED <<lockHead, lockNext, prevOf>>
  BY <1>3 DEF Pass
<1>5. /\ q' \in Seq(Lockers) /\ Len(q') = Len(q) - 1
      /\ \A i \in 1..Len(q') : q'[i] = q[i + 1] /\ q[i + 1] # t
  BY <1>1, <1>2 DEF Pass, QueueInv
<1>6. LockTypeOK'
  BY <1>4, <1>5 DEF LockPlaces
<1>7. QueueInv'
  <2>1. ASSUME NEW i \in 1..Len(q'), NEW j \in 1..Len(q'), q'[i] = q'[j]
        PROVE  i = j
    <3>1. i + 1 \in 1..Len(q) /\ j + 1 \in 1..Len(q) /\ q[i + 1] = q[j + 1]
      BY <1>2, <1>5, <2>1
    <3>2. i + 1 = j + 1
      BY <3>1 DEF QueueInv
    <3> QED BY <3>2
  <2>2. \A u \in Lockers : (\E i \in 1..Len(q') : q'[i] = u)
                              <=> (\E i \in 1..Len(q) : q[i] = u) /\ u # t
    <3> TAKE u \in Lockers
    <3>1. ASSUME NEW i \in 1..Len(q), q[i] = u, u # t
          PROVE  \E j \in 1..Len(q') : q'[j] = u
      <4>1. i - 1 \in 1..Len(q') /\ q'[i - 1] = u
        BY <1>1, <1>2, <1>5, <3>1
      <4> QED BY <4>1
    <3>2. ASSUME NEW i \in 1..Len(q'), q'[i] = u
          PROVE  (\E j \in 1..Len(q) : q[j] = u) /\ u # t
      <4>1. i + 1 \in 1..Len(q) /\ q[i + 1] = u /\ u # t
        BY <1>2, <1>5, <3>2
      <4> QED BY <4>1
    <3> QED BY <3>1, <3>2
  <2>3. Len(q') # 0 /\ q'[Len(q')] = q[Len(q)]
    BY <1>2, <1>5
  <2>4. \A u \in Lockers : (\E i \in 1..Len(q') : q'[i] = u)
                              <=> lockPc'[u] \notin {"idle", "swap"}
    BY <1>4, <2>2 DEF QueueInv, Pass
  <2> QED BY <1>2, <1>4, <2>1, <2>3, <2>4 DEF QueueInv
<1>8. BehindInv'
  <2> SUFFICES ASSUME NEW i \in 2..Len(q')
               PROVE  /\ lockPc'[q'[i]] \in Waiting
                      /\ prevOf[q'[i]] = q'[i - 1]
                      /\ lockPc'[q'[i]] # "mark" => locked'[q'[i]] = 1
                      /\ lockPc'[q'[i]] = "spin" => lockNext[q'[i - 1]] = q'[i]
                      /\ lockPc'[q'[i]] # "spin" => lockNext[q'[i - 1]] = NoLocker
    BY <1>4 DEF BehindInv
  <2>1. /\ i + 1 \in 2..Len(q) /\ q'[i] = q[i + 1] /\ q'[i - 1] = q[i]
        /\ q[i + 1] \in Lockers /\ q[i + 1] # t /\ q[i + 1] # q[2]
    <3>1. /\ i + 1 \in 3..Len(q) /\ i \in 1..Len(q') /\ i - 1 \in 1..Len(q')
          /\ (i - 1) + 1 = i
      BY <1>2, <1>5
    <3>2. q'[i] = q[i + 1] /\ q'[i - 1] = q[i] /\ q[i + 1] # t
      BY <1>5, <3>1
    <3>3. q[i + 1] # q[2]
      <4>1. 2 \in 1..Len(q) /\ i + 1 \in 1..Len(q) /\ i + 1 # 2
        BY <1>2, <3>1
      <4> QED BY <4>1, EachOnce
    <3>4. q[i + 1] \in Lockers
      BY <3>1, QueueOfLockers
    <3> QED BY <3>1, <3>2, <3>3, <3>4
  <2>2. /\ lockPc[q[i + 1]] \in Waiting
        /\ prevOf[q[i + 1]] = q[i]
        /\ lockPc[q[i + 1]] # "mark" => locked[q[i + 1]] = 1
        /\ lockPc[q[i + 1]] = "spin" => lockNext[q[i]] = q[i + 1]
        /\ lockPc[q[i + 1]] # "spin" => lockNext[q[i]] = NoLocker
    <3>1. (i + 1) - 1 = i
      OBVIOUS
    <3> QED BY <2>1, <3>1 DEF BehindInv
  <2> QED BY <1>4, <2>1, <2>2
<1>9. EndsInv'
  <2>1. q'[1] = q[2] /\ q'[Len(q')] = q[Len(q)]
    BY <1>2, <1>5
  <2> QED BY <1>2, <1>3, <1>4, <2>1 DEF EndsInv
<1>10. OwnInv'
  <2>1. locked[t] = 0
    BY <1>1 DEF EndsInv
  <2> QED BY <1>3, <1>4, <2>1 DEF OwnInv
<1> QED BY <1>6, <1>7, <1>8, <1>9, <1>10

-----------------------------------------------------------------------------
(* The theorems. *)

LEMMA InitLock == LockInit => LockInv
BY DEF LockInit, LockInv, LockTypeOK, LockPlaces, QueueInv, BehindInv, EndsInv, OwnInv

LEMMA NextLock == LockInv /\ [LockNextStep]_lockVars => LockInv'
<1> SUFFICES ASSUME LockInv, [LockNextStep]_lockVars
             PROVE  LockInv'
  OBVIOUS
<1>1. CASE UNCHANGED lockVars
  BY <1>1 DEF lockVars, LockInv, LockTypeOK, QueueInv, BehindInv, EndsInv, OwnInv
<1>2. ASSUME NEW t \in Lockers, LockStep(t)
      PROVE  LockInv'
  BY <1>2, AcquireKeeps, SwapKeeps, MarkKeeps, LinkKeeps, SpinKeeps, ReleaseKeeps,
     SwapBackKeeps, AwaitNextKeeps, PassKeeps DEF LockStep
<1> QED BY <1>1, <1>2 DEF LockNextStep

\* The invariant says that the holder is the first of the queue, so there is one.
LEMMA InvExcludes == LockInv => LockExclusive
<1> SUFFICES ASSUME LockInv
             PROVE  LockExclusive
  OBVIOUS
<1>1. \A t, u \in Lockers : HasLock(t) /\ HasLock(u) => t = u
  BY HolderIsFirst
<1>2. \A t \in Lockers : lockPc[t] = "idle" => locked[t] = 0
  BY DEF LockInv, OwnInv
<1> QED BY <1>1, <1>2 DEF LockExclusive

\* No two threads hold the MCS lock, and none asks for it with its word set, for any set of
\* threads: mcs_acquire and mcs_release.
THEOREM LockIsExclusive == LockSpec => []LockExclusive
<1> QED BY InitLock, NextLock, InvExcludes, PTL DEF LockSpec
=============================================================================
