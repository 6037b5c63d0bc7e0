----------------------------- MODULE ThreadPool -----------------------------
(***************************************************************************)
(* The thread pool of Phoenix++ (phoenix++/src/thread_pool.cpp).  One      *)
(* owner hands the same function to some of the pool's threads and waits   *)
(* until all of them have run it; the threads wait on a semaphore each,    *)
(* count themselves as done with an atomic increment, and the one that     *)
(* finds itself the last raises the owner's semaphore.                     *)
(*                                                                         *)
(* The client says how many workers a phase has and when the function of a *)
(* worker returns: MapReduce composes the operations with a job, PoolSpec  *)
(* with a client that asks for any sequence of phases of safe sizes.       *)
(***************************************************************************)
EXTENDS Integers, Sequences

CONSTANT NumThreads       \* num_threads

ASSUME NumThreadsAssumption == NumThreads \in Nat \ {0}

Thread == 0 .. NumThreads - 1

VARIABLES
  owner,       \* where the owner is: "idle" outside every call of the pool
  posted,      \* how many threads begin(), or the destructor, has woken
  numWorkers,  \* num_workers
  numDone,     \* num_workers_done
  semDone,     \* sem_all_workers_done
  semRun,      \* sem_run of each thread
  die,         \* the flag the destructor raises
  wpc,         \* where each thread is in loop()
  mine         \* each thread's local num_workers_done

ownerVars  == <<owner, posted>>
workerVars == <<wpc, mine>>
poolVars   == <<ownerVars, numWorkers, numDone, semDone, semRun, die, workerVars>>

OwnerPlace  == {"idle", "set", "posting", "waiting", "killing", "joining", "deleted"}
WorkerPlace == {"parked", "working", "counted", "leaving", "left", "gone"}

PoolTypeOK ==
  /\ owner \in OwnerPlace
  /\ posted \in 0 .. NumThreads
  /\ numWorkers \in 0 .. NumThreads
  /\ numDone \in Nat
  /\ semDone \in Nat
  /\ semRun \in [Thread -> Nat]
  /\ die \in BOOLEAN
  /\ wpc \in [Thread -> WorkerPlace]
  /\ mine \in [Thread -> Nat]

(* The constructor.  num_workers_done is set by the first begin(). *)
PoolInit ==
  /\ owner = "idle"
  /\ posted = 0
  /\ numWorkers = NumThreads
  /\ numDone = 0
  /\ semDone = 0
  /\ semRun = [w \in Thread |-> 0]
  /\ die = FALSE
  /\ wpc = [w \in Thread |-> "parked"]
  /\ mine = [w \in Thread |-> 0]

-----------------------------------------------------------------------------
(* The owner's calls. *)

(* set(): the size of the next phase. *)
Set(n) ==
  /\ owner = "idle"
  /\ n \in 0 .. NumThreads
  /\ owner' = "set"
  /\ numWorkers' = n
  /\ UNCHANGED <<posted, numDone, semDone, semRun, die, workerVars>>

BeginMutant ==
  /\ owner = "set"
  /\ IF numWorkers = 0
       THEN owner' = "idle" /\ UNCHANGED <<posted, numDone>>
       ELSE owner' = "posting" /\ posted' = 0 /\ UNCHANGED numDone
  /\ UNCHANGED <<numWorkers, semDone, semRun, die, workerVars>>

(* begin() up to its loop; with no worker both it and wait() return. *)
Begin ==
  /\ owner = "set"
  /\ IF numWorkers = 0
       THEN owner' = "idle" /\ UNCHANGED <<posted, numDone>>
       ELSE owner' = "posting" /\ posted' = 0 /\ numDone' = 0
  /\ UNCHANGED <<numWorkers, semDone, semRun, die, workerVars>>

ThreadOfMutant(i) == (i * NumThreads) \div (numWorkers + 1)

(* The thread that runs the i-th argument of a phase. *)
ThreadOf(i) == (i * NumThreads) \div numWorkers

(* One turn of the loop of begin(). *)
Post ==
  /\ owner = "posting"
  /\ semRun' = [semRun EXCEPT ![ThreadOf(posted)] = @ + 1]
  /\ posted' = posted + 1
  /\ owner' = IF posted' = numWorkers THEN "waiting" ELSE owner
  /\ UNCHANGED <<numWorkers, numDone, semDone, die, workerVars>>

(* wait() returns. *)
Wait ==
  /\ owner = "waiting"
  /\ semDone > 0
  /\ semDone' = semDone - 1
  /\ owner' = "idle"
  /\ UNCHANGED <<posted, numWorkers, numDone, semRun, die, workerVars>>

(* The destructor up to its loop, a turn of the loop, and its end. *)
Destroy ==
  /\ owner = "idle"
  /\ numWorkers' = NumThreads
  /\ numDone' = 0
  /\ die' = TRUE
  /\ owner' = "killing"
  /\ posted' = 0
  /\ UNCHANGED <<semDone, semRun, workerVars>>

Kill ==
  /\ owner = "killing"
  /\ semRun' = [semRun EXCEPT ![posted] = @ + 1]
  /\ posted' = posted + 1
  /\ owner' = IF posted' = NumThreads THEN "joining" ELSE owner
  /\ UNCHANGED <<numWorkers, numDone, semDone, die, workerVars>>

Join ==
  /\ owner = "joining"
  /\ semDone > 0
  /\ semDone' = semDone - 1
  /\ owner' = "deleted"
  /\ UNCHANGED <<posted, numWorkers, numDone, semRun, die, workerVars>>

OwnerStep == Begin \/ Post \/ Wait \/ Kill \/ Join

-----------------------------------------------------------------------------
(* The threads: loop(). *)

Wake(w) ==
  /\ wpc[w] = "parked"
  /\ semRun[w] > 0
  /\ semRun' = [semRun EXCEPT ![w] = @ - 1]
  /\ wpc' = [wpc EXCEPT ![w] = IF die THEN "leaving" ELSE "working"]
  /\ UNCHANGED <<ownerVars, numWorkers, numDone, semDone, die, mine>>

(* The thread function has returned: fetch_and_inc, whose result stays in  *)
(* a local variable until the comparison.                                  *)
CountedAs(w, place) ==
  /\ numDone' = numDone + 1
  /\ mine' = [mine EXCEPT ![w] = numDone + 1]
  /\ wpc' = [wpc EXCEPT ![w] = place]
  /\ UNCHANGED <<ownerVars, numWorkers, semDone, semRun, die>>

Finish(w) == wpc[w] = "working" /\ CountedAs(w, "counted")

Leave(w)  == wpc[w] = "leaving" /\ CountedAs(w, "left")

(* "Everybody's done": the comparison, a step of its own, with whatever    *)
(* num_workers is by then.                                                 *)
IsLastMutant(w) == mine[w] = numWorkers - 1

IsLast(w) == mine[w] = numWorkers

(* The pool's memory is released by the destructor, so a thread that       *)
(* compares after that reads an undefined value.                           *)
Announced(w) ==
  \/ (owner = "deleted" \/ IsLast(w)) /\ semDone' = semDone + 1
  \/ (owner = "deleted" \/ ~IsLast(w)) /\ UNCHANGED semDone

(* The comparison of a phase, and the test of die that follows it. *)
Compare(w) ==
  /\ wpc[w] = "counted"
  /\ Announced(w)
  /\ wpc' = [wpc EXCEPT ![w] = IF die THEN "leaving" ELSE "parked"]
  /\ UNCHANGED <<ownerVars, numWorkers, numDone, semRun, die, mine>>

(* The comparison on the way out. *)
Exit(w) ==
  /\ wpc[w] = "left"
  /\ Announced(w)
  /\ wpc' = [wpc EXCEPT ![w] = "gone"]
  /\ UNCHANGED <<ownerVars, numWorkers, numDone, semRun, die, mine>>

WorkerStep(w) == Wake(w) \/ Compare(w) \/ Leave(w) \/ Exit(w)

(* The threads that have, or are about to have, the function of the phase. *)
Busy(w) == semRun[w] > 0 \/ wpc[w] = "working"

-----------------------------------------------------------------------------
(* The pool with a client that asks only for phases of a safe size: none   *)
(* that a thread which has still to compare its count would take itself    *)
(* for the last of.  MapReduce checks which jobs are such clients.         *)
SafeSize(n) == \A w \in Thread : wpc[w] = "counted" => mine[w] # n

PoolNext ==
  \/ \E n \in 0 .. NumThreads : SafeSize(n) /\ Set(n)
  \/ OwnerStep
  \/ Destroy
  \/ \E w \in Thread : WorkerStep(w) \/ Finish(w)

PoolSpec == PoolInit /\ [][PoolNext]_poolVars

(* No thread runs the function of a phase, or is about to, once wait() has *)
(* returned: "Barrier, wait for all threads to finish" of start_workers.   *)
PoolBarrier == owner = "idle" => semDone = 0 /\ \A w \in Thread : ~Busy(w)

(* The phase a pool is in, seen as one of Phases: the threads begin() is   *)
(* to wake, but for those that have been woken and have counted themselves. *)
InPhase  == owner \in {"posting", "waiting"}
Posted   == IF InPhase THEN {ThreadOf(i) : i \in 0 .. posted - 1} ELSE {}
Finished == {w \in Posted : ~Busy(w)}
Chosen   == {ThreadOf(i) : i \in 0 .. numWorkers - 1}
Unfinished == IF InPhase THEN Chosen \ Finished ELSE {}

Ph == INSTANCE Phases WITH open <- InPhase, todo <- Unfinished

(* Phases do not overlap, and each thread of a phase runs it once. *)
PoolImplementsPhases == Ph!Spec
=============================================================================
