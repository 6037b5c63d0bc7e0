------------------------------ MODULE Phoenix2 ------------------------------
(***************************************************************************)
(* The runtime of Phoenix 2 (sop3_portability/src): map_reduce() called by *)
(* one master for several jobs in turn, map_reduce.c; the pool of threads  *)
(* the jobs share, tpool.c; the task queues of a job, taskQ.c; the arrays  *)
(* of keys and their values, their iterator and the combiner; the rounds   *)
(* of the merge.  The master takes part in every phase as worker 0, thread *)
(* i of the pool as worker i.                                              *)
(*                                                                         *)
(* The application emits what a unit of its data holds, a key and a value, *)
(* and its reduce function adds the values up; without one the runtime's   *)
(* identity_reduce keeps them apart.  The locks of the task queues are the *)
(* subject of McsLock.                                                     *)
(***************************************************************************)
EXTENDS Integers, Sequences, FiniteSets, SequencesExt, FiniteSetsExt, Functions

CONSTANTS
  Programs,      \* programs one of which is run: [cpus, jobs]
  MaxThreads,    \* no job has more workers
  ExtendedTasks, \* EXTENDED_NUM_REDUCE_TASKS
  DefaultTasks,  \* DEFAULT_NUM_REDUCE_TASKS
  ValsLen,       \* DEFAULT_VALS_ARR_LEN
  UnsafeSizes    \* bound: a phase begins although a thread of an earlier one, yet to
                 \* compare its count, has counted itself as this one's last

(* The arguments of map_reduce that matter here; 0 asks for the default.   *)
IsJob(j) ==
  /\ j.data \in Seq([key : Nat, val : Nat]) /\ j.chunk \in Nat \ {0}
  /\ {j.mapThreads, j.reduceThreads, j.mergeThreads, j.offset} \subseteq 0 .. MaxThreads
  /\ {j.perTask, j.combiner, j.adds, j.ownSplitter} \subseteq BOOLEAN

ASSUME ProgramsAssumption ==
  /\ \A p \in Programs :
       p.cpus \in 1 .. MaxThreads /\ \A i \in DOMAIN p.jobs : IsJob(p.jobs[i])
  /\ {MaxThreads, ExtendedTasks, DefaultTasks, ValsLen} \subseteq Nat \ {0}
  /\ UnsafeSizes \in BOOLEAN

Worker == 0 .. MaxThreads - 1

VARIABLES
  program,   \* the number of processors and the jobs still to run
  env,       \* the job's mr_env_t: the numbers of threads and of tasks
  master,    \* where the master is
  stage,     \* the task_type of the phase
  results,   \* what the jobs have returned
  fate,      \* "runs", "aborted" by an assertion, or "undefined"
  pool,      \* tpool_t: numThreads, numWorkers, numDone, semDone, die
  tpoolPosted,    \* threads tpool_begin or tpool_destroy has woken
  tpoolSemRun, tpoolPc, tpoolMine,   \* each thread's semaphore, place and local count
  queues,    \* the task queues of the job
  probe,     \* queues a worker's tq_dequeue has found empty
  task,      \* the task a worker has
  inter,     \* intermediate_vals: per map worker and reduce task
  final,     \* final_vals
  mergeVals, \* merge_vals
  merge      \* merge_len, merge_round and merge_input

masterVars == <<program, env, master, stage, results>>
tpoolVars   == <<pool, tpoolPosted, tpoolSemRun>>
placeVars  == <<tpoolPc, tpoolMine>>
dataVars   == <<inter, final, mergeVals, merge>>
workVars   == <<queues, probe, task>>
vars == <<masterVars, fate, tpoolVars, placeVars, dataVars, workVars>>

None == [id |-> -1]

Unset == <<[key |-> -1, val |-> 0]>>      \* an array malloc has left as it was

Least(a, b) == IF a < b THEN a ELSE b
Most(a, b)  == IF a > b THEN a ELSE b
Default(n, d) == IF n > 0 THEN n ELSE d

(* A failed assertion ends the program, an access out of bounds leaves it  *)
(* undefined; in the model either stops it.                                *)
Ends(how) ==
  fate' = how /\ UNCHANGED <<masterVars, tpoolVars, placeVars, dataVars, workVars>>

-----------------------------------------------------------------------------
(* Keys, values and their arrays. *)

TheOnly(S) == CHOOSE x \in S : TRUE

(* The binary search of insert_keyval and insert_keyval_merged: the last   *)
(* place whose key is not above k, 0 if there is none.                     *)
PlaceOf(arr, k) ==
  LET Search[low \in 0 .. Len(arr), high \in 1 .. Len(arr) + 1] ==
        IF high - low <= 1 THEN low
        ELSE LET next == (high + low) \div 2
             IN IF arr[next].key > k THEN Search[low, next] ELSE Search[next, high]
  IN IF arr # <<>> /\ Last(arr).key <= k THEN Len(arr) ELSE Search[0, Len(arr) + 1]

(* One more value: into the last chunk allocated, or a new one twice as    *)
(* large before it.                                                        *)
AddedVal(chunks, v) ==
  LET size == ValsLen * 2 ^ (Len(chunks) - 1)
  IN IF chunks # <<>> /\ Len(Head(chunks)) < size
       THEN [chunks EXCEPT ![1] = Append(@, v)]
       ELSE <<<<v>>>> \o chunks

InsertMergedMutant(arr, k, v) ==
  LET i == PlaceOf(arr, k)
  IN InsertAt(arr, i + 1, [key |-> k, chunks |-> AddedVal(<<>>, v)])

(* insert_keyval_merged: a key is in the array once. *)
InsertMerged(arr, k, v) ==
  LET i == PlaceOf(arr, k)
  IN IF i > 0 /\ arr[i].key = k
       THEN [arr EXCEPT ![i].chunks = AddedVal(@, v)]
       ELSE InsertAt(arr, i + 1, [key |-> k, chunks |-> AddedVal(<<>>, v)])

(* emit_intermediate for each of some units, into the array of the key's   *)
(* reduce task.                                                            *)
RECURSIVE EmitAll(_, _)
EmitAll(arrays, units) ==
  IF units = <<>> THEN arrays
  ELSE LET u == Head(units)
       IN TheOnly({EmitAll(next, Tail(units)) : next \in
            {[arrays EXCEPT ![u.key % env.tasks] = InsertMerged(@, u.key, u.val)]}})

(* insert_keyval: sorted, unless every reduce task has its own array. *)
Insert(arr, kv) ==
  LET i == PlaceOf(arr, kv.key)
  IN IF env.perTask THEN Append(arr, kv)
     ELSE IF i = 0 \/ arr[i].key < kv.key \/ i = Len(arr) THEN InsertAt(arr, i + 1, kv)
     ELSE InsertAt(arr, i, kv)

(* emit for each of some pairs. *)
RECURSIVE InsertAll(_, _)
InsertAll(arr, kvs) ==
  IF kvs = <<>> THEN arr
  ELSE TheOnly({InsertAll(next, Tail(kvs)) : next \in {Insert(arr, Head(kvs))}})

(* iter_next over one list of chunks, as far as it goes. *)
Iterated(chunks) == FlattenSeq(chunks)

Added(vals) == FoldLeft(LAMBDA a, b : a + b, 0, vals)

(* run_combiner, for one key: one value remains, in the first chunk. *)
Combined(arr) == [i \in DOMAIN arr |-> [arr[i] EXCEPT !.chunks = <<<<Added(Iterated(@))>>>>]]

(* The loop of reduce_worker_do_next_task: the least of the next keys of   *)
(* all map workers' arrays, with the values of those that have it.         *)
RECURSIVE Grouped(_)
Grouped(lists) ==
  LET open == {w \in DOMAIN lists : lists[w] # <<>>}
  IN IF open = {} THEN <<>>
     ELSE LET k == CHOOSE k \in {Head(lists[w]).key : w \in open} :
                     \A w \in open : k <= Head(lists[w]).key
              has == SelectSeq(SetToSortSeq(open, <), LAMBDA w : Head(lists[w]).key = k)
          IN <<[key |-> k, vals |-> FlattenSeq([i \in DOMAIN has |->
                                       Iterated(Head(lists[has[i]]).chunks)])]>>
             \o TheOnly({Grouped(rest) : rest \in
                  {[w \in DOMAIN lists |->
                      IF w \in ToSet(has) THEN Tail(lists[w]) ELSE lists[w]]}})

(* The reduce function: what it emits for a key. *)
Reduced(group) ==
  IF env.adds THEN <<[key |-> group.key, val |-> Added(group.vals)]>>
  ELSE [i \in DOMAIN group.vals |-> [key |-> group.key, val |-> group.vals[i]]]

Emitted(groups) == FlattenSeq([i \in DOMAIN groups |-> Reduced(groups[i])])

(* merge_results: the first of the least next keys of several arrays. *)
RECURSIVE Merged(_)
Merged(lists) ==
  LET open == {i \in DOMAIN lists : lists[i] # <<>>}
  IN IF open = {} THEN <<>>
     ELSE LET i == CHOOSE i \in open : \A o \in open :
                     \/ Head(lists[i]).key < Head(lists[o]).key
                     \/ Head(lists[i]).key = Head(lists[o]).key /\ i <= o
          IN <<Head(lists[i])>>
             \o TheOnly({Merged(rest) : rest \in {[lists EXCEPT ![i] = Tail(@)]}})

-----------------------------------------------------------------------------
(* env_init *)

NumMergeThreads(a, reducers, tasks) ==
  Least(Most(IF a.perTask THEN Default(a.mergeThreads, reducers) ELSE reducers \div 2, 1),
        tasks \div 2)

EnvInit(a, cpus) ==
  LET mappers  == Default(a.mapThreads, cpus)
      reducers == Default(a.reduceThreads, cpus)
      tasks    == IF a.perTask THEN DefaultTasks ELSE ExtendedTasks
  IN [data |-> a.data, chunk |-> a.chunk, perTask |-> a.perTask, combiner |-> a.combiner,
      adds |-> a.adds, ownSplitter |-> a.ownSplitter, offset |-> a.offset,
      locks |-> mappers,                        \* tq_init's num_threads
      queues |-> Most(mappers \div cpus, 1),    \* and num_queues
      mappers |-> mappers, reducers |-> reducers, tasks |-> tasks,
      mergers |-> NumMergeThreads(a, reducers, tasks)]

(* The pool is created by the first job and stays as large as that asked.  *)
TpoolCreate(e) ==
  IF pool.numThreads > 0 THEN pool
  ELSE [pool EXCEPT !.numThreads = e.mappers, !.numWorkers = e.mappers]

TqInit(e) == [q \in 0 .. e.queues - 1 |-> <<>>]

(* map_reduce up to map(). *)
Call ==
  /\ fate = "runs" /\ master = "call" /\ program.jobs # <<>>
  /\ LET e == EnvInit(Head(program.jobs), program.cpus)
     IN /\ env' = e
        /\ pool' = TpoolCreate(e) /\ queues' = TqInit(e)
        /\ inter' = [w \in Worker |-> [t \in 0 .. e.tasks - 1 |-> <<>>]]
        /\ final' = [i \in 0 .. (IF e.perTask THEN e.tasks ELSE e.reducers) - 1 |-> <<>>]
  /\ master' = "map"
  /\ UNCHANGED <<program, stage, results, fate, tpoolPosted, tpoolSemRun, placeVars,
                 mergeVals, merge, probe, task>>

-----------------------------------------------------------------------------
(* The pool. *)

Workers ==
  CASE stage = "map" -> env.mappers [] stage = "reduce" -> env.reducers
    [] stage = "merge" -> env.mergers

Bound(w) ==          \* the processor a worker of the phase is bound to
  LET cpu == (w + env.offset) % program.cpus
  IN IF stage # "merge" THEN cpu
     ELSE cpu * 2 ^ (IF env.perTask THEN merge.round - 1 ELSE merge.round)

(* No late thread will take itself for the last of a phase of n threads.   *)
SafeSizeOf(n) == \A w \in 1 .. MaxThreads : tpoolPc[w] = "counted" => tpoolMine[w] # n

(* start_workers, tpool_set, and tpool_begin up to its loop. *)
StartWorkers ==
  /\ fate = "runs" /\ master = "start"
  /\ UnsafeSizes \/ SafeSizeOf(Workers - 1)
  /\ IF Workers - 1 > pool.numThreads
       THEN Ends("aborted")
       ELSE /\ tpoolPosted' = 0
            /\ IF Workers = 1
                 THEN /\ pool' = [pool EXCEPT !.numWorkers = 0]
                      /\ master' = "working" /\ tpoolPc' = [tpoolPc EXCEPT ![0] = "working"]
                 ELSE /\ pool' = [pool EXCEPT !.numWorkers = Workers - 1, !.numDone = 0]
                      /\ master' = "posting" /\ UNCHANGED tpoolPc
            /\ UNCHANGED <<program, env, stage, results, fate, tpoolSemRun, tpoolMine, dataVars, workVars>>

(* A turn of tpool_begin's loop; then the master does its share. *)
TpoolPost ==
  /\ fate = "runs" /\ master = "posting"
  /\ tpoolSemRun' = [tpoolSemRun EXCEPT ![tpoolPosted + 1] = @ + 1] /\ tpoolPosted' = tpoolPosted + 1
  /\ IF tpoolPosted + 1 < pool.numWorkers THEN UNCHANGED <<master, tpoolPc>>
     ELSE master' = "working" /\ tpoolPc' = [tpoolPc EXCEPT ![0] = "working"]
  /\ UNCHANGED <<program, env, stage, results, fate, pool, tpoolMine, dataVars, workVars>>

(* thread_loop: woken for a phase, or to die. *)
TpoolWake(w) ==
  /\ fate = "runs" /\ tpoolPc[w] = "parked" /\ tpoolSemRun[w] > 0
  /\ tpoolSemRun' = [tpoolSemRun EXCEPT ![w] = @ - 1]
  /\ tpoolPc' = [tpoolPc EXCEPT ![w] = IF pool.die THEN "leaving" ELSE "working"]
  /\ UNCHANGED <<masterVars, fate, pool, tpoolPosted, tpoolMine, dataVars, workVars>>

(* The increment of num_workers_done; its result stays in a local variable *)
(* until it is compared with num_workers.                                  *)
CountMutant(w, place) ==
  /\ pool' = [pool EXCEPT !.numDone = @ + 1]
  /\ tpoolMine' = [tpoolMine EXCEPT ![w] = pool.numDone]
  /\ tpoolPc' = [tpoolPc EXCEPT ![w] = place]
Count(w, place) ==
  /\ pool' = [pool EXCEPT !.numDone = @ + 1]
  /\ tpoolMine' = [tpoolMine EXCEPT ![w] = pool.numDone + 1]
  /\ tpoolPc' = [tpoolPc EXCEPT ![w] = place]

TpoolLeave(w) ==
  /\ fate = "runs" /\ tpoolPc[w] = "leaving" /\ Count(w, "left")
  /\ UNCHANGED <<masterVars, fate, tpoolPosted, tpoolSemRun, dataVars, workVars>>

TpoolIsLastMutant(w) == tpoolMine[w] >= pool.numWorkers - 1
TpoolIsLast(w) == tpoolMine[w] = pool.numWorkers

(* After tpool_destroy the thread compares with freed memory. *)
TpoolCompare(w) ==
  /\ fate = "runs" /\ tpoolPc[w] \in {"counted", "left"}
  /\ \E last \in IF master = "over" THEN BOOLEAN ELSE {TpoolIsLast(w)} :
       pool' = IF last THEN [pool EXCEPT !.semDone = @ + 1] ELSE pool
  /\ tpoolPc' = [tpoolPc EXCEPT ![w] = IF @ = "left" THEN "gone" ELSE "parked"]
  /\ UNCHANGED <<masterVars, fate, tpoolPosted, tpoolSemRun, tpoolMine, dataVars, workVars>>

(* tpool_wait returns: on to the next phase, or round. *)
TpoolWait ==
  /\ fate = "runs" /\ master = "waiting"
  /\ \/ pool.numWorkers = 0 /\ UNCHANGED pool
     \/ pool.numWorkers > 0 /\ pool.semDone > 0 /\ pool' = [pool EXCEPT !.semDone = @ - 1]
  /\ master' = CASE stage = "map" -> "reduce" [] stage = "reduce" -> "merge"
                 [] stage = "merge" -> "round"
  /\ UNCHANGED <<program, env, stage, results, fate, tpoolPosted, tpoolSemRun, placeVars, dataVars, workVars>>

-----------------------------------------------------------------------------
(* Task queues. *)

(* tq_dequeue: the front of one queue after the other, under its lock; a   *)
(* worker has a part of the lock only if it was counted in tq_init.        *)
Dequeue(w) ==
  /\ fate = "runs" /\ tpoolPc[w] = "working" /\ stage # "merge"
  /\ task[w] = None /\ probe[w] < env.queues
  /\ IF w >= env.locks
       THEN Ends("undefined")
       ELSE LET q == probe[w]           \* loc_get_lgrp is 0
            IN /\ IF queues[q] = <<>>
                    THEN /\ probe' = [probe EXCEPT ![w] = @ + 1]
                         /\ UNCHANGED <<queues, task>>
                    ELSE /\ task' = [task EXCEPT ![w] = Head(queues[q])]
                         /\ queues' = [queues EXCEPT ![q] = Tail(@)]
                         /\ probe' = [probe EXCEPT ![w] = 0]
               /\ UNCHANGED <<masterVars, fate, tpoolVars, placeVars, dataVars>>

(* A thread function returns: a thread of the pool counts itself, the      *)
(* master goes on to tpool_wait.                                           *)
Returns(w) ==
  /\ IF w = 0
       THEN master' = "waiting" /\ tpoolPc' = [tpoolPc EXCEPT ![0] = "parked"] /\ UNCHANGED <<pool, tpoolMine>>
       ELSE Count(w, "counted") /\ UNCHANGED master
  /\ probe' = [probe EXCEPT ![w] = 0]
  /\ UNCHANGED <<program, env, stage, results, fate, tpoolPosted, tpoolSemRun, queues, task>>

-----------------------------------------------------------------------------
(* map() *)

(* array_splitter, or one of the application that cuts alike. *)
Split(data, size) ==
  [i \in 1 .. (Len(data) + size - 1) \div size |->
     [id |-> i - 1, data |-> SubSeq(data, size * (i - 1) + 1, Least(size * i, Len(data)))]]

(* The do loops that hand out n tasks to m takers: how many have gone out  *)
(* when each of them has had its share.  A taker due none gets the rest.   *)
HandedOut(n, each, left, m) ==
  LET share(i) == each + (IF left > i - 1 THEN 1 ELSE 0)
      Upto[i \in 0 .. m] == IF i = 0 THEN 0
                            ELSE IF share(i) = 0 THEN n ELSE Least(n, Upto[i - 1] + share(i))
  IN Upto

(* gen_map_tasks_distribute_locator, where memory has one locality group,  *)
(* or gen_map_tasks_distribute_lgrp.                                       *)
Distributed(tasks) ==
  LET groups == Most(env.mappers \div program.cpus, 1)
      n      == Len(tasks)
      upto   == HandedOut(n, n \div groups, n % groups, groups)
  IN [q \in DOMAIN queues |->
        IF env.ownSplitter
        THEN FlattenSeq([g \in 1 .. groups |->
               IF (g - 1) % env.queues = q THEN SubSeq(tasks, upto[g - 1] + 1, upto[g]) ELSE <<>>])
        ELSE IF q = 0 THEN tasks ELSE <<>>]

(* gen_map_tasks; there must be one. *)
MapPhase ==
  /\ fate = "runs" /\ master = "map"
  /\ LET tasks == Split(env.data, env.chunk)
     IN IF tasks = <<>> THEN Ends("aborted")
        ELSE /\ queues' = Distributed(tasks)
             /\ env' = [env EXCEPT !.mappers = Least(@, Len(tasks))]
             /\ stage' = "map" /\ master' = "start"
             /\ UNCHANGED <<program, results, fate, tpoolVars, placeVars, dataVars, probe, task>>

(* The map task: what it emits goes to the worker's own arrays. *)
Map(w) ==
  /\ fate = "runs" /\ stage = "map" /\ task[w] # None
  /\ inter' = [inter EXCEPT ![w] = EmitAll(@, task[w].data)]
  /\ task' = [task EXCEPT ![w] = None]
  /\ UNCHANGED <<masterVars, fate, tpoolVars, placeVars, final, mergeVals, merge, queues, probe>>

(* The end of map_worker, with the combiner. *)
MapReturn(w) ==
  /\ fate = "runs" /\ stage = "map" /\ tpoolPc[w] = "working"
  /\ task[w] = None /\ probe[w] = env.queues
  /\ inter' = IF env.combiner
                THEN [inter EXCEPT ![w] = [t \in DOMAIN @ |-> Combined(@[t])]] ELSE inter
  /\ Returns(w) /\ UNCHANGED <<final, mergeVals, merge>>

-----------------------------------------------------------------------------
(* reduce() *)

(* gen_reduce_tasks: how many of the tasks it queues.  It takes what is    *)
(* left over from the number of map threads.                               *)
NumReduceTasks ==
  LET each == env.tasks \div env.reducers
  IN HandedOut(env.tasks, each, env.tasks - each * env.mappers, env.reducers)[env.reducers]

(* Each task goes to a queue chosen at random. *)
ReducePhase ==
  /\ fate = "runs" /\ master = "reduce"
  /\ \E where \in [0 .. NumReduceTasks - 1 -> DOMAIN queues] :
       queues' = [q \in DOMAIN queues |->
         SelectSeq([i \in 1 .. NumReduceTasks |-> [id |-> i - 1]], LAMBDA t : where[t.id] = q)]
  /\ stage' = "reduce" /\ master' = "start"
  /\ UNCHANGED <<program, env, results, fate, tpoolVars, placeVars, dataVars, probe, task>>

(* The reduce task: one key's values after the other, emitted into the     *)
(* worker's own final array or the task's.                                 *)
Reduce(w) ==
  /\ fate = "runs" /\ stage = "reduce" /\ task[w] # None
  /\ LET t == task[w].id
         i == IF env.perTask THEN t ELSE w
     IN \E lists \in {[m \in 0 .. env.mappers - 1 |-> inter[m][t]]} :
        \E groups \in {Grouped(lists)} : \E out \in {Emitted(groups)} :
          final' = [final EXCEPT ![i] = InsertAll(@, out)]
  /\ inter' = [m \in Worker |-> [inter[m] EXCEPT ![task[w].id] = <<>>]]
  /\ task' = [task EXCEPT ![w] = None]
  /\ UNCHANGED <<masterVars, fate, tpoolVars, placeVars, mergeVals, merge, queues, probe>>

ReduceReturn(w) ==
  /\ fate = "runs" /\ stage = "reduce" /\ tpoolPc[w] = "working"
  /\ task[w] = None /\ probe[w] = env.queues
  /\ Returns(w) /\ UNCHANGED dataVars

-----------------------------------------------------------------------------
(* merge() *)

Returned(arr) ==           \* a job's result; the environment is released
  /\ results' = Append(results, [job |-> Head(program.jobs), out |-> arr])
  /\ program' = [program EXCEPT !.jobs = Tail(@)]
  /\ master' = "call"

MergePhase ==
  /\ fate = "runs" /\ master = "merge"
  /\ LET n == Cardinality(DOMAIN final)
     IN IF n <= 1
        THEN Returned(final[0]) /\ UNCHANGED <<stage, merge, mergeVals>>
        ELSE /\ merge' = [len |-> n, round |-> 1, input |-> final]
             /\ mergeVals' = [i \in 0 .. env.mergers - 1 |-> Unset]
             /\ stage' = "merge" /\ master' = "start"
             /\ UNCHANGED <<program, results>>
  /\ UNCHANGED <<env, fate, tpoolVars, placeVars, inter, final, workVars>>

(* merge_worker: the slice of the arrays a worker merges. *)
Slice(w) ==
  LET each == Most(merge.len \div env.mergers, 2)
      rest == IF merge.len \div env.mergers <= 1 THEN merge.len % 2 ELSE merge.len % env.mergers
  IN [from |-> w * each + Least(w, rest), n |-> IF w < rest THEN each + 1 ELSE each]

(* It merges them, or there are none left for it.  An array that the last  *)
(* round has not written holds what malloc gave.                           *)
Merge(w) ==
  /\ fate = "runs" /\ stage = "merge" /\ tpoolPc[w] = "working"
  /\ LET s == Slice(w)
     IN IF Bound(w) >= program.cpus THEN Ends("aborted")
        ELSE IF s.from >= merge.len THEN Returns(w) /\ UNCHANGED dataVars
        ELSE IF s.from + s.n > merge.len THEN Ends("undefined")
        ELSE \E arrays \in {[i \in 1 .. s.n |-> merge.input[s.from + i - 1]]} :
               IF Unset \in Range(arrays) THEN Ends("undefined")
               ELSE /\ mergeVals' = [mergeVals EXCEPT ![w] = Merged(arrays)]
                    /\ Returns(w) /\ UNCHANGED <<inter, final, merge>>

MergersLeftMutant == env.mergers
MergersLeft == Most(env.mergers \div 2, 1)

(* The loop of merge(): another round, or the result. *)
NextRound ==
  /\ fate = "runs" /\ master = "round"
  /\ IF env.mergers > 1
       THEN /\ merge' = [len |-> env.mergers, round |-> merge.round + 1, input |-> mergeVals]
            /\ env' = [env EXCEPT !.mergers = MergersLeft]
            /\ mergeVals' = [i \in 0 .. MergersLeft - 1 |-> Unset]
            /\ master' = "start" /\ UNCHANGED <<program, results>>
       ELSE Returned(mergeVals[0]) /\ UNCHANGED <<env, merge, mergeVals>>
  /\ UNCHANGED <<stage, fate, tpoolVars, placeVars, inter, final, workVars>>

-----------------------------------------------------------------------------
(* map_reduce_finalize: tpool_destroy. *)

TpoolDestroy ==
  /\ fate = "runs" /\ master = "call" /\ program.jobs = <<>>
  /\ pool' = [pool EXCEPT !.die = TRUE, !.numWorkers = pool.numThreads, !.numDone = 0]
  /\ tpoolPosted' = 0 /\ master' = "killing"
  /\ UNCHANGED <<program, env, stage, results, fate, tpoolSemRun, placeVars, dataVars, workVars>>

TpoolKill ==
  /\ fate = "runs" /\ master = "killing"
  /\ tpoolSemRun' = [tpoolSemRun EXCEPT ![tpoolPosted + 1] = @ + 1] /\ tpoolPosted' = tpoolPosted + 1
  /\ master' = IF tpoolPosted + 1 = pool.numThreads THEN "joining" ELSE master
  /\ UNCHANGED <<program, env, stage, results, fate, pool, placeVars, dataVars, workVars>>

TpoolJoin ==
  /\ fate = "runs" /\ master = "joining" /\ pool.semDone > 0
  /\ pool' = [pool EXCEPT !.semDone = @ - 1] /\ master' = "over"
  /\ UNCHANGED <<program, env, stage, results, fate, tpoolPosted, tpoolSemRun, placeVars, dataVars, workVars>>

-----------------------------------------------------------------------------
NoEnv == [mappers |-> 0]

Init ==
  /\ program \in Programs /\ env = NoEnv /\ master = "call" /\ stage = "none"
  /\ results = <<>> /\ fate = "runs"
  /\ pool = [numThreads |-> 0, numWorkers |-> 0, numDone |-> 0, semDone |-> 0, die |-> FALSE]
  /\ tpoolPosted = 0 /\ tpoolSemRun = [w \in 1 .. MaxThreads |-> 0]
  /\ tpoolPc = [w \in 0 .. MaxThreads |-> "parked"] /\ tpoolMine = [w \in 0 .. MaxThreads |-> 0]
  /\ queues = <<>> /\ probe = [w \in Worker |-> 0] /\ task = [w \in Worker |-> None]
  /\ inter = <<>> /\ final = <<>> /\ mergeVals = <<>>
  /\ merge = [len |-> 0, round |-> 0, input |-> <<>>]

MasterStep ==
  \/ Call \/ StartWorkers \/ TpoolPost \/ TpoolWait \/ MapPhase \/ ReducePhase \/ MergePhase \/ NextRound
  \/ TpoolDestroy \/ TpoolKill \/ TpoolJoin

WorkStep(w) ==
  \/ Dequeue(w) \/ Map(w) \/ MapReturn(w) \/ Reduce(w) \/ ReduceReturn(w) \/ Merge(w)

ThreadStep(w) == TpoolWake(w) \/ TpoolLeave(w) \/ TpoolCompare(w)

Next ==
  \/ MasterStep
  \/ \E w \in Worker : WorkStep(w)
  \/ \E w \in 1 .. MaxThreads : ThreadStep(w)

Spec == Init /\ [][Next]_vars

(* Some thread that can go on does: no program has a step to repeat.       *)
Fairness == WF_vars(Next)

FairSpec == Spec /\ Fairness

-----------------------------------------------------------------------------
(* Properties. *)

TypeOK ==
  /\ master \in {"call", "map", "reduce", "merge", "round", "start", "posting", "working",
                "waiting", "killing", "joining", "over"}
  /\ stage \in {"none", "map", "reduce", "merge"}
  /\ fate \in {"runs", "aborted", "undefined"}
  /\ pool.numThreads \in 0 .. MaxThreads /\ pool.numWorkers \in 0 .. pool.numThreads
  /\ pool.numDone \in 0 .. 2 * pool.numThreads /\ pool.semDone \in 0 .. 1
  /\ tpoolPosted \in 0 .. pool.numThreads
  /\ tpoolSemRun \in [1 .. MaxThreads -> 0 .. 1]
  /\ \A w \in 0 .. MaxThreads :
       tpoolPc[w] \in {"parked", "working", "counted", "leaving", "left", "gone"}
  /\ probe \in [Worker -> Nat]

TpoolBusy(w) == tpoolSemRun[w] > 0 \/ tpoolPc[w] = "working"

(* The phase under way, as one of Phases.                                  *)
TpoolInPhase  == master \in {"posting", "working", "waiting"} /\ pool.numWorkers > 0
TpoolFinished == {w \in 1 .. tpoolPosted : ~TpoolBusy(w)}
TpoolUnfinished == IF TpoolInPhase THEN 1 .. pool.numWorkers \ TpoolFinished ELSE {}

TpoolPh == INSTANCE Phases WITH Thread <- 1 .. MaxThreads, open <- TpoolInPhase, todo <- TpoolUnfinished

\* start_workers' "Barrier, wait for all threads to finish": the phases of the
\* jobs do not overlap, and each thread of a phase runs its function once, as long
\* as no phase begins of a size that a thread which compares late (tpool.c:264-265)
\* takes itself for the last of.
JobsImplementPhases == TpoolPh!Spec

\* A job returns every key of its data in order: once, with the sum of its
\* values, or, when nothing adds them up, with each value there was; however
\* the data was split, queued, stolen, combined, reduced and merged.
JobsComplete ==
  \A i \in DOMAIN results :
    LET data == results[i].job.data
        out  == results[i].out
        keys == {data[n].key : n \in DOMAIN data}
        Of(seq, k) == SelectSeq(seq, LAMBDA u : u.key = k)
        Sum(seq) == FoldLeft(LAMBDA a, u : a + u.val, 0, seq)
    IN /\ \A n \in 2 .. Len(out) : out[n - 1].key <= out[n].key
       /\ IF results[i].job.adds
            THEN Len(out) = Cardinality(keys) /\
                 \A k \in keys : Len(Of(out, k)) = 1 /\ Of(out, k)[1].val = Sum(Of(data, k))
            ELSE Len(out) = Len(data) /\
                 \A n \in DOMAIN data :
                   Len(SelectSeq(out, LAMBDA u : u = data[n]))
                     = Len(SelectSeq(data, LAMBDA u : u = data[n]))

\* Every reduce task is handed out (map_reduce.h, "creating and scheduling all
\* map and reduce tasks").
ReduceTasksQueued ==
  stage = "reduce" /\ master = "start" =>
    env.tasks = FoldFunction(LAMBDA q, n : n + Len(q), 0, queues)

\* No array is read that was not written, no lock that was not made, no
\* assertion fails and every thread can be bound to its processor.
RunsDefined == fate = "runs"

\* All jobs return, and the threads of the pool end.
ProgramEnds ==
  <>(master = "over" /\ \A w \in 1 .. pool.numThreads : tpoolPc[w] = "gone")
=============================================================================
