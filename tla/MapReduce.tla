------------------------------ MODULE MapReduce ------------------------------
(***************************************************************************)
(* A map-reduce job on Phoenix++ (phoenix++/include/map_reduce.h) with the *)
(* pool of ThreadPool: run(), and run_ingest_chunks(), which maps a chunk  *)
(* of the input while a thread reads the next one; the task queue with     *)
(* stealing (src/task_queue.cpp), the hash container, the serial merge of  *)
(* MapReduce and the parallel merge of MapReduceSort.                      *)
(*                                                                         *)
(* The input is a sequence of files, a file a sequence of lines, a line    *)
(* one key and its length in bytes; the application counts the lines of    *)
(* each key, one item of its split() per line.                             *)
(***************************************************************************)
EXTENDS ThreadPool, FiniteSets, FiniteSetsExt, SequencesExt

CONSTANTS
  Jobs,            \* the jobs one of which is run
  NumKeys,         \* keys are 0 .. NumKeys - 1, each its own hash
  TasksPerThread   \* 16 in the code

Key == 0 .. NumKeys - 1

(* sorted: a MapReduceSort; ingest: run_ingest_chunks, by ingestBytes bytes *)
(* of the only file if that is positive, else by ingestFiles files.         *)
IsJob(j) ==
  /\ j.files \in Seq(Seq([key : Key, len : Nat \ {0}]))
  /\ j.sorted \in BOOLEAN /\ j.ingest \in BOOLEAN
  /\ j.ingestBytes \in Int /\ j.ingestFiles \in Nat \ {0}
  /\ j.ingest /\ j.ingestBytes > 0 => Len(j.files) = 1

ASSUME JobsAssumption ==
  /\ \A j \in Jobs : IsJob(j)
  /\ NumKeys \in Nat \ {0}
  /\ TasksPerThread \in Nat \ {0}

VARIABLES
  job,          \* the job
  mpc,          \* where the master is
  nread,        \* bytes ingested
  chunk,        \* curr_chunk
  reader,       \* the thread that reads ahead
  first,        \* no chunk has been mapped yet
  numMapTasks,  \* num_map_tasks
  stage,        \* the pool's thread_function
  queues,       \* taskQueue
  probe,        \* how many queues a worker's dequeue has found empty
  task,         \* the task each worker has
  table,        \* each map worker's own hash table
  vals,         \* what each thread has added to the container
  finalVals,    \* final_vals
  mergeVals,    \* merge_vals
  mergeQueues,  \* merge_queues
  result        \* the result, when there is one

masterVars == <<job, mpc, nread, first, numMapTasks, stage, mergeVals, mergeQueues, result>>
ingestVars == <<chunk, reader>>
taskVars   == <<probe, task, table, vals>>
jobVars    == <<masterVars, ingestVars, queues, taskVars, finalVals>>
vars       == <<poolVars, jobVars>>

NoTask == [id |-> -1, arg |-> <<>>]

Ceil(a, b) == (a + b - 1) \div b

Smaller(a, b) == IF a < b THEN a ELSE b

SizeOf(lines) == FoldLeft(LAMBDA n, line : n + line.len, 0, lines)

CountOf(k, lines) == Len(SelectSeq(lines, LAMBDA line : line.key = k))

AllLines == FlattenSeq(job.files)

-----------------------------------------------------------------------------
(* Reading the input: include/read_chunk.h. *)

(* read_chunk_bytes: up to the end of the line in which the nominal split  *)
(* falls, or the rest of the file.                                         *)
ReadChunkBytes(c) ==
  LET lines    == job.files[c.fileid + 1]
      split    == c.nread + job.ingestBytes
      rest     == split >= SizeOf(AllLines)
      Upto(at) == Cardinality({i \in DOMAIN lines : SizeOf(SubSeq(lines, 1, i - 1)) <= at})
      text     == SubSeq(lines, Upto(c.nread - 1) + 1,
                                IF rest THEN Len(lines) ELSE Upto(split))
  IN [fileid |-> IF rest THEN c.fileid + 1 ELSE c.fileid,
      nread  |-> c.nread + SizeOf(text),
      lines  |-> text]

(* read_chunk: the next ingest_files files, as far as there are. *)
ReadChunkFiles(c) ==
  LET last == Smaller(c.fileid + job.ingestFiles, Len(job.files))
  IN [fileid |-> last, nread |-> 0,
      lines  |-> FlattenSeq(SubSeq(job.files, c.fileid + 1, last))]

ReadChunk(c) == IF job.ingestBytes > 0 THEN ReadChunkBytes(c) ELSE ReadChunkFiles(c)

(* pthread_read. *)
Read ==
  /\ reader = "reading"
  /\ chunk' = ReadChunk(chunk)
  /\ reader' = "read"
  /\ UNCHANGED <<poolVars, masterVars, queues, taskVars, finalVals>>

-----------------------------------------------------------------------------
(* The task queue. *)

(* enqueue_seq of several tasks of total: without locality information a   *)
(* task goes to the queue its place in the total points to.                *)
Enqueued(tasks, total) ==
  [q \in Thread |-> queues[q] \o
     SelectSeq(tasks, LAMBDA t : ((t.id * NumThreads) \div total) % NumThreads = q)]

(* One probe of dequeue, under the lock of one queue: the front of the     *)
(* worker's own queue, the back of another's.                              *)
Dequeue(w) ==
  /\ wpc[w] = "working" /\ task[w] = NoTask /\ probe[w] < NumThreads
  /\ LET q == (w + probe[w]) % NumThreads
     IN IF queues[q] = <<>>
          THEN /\ probe' = [probe EXCEPT ![w] = @ + 1]
               /\ UNCHANGED <<queues, task>>
          ELSE /\ task' = [task EXCEPT ![w] = IF q = w THEN Head(queues[q]) ELSE Last(queues[q])]
               /\ queues' = [queues EXCEPT ![q] = IF q = w THEN Tail(@) ELSE Front(@)]
               /\ probe' = [probe EXCEPT ![w] = 0]
  /\ UNCHANGED <<poolVars, masterVars, ingestVars, table, vals, finalVals>>

-----------------------------------------------------------------------------
(* The workers: map_worker, reduce_worker, merge_worker. *)

(* A key's values, added up over the threads, if there are any. *)
Reduced(k) ==
  LET n == FoldLeft(LAMBDA m, w : m + vals[w][k], 0, SetToSeq(Thread))
  IN IF n = 0 THEN <<>> ELSE <<[key |-> k, val |-> n]>>

(* What the reduce task of a bucket appends: container.begin(i) and next. *)
Bucket(i) ==
  FlattenSeq([n \in 1 .. NumKeys |-> IF (n - 1) % NumThreads = i THEN Reduced(n - 1) ELSE <<>>])

Sorted(kvs) == SortSeq(kvs, LAMBDA a, b : a.key < b.key)

(* The task a worker has taken.  A merge task names its output and how     *)
(* many lists it merges; lists already deleted leave the output as it is.  *)
Perform(w) ==
  /\ wpc[w] = "working" /\ task[w] # NoTask
  /\ LET t == task[w]
     IN \/ /\ stage = "map"
           /\ table' = [table EXCEPT ![w] = [k \in Key |-> @[k] + CountOf(k, t.arg)]]
           /\ UNCHANGED finalVals
        \/ /\ stage = "reduce"
           /\ finalVals' = [finalVals EXCEPT ![w + 1] = @ \o Bucket(t.id)]
           /\ UNCHANGED table
        \/ /\ stage = "sort"
           /\ finalVals' = [finalVals EXCEPT ![t.id + 1] = Sorted(@)]
           /\ UNCHANGED table
        \/ /\ stage = "merge"
           /\ finalVals' =
                IF mergeVals = <<>> THEN finalVals
                ELSE [finalVals EXCEPT ![t.id + 1] = Sorted(FlattenSeq(
                        SubSeq(mergeVals, 2 * t.id + 1, Smaller(2 * t.id + 2, Len(mergeVals)))))]
           /\ UNCHANGED table
  /\ task' = [task EXCEPT ![w] = NoTask]
  /\ UNCHANGED <<poolVars, masterVars, ingestVars, queues, probe, vals>>

(* hash_container::add: what a thread has added before stays. *)
AddedMutant(w) == table[w]

Added(w) == [k \in Key |-> vals[w][k] + table[w][k]]

(* No queue has a task left: the thread function returns. *)
Return(w) ==
  /\ task[w] = NoTask /\ probe[w] = NumThreads
  /\ Finish(w)
  /\ vals' = IF stage = "map" THEN [vals EXCEPT ![w] = Added(w)] ELSE vals
  /\ table' = [table EXCEPT ![w] = [k \in Key |-> 0]]
  /\ probe' = [probe EXCEPT ![w] = 0]
  /\ UNCHANGED <<masterVars, ingestVars, queues, task, finalVals>>

-----------------------------------------------------------------------------
(* The master. *)

(* start_workers, up to the pool's begin(). *)
StartWorkers(function, tasks, total, n) ==
  /\ queues' = Enqueued(tasks, total)
  /\ stage' = function
  /\ Set(Smaller(n, NumThreads))

(* run_map: the items cut into at most n tasks. *)
MapTasks(lines, n) ==
  LET size == IF Len(lines) = 0 \/ n = 0 THEN 1 ELSE Ceil(Len(lines), n)
  IN [i \in 1 .. Smaller(n, Ceil(Len(lines), size)) |->
        [id |-> i - 1, arg |-> SubSeq(lines, size * (i - 1) + 1, Smaller(size * i, Len(lines)))]]

(* run_mappers: the first chunk decides how many tasks every chunk has. *)
TaskCountMutant(lines) == Smaller(Len(lines), NumThreads)

TaskCount(lines) ==
  IF first THEN Smaller(Len(lines), NumThreads) * TasksPerThread ELSE numMapTasks

RunMappers(lines) ==
  LET n == TaskCount(lines)
  IN /\ numMapTasks' = n
     /\ first' = FALSE
     /\ StartWorkers("map", MapTasks(lines, n), n, n)

TasksNamed(n) == [i \in 1 .. n |-> [id |-> i - 1, arg |-> <<>>]]

(* run(), or the first chunk of run_ingest_chunks. *)
Start ==
  /\ mpc = "start"
  /\ chunk' = IF job.ingest THEN ReadChunk(chunk) ELSE [chunk EXCEPT !.lines = AllLines]
  /\ nread' = SizeOf(chunk'.lines)
  /\ mpc' = "chunks"
  /\ UNCHANGED <<poolVars, job, first, numMapTasks, stage, mergeVals, mergeQueues, result,
                 reader, queues, taskVars, finalVals>>

(* The loop of run_ingest_chunks: read the next chunk, map this one. *)
MapAndReadAhead ==
  /\ mpc = "chunks" /\ nread < SizeOf(AllLines)
  /\ reader' = "reading"
  /\ RunMappers(chunk.lines)
  /\ mpc' = "joining"
  /\ UNCHANGED <<job, nread, mergeVals, mergeQueues, result, chunk, taskVars, finalVals>>

(* pthread_join, once the mappers are done. *)
JoinReader ==
  /\ mpc = "joining" /\ owner = "idle" /\ reader = "read"
  /\ nread' = nread + SizeOf(chunk.lines)
  /\ reader' = "none"
  /\ mpc' = "chunks"
  /\ UNCHANGED <<poolVars, job, first, numMapTasks, stage, mergeVals, mergeQueues, result,
                 chunk, queues, taskVars, finalVals>>

MapLastChunk ==
  /\ mpc = "chunks" /\ nread >= SizeOf(AllLines)
  /\ RunMappers(chunk.lines)
  /\ mpc' = "mapping"
  /\ UNCHANGED <<job, nread, mergeVals, mergeQueues, result, ingestVars, taskVars, finalVals>>

(* run_reduce. *)
Reduce ==
  /\ mpc = "mapping"
  /\ StartWorkers("reduce", TasksNamed(NumThreads), NumThreads, NumThreads)
  /\ mpc' = "reducing"
  /\ UNCHANGED <<job, nread, first, numMapTasks, mergeVals, mergeQueues, result,
                 ingestVars, taskVars, finalVals>>

(* run_merge of MapReduceSort: sort each list, then merge them in pairs. *)
Sort ==
  /\ mpc = "reducing" /\ job.sorted
  /\ StartWorkers("sort", TasksNamed(NumThreads), NumThreads, NumThreads)
  /\ mergeQueues' = NumThreads
  /\ mpc' = "merging"
  /\ UNCHANGED <<job, nread, first, numMapTasks, mergeVals, result, ingestVars, taskVars, finalVals>>

Merge ==
  /\ mpc = "merging" /\ mergeQueues > 1
  /\ LET n == Ceil(mergeQueues, 2)
     IN /\ mergeVals' = finalVals
        /\ finalVals' = [i \in 1 .. n |-> <<>>]
        /\ StartWorkers("merge", TasksNamed(n), n, n)
        /\ mergeQueues' = n
  /\ UNCHANGED <<job, mpc, nread, first, numMapTasks, result, ingestVars, taskVars>>

(* The end of run_merge, serial or not, and of run_reducers. *)
Result ==
  /\ owner = "idle"
  /\ \/ mpc = "reducing" /\ ~job.sorted /\ result' = FlattenSeq(finalVals)
     \/ mpc = "merging" /\ mergeQueues = 1 /\ result' = finalVals[1]
  /\ mergeVals' = <<>>
  /\ mpc' = "done"
  /\ UNCHANGED <<poolVars, job, nread, first, numMapTasks, stage, mergeQueues,
                 ingestVars, queues, taskVars, finalVals>>

(* ~MapReduce. *)
Delete ==
  /\ mpc = "done"
  /\ Destroy
  /\ mpc' = "over"
  /\ UNCHANGED <<job, nread, first, numMapTasks, stage, mergeVals, mergeQueues, result,
                 ingestVars, queues, taskVars, finalVals>>

-----------------------------------------------------------------------------
Init ==
  /\ PoolInit
  /\ job \in Jobs
  /\ mpc = "start"
  /\ nread = 0
  /\ chunk = [fileid |-> 0, nread |-> 0, lines |-> <<>>]
  /\ reader = "none"
  /\ first = TRUE
  /\ numMapTasks = 0
  /\ stage = "none"
  /\ queues = [q \in Thread |-> <<>>]
  /\ probe = [w \in Thread |-> 0]
  /\ task = [w \in Thread |-> NoTask]
  /\ table = [w \in Thread |-> [k \in Key |-> 0]]
  /\ vals = [w \in Thread |-> [k \in Key |-> 0]]
  /\ finalVals = [i \in 1 .. NumThreads |-> <<>>]
  /\ mergeVals = <<>>
  /\ mergeQueues = 0
  /\ result = <<>>

MasterStep ==
  \/ Start \/ MapAndReadAhead \/ JoinReader \/ MapLastChunk
  \/ Reduce \/ Sort \/ Merge \/ Result \/ Delete
  \/ OwnerStep /\ UNCHANGED jobVars

ThreadStep(w) ==
  \/ Dequeue(w) \/ Perform(w) \/ Return(w)
  \/ WorkerStep(w) /\ UNCHANGED jobVars

Next == MasterStep \/ Read \/ \E w \in Thread : ThreadStep(w)

Spec == Init /\ [][Next]_vars

(* Every thread is scheduled again and again, and none waits on a lock for *)
(* longer than one probe of a queue.                                       *)
Fairness ==
  /\ WF_vars(MasterStep) /\ WF_vars(Read)
  /\ \A w \in Thread : WF_vars(ThreadStep(w))

FairSpec == Spec /\ Fairness

-----------------------------------------------------------------------------
JobTypeOK ==
  /\ PoolTypeOK
  /\ job \in Jobs
  /\ ~job.sorted => numDone \in 0 .. NumThreads
  /\ mpc \in {"start", "chunks", "joining", "mapping", "reducing", "merging", "done", "over"}
  /\ reader \in {"none", "reading", "read"}
  /\ stage \in {"none", "map", "reduce", "sort", "merge"}
  /\ first \in BOOLEAN
  /\ nread \in Nat /\ numMapTasks \in Nat /\ mergeQueues \in 0 .. NumThreads
  /\ probe \in [Thread -> 0 .. NumThreads]
  /\ table \in [Thread -> [Key -> Nat]] /\ vals \in [Thread -> [Key -> Nat]]
  /\ result \in Seq([key : Key, val : Nat])

(* Jobs that are not sorted give the pool phases of safe sizes only: the   *)
(* number of workers never falls to the place of a thread that has counted *)
(* itself and has still to compare, which is what the pool relies on.  So  *)
(* what PoolSpec keeps (PoolBarrier, Phases) holds of these jobs' pools.   *)
SafePhases == [][~job.sorted => PoolNext \/ UNCHANGED poolVars]_vars

(* The barrier of the pool, in sorted jobs too, before the parallel merge. *)
PhaseBarrier == stage # "merge" => PoolBarrier

(* The same of the rounds of MapReduceSort's merge, after which run_merge  *)
(* deletes the lists that were merged.                                     *)
MergeBarrier ==
  stage = "merge" /\ owner = "idle" => \A w \in Thread : ~Busy(w)

(* The result of a job has every key of the input once, with the number of *)
(* its lines, however it was chunked, cut into tasks, stolen and merged.   *)
ResultComplete ==
  mpc \in {"done", "over"} /\ ~job.sorted =>
    /\ IsInjective([i \in DOMAIN result |-> result[i].key])
    /\ {[key |-> k, val |-> CountOf(k, AllLines)] :
          k \in {k \in Key : CountOf(k, AllLines) > 0}} = ToSet(result)

(* A job ends, and all threads of its pool with it. *)
JobEnds == <>(owner = "deleted" /\ \A w \in Thread : wpc[w] = "gone")
=============================================================================
