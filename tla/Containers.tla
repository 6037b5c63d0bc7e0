----------------------------- MODULE Containers -----------------------------
(***************************************************************************)
(* The containers of Phoenix++ between map and reduce (container.h) with   *)
(* their combiners (combiner.h): every map thread gets a table of its own, *)
(* emits into it and adds it to the container when it has no more tasks;   *)
(* every reduce task iterates over its part of the keys. The containers:   *)
(* an open-addressing hash table that grows ("hash"), an array with a cell *)
(* for each key ("array"), one that the threads share ("common"), and a    *)
(* hash table with a fixed number of buckets ("fixed").                    *)
(***************************************************************************)
EXTENDS Integers, Sequences, FiniteSets, SequencesExt, FiniteSetsExt

CONSTANTS
  Kinds,       \* a subset of {"hash", "array", "common", "fixed"}
  Mappers,     \* num_threads: map threads and reduce tasks, 0 .. Mappers - 1
  Cells,       \* N: the keys of an array, the buckets of a fixed table
  TableSize,   \* the size a hash_table starts with, a power of two
  KeyHash,     \* the hash of each key 0 .. Cells - 1
  Emissions,   \* what a thread may emit in a chunk: sequences of keys
  ChunksOf     \* bound: how many chunks a job with each kind of container has

ASSUME ContainersAssumption ==
  /\ Mappers \in Nat \ {0} /\ Cells \in Nat \ {0} /\ TableSize \in Nat \ {0}
  /\ Mappers <= Cells

VARIABLES
  container,   \* the kind of the container
  chunksLeft,  \* chunks still to be mapped
  emitting,    \* what each thread has still to emit in this chunk
  emitted,     \* what each thread has emitted in the job
  local,       \* each thread's table
  mapStage,    \* each thread: "start", "map", "store" (common), "added"
  loaded,      \* the values a thread read from a cell it is about to write
  vals,        \* the container's own storage
  reducer,     \* each reduce task: [at, combined, stage]
  reducedTo    \* what the reduce tasks passed to reduce(): <<key, values>>

contVars == <<container, chunksLeft, emitting, emitted, local, mapStage, loaded, vals,
              reducer, reducedTo>>

Mapper == 0 .. Mappers - 1
CellKey == 0 .. Cells - 1

\* Values are told apart by the thread that emitted them and how many it had emitted.
ValueOf(t) == <<t, Len(emitted[t])>>

(***************************************************************************)
(* hash_table: open addressing, doubled when half full.                    *)
(***************************************************************************)
Vacant == [key |-> -1, values |-> <<>>]
NewTable == [i \in 0 .. TableSize - 1 |-> Vacant]
SizeOfTable(tab) == Cardinality(DOMAIN tab)
Load(tab) == Cardinality({i \in DOMAIN tab : tab[i].key # -1})

\* The first index, from the key's own, that is vacant or has the key.
IndexOf(tab, key) ==
  LET n == SizeOfTable(tab)
      at(d) == (KeyHash[key] + d) % n
      free(d) == tab[at(d)].key \in {-1, key}
  IN at(Min({d \in 0 .. n - 1 : free(d)}))

\* rehash: the entries in the order of their indexes.
Rehash(tab) ==
  LET n == SizeOfTable(tab)
      empty == [i \in 0 .. 2 * n - 1 |-> Vacant]
      Move(new, i) ==
        IF tab[i].key = -1 THEN new ELSE [new EXCEPT ![IndexOf(new, tab[i].key)] = tab[i]]
  IN FoldLeft(Move, empty, [k \in 1 .. n |-> k - 1])

\* operator[] of hash_table and the combiner's add.
PutInTable(tab, key, v) ==
  LET grown == IF tab[IndexOf(tab, key)].key = -1 /\ Load(tab) + 1 >= SizeOfTable(tab) \div 2
               THEN Rehash(tab) ELSE tab
      i == IndexOf(grown, key)
  IN [grown EXCEPT ![i] = [key |-> key, values |-> Append(@.values, v)]]

(***************************************************************************)
(* The other tables.                                                       *)
(***************************************************************************)
EmptyCells == [k \in CellKey |-> <<>>]

\* operator[] of the fixed table: a bucket is a list of entries.
Bucket(key) == KeyHash[key] % Cells
PutInBucket(bucket, key, v) ==
  IF \E i \in DOMAIN bucket : bucket[i].key = key
  THEN [i \in DOMAIN bucket |->
          IF bucket[i].key = key THEN [bucket[i] EXCEPT !.values = Append(@, v)] ELSE bucket[i]]
  ELSE Append(bucket, [key |-> key, values |-> <<v>>])

\* get()
NewLocal ==
  CASE container = "hash" -> NewTable
    [] OTHER -> EmptyCells

Put(t, key, v) ==
  CASE container = "hash"  -> PutInTable(local[t], key, v)
    [] container = "array" -> [local[t] EXCEPT ![key] = Append(@, v)]
    [] container = "fixed" -> [local[t] EXCEPT ![Bucket(key)] = PutInBucket(@, key, v)]

\* init(): a list of entries for each thread and reduce task, a cell for each key and
\* thread, one for each key, a table for each thread.
NewStorage ==
  CASE container = "hash"   -> [o \in Mapper |-> [t \in Mapper |-> <<>>]]
    [] container = "common" -> EmptyCells
    [] OTHER                -> [t \in Mapper |-> EmptyCells]

\* The entries of a table, by index.
EntriesOf(tab) ==
  SelectSeq([k \in 1 .. SizeOfTable(tab) |-> tab[k - 1]], LAMBDA e : e.key # -1)

\* A bug the properties must catch: the entries of an earlier chunk are overwritten.
AddedToMutant(t) ==
  CASE container = "hash" ->
         [o \in Mapper |->
            [vals[o] EXCEPT ![t] = SelectSeq(EntriesOf(local[t]),
                                             LAMBDA e : KeyHash[e.key] % Mappers = o)]]
    [] container = "common" -> vals
    [] OTHER -> [vals EXCEPT ![t] = local[t]]

\* add(): "array" and "fixed" replace what the thread has added before.
AddedTo(t) ==
  CASE container = "hash" ->
         [o \in Mapper |->
            [vals[o] EXCEPT ![t] = @ \o SelectSeq(EntriesOf(local[t]),
                                                  LAMBDA e : KeyHash[e.key] % Mappers = o)]]
    [] container = "common" -> vals
    [] OTHER -> [vals EXCEPT ![t] = local[t]]

(***************************************************************************)
(* Map: map_worker of each thread.                                         *)
(***************************************************************************)
ContInit ==
  /\ container \in Kinds
  /\ chunksLeft = ChunksOf[container]
  /\ emitting = [t \in Mapper |-> <<>>] /\ emitted = [t \in Mapper |-> <<>>]
  /\ local = [t \in Mapper |-> EmptyCells]
  /\ mapStage = [t \in Mapper |-> "added"]
  /\ loaded = [t \in Mapper |-> <<>>]
  /\ vals = NewStorage
  /\ reducer = [o \in Mapper |-> [at |-> o, combined |-> <<>>, stage |-> "start"]]
  /\ reducedTo = <<>>

AllAdded == \A t \in Mapper : mapStage[t] = "added"

\* "Assumes that only a single task needs to write to an entry" of the shared array.
SingleWriters(e) ==
  container = "common" =>
    \A t, u \in Mapper : t # u =>
      ToSet(emitted[t] \o e[t]) \intersect ToSet(emitted[u] \o e[u]) = {}

MapChunk ==
  /\ AllAdded /\ chunksLeft > 0
  /\ emitting' \in [Mapper -> Emissions] /\ SingleWriters(emitting')
  /\ chunksLeft' = chunksLeft - 1
  /\ mapStage' = [t \in Mapper |-> "start"]
  /\ UNCHANGED <<container, emitted, local, loaded, vals, reducer, reducedTo>>

GetTable(t) ==
  /\ mapStage[t] = "start"
  /\ local' = [local EXCEPT ![t] = NewLocal]
  /\ mapStage' = [mapStage EXCEPT ![t] = "map"]
  /\ UNCHANGED <<container, chunksLeft, emitting, emitted, loaded, vals, reducer, reducedTo>>

\* emit_intermediate; the shared array's cell is read, then written.
Emit(t) ==
  /\ mapStage[t] = "map" /\ emitting[t] # <<>>
  /\ LET key == Head(emitting[t])
     IN IF container = "common"
        THEN /\ loaded' = [loaded EXCEPT ![t] = vals[key]]
             /\ mapStage' = [mapStage EXCEPT ![t] = "store"]
             /\ UNCHANGED <<emitting, emitted, local>>
        ELSE /\ local' = [local EXCEPT ![t] = Put(t, key, ValueOf(t))]
             /\ emitting' = [emitting EXCEPT ![t] = Tail(@)]
             /\ emitted' = [emitted EXCEPT ![t] = Append(@, key)]
             /\ UNCHANGED <<loaded, mapStage>>
  /\ UNCHANGED <<container, chunksLeft, vals, reducer, reducedTo>>

StoreInCommon(t) ==
  /\ mapStage[t] = "store"
  /\ LET key == Head(emitting[t])
     IN /\ vals' = [vals EXCEPT ![key] = Append(loaded[t], ValueOf(t))]
        /\ emitted' = [emitted EXCEPT ![t] = Append(@, key)]
  /\ emitting' = [emitting EXCEPT ![t] = Tail(@)]
  /\ mapStage' = [mapStage EXCEPT ![t] = "map"]
  /\ UNCHANGED <<container, chunksLeft, local, loaded, reducer, reducedTo>>

AddTable(t) ==
  /\ mapStage[t] = "map" /\ emitting[t] = <<>>
  /\ vals' = AddedTo(t)
  /\ local' = [local EXCEPT ![t] = EmptyCells]
  /\ mapStage' = [mapStage EXCEPT ![t] = "added"]
  /\ UNCHANGED <<container, chunksLeft, emitting, emitted, loaded, reducer, reducedTo>>

(***************************************************************************)
(* Reduce: the iterator of each task.                                      *)
(***************************************************************************)

\* What the combiners of a list of entries have for a key, in the list's order.
ValuesFor(key, entries) ==
  FlattenSeq([i \in DOMAIN entries |-> IF entries[i].key = key THEN entries[i].values ELSE <<>>])

MergeByKey(entries) ==
  SetToSeq({<<k, ValuesFor(k, entries)>> : k \in {entries[i].key : i \in DOMAIN entries}})

\* The buckets of a reduce task: an equal share, the first tasks one more.
BucketRange(o) ==
  LET per == Cells \div Mappers
      extra == Cells % Mappers
      first == per * o + (IF o < extra THEN o ELSE extra)
  IN first .. first + per + (IF o < extra THEN 0 ELSE -1)

\* What the iterator merges when it is made: the lists of its task, or its buckets.
MergedRows(o) ==
  CASE container = "hash" -> MergeByKey(FlattenSeq([i \in 1 .. Mappers |-> vals[o][i - 1]]))
    [] container = "fixed" ->
         MergeByKey(FlattenSeq([i \in 1 .. Mappers |->
           FlattenSeq([b \in 1 .. Cells |->
             IF b - 1 \in BucketRange(o) THEN vals[i - 1][b - 1] ELSE <<>>])]))
    [] OTHER -> <<>>

StartReducer(o) ==
  /\ AllAdded /\ chunksLeft = 0
  /\ reducer[o].stage = "start"
  /\ reducer' = [reducer EXCEPT ![o].stage = "iterate", ![o].combined = MergedRows(o)]
  /\ UNCHANGED <<container, chunksLeft, emitting, emitted, local, mapStage, loaded, vals, reducedTo>>

\* The values of a cell of an array: of each thread that has some, or of all.
CellValues(k) ==
  IF container = "common" THEN vals[k]
  ELSE FlattenSeq([i \in 1 .. Mappers |-> vals[i - 1][k]])

\* next() and reduce(): a key with values is passed on.
NextKey(o) ==
  /\ reducer[o].stage = "iterate"
  /\ IF container \in {"hash", "fixed"}
     THEN /\ reducer[o].combined # <<>>
          /\ reducedTo' = Append(reducedTo, Head(reducer[o].combined))
          /\ reducer' = [reducer EXCEPT ![o].combined = Tail(@)]
     ELSE /\ reducer[o].at < Cells
          /\ reducedTo' = IF CellValues(reducer[o].at) = <<>> THEN reducedTo
                          ELSE Append(reducedTo, <<reducer[o].at, CellValues(reducer[o].at)>>)
          /\ reducer' = [reducer EXCEPT ![o].at = @ + Mappers]
  /\ UNCHANGED <<container, chunksLeft, emitting, emitted, local, mapStage, loaded, vals>>

EndReducer(o) ==
  /\ reducer[o].stage = "iterate"
  /\ IF container \in {"hash", "fixed"} THEN reducer[o].combined = <<>> ELSE reducer[o].at >= Cells
  /\ reducer' = [reducer EXCEPT ![o].stage = "done"]
  /\ UNCHANGED <<container, chunksLeft, emitting, emitted, local, mapStage, loaded, vals, reducedTo>>

ContNext ==
  \/ MapChunk
  \/ \E t \in Mapper : GetTable(t) \/ Emit(t) \/ StoreInCommon(t) \/ AddTable(t)
  \/ \E o \in Mapper : StartReducer(o) \/ NextKey(o) \/ EndReducer(o)

(***************************************************************************)
(* Property.                                                               *)
(***************************************************************************)

\* The values that were emitted with a key.
EmittedFor(k) ==
  UNION {{<<t, i - 1>> : i \in {j \in DOMAIN emitted[t] : emitted[t][j] = k}} : t \in Mapper}

\* Every key that was emitted reaches reduce() once, with all of its values and each of
\* them once, whatever container the job uses and however its tables grew and merged.
EachKeyReducedOnce ==
  (\A o \in Mapper : reducer[o].stage = "done") =>
    /\ {reducedTo[i][1] : i \in DOMAIN reducedTo} = {k \in CellKey : EmittedFor(k) # {}}
    /\ \A i \in DOMAIN reducedTo :
         /\ ToSet(reducedTo[i][2]) = EmittedFor(reducedTo[i][1])
         /\ Len(reducedTo[i][2]) = Cardinality(EmittedFor(reducedTo[i][1]))
         /\ \A j \in DOMAIN reducedTo : reducedTo[j][1] = reducedTo[i][1] => i = j
=============================================================================
