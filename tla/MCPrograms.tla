---------------------------- MODULE MCPrograms ----------------------------
(***************************************************************************)
(* Instances of the computing side: a behaviour is one of jobs of Phoenix  *)
(* 2, of a program that counts words, of one that groups points, of a      *)
(* container of Phoenix++, of its lock, or of its thread pool.             *)
(***************************************************************************)
EXTENDS Phoenix2, WordCount, KMeans, Containers, McsLock, ThreadPool

CONSTANT Parts
VARIABLE part

Pair(k, v) == [key |-> k, val |-> v]

Job(data, chunk, m, r, g) ==
  [data |-> data, chunk |-> chunk, mapThreads |-> m, reduceThreads |-> r, mergeThreads |-> g,
   offset |-> 0, perTask |-> FALSE, combiner |-> FALSE, adds |-> TRUE, ownSplitter |-> FALSE]

Mixed == <<Pair(1, 1), Pair(0, 2), Pair(1, 4), Pair(3, 8)>>
Many  == <<Pair(2, 1), Pair(2, 2), Pair(2, 2), Pair(0, 1), Pair(2, 3)>>

(* Two threads, with the combiner, then with the identity; an array for    *)
(* every reduce task, merged in two rounds; two task queues; more map      *)
(* threads than map tasks; one reducer; the defaults of four processors,   *)
(* where a reduce phase of three pool threads comes before a merge of one. *)
SafePrograms ==
  { [cpus |-> 2, jobs |-> << [Job(Mixed, 2, 2, 2, 0) EXCEPT !.combiner = TRUE],
                             [Job(Many, 2, 2, 2, 0) EXCEPT !.adds = FALSE] >>],
    [cpus |-> 2, jobs |-> << [Job(Mixed, 1, 2, 2, 2) EXCEPT !.perTask = TRUE] >>],
    [cpus |-> 1, jobs |-> << [Job(Mixed, 2, 2, 2, 0) EXCEPT !.ownSplitter = TRUE] >>],
    [cpus |-> 3, jobs |-> << Job(SubSeq(Mixed, 1, 2), 1, 3, 3, 0) >>],
    [cpus |-> 3, jobs |-> << Job(Mixed, 1, 3, 3, 0) >>],
    [cpus |-> 3, jobs |-> << [Job(Mixed, 2, 0, 1, 0) EXCEPT !.adds = FALSE] >>],
    [cpus |-> 4, jobs |-> << Job(SubSeq(Mixed, 1, 1), 1, 0, 0, 0) >>] }

(* More map threads than reduce threads. *)
UnevenPrograms == { [cpus |-> 4, jobs |-> << Job(Mixed, 1, 4, 3, 0) >>] }

\* Every text of four of: a letter, an apostrophe, a space, a digit.
McTexts == UNION {[1 .. n -> {"a", "'", " ", "1"}] : n \in {4}}

\* Three points and two means on a line; two points and one mean.
McClouds ==
  [points : [1 .. 3 -> [1 .. 1 -> 0 .. 3]], means : [1 .. 2 -> [1 .. 1 -> 0 .. 3]]]
    \cup [points : [1 .. 2 -> [1 .. 1 -> 0 .. 1]], means : [1 .. 1 -> [1 .. 1 -> 0 .. 1]]]

\* Eleven points and four means in space.
McSpace ==
  { [points |-> << <<1, 2, 0>>, <<2, 2, 2>>, <<1, 1, 0>>, <<2, 2, 1>>, <<1, 1, 1>>, <<0, 2, 1>>,
                   <<2, 0, 0>>, <<2, 2, 0>>, <<1, 0, 1>>, <<1, 2, 0>>, <<0, 0, 2>> >>,
     means  |-> << <<1, 2, 1>>, <<1, 1, 0>>, <<2, 1, 0>>, <<1, 0, 2>> >>] }

\* Keys 0 and 2 share a bucket, and key 1 is past the end of the first table.
McKeyHash == [k \in 0 .. 2 |-> <<0, 8, 1>>[k + 1]]
McEmissions == {<<>>, <<0>>, <<2>>, <<0, 1>>, <<0, 1, 0>>, <<1, 2, 1>>}
McChunks == [k \in Kinds |-> IF k \in {"hash", "common"} THEN 2 ELSE 1]

\* A part that is not the behaviour's starts in one state.
FirstText  == CHOOSE x \in Texts : Len(x) % CountThreads = 0
FirstCloud == CHOOSE x \in Clouds : TRUE
McInit ==
  /\ part \in Parts
  /\ IF part = "phoenix" THEN TRUE ELSE program = CHOOSE x \in Programs : TRUE
  /\ IF part = "words" THEN TRUE ELSE counter = (CHOOSE x \in Counters : TRUE) /\ file = FirstText
  /\ IF part = "means" THEN TRUE
     ELSE version = "seq" /\ points = FirstCloud.points /\ means = FirstCloud.means
  /\ IF part = "containers" THEN TRUE ELSE container = CHOOSE x \in Kinds : TRUE
  /\ Init /\ WcInit /\ KmInit /\ ContInit /\ LockInit /\ PoolInit

McNext ==
  /\ UNCHANGED part
  /\ \/ /\ part = "phoenix" /\ Next
        /\ UNCHANGED <<wcVars, kmVars, contVars, lockVars, poolVars>>
     \/ /\ part = "words" /\ WcNext
        /\ UNCHANGED <<vars, kmVars, contVars, lockVars, poolVars>>
     \/ /\ part = "means" /\ KmNext
        /\ UNCHANGED <<vars, wcVars, contVars, lockVars, poolVars>>
     \/ /\ part = "containers" /\ ContNext
        /\ UNCHANGED <<vars, wcVars, kmVars, lockVars, poolVars>>
     \/ /\ part = "lock" /\ LockNextStep
        /\ UNCHANGED <<vars, wcVars, kmVars, contVars, poolVars>>
     \/ /\ part = "pool" /\ PoolNext
        /\ UNCHANGED <<vars, wcVars, kmVars, contVars, lockVars>>

mcVars == <<part, vars, wcVars, kmVars, contVars, lockVars, poolVars>>

\* Some step of a program is always taken, and each thread at the lock goes on.
McSpec ==
  /\ McInit /\ [][McNext]_mcVars
  /\ WF_vars(part = "phoenix" /\ Next) /\ WF_kmVars(part = "means" /\ KmNext) /\ LockFairness

\* Jobs of Phoenix 2 give the right answer, and do nothing that C leaves undefined and
\* fail no assertion on the way.
JobsCorrect == JobsComplete /\ RunsDefined

\* The programs that count words or group points give the right answer, and free only
\* what malloc returned.
AnswersRight == (part = "words" => WordsCounted) /\ RoundsCorrect /\ FreesBlocks

\* Jobs of Phoenix 2 return and the threads of their pool end, the rounds of kmeans end,
\* and a thread does not wait for the lock forever (one of them: the threads are alike).
Answered ==
  CASE part = "phoenix" -> master = "over" /\ \A w \in 1 .. pool.numThreads : tpoolPc[w] = "gone"
    [] part = "means"   -> kmPhase \in {"ended", "aborted"}
    [] part = "lock"    -> ~Waits(CHOOSE t \in Lockers : TRUE)
    [] OTHER            -> TRUE
ProgramsEnd == []<>Answered
=============================================================================
