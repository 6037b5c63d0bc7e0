------------------------------- MODULE KMeans -------------------------------
(***************************************************************************)
(* The k-means programs: one thread (kmeans-seq.c, kmeans-seq.cpp),        *)
(* threads of their own (kmeans-pthread.c), Phoenix 2 (kmeans.c) and       *)
(* Phoenix++ (kmeans.cpp). In each round every point joins the cluster of  *)
(* the nearest mean, then every mean that has points moves to their        *)
(* average, in whole numbers, until no point changes its cluster.          *)
(***************************************************************************)
EXTENDS Integers, Sequences, FiniteSets, FiniteSetsExt, Functions

CONSTANTS
  Versions,      \* a subset of {"seq", "pthread", "kmeans2", "kmeans++"}
  Clouds,        \* the generated points and first means: [points, means]
  NumProcs,      \* processors: the threads of pthread
  PointsPerTask, \* points of a map task
  NoneEmpty      \* bound: every first mean of kmeans2 has a point

ASSUME KMeansAssumption ==
  /\ NumProcs \in Nat \ {0} /\ PointsPerTask \in Nat \ {0} /\ NoneEmpty \in BOOLEAN

VARIABLES
  version,    \* which of the programs this is
  points,     \* the points
  means,      \* the means
  clusters,   \* the cluster of each point, 0 for none
  modified,   \* a point changed its cluster in this round
  kmPhase,    \* "round", "find", "means", "replace", "ended" or "aborted"
  shares,     \* what the threads or tasks of this phase have left: [from, to]
  reduced,    \* what the reduce tasks emitted: a mean for each key
  firstRun,   \* no round has ended
  allocated,  \* means whose coordinates are a block of their own
  badFree,    \* free() was called on an address inside another block
  before      \* the means at the start of the round

kmVars == <<version, points, means, clusters, modified, kmPhase, shares, reduced,
            firstRun, allocated, badFree, before>>

Mapped == version \in {"kmeans2", "kmeans++"}

\* get_sq_dist, point::sq_dist
SquareOf(x) == x * x
Distance(p, q) == MapThenSumSet(LAMBDA d : SquareOf(p[d] - q[d]), DOMAIN p)

\* find_clusters: the first of the nearest means.
Nearest(p, ms) ==
  CHOOSE j \in DOMAIN ms :
    \A k \in DOMAIN ms :
      /\ Distance(p, ms[j]) <= Distance(p, ms[k])
      /\ k < j => Distance(p, ms[j]) < Distance(p, ms[k])

\* add_to_sum, and the division, which drops the fraction.
AverageOf(group) ==
  [d \in DOMAIN points[1] |->
     MapThenSumSet(LAMBDA i : points[i][d], group) \div Cardinality(group)]

Members(j) == {i \in DOMAIN points : clusters[i] = j}

\* calc_means: a mean without points stays where it is.
MeanOf(j) == IF Members(j) = {} THEN means[j] ELSE AverageOf(Members(j))

KmInit ==
  /\ version \in Versions
  /\ \E c \in Clouds :
       /\ points = c.points /\ means = c.means
       /\ NoneEmpty /\ version = "kmeans2" =>
            {Nearest(c.points[i], c.means) : i \in DOMAIN c.points} = DOMAIN c.means
  /\ clusters = [i \in DOMAIN points |-> 0]
  /\ modified = TRUE /\ kmPhase = "round"
  /\ shares = <<>> /\ reduced = <<>>
  /\ firstRun = TRUE
  /\ allocated = IF version = "kmeans2" THEN {} ELSE DOMAIN means
  /\ badFree = FALSE /\ before = means

(***************************************************************************)
(* The shares of the threads, and of the map tasks.                        *)
(***************************************************************************)

LeastOf(a, b) == IF a < b THEN a ELSE b

\* A bug the properties must catch: the points left over have no thread.
EqualSharesMutant(n) ==
  LET per == n \div NumProcs
  IN [k \in 1 .. LeastOf(n, NumProcs) |-> [from |-> (k - 1) * per + 1, to |-> k * per]]

\* pthread: every thread has an equal share, the first ones one more.
EqualShares(n) ==
  LET extra == n % NumProcs
      from(k) == (k - 1) * (n \div NumProcs) + LeastOf(k - 1, extra) + 1
  IN [k \in 1 .. LeastOf(n, NumProcs) |-> [from |-> from(k), to |-> from(k + 1) - 1]]

\* kmeans_splitter: the last task may have fewer points.
TaskShares(n) ==
  [k \in 1 .. (n + PointsPerTask - 1) \div PointsPerTask |->
     [from |-> (k - 1) * PointsPerTask + 1, to |-> LeastOf(k * PointsPerTask, n)]]

SharesOf(n) ==
  CASE version = "seq"     -> << [from |-> 1, to |-> n] >>
    [] version = "pthread" -> EqualShares(n)
    [] OTHER               -> TaskShares(n)

\* assert (num_threads == num_procs)
AllProcsUsed(n) == version = "pthread" => Len(SharesOf(n)) = NumProcs

Started(n, phase) ==
  IF AllProcsUsed(n)
  THEN kmPhase' = phase /\ shares' = SharesOf(n)
  ELSE kmPhase' = "aborted" /\ shares' = <<>>

Remaining(k) == shares[k].from <= shares[k].to
AllJoined == \A k \in DOMAIN shares : ~Remaining(k)
Advance(k) == shares' = [shares EXCEPT ![k].from = @ + 1]

\* A bug the properties must catch: the changes of earlier rounds are not forgotten.
NoChangeMutant == modified

NoChange == FALSE

(***************************************************************************)
(* A round.                                                                *)
(***************************************************************************)
StartRound ==
  /\ kmPhase = "round" /\ modified
  /\ modified' = NoChange /\ before' = means /\ reduced' = <<>>
  /\ Started(Len(points), "find")
  /\ UNCHANGED <<version, points, means, clusters, firstRun, allocated, badFree>>

\* find_clusters, kmeans_map, KmeansMR::map for one point.
FindCluster(k) ==
  /\ kmPhase = "find" /\ Remaining(k)
  /\ LET i == shares[k].from
         nearest == Nearest(points[i], means)
     IN /\ clusters' = [clusters EXCEPT ![i] = nearest]
        /\ modified' = (modified \/ clusters[i] # nearest)
  /\ Advance(k)
  /\ UNCHANGED <<version, points, means, kmPhase, reduced, firstRun, allocated, badFree, before>>

\* The join after which the means are computed: one by one, or by reduce tasks.
StartMeans ==
  /\ kmPhase = "find" /\ AllJoined
  /\ IF Mapped THEN kmPhase' = "means" /\ UNCHANGED shares ELSE Started(Len(means), "means")
  /\ UNCHANGED <<version, points, means, clusters, modified, reduced, firstRun, allocated, badFree, before>>

\* calc_means, compute_means for one mean.
CalcMean(k) ==
  /\ kmPhase = "means" /\ ~Mapped /\ Remaining(k)
  /\ means' = [means EXCEPT ![shares[k].from] = MeanOf(shares[k].from)]
  /\ Advance(k)
  /\ UNCHANGED <<version, points, clusters, modified, kmPhase, reduced, firstRun, allocated, badFree, before>>

\* kmeans_reduce, point_combiner: a mean that some point was emitted for.
ReduceMean(j) ==
  /\ kmPhase = "means" /\ Mapped
  /\ j \notin DOMAIN reduced
  /\ Members(j) # {}
  /\ reduced' = [m \in DOMAIN reduced \union {j} |->
                   IF m = j THEN AverageOf(Members(j)) ELSE reduced[m]]
  /\ UNCHANGED <<version, points, means, clusters, modified, kmPhase, shares, firstRun, allocated, badFree, before>>

AllReduced == \A j \in DOMAIN means : Members(j) # {} => j \in DOMAIN reduced

\* A bug the properties must catch: the means of the first round are freed too.
FreesOldMutant == TRUE

\* first_run: the first means of kmeans2 are parts of one block.
FreesOld == version = "kmeans++" \/ ~firstRun

\* main: the means that were emitted take the place of the old ones.
ReplaceMeans ==
  /\ kmPhase = "means" /\ Mapped /\ AllReduced
  /\ badFree' = (badFree \/ (FreesOld /\ \E j \in DOMAIN reduced : j \notin allocated))
  /\ means' = [j \in DOMAIN means |-> IF j \in DOMAIN reduced THEN reduced[j] ELSE means[j]]
  /\ allocated' = allocated \union DOMAIN reduced
  /\ firstRun' = FALSE /\ kmPhase' = "round"
  /\ UNCHANGED <<version, points, clusters, modified, shares, reduced, before>>

EndRound ==
  /\ kmPhase = "means" /\ ~Mapped /\ AllJoined
  /\ firstRun' = FALSE /\ kmPhase' = "round"
  /\ UNCHANGED <<version, points, means, clusters, modified, shares, reduced, allocated, badFree, before>>

\* The end of main, which frees the means: of kmeans2 each of them, then their block.
EndProgram ==
  /\ kmPhase = "round" /\ ~modified
  /\ badFree' = (badFree \/ allocated # DOMAIN means)
  /\ kmPhase' = "ended"
  /\ UNCHANGED <<version, points, means, clusters, modified, shares, reduced, firstRun, allocated, before>>

KmNext ==
  \/ StartRound \/ StartMeans \/ EndRound \/ ReplaceMeans \/ EndProgram
  \/ \E k \in DOMAIN shares : FindCluster(k) \/ CalcMean(k)
  \/ \E j \in DOMAIN means : ReduceMean(j)

KmFairness == WF_kmVars(KmNext)

(***************************************************************************)
(* Properties.                                                             *)
(***************************************************************************)

\* At the end of a round every point is in the cluster whose mean was nearest when the
\* round began, and every mean with points is their average, whatever the shares were
\* and in whichever order the threads and tasks ran.
RoundsCorrect ==
  kmPhase \in {"round", "ended"} /\ ~firstRun =>
    \A j \in DOMAIN means :
      LET group == {i \in DOMAIN points : Nearest(points[i], before) = j}
      IN /\ group = Members(j)
         /\ means[j] = IF group = {} THEN before[j] ELSE AverageOf(group)

\* free() gets only blocks that malloc() returned.
FreesBlocks == ~badFree

\* The rounds end.
KMeansEnds == <>(kmPhase \in {"ended", "aborted"})
=============================================================================
