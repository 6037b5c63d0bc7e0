---------------------------- MODULE MCMapReduce ----------------------------
(* Instances of MapReduce: three lines of two keys, read in several ways. *)
EXTENDS MapReduce

Line(k, n) == [key |-> k, len |-> n]

Job(files, sorted, ingest, bytes, nfiles) ==
  [files |-> files, sorted |-> sorted, ingest |-> ingest,
   ingestBytes |-> bytes, ingestFiles |-> nfiles]

OneFile == <<<<Line(0, 2), Line(1, 3), Line(0, 1)>>>>

ThreeFiles == <<<<Line(0, 1), Line(1, 1)>>, <<Line(1, 1)>>, <<Line(0, 1)>>>>

(* run(); chunks of bytes, of one file, of two files, with an empty file   *)
(* after the first; and a sorted job.                                      *)
MCJobs ==
  { Job(OneFile, FALSE, FALSE, 0, 1),
    Job(OneFile, FALSE, TRUE, 1, 1),
    Job(OneFile, FALSE, TRUE, 2, 1),
    Job(ThreeFiles, FALSE, TRUE, 0, 1),
    Job(ThreeFiles, FALSE, TRUE, 0, 2),
    Job(<<<<Line(0, 1)>>, <<>>, <<Line(0, 1)>>>>, FALSE, TRUE, 0, 1),
    Job(OneFile, TRUE, FALSE, 0, 1) }

SortedJobs == { Job(OneFile, TRUE, FALSE, 0, 1) }
=============================================================================
