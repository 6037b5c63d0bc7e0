----------------------------- MODULE MemoryImage -----------------------------
(***************************************************************************)
(* What a checkpoint image holds of a process's memory and how several     *)
(* restarted processes bring it back, sharing the files that they map      *)
(* (mtcp_writeckpt.c, mtcp_restart_nolibc.c).  A page stands for the       *)
(* megabyte by which ranges of zeros are looked for.                       *)
(***************************************************************************)
EXTENDS Integers, Sequences, SequencesExt

CONSTANTS
  Procs,        \* the processes of the computation
  Layouts,      \* the sequences of areas that /proc/self/maps may list
  LibLow,       \* libmtcp's own pages, which the header of an image restores,
  LibHigh,      \* are LibLow..LibHigh-1
  Top,          \* the pages of an address space are 0..Top-1
  Files,        \* the files that areas map
  FileData,     \* [Files -> their contents at the checkpoint]
  Deleted,      \* the files whose name was gone at the checkpoint
  Leavings      \* the contents that a file may have when the restart begins

\* An area is [addr, size, prot, shared, name, off, data], with the file's
\* contents for data where it is shared and name = "" where no file is mapped.
ASSUME MemoryAssumption ==
  /\ 0 <= LibLow /\ LibLow < LibHigh /\ LibHigh < Top /\ Deleted \subseteq Files
  /\ \A l \in Layouts : \A n \in 1..Len(l) :
       l[n].name \in Files \cup {"", "/dev/zero (deleted)"} /\ Len(l[n].data) = l[n].size

VARIABLES
  layout,       \* [Procs -> the areas of each process]
  unwritten,    \* [Procs -> the areas that its image does not hold yet]
  image,        \* [Procs -> the descriptors and pages of its image]
  page,         \* [Procs -> its memory: [0..Top-1 -> a page]]
  file,         \* [Files -> contents, or NoFile]
  lock,         \* [Files -> the process with the write lock, or 0]
  restorer      \* [Procs -> where it is, and the size that it saw of a file]

memoryVars == <<layout, unwritten, image, page, file, lock, restorer>>

NoFile == <<-1>>
Address == 0..(Top - 1)
Unmapped == [kind |-> "none", v |-> 0, f |-> ""]
Anon(v) == [kind |-> "anonymous", v |-> v, f |-> ""]
OfFile(f, n) == [kind |-> "file", v |-> n, f |-> f]
EndMark == [size |-> -1]
Holds(a, x) == a.addr <= x /\ x < a.addr + a.size

MemoryInit ==
  /\ layout \in [Procs -> Layouts] /\ unwritten = layout
  /\ image = [p \in Procs |-> <<>>] /\ page = [p \in Procs |-> [x \in Address |-> Unmapped]]
  /\ file = [f \in Files |-> IF f \in Deleted THEN NoFile ELSE FileData[f]]
  /\ lock = [f \in Files |-> 0]
  /\ restorer = [p \in Procs |-> [place |-> "write", size |-> 0]]

Goes(p, place) == restorer' = [restorer EXCEPT ![p].place = place]

(***************************************************************************)
(* Writing.                                                                *)
(***************************************************************************)
\* An area that some file names and nobody may read or write is left out.
IsSaved(a) == a.name = "" \/ a.prot \cap {"r", "w"} # {}

\* Shared memory without a file, "/dev/zero (deleted)", is saved as private.
AsSaved(a) == IF a.name = "/dev/zero (deleted)" THEN [a EXCEPT !.name = "", !.shared = FALSE] ELSE a

\* What is left of an area without libmtcp's pages, which come with the header.
Cut(a, low, high) ==
  [a EXCEPT !.addr = low, !.size = high - low, !.off = @ + (low - a.addr),
            !.data = SubSeq(@, low - a.addr + 1, high - a.addr)]
ChoppedMutant(a) == IF a.addr < LibLow /\ a.addr + a.size > LibLow THEN <<Cut(a, a.addr, LibLow)>> ELSE <<a>>
Chopped(a) ==
  LET end == a.addr + a.size
  IN (IF a.addr < LibLow THEN <<Cut(a, a.addr, IF end <= LibLow THEN end ELSE LibLow)>> ELSE <<>>)
     \o (IF end > LibHigh THEN <<Cut(a, IF a.addr >= LibHigh THEN a.addr ELSE LibHigh, end)>> ELSE <<>>)

\* mtcp_write_non_rwx_and_anonymous_pages: a descriptor before every range of
\* pages that are all zero or all not (mtcp_get_next_page_range), and the pages
\* of the ranges that are not.
IsZero(a, n) == a.data[n] = 0
RangeFrom(a, n) ==
  LET same == {m \in n..a.size : \A k \in n..m : IsZero(a, k) = IsZero(a, n)}
  IN CHOOSE m \in same : \A k \in same : k <= m
Descriptor(a, zero) ==
  [addr |-> a.addr, size |-> a.size, prot |-> a.prot, shared |-> a.shared,
   name |-> a.name, off |-> a.off, zero |-> zero]
Ranges(a) ==
  FlattenSeq([n \in 1..a.size |->
    (IF n = 1 \/ IsZero(a, n) # IsZero(a, n - 1)
     THEN <<Descriptor(Cut(a, a.addr + n - 1, a.addr + RangeFrom(a, n)), IsZero(a, n))>> ELSE <<>>)
    \o (IF IsZero(a, n) THEN <<>> ELSE <<a.data[n]>>)])

\* writememoryarea
AreaWritten(a) == IF a.name = "" \/ a.prot = {} THEN Ranges(a) ELSE <<Descriptor(a, FALSE)>> \o a.data

WriteArea(p) ==
  LET a == AsSaved(Head(unwritten[p]))
  IN /\ restorer[p].place = "write" /\ unwritten[p] # <<>>
     /\ unwritten' = [unwritten EXCEPT ![p] = Tail(@)]
     /\ image' = [image EXCEPT ![p] =
                    IF IsSaved(a) THEN @ \o FlattenSeq([n \in DOMAIN Chopped(a) |-> AreaWritten(Chopped(a)[n])])
                    ELSE @]
     /\ UNCHANGED <<layout, page, file, lock, restorer>>

EndImage(p) ==
  /\ restorer[p].place = "write" /\ unwritten[p] = <<>>
  /\ image' = [image EXCEPT ![p] = Append(@, EndMark)] /\ Goes(p, "saved")
  /\ UNCHANGED <<layout, unwritten, page, file, lock>>

\* Files change after the checkpoint.
LeaveFile(f) ==
  /\ \A p \in Procs : restorer[p].place = "saved"
  /\ \E c \in Leavings : file' = [file EXCEPT ![f] = c]
  /\ UNCHANGED <<layout, unwritten, image, page, lock, restorer>>

(***************************************************************************)
(* Restoring.                                                              *)
(***************************************************************************)
\* restore_start: everything but libmtcp is unmapped.
RestoreStart(p) ==
  /\ restorer[p].place = "saved" /\ Goes(p, "next")
  /\ page' = [page EXCEPT ![p] = [x \in Address |-> IF x \in LibLow..(LibHigh - 1) THEN Anon(1) ELSE Unmapped]]
  /\ UNCHANGED <<layout, unwritten, image, file, lock>>

Area(p) == Head(image[p])
AreaData(p) == SubSeq(image[p], 2, 1 + Area(p).size)
ReadDescriptor(p) == image' = [image EXCEPT ![p] = Tail(@)]
ReadData(p) == image' = [image EXCEPT ![p] = SubSeq(@, 2 + Area(p).size, Len(@))]
Exists(f) == f \in Files /\ file[f] # NoFile

ReadEnd(p) ==
  /\ restorer[p].place = "next" /\ Area(p) = EndMark /\ Goes(p, "done")
  /\ UNCHANGED <<layout, unwritten, image, page, file, lock>>

ReadZeroArea(p) ==
  /\ restorer[p].place = "next" /\ Area(p) # EndMark /\ Area(p).zero
  /\ page' = [page EXCEPT ![p] = [x \in Address |-> IF Holds(Area(p), x) THEN Anon(0) ELSE @[x]]]
  /\ ReadDescriptor(p) /\ UNCHANGED <<layout, unwritten, file, lock, restorer>>

\* A private area is mapped from its file where there is one, and read over.
\* adjust_for_smaller_file_size maps fresh pages for what the file has lost.
LostFrom(a) ==
  IF Exists(a.name) /\ Len(file[a.name]) < Len(FileData[a.name]) /\ a.off + a.size > Len(file[a.name])
  THEN a.addr + a.size - (a.off + a.size - Len(file[a.name])) ELSE a.addr + a.size
ReadPrivateArea(p) ==
  LET a == Area(p)
  IN /\ restorer[p].place = "next" /\ a # EndMark /\ ~a.zero /\ ~a.shared
     /\ page' = [page EXCEPT ![p] =
                   [x \in Address |-> IF Holds(a, x) THEN Anon(AreaData(p)[x - a.addr + 1])
                                      ELSE IF LostFrom(a) <= x /\ x < a.addr THEN Anon(0) ELSE @[x]]]
     /\ ReadData(p) /\ UNCHANGED <<layout, unwritten, file, lock, restorer>>

\* read_shared_memory_area_from_file: the file is opened and measured, or found
\* missing.  "prot & MAP_SHARED" tests the read permission.
OpenShared(p) ==
  LET a == Area(p)
  IN /\ restorer[p].place = "next" /\ a # EndMark /\ ~a.zero /\ a.shared
     /\ restorer' = [restorer EXCEPT
          ![p] = IF "r" \notin a.prot THEN [@ EXCEPT !.place = "dead"]
                 ELSE IF Exists(a.name) THEN [place |-> "grow", size |-> Len(file[a.name])]
                 ELSE [@ EXCEPT !.place = "create"]]
     /\ UNCHANGED <<layout, unwritten, image, page, file, lock>>

CreateShared(p) ==
  /\ restorer[p].place = "create" /\ Goes(p, "lock")
  /\ file' = [file EXCEPT ![Area(p).name] = IF @ = NoFile THEN <<>> ELSE @]
  /\ UNCHANGED <<layout, unwritten, image, page, lock>>

LockShared(p) ==
  /\ restorer[p].place = "lock" /\ lock[Area(p).name] = 0
  /\ lock' = [lock EXCEPT ![Area(p).name] = p] /\ Goes(p, "fill")
  /\ UNCHANGED <<layout, unwritten, image, page, file>>

MappedPages(p) ==
  [x \in Address |-> IF Holds(Area(p), x) THEN OfFile(Area(p).name, Area(p).off + x - Area(p).addr + 1)
                     ELSE page[p][x]]
\* The saved pages are written from the file's beginning; closing it unlocks it.
FillShared(p) ==
  LET f == Area(p).name
  IN /\ restorer[p].place = "fill" /\ Goes(p, "next")
     /\ file' = [file EXCEPT ![f] = AreaData(p) \o SubSeq(@, Area(p).size + 1, Len(@))]
     /\ lock' = [lock EXCEPT ![f] = 0]
     /\ page' = [page EXCEPT ![p] = MappedPages(p)]
     /\ ReadData(p) /\ UNCHANGED <<layout, unwritten>>

\* A file that was seen shorter than the area gets the area's size.
Resized(c, n) == [k \in 1..n |-> IF k <= Len(c) THEN c[k] ELSE 0]
GrownMutant(p) == file[Area(p).name]
Grown(p) ==
  IF Area(p).size > restorer[p].size THEN Resized(file[Area(p).name], Area(p).size) ELSE file[Area(p).name]
GrowShared(p) ==
  /\ restorer[p].place = "grow" /\ Goes(p, "map")
  /\ file' = [file EXCEPT ![Area(p).name] = Grown(p)]
  /\ UNCHANGED <<layout, unwritten, image, page, lock>>

\* Under the read lock it is mapped and, where the area may be written, its
\* pages read from the image; a page after the file's end cannot be.
MapShared(p) ==
  LET a == Area(p)
      fits == a.off + a.size <= Len(file[a.name])
  IN /\ restorer[p].place = "map" /\ lock[a.name] = 0
     /\ page' = [page EXCEPT ![p] = MappedPages(p)]
     /\ file' = [file EXCEPT ![a.name] =
          [k \in DOMAIN @ |-> IF "w" \in a.prot /\ a.off < k /\ k <= a.off + a.size
                              THEN AreaData(p)[k - a.off] ELSE @[k]]]
     /\ Goes(p, IF "w" \in a.prot /\ ~fits THEN "dead" ELSE "next")
     /\ ReadData(p) /\ UNCHANGED <<layout, unwritten, lock>>

MemoryNext ==
  \/ \E f \in Files : LeaveFile(f)
  \/ \E p \in Procs :
       \/ WriteArea(p) \/ EndImage(p) \/ RestoreStart(p) \/ ReadEnd(p) \/ ReadZeroArea(p)
       \/ ReadPrivateArea(p) \/ OpenShared(p) \/ CreateShared(p) \/ LockShared(p)
       \/ FillShared(p) \/ GrowShared(p) \/ MapShared(p)

MemorySpec == MemoryInit /\ [][MemoryNext]_memoryVars

(***************************************************************************)
(* Properties.                                                             *)
(***************************************************************************)
Value(p, x) ==
  LET g == page[p][x]
  IN IF g.kind # "file" THEN g.v ELSE IF g.v <= Len(file[g.f]) THEN file[g.f][g.v] ELSE -1

\* When the processes that map the same files have all been restored, every page
\* that their images hold has its value of the checkpoint again, in whatever
\* order they found, created, grew and filled the files; a page of a file that
\* is mapped to be read shows what the file has.  No restore is aborted.
MemoryRestored ==
  /\ \A p \in Procs : restorer[p].place # "dead"
  /\ (\A p \in Procs : restorer[p].place = "done") =>
       \A p \in Procs : \A n \in DOMAIN layout[p] :
         LET a == layout[p][n]
         IN IsSaved(a) =>
              \A x \in {y \in Address : Holds(a, y) /\ ~(LibLow <= y /\ y < LibHigh)} :
                \/ page[p][x].kind # "none" /\ Value(p, x) = a.data[x - a.addr + 1]
                \/ a.shared /\ "w" \notin a.prot /\ page[p][x].kind = "file" /\ Value(p, x) # -1
=============================================================================
