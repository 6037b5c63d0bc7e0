------------------------------ MODULE CkptFile ------------------------------
(***************************************************************************)
(* How a process's checkpoint image gets its name (mtcp_writeckpt.c): the  *)
(* image is written to a temporary file, directly or through a gzip        *)
(* process, and renamed over the image of the checkpoint before it.  With  *)
(* forked checkpointing a grandchild writes it while the program goes on.  *)
(* The process may be killed at any step and restarted from its image.     *)
(***************************************************************************)
EXTENDS Integers, Sequences, FiniteSets

CONSTANTS
  Images,        \* bound on the checkpoints
  Pieces,        \* the writes of an image; the last is its end mark
  PipeRoom,      \* the writes that the pipe to gzip holds
  Compressions,  \* subset of BOOLEAN: whether DMTCP_GZIP is on
  Forked,        \* whether MTCP_FORKED_CHECKPOINT is set
  Failures       \* the calls that may fail: "pipe", "fork", "disk", "gzip"

ASSUME CkptFileAssumption ==
  /\ Images \in Nat /\ Pieces \in Nat \ {0} /\ PipeRoom \in Nat \ {0}
  /\ Compressions \subseteq BOOLEAN /\ Forked \in BOOLEAN
  /\ Failures \subseteq {"pipe", "fork", "disk", "gzip"}

VARIABLES
  program,     \* "runs", "waits" for the checkpoint it started last, or "dead"
  sigchld,     \* its disposition of SIGCHLD: "user" or "ignored"
  started,     \* the checkpoints started
  writer,      \* [1..Images -> the process that writes the image]
  compressor,  \* [1..Images -> its gzip process]
  inode,       \* [{"temp", "perm"} -> the file of that name, or 0]
  disk         \* the contents of the files

fileVars == <<inode, disk>>
ckptFileVars == <<program, sigchld, started, writer, compressor, fileVars>>

Image == 1..Images
Hole == <<0, 0>>
Whole(c) == [n \in 1..Pieces |-> <<c, n>>]
\* A write at an offset of a file; what lies between its end and there is a hole.
WithPiece(content, offset, piece) ==
  [n \in 1..(IF offset < Len(content) THEN Len(content) ELSE offset + 1) |->
     IF n = offset + 1 THEN piece ELSE IF n <= Len(content) THEN content[n] ELSE Hole]

NoWriter == [place |-> "none", file |-> 0, pieces |-> 0]
NoGzip == [place |-> "none", pipe |-> <<>>, out |-> 0]

CkptFileInit ==
  /\ program = "runs" /\ sigchld = "user" /\ started = 0
  /\ writer = [c \in Image |-> NoWriter] /\ compressor = [c \in Image |-> NoGzip]
  /\ inode = [temp |-> 0, perm |-> 0] /\ disk = <<>>

\* test_and_prepare_for_forked_ckpt: the program waits for the image unless a
\* grandchild writes it, which the failure of the fork prevents.
StartImage ==
  LET c == started + 1
  IN /\ program = "runs" /\ c \in Image
     /\ started' = c /\ writer' = [writer EXCEPT ![c].place = "open"]
     /\ \/ (~Forked \/ "fork" \in Failures) /\ program' = "waits"
        \/ Forked /\ UNCHANGED program
     /\ UNCHANGED <<sigchld, compressor, fileVars>>

\* mtcp_abort in a writer, which is the program itself or its grandchild.
Own(c) == program = "waits" /\ c = started
Aborts(c) ==
  /\ writer' = [writer EXCEPT ![c].place = "dead"]
  /\ program' = IF Own(c) THEN "dead" ELSE program

\* The temporary file is created, or truncated where one has been left.
TempNameMutant == "perm"
TempName == "temp"
Temp == IF inode[TempName] = 0 THEN Len(disk) + 1 ELSE inode[TempName]
OpenTemp ==
  /\ inode' = [inode EXCEPT ![TempName] = Temp]
  /\ disk' = IF Temp > Len(disk) THEN Append(disk, <<>>) ELSE [disk EXCEPT ![Temp] = <<>>]

\* perform_open_ckpt_image_fd: SIGCHLD is ignored before the pipe is opened and
\* gzip forked.  A pipe that fails ends in mtcp_abort ("Not Reached!"); a fork
\* that fails leaves the descriptor to the file, and SIGCHLD ignored.
OpenImage(c) ==
  /\ writer[c].place = "open" /\ OpenTemp
  /\ \E compress \in Compressions :
       /\ sigchld' = IF compress /\ Own(c) THEN "ignored" ELSE sigchld
       /\ \/ /\ compress /\ "pipe" \in Failures
             /\ Aborts(c) /\ UNCHANGED compressor
          \/ /\ writer' = [writer EXCEPT ![c].place = "write", ![c].file = Temp]
             /\ UNCHANGED program
             /\ \/ compress /\ compressor' = [compressor EXCEPT ![c].place = "runs"]
                \/ (compress => "fork" \in Failures) /\ UNCHANGED compressor
  /\ UNCHANGED started

\* mtcp_writefile, of the header, the areas and the end mark in turn.
WritePiece(c) ==
  LET n == writer[c].pieces + 1
      i == writer[c].file
  IN /\ writer[c].place = "write" /\ n <= Pieces
     /\ \/ /\ compressor[c].place = "none"
           /\ disk' = [disk EXCEPT ![i] = WithPiece(@, n - 1, <<c, n>>)]
           /\ writer' = [writer EXCEPT ![c].pieces = n] /\ UNCHANGED <<program, compressor>>
        \/ /\ compressor[c].place = "none" /\ "disk" \in Failures
           /\ Aborts(c) /\ UNCHANGED <<compressor, disk>>
        \/ /\ compressor[c].place = "runs" /\ Len(compressor[c].pipe) < PipeRoom
           /\ compressor' = [compressor EXCEPT ![c].pipe = Append(@, <<c, n>>)]
           /\ writer' = [writer EXCEPT ![c].pieces = n] /\ UNCHANGED <<program, disk>>
        \/ /\ compressor[c].place = "ended"                                 \* SIGPIPE
           /\ Aborts(c) /\ UNCHANGED <<compressor, disk>>
     /\ UNCHANGED <<sigchld, started, inode>>

\* gzip writes to the file that it has inherited until its input ends.
Gzip(c) ==
  LET g == compressor[c]
  IN /\ g.place = "runs"
     /\ \/ /\ g.pipe # <<>>
           /\ disk' = [disk EXCEPT ![writer[c].file] = WithPiece(@, g.out, Head(g.pipe))]
           /\ compressor' = [compressor EXCEPT ![c].pipe = Tail(@), ![c].out = @ + 1]
        \/ /\ g.pipe = <<>> /\ writer[c].place # "write"
           /\ compressor' = [compressor EXCEPT ![c].place = "ended"] /\ UNCHANGED disk
        \/ /\ "gzip" \in Failures
           /\ compressor' = [compressor EXCEPT ![c].place = "ended", ![c].pipe = <<>>]
           /\ UNCHANGED disk
     /\ UNCHANGED <<program, sigchld, started, writer, inode>>

\* write_ckpt_to_file's end: the file is synced and its descriptor closed.
CloseImage(c) ==
  /\ writer[c].place = "write" /\ writer[c].pieces = Pieces
  /\ \/ writer' = [writer EXCEPT ![c].place = "wait"] /\ UNCHANGED program
     \/ "disk" \in Failures /\ Aborts(c)
  /\ UNCHANGED <<sigchld, started, compressor, fileVars>>

\* gzip is waited for, whatever its status, and the disposition restored.
MayRenameMutant(c) == writer[c].place = "wait"
MayRename(c) == writer[c].place = "wait" /\ compressor[c].place # "runs"
DispositionMutant(c) == sigchld
Disposition(c) == IF Own(c) /\ compressor[c].place # "none" THEN "user" ELSE sigchld
RenameImage(c) ==
  /\ MayRename(c)
  /\ sigchld' = Disposition(c)
  /\ \/ /\ inode[TempName] # 0
        /\ inode' = [inode EXCEPT !.perm = inode[TempName], !.temp = 0]
        /\ writer' = [writer EXCEPT ![c].place = "done"]
        /\ program' = IF Own(c) THEN "runs" ELSE program
     \/ inode[TempName] = 0 /\ Aborts(c) /\ UNCHANGED inode
  /\ UNCHANGED <<started, compressor, disk>>

\* The program is killed, and with it the writer of its own checkpoint.
KillProgram ==
  /\ started > 0 /\ program # "dead" /\ program' = "dead"
  /\ writer' = [c \in Image |-> IF Own(c) THEN [writer[c] EXCEPT !.place = "dead"] ELSE writer[c]]
  /\ UNCHANGED <<sigchld, started, compressor, fileVars>>

\* It is restarted from its image, when no gzip of before writes any more.  The
\* handlers are those saved in the image (save_sig_handlers).
RestartProgram ==
  /\ program = "dead" /\ inode.perm # 0
  /\ \A c \in Image : compressor[c].place # "runs"
  /\ program' = "runs" /\ sigchld' = "user"
  /\ UNCHANGED <<started, writer, compressor, fileVars>>

CkptFileNext ==
  \/ StartImage \/ KillProgram \/ RestartProgram
  \/ \E c \in Image : OpenImage(c) \/ WritePiece(c) \/ Gzip(c) \/ CloseImage(c) \/ RenameImage(c)

CkptFileSpec == CkptFileInit /\ [][CkptFileNext]_ckptFileVars

(***************************************************************************)
(* Properties.                                                             *)
(***************************************************************************)
\* The file under the image's name is at every moment a whole image, of the
\* latest checkpoint that has ended: a process that dies, or whose disk is full,
\* in the middle of a checkpoint can be restarted from the one before.
ImageWhole ==
  inode.perm # 0 =>
    \E c \in Image : /\ disk[inode.perm] = Whole(c)
                     /\ \A d \in Image : writer[d].place = "done" => d <= c

\* The program's SIGCHLD handler is its own again whenever it runs.
HandlerKept == program = "runs" => sigchld = "user"

\* The image under its name is a whole one; taking it leaves the program's handler alone.
ImageKept == ImageWhole /\ HandlerKept
=============================================================================
