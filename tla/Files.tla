-------------------------------- MODULE Files -------------------------------
(***************************************************************************)
(* Open files across a checkpoint and a restart (ipc/file: fileconnection  *)
(* and fileconnlist; SharedData's map of inodes).  A connection stands for *)
(* an open file description with the process that was elected for it; the  *)
(* processes go through the phases of a checkpoint together, as the        *)
(* coordinator's barriers have it, and through each phase on their own.    *)
(***************************************************************************)
EXTENDS Integers, Sequences, SequencesExt

CONSTANTS
  Conns,          \* the connections
  PathOf,         \* [Conns -> the name each opens]
  Mode,           \* [Conns -> "r", "w" or "rw"]
  Owned,            \* the connections whose files belong to their user
  CkptOpenFiles,  \* subset of BOOLEAN: whether --checkpoint-open-files is given
  MaxSize,        \* bound on the data of a file
  MaxFileCkpt,    \* bounds on the checkpoints
  MaxFileRestart, \* and the restarts
  Reuse           \* whether a name is created again while its deleted file is open

ASSUME FilesAssumption ==
  /\ Mode \in [Conns -> {"r", "w", "rw"}] /\ Owned \subseteq Conns
  /\ CkptOpenFiles \subseteq BOOLEAN /\ Reuse \in BOOLEAN
  /\ MaxSize \in Nat /\ MaxFileCkpt \in Nat /\ MaxFileRestart \in Nat

VARIABLES
  ckptOpenFiles,  \* the option
  fileOf,         \* [names -> the file of that name, or 0]
  data,           \* the contents of the files, by number
  con,            \* [Conns -> its fields in memory]
  step,           \* [Conns -> how far its process is]
  leaders,        \* SharedData's inodeConnIdMap: a sequence of <<file, connection>>
  copy,           \* [Conns -> the copy of its file in ckpt_files_subdir, or NoCopy]
  savedCon,       \* [Conns -> its fields in the last image]
  wasFile,        \* [Conns -> the file's contents, and its name's, at that checkpoint]
  checkpoints,    \* the checkpoints so far
  restarts        \* the restarts so far

diskVars == <<fileOf, data>>
fileCounts == <<checkpoints, restarts>>
filesVars == <<ckptOpenFiles, diskVars, con, step, leaders, copy, savedCon, wasFile, fileCounts>>

NoCopy == <<0, 0, 0, 0>>
Name == {PathOf[c] : c \in Conns}
Writable(c) == Mode[c] # "r"
\* _fds, _type, _checkpointed, _fileAlreadyExists, _offset, _stat.st_size
Closed == [ino |-> 0, deleted |-> FALSE, checkpointed |-> FALSE, existed |-> FALSE, off |-> 0, size |-> 0]
Open == {c \in Conns : con[c].ino # 0}
In(steps) == \A c \in Conns : step[c] \in steps
Moves(c, place) == step' = [step EXCEPT ![c] = place]
Contents(c) == data[con[c].ino]

FilesInit ==
  /\ ckptOpenFiles \in CkptOpenFiles
  /\ fileOf = [n \in Name |-> 0] /\ data = <<>>
  /\ con = [c \in Conns |-> Closed] /\ step = [c \in Conns |-> "run"]
  /\ leaders = <<>> /\ copy = [c \in Conns |-> NoCopy]
  /\ savedCon = con /\ wasFile = [c \in Conns |-> [content |-> <<>>, named |-> FALSE]]
  /\ checkpoints = 0 /\ restarts = 0

(***************************************************************************)
(* The programs.                                                           *)
(***************************************************************************)
Created(n) == fileOf' = [fileOf EXCEPT ![n] = Len(data) + 1]
OpenFile(c) ==
  /\ In({"run"}) /\ c \notin Open
  /\ \/ fileOf[PathOf[c]] # 0 /\ UNCHANGED diskVars
     \/ /\ fileOf[PathOf[c]] = 0 /\ Writable(c)
        /\ Reuse \/ \A d \in Open : PathOf[d] # PathOf[c]
        /\ Created(PathOf[c]) /\ data' = Append(data, <<>>)
  /\ con' = [con EXCEPT ![c] = [Closed EXCEPT !.ino = fileOf'[PathOf[c]]]]
  /\ UNCHANGED <<ckptOpenFiles, step, leaders, copy, savedCon, wasFile, fileCounts>>

\* Programs write at the end of a file that is not saved with the checkpoint.
PutAt(content, off, v) == [n \in 1..(IF off = Len(content) THEN off + 1 ELSE Len(content)) |-> IF n = off + 1 THEN v ELSE content[n]]
WriteFile(c) ==
  /\ In({"run"}) /\ c \in Open /\ Writable(c) /\ con[c].off < MaxSize
  /\ con[c].off = Len(Contents(c)) \/ (ckptOpenFiles /\ c \in Owned /\ con[c].off < Len(Contents(c)))
  /\ data' = [data EXCEPT ![con[c].ino] = PutAt(@, con[c].off, c)]
  /\ con' = [con EXCEPT ![c].off = @ + 1]
  /\ UNCHANGED <<ckptOpenFiles, fileOf, step, leaders, copy, savedCon, wasFile, fileCounts>>

ReadFile(c) ==
  /\ In({"run"}) /\ c \in Open /\ Mode[c] # "w" /\ con[c].off < Len(Contents(c))
  /\ con' = [con EXCEPT ![c].off = @ + 1]
  /\ UNCHANGED <<ckptOpenFiles, diskVars, step, leaders, copy, savedCon, wasFile, fileCounts>>

\* A program, or someone between the crash and the restart.
Unlink(n) ==
  /\ (In({"run"}) \/ In({"crashed"})) /\ fileOf[n] # 0
  /\ fileOf' = [fileOf EXCEPT ![n] = 0]
  /\ UNCHANGED <<ckptOpenFiles, data, con, step, leaders, copy, savedCon, wasFile, fileCounts>>

(***************************************************************************)
(* The checkpoint.                                                         *)
(***************************************************************************)
\* All are suspended; SharedData::suspended, doLocking.
SuspendFiles ==
  /\ In({"run"}) /\ checkpoints < MaxFileCkpt
  /\ checkpoints' = checkpoints + 1 /\ leaders' = <<>>
  /\ step' = [c \in Conns |-> "suspended"]
  /\ con' = [c \in Conns |-> [con[c] EXCEPT !.checkpointed = FALSE]]
  /\ UNCHANGED <<ckptOpenFiles, diskVars, copy, savedCon, wasFile, restarts>>

\* handleUnlinkedFile: a file whose name is gone; one whose name has another file
\* now is not noticed.
IsDeleted(c) == con[c].deleted \/ fileOf[PathOf[c]] = 0
\* FileConnection::drain, FileConnList::drain
IsCheckpointed(c) ==
  /\ ~(IsDeleted(c) /\ Mode[c] = "w")
  /\ IsDeleted(c) \/ (ckptOpenFiles /\ c \in Owned)
Drain(c) ==
  /\ step[c] = "suspended" /\ Moves(c, "drained")
  /\ IF c \in Open
     THEN /\ con' = [con EXCEPT ![c].deleted = IsDeleted(c), ![c].checkpointed = IsCheckpointed(c),
                                ![c].size = Len(Contents(c))]
          /\ leaders' = IF IsCheckpointed(c) THEN Append(leaders, <<con[c].ino, c>>) ELSE leaders
     ELSE UNCHANGED <<con, leaders>>
  /\ UNCHANGED <<ckptOpenFiles, diskVars, copy, savedCon, wasFile, fileCounts>>

\* getCkptLeaderForFile: the last entry of the file
CkptLeader(i) ==
  leaders[CHOOSE n \in DOMAIN leaders : leaders[n][1] = i /\ \A k \in (n + 1)..Len(leaders) : leaders[k][1] # i][2]

\* FileConnection::preCkpt, and the image.  A copy cannot be read from a
\* descriptor that is only for writing.
Leads(c) == con[c].checkpointed /\ CkptLeader(con[c].ino) = c
Save(c) ==
  /\ step[c] = "drained" /\ In({"drained", "saved", "aborted"})
  /\ IF Leads(c) /\ Mode[c] = "w" THEN Moves(c, "aborted") /\ UNCHANGED <<con, copy, savedCon, wasFile>>
     ELSE /\ Moves(c, "saved")
          /\ con' = [con EXCEPT ![c].checkpointed = Leads(c)]
          /\ copy' = IF Leads(c) THEN [copy EXCEPT ![c] = Contents(c)] ELSE copy
          /\ savedCon' = [savedCon EXCEPT ![c] = con'[c]]
          /\ wasFile' = IF c \in Open
                    THEN [wasFile EXCEPT ![c] = [content |-> Contents(c), named |-> fileOf[PathOf[c]] # 0]] ELSE wasFile
  /\ UNCHANGED <<ckptOpenFiles, diskVars, leaders, fileCounts>>

\* All have gone through the last phase; the programs run.
FilesGoOn ==
  /\ In({"saved"}) \/ In({"resumed"})
  /\ step' = [c \in Conns |-> "run"]
  /\ UNCHANGED <<ckptOpenFiles, diskVars, con, leaders, copy, savedCon, wasFile, fileCounts>>

(***************************************************************************)
(* The restart.                                                            *)
(***************************************************************************)
CrashFiles ==
  /\ In({"run"}) /\ checkpoints > 0 /\ restarts < MaxFileRestart
  /\ restarts' = restarts + 1
  /\ step' = [c \in Conns |-> "crashed"] /\ con' = savedCon
  /\ UNCHANGED <<ckptOpenFiles, diskVars, leaders, copy, savedCon, wasFile, checkpoints>>

RestartFiles ==
  /\ In({"crashed"}) /\ step' = [c \in Conns |-> "restarted"]
  /\ UNCHANGED <<ckptOpenFiles, diskVars, con, leaders, copy, savedCon, wasFile, fileCounts>>

\* FileConnection::postRestart; the copy is written after the file is created.
FilePostRestart(c) ==
  /\ step[c] = "restarted"
  /\ IF c \notin Open \/ ~con[c].checkpointed THEN Moves(c, "restored") /\ UNCHANGED <<con, diskVars>>
     ELSE IF fileOf[PathOf[c]] # 0
     THEN /\ con' = [con EXCEPT ![c].existed = TRUE, ![c].ino = fileOf[PathOf[c]]]
          /\ Moves(c, "restored") /\ UNCHANGED diskVars
     ELSE /\ Created(PathOf[c]) /\ data' = Append(data, <<>>)
          /\ con' = [con EXCEPT ![c].existed = FALSE, ![c].ino = Len(data) + 1]
          /\ Moves(c, "copying")
  /\ UNCHANGED <<ckptOpenFiles, leaders, copy, savedCon, wasFile, fileCounts>>

WriteFileFromFd(c) ==
  /\ step[c] = "copying" /\ Moves(c, "restored")
  /\ data' = [data EXCEPT ![con[c].ino] = copy[c]]
  /\ UNCHANGED <<ckptOpenFiles, fileOf, con, leaders, copy, savedCon, wasFile, fileCounts>>

\* refill, once every process has restored its files.
AllRestoredMutant == TRUE
AllRestored == In({"restored", "refilled", "aborted"})
AreFilesEqual(c) == con[c].size = 0 \/ (Mode[c] # "w" /\ con[c].size <= Len(Contents(c)) /\ SubSeq(Contents(c), 1, con[c].size) = copy[c])
Sized(content, size) == [n \in 1..size |-> IF n <= Len(content) THEN content[n] ELSE 0]
\* The file that a connection without a copy opens, with its new contents.
Recreates(c) == con[c].deleted /\ Mode[c] = "w"
TruncatedMutant(c, content) == IF Recreates(c) THEN Sized(content, con[c].size) ELSE content
Truncated(c, content) ==
  IF Recreates(c) \/ (Writable(c) /\ Len(content) > con[c].size) THEN Sized(content, con[c].size) ELSE content
Refuses(c) == \/ con[c].checkpointed /\ con[c].existed /\ ~AreFilesEqual(c)
              \/ ~con[c].checkpointed /\ ~Recreates(c) /\ fileOf[PathOf[c]] = 0
RefillFile(c) ==
  LET n == PathOf[c]
      i == IF fileOf[n] = 0 THEN Len(data) + 1 ELSE fileOf[n]
      name2 == fileOf'[n]
      reached == name2 # 0 /\ con[c].off <= Len(data'[name2]) /\ con[c].off <= con[c].size
  IN /\ step[c] = "restored" /\ AllRestored
     /\ IF c \notin Open THEN Moves(c, "refilled") /\ UNCHANGED <<diskVars, con>>
        ELSE IF Refuses(c) THEN Moves(c, "aborted") /\ UNCHANGED <<diskVars, con>>
        ELSE /\ Moves(c, "refilled")
             /\ IF con[c].checkpointed THEN UNCHANGED diskVars
                ELSE /\ fileOf' = [fileOf EXCEPT ![n] = i]
                     /\ data' = IF i > Len(data) THEN Append(data, Truncated(c, <<>>))
                                ELSE [data EXCEPT ![i] = Truncated(c, @)]
             /\ con' = [con EXCEPT ![c].ino = IF con[c].checkpointed THEN @ ELSE i,
                                   ![c].off = IF reached THEN @ ELSE 0]
     /\ UNCHANGED <<ckptOpenFiles, leaders, copy, savedCon, wasFile, fileCounts>>

\* A file that was deleted, and has been restored from its copy, is again.
DeletesMutant(c) == FALSE
Deletes(c) == c \in Open /\ con[c].checkpointed /\ con[c].deleted
ResumeFile(c) ==
  /\ step[c] = "refilled" /\ In({"refilled", "resumed"}) /\ Moves(c, "resumed")
  /\ fileOf' = IF Deletes(c) THEN [fileOf EXCEPT ![PathOf[c]] = 0] ELSE fileOf
  /\ UNCHANGED <<ckptOpenFiles, data, con, leaders, copy, savedCon, wasFile, fileCounts>>

FilesNext ==
  \/ SuspendFiles \/ FilesGoOn \/ CrashFiles \/ RestartFiles
  \/ \E n \in Name : Unlink(n)
  \/ \E c \in Conns :
       \/ OpenFile(c) \/ WriteFile(c) \/ ReadFile(c)
       \/ Drain(c) \/ Save(c) \/ FilePostRestart(c) \/ WriteFileFromFd(c) \/ RefillFile(c) \/ ResumeFile(c)

FilesSpec == FilesInit /\ [][FilesNext]_filesVars

(***************************************************************************)
(* Properties.                                                             *)
(***************************************************************************)
\* Nobody has a copy of a deleted file that could only be written.
OnlyWritten(c) ==
  savedCon[c].deleted /\ \A d \in Conns : savedCon[d].ino = savedCon[c].ino => ~savedCon[d].checkpointed

\* When all processes have been restarted, each is again at its offset in a file
\* that starts with what it held at the checkpoint, and holds no more where the
\* program writes it and no copy vouches for it; processes that shared a file
\* still share it; a name exists as it did.
FilesRestored ==
  In({"resumed"}) =>
    \A c \in Open :
      OnlyWritten(c) \/
        /\ con[c].off = savedCon[c].off
        /\ IsPrefix(wasFile[c].content, Contents(c))
        /\ Writable(c) /\ ~con[c].checkpointed /\ ~con[c].deleted => Contents(c) = wasFile[c].content
        /\ (fileOf[PathOf[c]] # 0) = wasFile[c].named
        /\ \A d \in Open : (savedCon[c].ino = savedCon[d].ino) => (con[c].ino = con[d].ino)

\* A checkpoint is never refused, and a restart only where somebody has removed or
\* changed a file since the checkpoint.
AbortsOnlyIfChanged ==
  \A c \in Conns : step[c] = "aborted" =>
    \/ ~savedCon[c].checkpointed /\ fileOf[PathOf[c]] = 0 /\ wasFile[c].named
    \/ savedCon[c].checkpointed /\ fileOf[PathOf[c]] # 0 /\ ~IsPrefix(wasFile[c].content, data[fileOf[PathOf[c]]])
=============================================================================
