------------------------------ MODULE MCState ------------------------------
(***************************************************************************)
(* Instances of what is saved of a process and brought back: a behaviour   *)
(* is one of its System V objects, of its sockets, of its files, of its    *)
(* image, of its memory, or of its terminals and FIFOs.                    *)
(***************************************************************************)
EXTENDS SysV, Sockets, Files, CkptFile, MemoryImage, Terminals

CONSTANTS t1, t2, t3, d1, d2, Parts
VARIABLE part

\* Processes that inherited the objects by fork.
Inherited == [p \in Proc |-> 1]

\* Two processes share the connecting end of one connection; the accepting end of
\* another is theirs too, and its other end may be closed by its program.
SharedEnd == [e \in End |-> CASE e = <<1, "connect">> -> {t1, t3}
                              [] e = <<2, "accept">> -> {t1}
                              [] OTHER -> {t2}]
ClosedEnd == {<<2, "connect">>}
OneEach == [e \in End |-> IF e = <<2, "accept">> THEN 0 ELSE 1]

\* Two connections to one file, and one that only writes another user's file.
TwoNames == [c \in Conns |-> IF c = 3 THEN "b" ELSE "a"]
Modes == [c \in Conns |-> <<"rw", "r", "w">>[c]]

\* An area around libmtcp's pages with zeros in and out of ranges; private areas
\* of a file, one of which nobody may touch; one file that two processes share,
\* the one to write and the other to read; shared memory without a file.
AreaOf(a, d, pr, sh, nm, o) ==
  [addr |-> a, size |-> Len(d), prot |-> pr, shared |-> sh, name |-> nm, off |-> o, data |-> d]
McFileData == [f \in Files |-> IF f = "f" THEN <<3, 4>> ELSE <<5, 0, 6>>]
Writer == << AreaOf(0, <<0, 0, 1, 0, 2, 0>>, {"r", "w"}, FALSE, "", 0),
             AreaOf(6, <<3, 4>>, {"r", "w"}, TRUE, "f", 0) >>
Reader == << AreaOf(0, <<0, 6>>, {"r"}, FALSE, "g", 1),
             AreaOf(3, <<7, 0>>, {}, FALSE, "", 0), AreaOf(5, <<5>>, {}, FALSE, "g", 0),
             AreaOf(6, <<3, 4>>, {"r"}, TRUE, "f", 0) >>
McLayouts == {Writer, Reader}
McLeavings == {NoFile, <<5>>, <<8, 9, 9>>}

\* One process opens both terminals, the leader of its session the slave of one.
TwoMasters == [t \in Term |-> 1]
TwoSlaves == [t \in Term |-> IF t = 1 THEN 2 ELSE 1]
OneSession == [p \in {1, 2} |-> 2]

\* A part that is not the behaviour's starts in one state.
Init ==
  /\ part \in Parts
  /\ SysVInit /\ SocketsInit /\ FilesInit /\ CkptFileInit /\ MemoryInit /\ TermInit
  /\ part # "files" => ~ckptOpenFiles
  /\ part # "memory" => layout = [p \in Procs |-> Writer]

Next ==
  /\ UNCHANGED part
  /\ \/ /\ part = "objects" /\ SysVNext
        /\ UNCHANGED <<sockVars, filesVars, ckptFileVars, memoryVars, termVars>>
     \/ /\ part = "sockets" /\ SocketsNext
        /\ UNCHANGED <<sysvVars, filesVars, ckptFileVars, memoryVars, termVars>>
     \/ /\ part = "files" /\ FilesNext
        /\ UNCHANGED <<sysvVars, sockVars, ckptFileVars, memoryVars, termVars>>
     \/ /\ part = "image" /\ CkptFileNext
        /\ UNCHANGED <<sysvVars, sockVars, filesVars, memoryVars, termVars>>
     \/ /\ part = "memory" /\ MemoryNext
        /\ UNCHANGED <<sysvVars, sockVars, filesVars, ckptFileVars, termVars>>
     \/ /\ part = "terminals" /\ TermNext
        /\ UNCHANGED <<sysvVars, sockVars, filesVars, ckptFileVars, memoryVars>>

Spec ==
  /\ Init /\ [][Next]_<<part, sysvVars, sockVars, filesVars, ckptFileVars, memoryVars, termVars>>
  /\ SocketsFairness

\* System V objects are what they were, shared by the same processes, without a
\* failed assertion of the drain, the election or the restart.
ObjectsRestored == ObjectsKept /\ SegmentShared /\ NoObjectAssertion

\* Connections lose, repeat and reorder nothing, and are shared as before.
ConnectionsKept == StreamsIntact /\ EndsHeld

\* Files, terminals, FIFOs and the pages of memory with the files they map are
\* restored, and a checkpoint or restart is refused only for a cause.
FilesKept == FilesRestored /\ AbortsOnlyIfChanged /\ TerminalsKept /\ FifoKept /\ MemoryRestored
=============================================================================
