----------------------------- MODULE WordCount -----------------------------
(***************************************************************************)
(* The word count programs: one thread (word_count-seq.c), threads of its  *)
(* own (word_count-pthread.c), Phoenix 2 (word_count.c and its variant     *)
(* word_count-setenvs.c) and Phoenix++ (word_count.cpp). All split a text  *)
(* into words in place: a word is a pointer to its first byte, and ends at *)
(* a null byte that the program writes after it, which for the last word   *)
(* of a piece is the first byte of the next piece.                         *)
(***************************************************************************)
EXTENDS Integers, Sequences, FiniteSets, SequencesExt, Folds

CONSTANTS
  Texts,        \* the files: sequences of "a" (a letter), "'", " " (white space), "1"
  Counters,     \* a subset of {"seq", "pthread", "phoenix2", "setenvs", "phoenix++"}
  CountThreads,      \* threads
  Unit,         \* bytes of a piece: unit_size * req_units, chunk_size
  SafeBorders,  \* bound: Phoenix++ turns a piece's first byte into a capital in one step
  Remainders    \* bound: pthread's texts may not divide into num_procs pieces

ASSUME WordsAssumption ==
  /\ CountThreads \in Nat \ {0} /\ Unit \in Nat \ {0}
  /\ SafeBorders \in BOOLEAN /\ Remainders \in BOOLEAN

VARIABLES
  counter,   \* which of the programs this is
  file,      \* the text of the file
  fdata,     \* the text in memory, and the byte after it
  fpos,      \* the splitter's position
  pieces,    \* the pieces that were split: their first byte, and the byte after them
  worker,    \* each thread: [piece, at, mode, start, held]
  taken,     \* pieces that a thread has taken
  words      \* what each thread emitted: pointers to words

wcVars == <<counter, file, fdata, fpos, pieces, worker, taken, words>>

Letter(b) == b \in {"a", "A"}
InWord(b) == Letter(b) \/ b = "'"
Null == "0"
Upper(b) == IF b = "a" THEN "A" ELSE b

Size == Len(file)
Threads == 1 .. IF counter = "seq" THEN 1 ELSE CountThreads
Idle == [piece |-> 0, at |-> 0, mode |-> "idle", start |-> 0, held |-> Null]

\* main: the file is mapped with at least one byte more, which is null.
WcInit ==
  /\ counter \in Counters
  /\ file \in Texts
  /\ counter = "pthread" /\ ~Remainders => Len(file) % CountThreads = 0
  /\ fdata = Append(file, Null)
  /\ fpos = 1 /\ pieces = <<>> /\ taken = 0
  /\ worker = [w \in Threads |-> Idle]
  /\ words = [w \in Threads |-> <<>>]

(***************************************************************************)
(* Splitting.                                                              *)
(***************************************************************************)

\* The white space at or after a position, as memory holds it now, or the end.
BreakFrom(i) ==
  CHOOSE j \in i .. Size + 1 :
    /\ j = Size + 1 \/ fdata[j] = " "
    /\ \A k \in i .. j - 1 : fdata[k] # " "

\* wordcount_splitter of pthread: an equal share, which leaves a remainder.
Share == Size \div CountThreads

Smaller(a, b) == IF a < b THEN a ELSE b

\* The end of the next piece: its nominal end, moved to a word border.
EndOfPiece ==
  CASE counter = "seq" -> Size + 1
    [] counter = "pthread" -> BreakFrom(fpos + Smaller(Share, Size + 1 - fpos))
    [] OTHER -> BreakFrom(Smaller(fpos + Unit, Size + 1))

MoreToSplit ==
  CASE counter = "seq" -> pieces = <<>>
    [] counter = "pthread" -> Len(pieces) < CountThreads
    [] OTHER -> fpos <= Size

\* pthread starts a thread for a piece before it splits the next.
SplitText ==
  /\ MoreToSplit
  /\ pieces' = Append(pieces, [from |-> fpos, to |-> EndOfPiece])
  /\ fpos' = EndOfPiece
  /\ UNCHANGED <<counter, file, fdata, worker, taken, words>>

\* A thread takes the next piece; those of pthread have one each.
StartPiece(w) ==
  /\ worker[w].mode = "idle"
  /\ taken < Len(pieces)
  /\ counter = "pthread" => w = taken + 1
  /\ counter # "pthread" => ~MoreToSplit
  /\ taken' = taken + 1
  /\ worker' = [worker EXCEPT ![w] =
                 [Idle EXCEPT !.piece = taken + 1, !.at = pieces[taken + 1].from,
                              !.mode = IF counter = "phoenix++" THEN "load" ELSE "outside"]]
  /\ UNCHANGED <<counter, file, fdata, fpos, pieces, words>>

Piece(w) == pieces[worker[w].piece]
AtEnd(w) == worker[w].at >= Piece(w).to

(***************************************************************************)
(* Phoenix++: WordsMR::map first turns its whole piece into capitals, by   *)
(* reading a byte and writing it back.                                     *)
(***************************************************************************)
LoadByte(w) ==
  /\ worker[w].mode = "load" /\ ~AtEnd(w)
  /\ IF SafeBorders /\ worker[w].at = Piece(w).from
     THEN /\ fdata' = [fdata EXCEPT ![worker[w].at] = Upper(@)]
          /\ worker' = [worker EXCEPT ![w].at = @ + 1]
     ELSE /\ worker' = [worker EXCEPT ![w].held = Upper(fdata[worker[w].at]),
                                      ![w].mode = "store"]
          /\ UNCHANGED fdata
  /\ UNCHANGED <<counter, file, fpos, pieces, taken, words>>

StoreByte(w) ==
  /\ worker[w].mode = "store"
  /\ fdata' = [fdata EXCEPT ![worker[w].at] = worker[w].held]
  /\ worker' = [worker EXCEPT ![w].at = @ + 1, ![w].mode = "load"]
  /\ UNCHANGED <<counter, file, fpos, pieces, taken, words>>

CapitalsDone(w) ==
  /\ worker[w].mode = "load" /\ AtEnd(w)
  /\ worker' = [worker EXCEPT ![w].at = Piece(w).from, ![w].mode = "outside"]
  /\ UNCHANGED <<counter, file, fdata, fpos, pieces, taken, words>>

(***************************************************************************)
(* Counting: wordcount_getword, wordcount_map, WordsMR::map.               *)
(***************************************************************************)

\* Between words: a letter starts one.
Outside(w) ==
  /\ worker[w].mode = "outside" /\ ~AtEnd(w)
  /\ LET i == worker[w].at
         b == Upper(fdata[i])
     IN IF Letter(b)
        THEN /\ fdata' = [fdata EXCEPT ![i] = b]
             /\ worker' = [worker EXCEPT ![w].at = i + 1, ![w].mode = "inside",
                                         ![w].start = i]
        ELSE /\ worker' = [worker EXCEPT ![w].at = i + 1]
             /\ UNCHANGED fdata
  /\ UNCHANGED <<counter, file, fpos, pieces, taken, words>>

\* Inside a word: a byte that is neither a letter nor an apostrophe becomes its end.
Inside(w) ==
  /\ worker[w].mode = "inside" /\ ~AtEnd(w)
  /\ LET i == worker[w].at
         b == Upper(fdata[i])
     IN IF InWord(b)
        THEN /\ fdata' = [fdata EXCEPT ![i] = b]
             /\ worker' = [worker EXCEPT ![w].at = i + 1]
             /\ UNCHANGED words
        ELSE /\ fdata' = [fdata EXCEPT ![i] = Null]
             /\ worker' = [worker EXCEPT ![w].at = i + 1, ![w].mode = "outside"]
             /\ words' = [words EXCEPT ![w] = Append(@, worker[w].start)]
  /\ UNCHANGED <<counter, file, fpos, pieces, taken>>

\* A bug the properties must catch: the last word of a piece is not added.
AddsLastWordMutant == FALSE

\* word_count.c has left the addition of the last word out.
AddsLastWord == counter # "phoenix2"

\* The end of the piece, maybe inside a word, whose end is then in the next piece.
EndPiece(w) ==
  /\ worker[w].mode \in {"outside", "inside"} /\ AtEnd(w)
  /\ IF worker[w].mode = "inside" /\ AddsLastWord
     THEN /\ fdata' = [fdata EXCEPT ![worker[w].at] = Null]
          /\ words' = [words EXCEPT ![w] = Append(@, worker[w].start)]
     ELSE UNCHANGED <<fdata, words>>
  /\ worker' = [worker EXCEPT ![w] = Idle]
  /\ UNCHANGED <<counter, file, fpos, pieces, taken>>

WcNext ==
  \/ SplitText
  \/ \E w \in Threads :
       \/ StartPiece(w) \/ EndPiece(w)
       \/ LoadByte(w) \/ StoreByte(w) \/ CapitalsDone(w)
       \/ Outside(w) \/ Inside(w)

(***************************************************************************)
(* The result.                                                             *)
(***************************************************************************)

\* strcmp: the word at a pointer goes up to the next null byte.
WordAt(i) ==
  LET end == CHOOSE j \in i .. Size + 1 :
               fdata[j] = Null /\ \A k \in i .. j - 1 : fdata[k] # Null
  IN SubSeq(fdata, i, end - 1)

\* wordcount_reduce: how often each word was emitted by a thread.
Counted(emitted) ==
  LET found == [k \in DOMAIN emitted |-> WordAt(emitted[k])]
  IN [x \in Range(found) |-> Cardinality({k \in DOMAIN found : found[k] = x})]

\* merge_sections: the counts of two arrays, word by word.
Sum(x, f, g) == (IF x \in DOMAIN f THEN f[x] ELSE 0) + (IF x \in DOMAIN g THEN g[x] ELSE 0)
MergeSections(f, g) == [x \in DOMAIN f \union DOMAIN g |-> Sum(x, f, g)]

\* The rounds in which pthread joins its arrays pairwise: the odd one moves up.
RECURSIVE JoinArrays(_, _, _)
JoinArrays(arrays, pairs, odd) ==
  IF pairs = 0 THEN arrays[1]
  ELSE LET merged == [i \in 1 .. pairs |-> MergeSections(arrays[2 * i - 1], arrays[2 * i])]
           next == IF odd = 1 THEN Append(merged, arrays[2 * pairs + 1]) ELSE merged
       IN JoinArrays(next, (pairs + odd) \div 2, (pairs + odd) % 2)

Result ==
  LET arrays == [w \in Threads |-> Counted(words[w])]
  IN JoinArrays(arrays, Cardinality(Threads) \div 2, Cardinality(Threads) % 2)

WcDone == ~MoreToSplit /\ taken = Len(pieces) /\ \A w \in Threads : worker[w].mode = "idle"

(***************************************************************************)
(* Properties.                                                             *)
(***************************************************************************)

\* The words of the file: from the first letter of a run of letters and apostrophes
\* to the run's end.
IsWord(i, j) ==
  /\ \A k \in i .. j : InWord(file[k])
  /\ j = Size \/ ~InWord(file[j + 1])
  /\ Letter(file[i])
  /\ \A k \in 1 .. i - 1 : Letter(file[k]) => \E l \in k .. i : ~InWord(file[l])

Reference ==
  LET spans == {<<i, j>> \in (1 .. Size) \X (1 .. Size) : i <= j /\ IsWord(i, j)}
      text(s) == [k \in 1 .. s[2] - s[1] + 1 |-> Upper(file[s[1] + k - 1])]
  IN [x \in {text(s) : s \in spans} |-> Cardinality({s \in spans : text(s) = x})]

\* Every word of the file is counted, as often as it occurs, however the file is split
\* and the pieces interleave. word_count.c:155 says of its map "Go through the
\* allocated portion of the file and count the words".
WordsCounted == WcDone => Result = Reference
=============================================================================
