------------------------------- MODULE Phases -------------------------------
(***************************************************************************)
(* What a pool of threads promises its owner: phases that do not overlap.  *)
(* A phase opens for some of the threads, each of them runs the phase's    *)
(* function once, and it closes when all have.                             *)
(***************************************************************************)
CONSTANT Thread

VARIABLES
  open,  \* a phase is under way
  todo   \* the threads that have not finished it

vars == <<open, todo>>

Init == open = FALSE /\ todo = {}

Open ==
  /\ ~open
  /\ open' = TRUE
  /\ todo' \in (SUBSET Thread) \ {{}}

Done(w) ==
  /\ w \in todo
  /\ todo' = todo \ {w}
  /\ UNCHANGED open

Close ==
  /\ open /\ todo = {}
  /\ open' = FALSE
  /\ UNCHANGED todo

Next == Open \/ Close \/ \E w \in Thread : Done(w)

Spec == Init /\ [][Next]_vars
=============================================================================
