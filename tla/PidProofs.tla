----------------------------- MODULE PidProofs -----------------------------
(***************************************************************************)
(* Virtual pids name the processes they were given to, for any set of      *)
(* processes, with any number of forks that fail, of execs and restarts.   *)
(*                                                                         *)
(* A table is true when each of its entries names one process by both its  *)
(* pids (Names).  That holds because no number is given twice while it is  *)
(* known to anyone (VirtualInv), which with the first coordinator rests on *)
(* the order in which it counts and with a later one on its map (CountInv, *)
(* RegisteredInv), and because real pids differ (RealInv).                 *)
(***************************************************************************)
EXTENDS VirtualPids, Integers, FiniteSetTheorems, WellFoundedInduction, TLAPS

\* The bounds hold only where a restart may have a new coordinator.
Bounded == NewCoordinators => ~LateExecs /\ ~Reuse /\ ~LateAsks

Stage == {"absent", "asked", "made", "live", "execing", "zombie", "gone", "saved", "restored"}
Number == 0 .. Numbers - 1
IsTable(f) == DOMAIN f \subseteq Number /\ f \in [DOMAIN f -> Nat]

PidTypeOK ==
  /\ stage \in [Progs -> Stage]
  /\ vpid \in [Progs -> Number] /\ realPid \in [Progs -> Nat]
  /\ mother \in [Progs -> Progs \union {NoProg}] /\ making \in [Progs -> Progs \union {NoProg}]
  /\ idTable = [t \in Progs |-> idTable[t]] /\ \A t \in Progs : IsTable(idTable[t])
  /\ IsTable(pidFile)
  /\ execs \in [Progs -> Nat] /\ failures \in Nat /\ nextReal \in Nat \ {0}
  /\ registered \subseteq Number /\ nextVirtual \in Number
  /\ ends \subseteq Progs \X Nat
  /\ peers \subseteq Progs /\ restarts \in Nat
  /\ renumbered \in BOOLEAN /\ (renumbered => NewCoordinators)

\* A process that has a real pid of the present kernel and has not been waited for, one
\* whose table is used, and one that may be named in a table.
Present(s) == s \in {"live", "execing", "zombie", "restored"}
Uses(s) == s \in {"live", "execing", "restored"}
Named(s) == Present(s) \/ s = "gone"

\* Numbers differ, those of processes that have ended too.
Distinct(st, vp) ==
  \A t, u \in Progs : st[t] # "absent" /\ st[u] # "absent" /\ vp[t] = vp[u] => t = u
VirtualInv == Distinct(stage, vpid)

Fresh(st, rp, n) ==
  /\ \A t \in Progs : Present(st[t]) => rp[t] \in 1 .. n - 1
  /\ \A t, u \in Progs : Present(st[t]) /\ Present(st[u]) /\ rp[t] = rp[u] => t = u
RealInv == Fresh(stage, realPid, nextReal)

\* The first coordinator has given out the numbers below nextVirtual.
Known == {t \in Progs : stage[t] # "absent"}
CountInv ==
  ~renumbered =>
    /\ nextVirtual = Cardinality(Known)
    /\ \A t \in Known : vpid[t] < nextVirtual
    /\ \A v \in registered : v < nextVirtual

\* With a later one and no exec, a connection's end is that of a process that has ended.
RegisteredInv ==
  renumbered =>
    /\ \A t \in Progs : stage[t] # "execing"
    /\ \A t \in Progs : stage[t] \in {"made", "live", "restored"} => vpid[t] \in registered
    /\ \A e \in ends : stage[e[1]] \in {"zombie", "gone"}

\* A process in fork is the only one that makes the child, which is its own.
MakingInv ==
  /\ \A p \in Progs : making[p] # NoProg =>
       /\ stage[p] = "live" /\ making[p] # p
       /\ \/ stage[making[p]] = "made"
          \/ stage[making[p]] \in {"live", "execing", "zombie"} /\ mother[making[p]] = p
  /\ \A p, q \in Progs : making[p] = making[q] /\ making[p] # NoProg => p = q

\* A mother is alive and another; a zombie has one.
MotherInv ==
  \A t \in Progs :
    /\ mother[t] # NoProg => /\ mother[t] # t
                             /\ stage[mother[t]] \in {"live", "execing", "saved", "restored"}
                             /\ stage[t] \notin {"absent", "asked", "made"}
    /\ stage[t] = "zombie" => mother[t] # NoProg

\* Nothing is under way while a computation is restored.
RestoringInv ==
  ~IsRunning =>
    /\ ends = {}
    /\ \A t \in Progs :
         stage[t] \in {"absent", "asked", "live", "gone", "saved", "restored"} /\ making[t] = NoProg
    /\ \A t \in Progs : stage[t] = "saved" => t \in peers
    /\ \A t, u \in Progs : ~(stage[t] = "live" /\ stage[u] = "saved")

\* Each entry of a table names one process by its virtual and its real pid.
Names(table, st, vp, rp, n) ==
  \A v \in DOMAIN table :
    /\ table[v] \in 1 .. n - 1
    /\ \A q \in Progs : Present(st[q]) => (v = vp[q] <=> table[v] = rp[q])
    /\ \E q \in Progs : Named(st[q]) /\ v = vp[q]

TableInv ==
  /\ Names(pidFile, stage, vpid, realPid, nextReal)
  /\ \A p \in Progs : Uses(stage[p]) => Names(idTable[p], stage, vpid, realPid, nextReal)

\* A process knows its children and all that were restored with it; the file holds those
\* restored so far.
KnowsInv ==
  /\ \A p, c \in Progs :
       /\ Uses(stage[p]) /\ Present(stage[c]) /\ mother[c] = p
       /\ making[p] # c /\ stage[p] # "restored"
       => vpid[c] \in DOMAIN idTable[p]
  /\ \A p, q \in peers :
       stage[p] \in {"live", "execing"} /\ Uses(stage[q]) => vpid[q] \in DOMAIN idTable[p]
  /\ \A p \in peers : stage[p] \notin {"absent", "asked", "made"}
  /\ ~IsRunning => \A q \in Progs : Uses(stage[q]) => q \in peers /\ vpid[q] \in DOMAIN pidFile

PidInv ==
  /\ PidTypeOK /\ VirtualInv /\ RealInv /\ CountInv /\ RegisteredInv /\ MakingInv
  /\ MotherInv /\ RestoringInv /\ TableInv /\ KnowsInv

-----------------------------------------------------------------------------
(* Tables. *)

\* No table is wrong at first.
LEMMA NoNames ==
  ASSUME NEW st, NEW vp, NEW rp, NEW n
  PROVE  Names(Empty, st, vp, rp, n)
  BY DEF Names, Empty

\* A table stays true when processes end, or one is made under a new number and pid.
LEMMA NamesStay ==
  ASSUME NEW f, NEW st, NEW vp, NEW rp, NEW n \in Nat, NEW st2, NEW vp2, NEW rp2, NEW n2 \in Nat,
         Names(f, st, vp, rp, n), Distinct(st, vp), n <= n2,
         \A q \in Progs : Named(st[q]) => Named(st2[q]) /\ vp2[q] = vp[q],
         \A q \in Progs : Present(st2[q]) =>
           \/ Present(st[q]) /\ rp2[q] = rp[q]
           \/ rp2[q] = n /\ vp2[q] = vp[q] /\ ~Named(st[q]) /\ st[q] # "absent"
  PROVE  Names(f, st2, vp2, rp2, n2)
<1> SUFFICES ASSUME NEW v \in DOMAIN f
             PROVE  /\ f[v] \in 1 .. n2 - 1
                    /\ \A q \in Progs : Present(st2[q]) => (v = vp2[q] <=> f[v] = rp2[q])
                    /\ \E q \in Progs : Named(st2[q]) /\ v = vp2[q]
  BY DEF Names
<1>1. f[v] \in 1 .. n - 1 /\ f[v] # n
  BY DEF Names
<1>2. PICK o \in Progs : Named(st[o]) /\ v = vp[o]
  BY DEF Names
<1>3. ASSUME NEW q \in Progs, Present(st2[q])
      PROVE  v = vp2[q] <=> f[v] = rp2[q]
  <2>1. CASE Present(st[q]) /\ rp2[q] = rp[q]
    <3>1. vp2[q] = vp[q]
      BY <2>1 DEF Named
    <3>2. v = vp[q] <=> f[v] = rp[q]
      BY <2>1 DEF Names
    <3> QED BY <2>1, <3>1, <3>2
  <2>2. CASE rp2[q] = n /\ vp2[q] = vp[q] /\ ~Named(st[q]) /\ st[q] # "absent"
    <3>1. st[o] # "absent" /\ o # q
      BY <1>2, <2>2 DEF Named, Present
    <3>2. v # vp[q]
      BY <1>2, <2>2, <3>1 DEF Distinct
    <3> QED BY <1>1, <2>2, <3>2
  <2> QED BY <1>3, <2>1, <2>2
<1>4. Named(st2[o]) /\ v = vp2[o]
  BY <1>2
<1>5. f[v] \in 1 .. n2 - 1
  BY <1>1
<1> QED BY <1>3, <1>4, <1>5

\* A process that is there may be entered.
LEMMA PutNames ==
  ASSUME NEW f, NEW st, NEW vp, NEW rp, NEW n,
         Names(f, st, vp, rp, n), Distinct(st, vp), Fresh(st, rp, n),
         NEW q \in Progs, Present(st[q])
  PROVE  /\ Names(Put(f, vp[q], rp[q]), st, vp, rp, n)
         /\ DOMAIN Put(f, vp[q], rp[q]) = DOMAIN f \union {vp[q]}
<1> DEFINE g == Put(f, vp[q], rp[q])
<1>1. /\ DOMAIN g = DOMAIN f \union {vp[q]} /\ g[vp[q]] = rp[q]
      /\ \A v \in DOMAIN f : v # vp[q] => g[v] = f[v]
  BY DEF Put
<1> HIDE DEF g
<1>2. rp[q] \in 1 .. n - 1 /\ Named(st[q]) /\ st[q] # "absent"
  BY DEF Fresh, Named, Present
<1>3. \A u \in Progs : Present(st[u]) => (vp[q] = vp[u] <=> rp[q] = rp[u])
  BY <1>2 DEF Fresh, Distinct, Present
<1>4. Names(g, st, vp, rp, n)
  BY <1>1, <1>2, <1>3 DEF Names
<1> QED BY <1>1, <1>4 DEF g

\* Two true tables make one.
Merged(f, g) == [v \in DOMAIN f \union DOMAIN g |-> IF v \in DOMAIN g THEN g[v] ELSE f[v]]

\* Two tables that name truly make one that does.
LEMMA MergedNames ==
  ASSUME NEW f, NEW g, NEW st, NEW vp, NEW rp, NEW n,
         Names(f, st, vp, rp, n), Names(g, st, vp, rp, n)
  PROVE  Names(Merged(f, g), st, vp, rp, n)
  BY DEF Names, Merged

\* An entry may be taken out.
LEMMA ErasedNames ==
  ASSUME NEW f, NEW w, NEW st, NEW vp, NEW rp, NEW n, Names(f, st, vp, rp, n)
  PROVE  /\ Names(Erased(f, w), st, vp, rp, n)
         /\ DOMAIN Erased(f, w) = DOMAIN f \ {w}
<1>1. /\ DOMAIN Erased(f, w) = DOMAIN f \ {w}
      /\ \A v \in DOMAIN f \ {w} : Erased(f, w)[v] = f[v]
  BY DEF Erased, Restrict
<1> QED BY <1>1 DEF Names

\* Tables map numbers to real pids.
LEMMA TableTypes ==
  /\ IsTable(Empty)
  /\ \A f, v, r : IsTable(f) /\ v \in Number /\ r \in Nat => IsTable(Put(f, v, r))
  /\ \A f, g : IsTable(f) /\ IsTable(g) => IsTable(Merged(f, g))
  /\ \A f, v : IsTable(f) => IsTable(Erased(f, v))
<1>1. IsTable(Empty)
  BY DEF IsTable, Empty
<1>2. ASSUME NEW f, NEW v \in Number, NEW r \in Nat, IsTable(f)
      PROVE  IsTable(Put(f, v, r))
  BY <1>2 DEF IsTable, Put
<1>3. ASSUME NEW f, NEW g, IsTable(f), IsTable(g)
      PROVE  IsTable(Merged(f, g))
  BY <1>3 DEF IsTable, Merged
<1>4. ASSUME NEW f, NEW v, IsTable(f)
      PROVE  IsTable(Erased(f, v))
  BY <1>4 DEF IsTable, Erased, Restrict
<1> QED BY <1>1, <1>2, <1>3, <1>4

\* What a true table says of a process that is there.
LEMMA NameFound ==
  ASSUME PidTypeOK, NEW f, Names(f, stage, vpid, realPid, nextReal),
         NEW c \in Progs, Present(stage[c]), vpid[c] \in DOMAIN f
  PROVE  f[vpid[c]] = realPid[c] /\ VirtualNumber(f, realPid[c]) = vpid[c]
<1> DEFINE named == {v \in DOMAIN f : f[v] = realPid[c]}
<1>1. f[vpid[c]] = realPid[c] /\ named = {vpid[c]}
  BY DEF Names
<1>2. vpid[c] \in Nat
  BY DEF PidTypeOK, Number
<1>3. (CHOOSE v \in {vpid[c]} : \A u \in {vpid[c]} : v <= u) = vpid[c]
  BY <1>2
<1> QED BY <1>1, <1>3 DEF VirtualNumber

-----------------------------------------------------------------------------
(* Numbers. *)

\* A set of numbers that has an element has a least one.
LEMMA LeastOf ==
  ASSUME NEW S \in SUBSET Nat, S # {}
  PROVE  \E x \in S : \A y \in S : x <= y
<1> DEFINE Less == {ss \in Nat \X Nat : ss[1] < ss[2]}
<1>1. IsWellFoundedOn(Less, Nat)
  BY NatLessThanWellFounded DEF OpToRel
<1>2. \A x, y \in Nat : <<y, x>> \in Less <=> y < x
  OBVIOUS
<1> HIDE DEF Less
<1>3. PICK x \in S : \A y \in S : ~(<<y, x>> \in Less)
  BY <1>1, WFMin
<1>4. \A y \in S : y \in Nat /\ x \in Nat /\ ~(y < x)
  BY <1>2, <1>3
<1> QED BY <1>4

\* The search of getNewVirtualPid goes once around.
LEMMA CandidateIs ==
  ASSUME nextVirtual \in Number, Numbers \in Nat, NEW k \in 0 .. Numbers
  PROVE  /\ nextVirtual + k < Numbers => Candidate(k) = nextVirtual + k
         /\ nextVirtual + k >= Numbers => Candidate(k) = nextVirtual + k - Numbers
<1> DEFINE a == nextVirtual + k
<1>1. a \in Nat /\ Numbers \in Nat \ {0} /\ a <= 2 * Numbers - 1 /\ a = nextVirtual + k
  BY DEF Number
<1>4. Candidate(k) = a % Numbers
  BY DEF Candidate
<1> HIDE DEF a
<1>2. a < Numbers => a % Numbers = a
  BY <1>1
<1>3. a >= Numbers => a % Numbers = a - Numbers
  BY <1>1
<1> QED BY <1>1, <1>2, <1>3, <1>4 DEF Number

\* While some number is free the search ends at one.
LEMMA SearchEnds ==
  ASSUME PidTypeOK, Cardinality(registered) < Numbers
  PROVE  /\ Steps \in 0 .. Numbers - 1 /\ Candidate(Steps) \in Number \ registered
         /\ Candidate(Steps + 1) \in Number
         /\ nextVirtual \notin registered => Steps = 0 /\ Candidate(Steps) = nextVirtual
<1>1. nextVirtual \in Number /\ Numbers \in Nat \ {0} /\ registered \subseteq Number
  BY PidsAssumption DEF PidTypeOK, Number
<1>2. PICK v \in Number : v \notin registered
  <2>1. Cardinality(Number) = Numbers
    BY <1>1, FS_Interval DEF Number
  <2>2. registered # Number
    BY <1>1, <2>1
  <2> QED BY <1>1, <2>2
<1> DEFINE good == {k \in 0 .. Numbers - 1 : Candidate(k) \notin registered}
<1>3. good # {}
  <2> DEFINE k == IF nextVirtual <= v THEN v - nextVirtual ELSE v - nextVirtual + Numbers
  <2>1. k \in 0 .. Numbers - 1
    BY <1>1 DEF Number
  <2>2. Candidate(k) = v
    BY <1>1, <2>1, CandidateIs DEF Number
  <2> QED BY <1>2, <2>1, <2>2
<1>4. PICK k \in good : \A j \in good : k <= j
  <2>1. good \in SUBSET Nat
    BY <1>1
  <2> HIDE DEF good
  <2> QED BY <1>3, <2>1, LeastOf
<1>5. \A j \in 0 .. k - 1 : Candidate(j) \in registered
  <2> TAKE j \in 0 .. k - 1
  <2>1. k \in 0 .. Numbers - 1 /\ j \in 0 .. Numbers - 1 /\ ~(k <= j)
    BY <1>1, <1>4
  <2> QED BY <1>4, <2>1
<1>6. /\ Steps \in 0 .. Numbers - 1 /\ Candidate(Steps) \notin registered
      /\ \A j \in 0 .. Steps - 1 : Candidate(j) \in registered
  BY <1>4, <1>5 DEF Steps
<1>7. \A j \in 0 .. Numbers : Candidate(j) \in Number
  BY <1>1, CandidateIs DEF Number
<1>8. ASSUME nextVirtual \notin registered
      PROVE  Steps = 0 /\ Candidate(Steps) = nextVirtual
  <2>1. Candidate(0) = nextVirtual
    BY <1>1, CandidateIs DEF Number
  <2>2. Steps = 0
    BY <1>1, <1>6, <1>8, <2>1
  <2> QED BY <2>1, <2>2
<1> QED BY <1>1, <1>6, <1>7, <1>8

\* The coordinator gives a new process a number that no process has or had.
LEMMA NewNumber ==
  ASSUME PidInv, Bounded, IsRunning \/ LateAsks \/ ~renumbered, NEW v, NewVirtualPid(v),
         NEW t \in Progs, stage[t] = "absent"
  PROVE  /\ v \in Number /\ nextVirtual' \in Number
         /\ \A u \in Known : vpid[u] # v
         /\ ~renumbered => v = nextVirtual /\ nextVirtual' = nextVirtual + 1
<1>1. /\ v \in Number \ registered /\ v = Candidate(Steps)
      /\ nextVirtual' = Candidate(Steps + 1) /\ nextVirtual' \in Number
      /\ nextVirtual \notin registered => v = nextVirtual /\ Steps = 0
  BY SearchEnds DEF PidInv, NewVirtualPid
<1>2. CASE ~renumbered
  <2>1. nextVirtual \notin registered
    <3>1. nextVirtual \in Nat
      BY DEF PidInv, PidTypeOK, Number
    <3> QED BY <1>2, <3>1 DEF PidInv, CountInv
  <2>2. v = nextVirtual /\ Steps = 0
    BY <1>1, <2>1
  <2>3. nextVirtual + 1 < Numbers
    <3>1. IsFiniteSet(Progs) /\ Known \subseteq Progs \ {t}
      BY PidsAssumption DEF Known
    <3>2. IsFiniteSet(Progs \ {t}) /\ Cardinality(Progs \ {t}) = Cardinality(Progs) - 1
      BY <3>1, FS_RemoveElement
    <3>3. Cardinality(Known) <= Cardinality(Progs \ {t})
      BY <3>1, <3>2, FS_Subset
    <3>4. Cardinality(Known) \in Nat /\ Cardinality(Progs) \in Nat /\ Numbers \in Nat
      BY <3>1, <3>2, FS_Subset, FS_CardinalityType, PidsAssumption
    <3> QED BY <1>2, <3>2, <3>3, <3>4, PidsAssumption DEF PidInv, CountInv
  <2>4. nextVirtual' = nextVirtual + 1
    <3>1. nextVirtual \in Number /\ Numbers \in Nat /\ 1 \in 0 .. Numbers
      BY <2>3, PidsAssumption DEF PidInv, PidTypeOK, Number
    <3>2. Candidate(1) = nextVirtual + 1
      BY <2>3, <3>1, CandidateIs
    <3> QED BY <1>1, <2>2, <3>2
  <2>5. \A u \in Known : vpid[u] # v
    <3> TAKE u \in Known
    <3>1. vpid[u] < nextVirtual /\ vpid[u] \in Int /\ nextVirtual \in Int
      BY <1>2 DEF PidInv, CountInv, Known, PidTypeOK, Number
    <3> QED BY <2>2, <3>1
  <2> QED BY <1>1, <2>2, <2>4, <2>5
<1>3. CASE renumbered
  <2>0. IsRunning /\ \A u \in Progs : stage[u] \in {"asked", "gone", "zombie"} => vpid[u] # v
    BY <1>3 DEF PidInv, PidTypeOK, Bounded, NewVirtualPid
  <2>1. \A u \in Progs : stage[u] \in {"made", "live", "restored"} => vpid[u] # v
    BY <1>1, <1>3 DEF PidInv, RegisteredInv
  <2>2. \A u \in Known : stage[u] \in {"asked", "gone", "zombie", "made", "live", "restored"}
    BY <1>3, <2>0 DEF PidInv, RegisteredInv, Known, IsRunning, PidTypeOK, Stage
  <2> QED BY <1>1, <1>3, <2>0, <2>1, <2>2 DEF Known
<1> QED BY <1>2, <1>3

-----------------------------------------------------------------------------
(* Steps. *)

\* What a table said stays true in a step that ends processes, or gives a process that is
\* known its first pid.
LEMMA OldNames ==
  ASSUME PidInv, nextReal' \in Nat, nextReal <= nextReal',
         \A q \in Progs : Named(stage[q]) => Named(stage'[q]) /\ vpid'[q] = vpid[q],
         \A q \in Progs : Present(stage'[q]) =>
           \/ Present(stage[q]) /\ realPid'[q] = realPid[q]
           \/ /\ realPid'[q] = nextReal /\ vpid'[q] = vpid[q]
              /\ ~Named(stage[q]) /\ stage[q] # "absent"
  PROVE  \A f : Names(f, stage, vpid, realPid, nextReal)
                  => Names(f, stage', vpid', realPid', nextReal')
<1> TAKE f
<1> HAVE Names(f, stage, vpid, realPid, nextReal)
<1>1. nextReal \in Nat /\ Distinct(stage, vpid)
  BY DEF PidInv, PidTypeOK, VirtualInv
<1> QED BY <1>1, NamesStay

\* A process is given its number.
LEMMA NewProcess ==
  ASSUME PidInv, Bounded, IsRunning \/ LateAsks \/ ~renumbered,
         NEW t \in Progs, stage[t] = "absent",
         NEW v, NewVirtualPid(v), NEW s \in {"asked", "made"}, s = "made" => IsRunning,
         stage' = [stage EXCEPT ![t] = s], vpid' = [vpid EXCEPT ![t] = v],
         registered' = registered \/ registered' = registered \union {v},
         s = "made" => v \in registered',
         UNCHANGED <<realPid, mother, execs, failures, nextReal, idTable, ends, restartVars>>,
         making' \in [Progs -> Progs \union {NoProg}],
         \A p \in Progs : making'[p] = making[p] \/ (making[p] = NoProg /\ s = "made")
  PROVE  /\ PidTypeOK' /\ VirtualInv' /\ RealInv' /\ CountInv' /\ RegisteredInv'
         /\ MotherInv' /\ RestoringInv' /\ TableInv' /\ KnowsInv'
<1>1. /\ v \in Number /\ nextVirtual' \in Number
      /\ \A u \in Known : vpid[u] # v
      /\ ~renumbered => v = nextVirtual /\ nextVirtual' = nextVirtual + 1
  BY NewNumber
<1>2. /\ \A u \in Progs : stage'[u] = IF u = t THEN s ELSE stage[u]
      /\ \A u \in Progs : vpid'[u] = IF u = t THEN v ELSE vpid[u]
  BY DEF PidInv, PidTypeOK
<1>3. PidTypeOK'
  BY <1>1 DEF PidInv, PidTypeOK, restartVars, Stage
<1>4. VirtualInv'
  BY <1>1, <1>2 DEF PidInv, VirtualInv, Distinct, Known
<1>5. RealInv'
  BY <1>2 DEF PidInv, RealInv, Fresh, Present
<1>6. CountInv'
  <2> SUFFICES ASSUME ~renumbered'
               PROVE  /\ nextVirtual' = Cardinality(Known')
                      /\ \A u \in Known' : vpid'[u] < nextVirtual'
                      /\ \A w \in registered' : w < nextVirtual'
    BY DEF CountInv
  <2>1. ~renumbered /\ v = nextVirtual /\ nextVirtual' = nextVirtual + 1 /\ nextVirtual \in Nat
    BY <1>1 DEF restartVars, Number
  <2>2. Known' = Known \union {t} /\ t \notin Known
    BY <1>2 DEF Known
  <2>3. IsFiniteSet(Known)
    BY PidsAssumption, FS_Subset DEF Known
  <2>4. Cardinality(Known') = Cardinality(Known) + 1
    BY <2>2, <2>3, FS_AddElement
  <2>5. /\ nextVirtual = Cardinality(Known)
        /\ \A u \in Known : vpid[u] < nextVirtual /\ vpid[u] \in Nat
        /\ \A w \in registered : w < nextVirtual /\ w \in Nat
    BY <2>1 DEF PidInv, CountInv, PidTypeOK, Known, Number
  <2>6. \A u \in Known' : vpid'[u] < nextVirtual'
    <3> TAKE u \in Known'
    <3>1. CASE u = t
      BY <1>2, <2>1, <3>1
    <3>2. CASE u # t
      <4>1. u \in Known /\ vpid'[u] = vpid[u]
        BY <1>2, <2>2, <3>2 DEF Known
      <4> QED BY <2>1, <2>5, <4>1
    <3> QED BY <3>1, <3>2
  <2>7. \A w \in registered' : w < nextVirtual'
    BY <2>1, <2>5
  <2> QED BY <2>1, <2>4, <2>5, <2>6, <2>7
<1>7. RegisteredInv'
  BY <1>2 DEF PidInv, RegisteredInv, PidTypeOK, restartVars
<1>8. MotherInv'
  BY <1>2 DEF PidInv, MotherInv, PidTypeOK
<1>9. (IsRunning <=> IsRunning') /\ RestoringInv'
  <2>1. IsRunning <=> IsRunning'
    BY <1>2 DEF IsRunning
  <2>2. CASE IsRunning
    BY <2>1, <2>2 DEF RestoringInv
  <2>3. CASE ~IsRunning
    <3>1. /\ s = "asked" /\ ends' = ends /\ ends = {} /\ peers' = peers
          /\ \A q \in Progs : making[q] = NoProg
      BY <2>3 DEF PidInv, RestoringInv, restartVars
    <3>2. \A q \in Progs : making'[q] = NoProg
      BY <3>1
    <3>3. \A q \in Progs : stage'[q] \in {"absent", "asked", "live", "gone", "saved", "restored"}
      BY <1>2, <2>3, <3>1 DEF PidInv, RestoringInv
    <3>4. \A q \in Progs : stage'[q] \in {"live", "saved"} => stage'[q] = stage[q]
      BY <1>2, <3>1
    <3> QED BY <2>1, <2>3, <3>1, <3>2, <3>3, <3>4 DEF PidInv, RestoringInv
  <2> QED BY <2>1, <2>2, <2>3
<1>10. \A f : Names(f, stage, vpid, realPid, nextReal)
                => Names(f, stage', vpid', realPid', nextReal')
  <2>1. \A q \in Progs : Named(stage[q]) => Named(stage'[q]) /\ vpid'[q] = vpid[q]
    BY <1>2 DEF Named, Present
  <2>2. \A q \in Progs : Present(stage'[q]) => Present(stage[q]) /\ realPid'[q] = realPid[q]
    BY <1>2 DEF Present
  <2>3. nextReal' \in Nat /\ nextReal <= nextReal'
    BY DEF PidInv, PidTypeOK
  <2> QED BY <2>1, <2>2, <2>3, OldNames
<1>11. TableInv'
  BY <1>2, <1>10 DEF PidInv, TableInv, Uses, restartVars
<1>12. KnowsInv'
  <2>1. /\ \A q \in Progs : Uses(stage'[q]) => Uses(stage[q]) /\ stage'[q] = stage[q] /\ q # t
        /\ \A q \in Progs : Present(stage'[q]) => Present(stage[q]) /\ q # t
        /\ \A q \in Progs : q # t => vpid'[q] = vpid[q] /\ stage'[q] = stage[q]
        /\ UNCHANGED <<mother, idTable, peers>>
    BY <1>2 DEF Uses, Present, restartVars
  <2>2. \A q \in Progs : q # NoProg
    BY PidsAssumption DEF NoProg
  <2>3. \A p, c \in Progs :
          /\ Uses(stage'[p]) /\ Present(stage'[c]) /\ mother'[c] = p
          /\ making'[p] # c /\ stage'[p] # "restored"
          => vpid'[c] \in DOMAIN idTable'[p]
    BY <2>1, <2>2 DEF PidInv, KnowsInv
  <2>4. \A q \in peers : q \in Progs /\ q # t
    BY DEF PidInv, KnowsInv, PidTypeOK
  <2>5. \A p, q \in peers' :
          stage'[p] \in {"live", "execing"} /\ Uses(stage'[q]) => vpid'[q] \in DOMAIN idTable'[p]
    BY <2>1, <2>4 DEF PidInv, KnowsInv
  <2>6. \A p \in peers' : stage'[p] \notin {"absent", "asked", "made"}
    BY <2>1, <2>4 DEF PidInv, KnowsInv
  <2>7. ~IsRunning' => \A q \in Progs :
                         Uses(stage'[q]) => q \in peers' /\ vpid'[q] \in DOMAIN pidFile'
    BY <1>9, <2>1 DEF PidInv, KnowsInv, restartVars
  <2> QED BY <2>3, <2>5, <2>6, <2>7 DEF KnowsInv
<1> QED BY <1>3, <1>4, <1>5, <1>6, <1>7, <1>8, <1>9, <1>11, <1>12

\* A program that is launched asks the coordinator for a number.
LEMMA AskKeeps ==
  ASSUME PidInv, Bounded, NEW t \in Progs, AskVirtualPid(t)
  PROVE  PidInv'
<1>1. PICK v \in Number : NewVirtualPid(v) /\ vpid' = [vpid EXCEPT ![t] = v]
  BY DEF AskVirtualPid, Number
<1>2. /\ IsRunning \/ LateAsks \/ ~renumbered
      /\ stage[t] = "absent" /\ stage' = [stage EXCEPT ![t] = "asked"]
      /\ UNCHANGED <<realPid, mother, making, execs, failures, nextReal, idTable,
                     registered, ends, restartVars>>
  BY DEF AskVirtualPid, IsNext
<1>3. /\ PidTypeOK' /\ VirtualInv' /\ RealInv' /\ CountInv' /\ RegisteredInv'
      /\ MotherInv' /\ RestoringInv' /\ TableInv' /\ KnowsInv'
  <2>1. making' \in [Progs -> Progs \union {NoProg}]
    BY <1>2 DEF PidInv, PidTypeOK
  <2>2. "asked" \in {"asked", "made"} /\ ("asked" = "made" => IsRunning)
    OBVIOUS
  <2> QED BY <1>1, <1>2, <2>1, <2>2, NewProcess
<1>4. MakingInv'
  BY <1>2 DEF PidInv, MakingInv, PidTypeOK
<1> QED BY <1>3, <1>4 DEF PidInv

\* fork: the parent gets a number for the child before the real fork.
LEMMA ConnectKeeps ==
  ASSUME PidInv, Bounded, NEW p \in Progs, NEW c \in Progs, ConnectBeforeFork(p, c)
  PROVE  PidInv'
<1>1. PICK v \in Number : /\ NewVirtualPid(v) /\ vpid' = [vpid EXCEPT ![c] = v]
                          /\ registered' = registered \union {v}
  BY DEF ConnectBeforeFork, Number
<1>2. /\ IsRunning /\ stage[p] = "live" /\ making[p] = NoProg
      /\ stage[c] = "absent" /\ stage' = [stage EXCEPT ![c] = "made"]
      /\ making' = [making EXCEPT ![p] = c]
      /\ UNCHANGED <<realPid, mother, execs, failures, nextReal, idTable, ends, restartVars>>
  BY DEF ConnectBeforeFork, IsNext
<1>3. /\ making' \in [Progs -> Progs \union {NoProg}]
      /\ \A q \in Progs : making'[q] = IF q = p THEN c ELSE making[q]
  BY <1>2 DEF PidInv, PidTypeOK
<1>4. /\ PidTypeOK' /\ VirtualInv' /\ RealInv' /\ CountInv' /\ RegisteredInv'
      /\ MotherInv' /\ RestoringInv' /\ TableInv' /\ KnowsInv'
  <2>1. "made" \in {"asked", "made"} /\ ("made" = "made" => IsRunning)
    BY <1>2
  <2> QED BY <1>1, <1>2, <1>3, <2>1, NewProcess
<1>5. \A q \in Progs : making[q] # c
  BY <1>2, PidsAssumption DEF PidInv, MakingInv, NoProg
<1>6. \A u \in Progs : stage'[u] = IF u = c THEN "made" ELSE stage[u]
  BY <1>2 DEF PidInv, PidTypeOK
<1>7. c # NoProg
  BY PidsAssumption DEF NoProg
<1>8. MakingInv'
  BY <1>2, <1>3, <1>5, <1>6, <1>7 DEF PidInv, MakingInv, PidTypeOK
<1> QED BY <1>4, <1>8 DEF PidInv

\* A process that was known gets its first pid: t is the program, or a child with mother m.
LEMMA FirstPid ==
  ASSUME PidInv, NEW t \in Progs, stage[t] \in {"asked", "made", "saved"},
         NEW s \in {"live", "restored"}, stage' = [stage EXCEPT ![t] = s],
         UNCHANGED <<vpid, execs, failures, nextVirtual, ends, peers, restarts, renumbered>>,
         registered' = registered \/ registered' = registered \union {vpid[t]},
         \/ ~renumbered \/ vpid[t] \in registered
         \/ registered' = registered \union {vpid[t]},
         realPid' = [realPid EXCEPT ![t] = nextReal], nextReal' = nextReal + 1
  PROVE  /\ VirtualInv' /\ RealInv' /\ CountInv' /\ RegisteredInv'
         /\ nextReal' \in Nat \ {0} /\ realPid' \in [Progs -> Nat]
         /\ stage' \in [Progs -> Stage] /\ registered' \subseteq Number
         /\ \A f : Names(f, stage, vpid, realPid, nextReal)
                     => Names(f, stage', vpid', realPid', nextReal')
<1>1. /\ \A u \in Progs : stage'[u] = IF u = t THEN s ELSE stage[u]
      /\ \A u \in Progs : realPid'[u] = IF u = t THEN nextReal ELSE realPid[u]
      /\ nextReal \in Nat \ {0} /\ vpid[t] \in Number
  BY DEF PidInv, PidTypeOK
<1>2. VirtualInv'
  BY <1>1 DEF PidInv, VirtualInv, Distinct
<1>3. RealInv'
  <2>1. \A u \in Progs : Present(stage[u]) => realPid[u] \in 1 .. nextReal - 1
    BY DEF PidInv, RealInv, Fresh
  <2>2. \A u \in Progs : Present(stage'[u]) => u = t \/ Present(stage[u])
    BY <1>1
  <2>3. \A u \in Progs : Present(stage'[u]) => realPid'[u] \in 1 .. nextReal' - 1
    BY <1>1, <2>1, <2>2
  <2>4. \A u, w \in Progs :
          Present(stage'[u]) /\ Present(stage'[w]) /\ realPid'[u] = realPid'[w] => u = w
    BY <1>1, <2>1, <2>2 DEF PidInv, RealInv, Fresh
  <2> QED BY <2>3, <2>4 DEF RealInv, Fresh
<1>4. CountInv'
  <2>1. Known' = Known /\ t \in Known
    BY <1>1 DEF Known
  <2> QED BY <1>1, <2>1 DEF PidInv, CountInv
<1>5. RegisteredInv'
  <2> SUFFICES ASSUME renumbered
               PROVE  /\ \A u \in Progs : stage'[u] # "execing"
                      /\ \A u \in Progs : stage'[u] \in {"made", "live", "restored"} =>
                                            vpid[u] \in registered'
                      /\ \A e \in ends : stage'[e[1]] \in {"zombie", "gone"}
    BY DEF RegisteredInv
  <2>1. \A e \in ends : e[1] \in Progs /\ stage[e[1]] \in {"zombie", "gone"}
    BY DEF PidInv, RegisteredInv, PidTypeOK
  <2>2. \A e \in ends : stage'[e[1]] \in {"zombie", "gone"}
    BY <1>1, <2>1
  <2>3. /\ \A u \in Progs : stage[u] # "execing"
        /\ \A u \in Progs : stage[u] \in {"made", "live", "restored"} => vpid[u] \in registered
    BY DEF PidInv, RegisteredInv
  <2> QED BY <1>1, <2>2, <2>3
<1>6. \A f : Names(f, stage, vpid, realPid, nextReal)
               => Names(f, stage', vpid', realPid', nextReal')
  <2>1. \A q \in Progs : Named(stage[q]) => Named(stage'[q]) /\ vpid'[q] = vpid[q]
    BY <1>1 DEF Named, Present
  <2>2. \A q \in Progs : Present(stage'[q]) =>
           \/ Present(stage[q]) /\ realPid'[q] = realPid[q]
           \/ /\ realPid'[q] = nextReal /\ vpid'[q] = vpid[q]
              /\ ~Named(stage[q]) /\ stage[q] # "absent"
    BY <1>1 DEF Named, Present
  <2>3. nextReal' \in Nat /\ nextReal <= nextReal'
    BY <1>1
  <2> QED BY <2>1, <2>2, <2>3, OldNames
<1>7. /\ nextReal' \in Nat \ {0} /\ realPid' \in [Progs -> Nat]
      /\ stage' \in [Progs -> Stage] /\ registered' \subseteq Number
  BY <1>1 DEF PidInv, PidTypeOK, Stage
<1> QED BY <1>2, <1>3, <1>4, <1>5, <1>6, <1>7

\* A program that has its number starts with a table of its own.
LEMMA StartKeeps ==
  ASSUME PidInv, NEW t \in Progs, StartProgram(t)
  PROVE  PidInv'
<1>1. /\ IsRunning /\ stage[t] = "asked" /\ stage' = [stage EXCEPT ![t] = "live"]
      /\ registered' = registered \union {vpid[t]}
      /\ realPid' = [realPid EXCEPT ![t] = nextReal] /\ nextReal' = nextReal + 1
      /\ idTable' = [idTable EXCEPT ![t] = Put(Empty, vpid[t], nextReal)]
      /\ UNCHANGED <<vpid, mother, making, execs, failures, nextVirtual, ends,
                     pidFile, peers, restarts, renumbered>>
  BY DEF StartProgram, restartVars
<1>2. /\ VirtualInv' /\ RealInv' /\ CountInv' /\ RegisteredInv'
      /\ nextReal' \in Nat \ {0} /\ realPid' \in [Progs -> Nat]
      /\ stage' \in [Progs -> Stage] /\ registered' \subseteq Number
      /\ \A f : Names(f, stage, vpid, realPid, nextReal)
                  => Names(f, stage', vpid', realPid', nextReal')
  <2>1. "live" \in {"live", "restored"}
    OBVIOUS
  <2> QED BY <1>1, <2>1, FirstPid
<1>3. /\ \A u \in Progs : stage'[u] = IF u = t THEN "live" ELSE stage[u]
      /\ \A u \in Progs :
           idTable'[u] = IF u = t THEN Put(Empty, vpid[t], nextReal) ELSE idTable[u]
      /\ idTable' = [u \in Progs |-> idTable'[u]]
      /\ realPid'[t] = nextReal
  BY <1>1 DEF PidInv, PidTypeOK
<1>4. PidTypeOK'
  <2>1. IsTable(Put(Empty, vpid[t], nextReal))
    BY TableTypes DEF PidInv, PidTypeOK
  <2>2. \A u \in Progs : IsTable(idTable'[u])
    BY <1>3, <2>1 DEF PidInv, PidTypeOK
  <2> QED BY <1>1, <1>2, <1>3, <2>2 DEF PidInv, PidTypeOK
<1>5. MakingInv' /\ MotherInv'
  BY <1>1, <1>3 DEF PidInv, MakingInv, MotherInv, PidTypeOK
<1>6. IsRunning /\ IsRunning' /\ RestoringInv'
  BY <1>1, <1>3 DEF IsRunning, RestoringInv
<1>7. TableInv'
  <2>1. Names(Put(Empty, vpid[t], nextReal), stage', vpid', realPid', nextReal')
    <3>1. Present(stage'[t])
      BY <1>3 DEF Present
    <3>2. Names(Empty, stage', vpid', realPid', nextReal')
      BY NoNames
    <3>3. Names(Put(Empty, vpid'[t], realPid'[t]), stage', vpid', realPid', nextReal')
      BY <1>2, <3>1, <3>2, PutNames DEF VirtualInv, RealInv
    <3> QED BY <1>1, <1>3, <3>3
  <2> QED BY <1>1, <1>2, <1>3, <2>1 DEF PidInv, TableInv, Uses
<1>8. KnowsInv'
  <2>1. \A c \in Progs : mother[c] # t
    BY <1>1, PidsAssumption DEF PidInv, MotherInv, NoProg
  <2>2. t \notin peers /\ peers \subseteq Progs
    BY <1>1 DEF PidInv, KnowsInv, PidTypeOK
  <2>3. \A p, c \in Progs :
          /\ Uses(stage'[p]) /\ Present(stage'[c]) /\ mother'[c] = p
          /\ making'[p] # c /\ stage'[p] # "restored"
          => vpid'[c] \in DOMAIN idTable'[p]
    <3> TAKE p, c \in Progs
    <3> HAVE /\ Uses(stage'[p]) /\ Present(stage'[c]) /\ mother'[c] = p
             /\ making'[p] # c /\ stage'[p] # "restored"
    <3>1. p # t /\ mother[c] = p /\ p # NoProg
      BY <1>1, <2>1, PidsAssumption DEF NoProg
    <3>2. c # t
      BY <1>1, <3>1 DEF PidInv, MotherInv
    <3> QED BY <1>1, <1>3, <3>1, <3>2 DEF PidInv, KnowsInv
  <2>4. \A p, q \in peers' :
          stage'[p] \in {"live", "execing"} /\ Uses(stage'[q]) => vpid'[q] \in DOMAIN idTable'[p]
    BY <1>1, <1>3, <2>2 DEF PidInv, KnowsInv
  <2>5. \A p \in peers' : stage'[p] \notin {"absent", "asked", "made"}
    BY <1>1, <1>3, <2>2 DEF PidInv, KnowsInv
  <2> QED BY <1>6, <2>3, <2>4, <2>5 DEF KnowsInv
<1> QED BY <1>2, <1>4, <1>5, <1>6, <1>7, <1>8 DEF PidInv

\* A program that is refused ends before it had a pid.
LEMMA RefuseKeeps ==
  ASSUME PidInv, NEW t \in Progs, RefuseProgram(t)
  PROVE  PidInv'
<1>1. /\ ~IsRunning /\ stage[t] = "asked" /\ stage' = [stage EXCEPT ![t] = "gone"]
      /\ UNCHANGED <<vpid, realPid, mother, making, execs, failures, nextReal, idTable,
                     registered, nextVirtual, ends, pidFile, peers, restarts, renumbered>>
  BY DEF RefuseProgram, coordVars, restartVars
<1>2. \A u \in Progs : stage'[u] = IF u = t THEN "gone" ELSE stage[u]
  BY <1>1 DEF PidInv, PidTypeOK
<1>3. \A u \in Progs : /\ Uses(stage'[u]) <=> Uses(stage[u])
                       /\ Present(stage'[u]) <=> Present(stage[u])
                       /\ Named(stage[u]) => Named(stage'[u])
                       /\ stage'[u] = "absent" <=> stage[u] = "absent"
  BY <1>1, <1>2 DEF Uses, Present, Named
<1>4. IsRunning <=> IsRunning'
  BY <1>1, <1>2 DEF IsRunning
<1>5. PidTypeOK'
  BY <1>1, <1>2 DEF PidInv, PidTypeOK, Stage
<1>6. VirtualInv' /\ RealInv'
  BY <1>1, <1>3 DEF PidInv, VirtualInv, Distinct, RealInv, Fresh
<1>7. CountInv'
  <2>1. Known' = Known
    BY <1>3 DEF Known
  <2> QED BY <1>1, <2>1 DEF PidInv, CountInv
<1>8. RegisteredInv'
  BY <1>1, <1>2 DEF PidInv, RegisteredInv
<1>9. MakingInv' /\ MotherInv' /\ RestoringInv'
  BY <1>1, <1>2, <1>4 DEF PidInv, MakingInv, MotherInv, RestoringInv, PidTypeOK
<1>10. TableInv'
  <2>1. \A f : Names(f, stage, vpid, realPid, nextReal)
                 => Names(f, stage', vpid', realPid', nextReal')
    <3>1. nextReal' \in Nat /\ nextReal <= nextReal'
      BY <1>1 DEF PidInv, PidTypeOK
    <3> QED BY <1>1, <1>3, <3>1, OldNames
  <2> QED BY <1>1, <1>3, <2>1 DEF PidInv, TableInv
<1>11. KnowsInv'
  <2>1. peers \subseteq Progs
    BY DEF PidInv, PidTypeOK
  <2> QED BY <1>1, <1>2, <1>3, <1>4, <2>1 DEF PidInv, KnowsInv, Uses, Present
<1> QED BY <1>5, <1>6, <1>7, <1>8, <1>9, <1>10, <1>11 DEF PidInv

\* A fork that fails gives nothing to the table.
LEMMA ForkFailsKeeps ==
  ASSUME PidInv, NEW p \in Progs, ForkFails(p)
  PROVE  PidInv'
<1> DEFINE c == making[p]
<1>1. /\ c \in Progs /\ c # p /\ stage[c] = "made" /\ stage[p] = "live" /\ c # NoProg
      /\ failures' = failures + 1
      /\ stage' = [stage EXCEPT ![c] = "gone"]
      /\ ends' = ends \union {<<c, 0>>}
      /\ making' = [making EXCEPT ![p] = NoProg]
      /\ UNCHANGED <<vpid, realPid, mother, execs, nextReal, idTable, registered,
                     nextVirtual, pidFile, peers, restarts, renumbered>>
  BY DEF ForkFails, restartVars, PidInv, MakingInv, PidTypeOK
<1>2. /\ \A u \in Progs : stage'[u] = IF u = c THEN "gone" ELSE stage[u]
      /\ \A u \in Progs : making'[u] = IF u = p THEN NoProg ELSE making[u]
  BY <1>1 DEF PidInv, PidTypeOK
<1> HIDE DEF c
<1>3. PidTypeOK'
  BY <1>1 DEF PidInv, PidTypeOK, Stage, NoProg
<1>4. VirtualInv'
  BY <1>1, <1>2 DEF PidInv, VirtualInv, Distinct
<1>5. RealInv'
  BY <1>1, <1>2 DEF PidInv, RealInv, Fresh, Present
<1>6. CountInv'
  <2>1. Known' = Known
    BY <1>1, <1>2 DEF Known
  <2> QED BY <1>1, <2>1 DEF PidInv, CountInv
<1>7. RegisteredInv'
  <2>1. \A e \in ends' : e = <<c, 0>> \/ (e \in ends /\ e[1] \in Progs)
    BY <1>1 DEF PidInv, PidTypeOK
  <2>2. renumbered' => \A e \in ends' : stage'[e[1]] \in {"zombie", "gone"}
    BY <1>1, <1>2, <2>1 DEF PidInv, RegisteredInv
  <2> QED BY <1>1, <1>2, <2>2 DEF PidInv, RegisteredInv
<1>8. MakingInv'
  <2>1. \A q \in Progs : q # p => making[q] # c
    BY <1>1 DEF PidInv, MakingInv, c
  <2> QED BY <1>1, <1>2, <2>1 DEF PidInv, MakingInv, PidTypeOK
<1>9. MotherInv'
  BY <1>1, <1>2 DEF PidInv, MotherInv, PidTypeOK
<1>10. IsRunning /\ IsRunning' /\ RestoringInv'
  <2>1. IsRunning
    BY <1>1 DEF PidInv, RestoringInv
  <2> QED BY <1>1, <1>2, <2>1 DEF IsRunning, RestoringInv
<1>11. TableInv'
  <2>1. \A q \in Progs : Named(stage[q]) => Named(stage'[q]) /\ vpid'[q] = vpid[q]
    BY <1>1, <1>2 DEF Named, Present
  <2>2. \A q \in Progs : Present(stage'[q]) => Present(stage[q]) /\ realPid'[q] = realPid[q]
    BY <1>1, <1>2 DEF Present
  <2>3. nextReal' \in Nat /\ nextReal <= nextReal'
    BY <1>1 DEF PidInv, PidTypeOK
  <2>4. \A f : Names(f, stage, vpid, realPid, nextReal)
                 => Names(f, stage', vpid', realPid', nextReal')
    BY <2>1, <2>2, <2>3, OldNames
  <2>5. \A q \in Progs : Uses(stage'[q]) => Uses(stage[q])
    BY <1>1, <1>2 DEF Uses
  <2> QED BY <1>1, <2>4, <2>5 DEF PidInv, TableInv
<1>12. KnowsInv'
  <2>1. \A u, d \in Progs :
          /\ Uses(stage'[u]) /\ Present(stage'[d]) /\ mother'[d] = u
          /\ making'[u] # d /\ stage'[u] # "restored"
          => vpid'[d] \in DOMAIN idTable'[u]
    <3> TAKE u, d \in Progs
    <3> HAVE /\ Uses(stage'[u]) /\ Present(stage'[d]) /\ mother'[d] = u
             /\ making'[u] # d /\ stage'[u] # "restored"
    <3>1. Uses(stage[u]) /\ Present(stage[d]) /\ stage[u] # "restored" /\ d # c
      BY <1>1, <1>2 DEF Uses, Present
    <3>2. making[u] # d
      BY <1>1, <1>2, <3>1 DEF c
    <3> QED BY <1>1, <3>1, <3>2 DEF PidInv, KnowsInv
  <2>2. c \notin peers /\ peers \subseteq Progs
    BY <1>1 DEF PidInv, KnowsInv, PidTypeOK
  <2> QED BY <1>1, <1>2, <1>10, <2>1, <2>2 DEF PidInv, KnowsInv
<1> QED BY <1>3, <1>4, <1>5, <1>6, <1>7, <1>8, <1>9, <1>10, <1>11, <1>12 DEF PidInv

\* The real fork: the child has the parent's table and enters itself.
LEMMA RealForkKeeps ==
  ASSUME PidInv, NEW p \in Progs, RealFork(p)
  PROVE  PidInv'
<1> DEFINE c == making[p]
           table == Put(Put(idTable[p], vpid[c], nextReal), vpid[p], realPid[p])
<1>1. /\ c \in Progs /\ c # p /\ stage[c] = "made" /\ stage[p] = "live"
      /\ stage' = [stage EXCEPT ![c] = "live"]
      /\ mother' = [mother EXCEPT ![c] = p]
      /\ realPid' = [realPid EXCEPT ![c] = nextReal] /\ nextReal' = nextReal + 1
      /\ idTable' = [idTable EXCEPT ![c] = table]
      /\ UNCHANGED <<vpid, making, execs, failures, registered, nextVirtual, ends,
                     pidFile, peers, restarts, renumbered>>
  BY DEF RealFork, coordVars, restartVars, PidInv, MakingInv, PidTypeOK
<1>2. /\ \A q \in Progs : q # p => making[q] # c
      /\ \A q \in Progs : mother[q] # c
      /\ p # NoProg /\ c # NoProg
  BY <1>1, PidsAssumption DEF PidInv, MakingInv, MotherInv, NoProg
<1> HIDE DEF c, table
<1>3. /\ \A u \in Progs : stage'[u] = IF u = c THEN "live" ELSE stage[u]
      /\ \A u \in Progs : mother'[u] = IF u = c THEN p ELSE mother[u]
      /\ \A u \in Progs : realPid'[u] = IF u = c THEN nextReal ELSE realPid[u]
      /\ \A u \in Progs : idTable'[u] = IF u = c THEN table ELSE idTable[u]
      /\ idTable' = [u \in Progs |-> idTable'[u]]
      /\ mother' \in [Progs -> Progs \union {NoProg}]
  BY <1>1 DEF PidInv, PidTypeOK
<1>4. /\ VirtualInv' /\ RealInv' /\ CountInv' /\ RegisteredInv'
      /\ nextReal' \in Nat \ {0} /\ realPid' \in [Progs -> Nat]
      /\ stage' \in [Progs -> Stage] /\ registered' \subseteq Number
      /\ \A f : Names(f, stage, vpid, realPid, nextReal)
                  => Names(f, stage', vpid', realPid', nextReal')
  <2>1. ~renumbered \/ vpid[c] \in registered
    BY <1>1 DEF PidInv, RegisteredInv
  <2>2. "live" \in {"live", "restored"} /\ stage[c] \in {"asked", "made", "saved"}
    BY <1>1
  <2> QED BY <1>1, <2>1, <2>2, FirstPid
<1>5. PidTypeOK'
  <2>1. IsTable(table)
    <3>1. IsTable(idTable[p]) /\ vpid[c] \in Number /\ vpid[p] \in Number /\ nextReal \in Nat
          /\ realPid[p] \in Nat
      BY <1>1 DEF PidInv, PidTypeOK
    <3> QED BY <3>1, TableTypes DEF table
  <2>2. \A u \in Progs : IsTable(idTable'[u])
    BY <1>3, <2>1 DEF PidInv, PidTypeOK
  <2> QED BY <1>1, <1>3, <1>4, <2>2 DEF PidInv, PidTypeOK
<1>6. MakingInv'
  BY <1>1, <1>2, <1>3 DEF PidInv, MakingInv, PidTypeOK, c
<1>7. MotherInv'
  BY <1>1, <1>2, <1>3 DEF PidInv, MotherInv, PidTypeOK
<1>8. IsRunning /\ IsRunning' /\ RestoringInv'
  <2>1. IsRunning
    BY <1>1 DEF PidInv, RestoringInv
  <2> QED BY <1>3, <2>1 DEF IsRunning, RestoringInv
<1>9. Names(table, stage', vpid', realPid', nextReal')
      /\ DOMAIN table = DOMAIN idTable[p] \union {vpid[c], vpid[p]}
  <2>1. Present(stage'[c]) /\ Present(stage'[p])
    BY <1>1, <1>3 DEF Present
  <2>2. Names(idTable[p], stage', vpid', realPid', nextReal')
    BY <1>1, <1>4 DEF PidInv, TableInv, Uses
  <2>3. Distinct(stage', vpid') /\ Fresh(stage', realPid', nextReal')
    BY <1>4 DEF VirtualInv, RealInv
  <2>4. /\ Names(Put(idTable[p], vpid'[c], realPid'[c]), stage', vpid', realPid', nextReal')
        /\ DOMAIN Put(idTable[p], vpid'[c], realPid'[c]) = DOMAIN idTable[p] \union {vpid'[c]}
    <3>1. c \in Progs
      BY <1>1
    <3>2. Present(stage'[c])
      BY <2>1
    <3> QED BY <2>2, <2>3, <3>1, <3>2, PutNames, SMTT(60)
  <2> DEFINE first == Put(idTable[p], vpid'[c], realPid'[c])
  <2> HIDE DEF first
  <2>5. /\ Names(Put(first, vpid'[p], realPid'[p]), stage', vpid', realPid', nextReal')
        /\ DOMAIN Put(first, vpid'[p], realPid'[p]) = DOMAIN first \union {vpid'[p]}
    <3>1. Names(first, stage', vpid', realPid', nextReal')
      BY <2>4 DEF first
    <3>2. Present(stage'[p])
      BY <2>1
    <3> QED BY <2>3, <3>1, <3>2, PutNames, SMTT(60)
  <2>6. table = Put(first, vpid'[p], realPid'[p])
    BY <1>1, <1>3 DEF table, first
  <2> QED BY <1>1, <2>4, <2>5, <2>6 DEF first
<1>10. TableInv'
  BY <1>1, <1>3, <1>4, <1>9 DEF PidInv, TableInv, Uses
<1>11. KnowsInv'
  <2>1. \A u, d \in Progs :
          /\ Uses(stage'[u]) /\ Present(stage'[d]) /\ mother'[d] = u
          /\ making'[u] # d /\ stage'[u] # "restored"
          => vpid'[d] \in DOMAIN idTable'[u]
    <3> TAKE u, d \in Progs
    <3> HAVE /\ Uses(stage'[u]) /\ Present(stage'[d]) /\ mother'[d] = u
             /\ making'[u] # d /\ stage'[u] # "restored"
    <3>1. d # c
      BY <1>1, <1>3 DEF c
    <3>2. mother[d] = u /\ u # c /\ Present(stage[d])
      BY <1>2, <1>3, <3>1
    <3> QED BY <1>1, <1>3, <3>2 DEF PidInv, KnowsInv
  <2>2. c \notin peers /\ peers \subseteq Progs
    BY <1>1 DEF PidInv, KnowsInv, PidTypeOK
  <2>3. \A u, d \in peers' :
          stage'[u] \in {"live", "execing"} /\ Uses(stage'[d]) => vpid'[d] \in DOMAIN idTable'[u]
    BY <1>1, <1>3, <2>2 DEF PidInv, KnowsInv
  <2>4. \A u \in peers' : stage'[u] \notin {"absent", "asked", "made"}
    BY <1>1, <1>3, <2>2 DEF PidInv, KnowsInv
  <2> QED BY <1>8, <2>1, <2>3, <2>4 DEF KnowsInv
<1> QED BY <1>4, <1>5, <1>6, <1>7, <1>8, <1>10, <1>11 DEF PidInv

\* The parent enters the child it has got.
LEMMA UpdateMappingKeeps ==
  ASSUME PidInv, NEW p \in Progs, UpdateMapping(p)
  PROVE  PidInv'
<1> DEFINE c == making[p]
           table == Put(idTable[p], vpid[c], realPid[c])
<1>1. /\ c \in Progs /\ c # NoProg /\ stage[p] = "live"
      /\ stage[c] \in {"live", "execing", "zombie"}
      /\ making' = [making EXCEPT ![p] = NoProg]
      /\ idTable' = [idTable EXCEPT ![p] = table]
      /\ UNCHANGED <<stage, vpid, realPid, mother, execs, failures, nextReal, registered,
                     nextVirtual, ends, pidFile, peers, restarts, renumbered>>
  BY DEF UpdateMapping, coordVars, restartVars, PidInv, MakingInv, PidTypeOK
<1>2. Names(table, stage, vpid, realPid, nextReal)
      /\ DOMAIN table = DOMAIN idTable[p] \union {vpid[c]}
  <2>1. Present(stage[c]) /\ Names(idTable[p], stage, vpid, realPid, nextReal)
    BY <1>1 DEF PidInv, TableInv, Uses, Present
  <2> HIDE DEF c
  <2> QED BY <1>1, <2>1, PutNames DEF PidInv, VirtualInv, RealInv
<1>3. IsTable(table)
  BY <1>1, TableTypes DEF PidInv, PidTypeOK
<1> HIDE DEF table
<1>4. /\ \A u \in Progs : making'[u] = IF u = p THEN NoProg ELSE making[u]
      /\ \A u \in Progs : idTable'[u] = IF u = p THEN table ELSE idTable[u]
      /\ idTable' = [u \in Progs |-> idTable'[u]]
      /\ making' \in [Progs -> Progs \union {NoProg}]
  BY <1>1 DEF PidInv, PidTypeOK
<1>5. PidTypeOK'
  BY <1>1, <1>3, <1>4 DEF PidInv, PidTypeOK
<1>6. VirtualInv' /\ RealInv' /\ CountInv' /\ RegisteredInv' /\ MotherInv'
  BY <1>1 DEF PidInv, VirtualInv, RealInv, CountInv, RegisteredInv, MotherInv, Known
<1>7. MakingInv'
  BY <1>1, <1>4 DEF PidInv, MakingInv
<1>8. IsRunning /\ IsRunning' /\ RestoringInv'
  BY <1>1 DEF PidInv, IsRunning, RestoringInv
<1>9. TableInv'
  BY <1>1, <1>2, <1>4 DEF PidInv, TableInv
<1>10. KnowsInv'
  <2>1. \A u, d \in Progs :
          /\ Uses(stage[u]) /\ Present(stage[d]) /\ mother[d] = u
          /\ making'[u] # d /\ stage[u] # "restored"
          => vpid[d] \in DOMAIN idTable'[u]
    <3> TAKE u, d \in Progs
    <3> HAVE /\ Uses(stage[u]) /\ Present(stage[d]) /\ mother[d] = u
             /\ making'[u] # d /\ stage[u] # "restored"
    <3>1. CASE d = c
      <4>1. CASE u = p
        BY <1>2, <1>4, <3>1, <4>1
      <4>2. CASE u # p
        BY <1>1, <1>4, <3>1, <4>2 DEF PidInv, KnowsInv
      <4> QED BY <4>1, <4>2
    <3>2. CASE d # c
      <4>1. making[u] # d
        BY <1>1, <1>4, <3>2
      <4> QED BY <1>2, <1>4, <4>1 DEF PidInv, KnowsInv
    <3> QED BY <3>1, <3>2
  <2>2. peers \subseteq Progs
    BY DEF PidInv, PidTypeOK
  <2>3. \A u, d \in peers :
          stage[u] \in {"live", "execing"} /\ Uses(stage[d]) => vpid[d] \in DOMAIN idTable'[u]
    BY <1>2, <1>4, <2>2 DEF PidInv, KnowsInv
  <2> QED BY <1>1, <1>8, <2>1, <2>3 DEF PidInv, KnowsInv
<1> QED BY <1>5, <1>6, <1>7, <1>8, <1>9, <1>10 DEF PidInv

\* An exec keeps pids and table, also while its connections change.
LEMMA ExecKeeps ==
  ASSUME PidInv, Bounded, NEW p \in Progs, ExecProgram(p) \/ HelloAfterExec(p)
  PROVE  PidInv'
<1> DEFINE s == stage'[p]
<1>1. /\ stage[p] \in {"live", "execing"} /\ s \in {"live", "execing"} /\ making[p] = NoProg
      /\ stage[p] = "live" => ~renumbered
      /\ stage' = [stage EXCEPT ![p] = s]
      /\ ends' \subseteq ends \union {<<p, execs[p]>>}
      /\ registered' \subseteq registered \union {vpid[p]}
      /\ registered \subseteq registered'
      /\ renumbered => ends' = ends
      /\ execs' \in [Progs -> Nat]
      /\ UNCHANGED <<vpid, realPid, mother, making, failures, nextReal, idTable, nextVirtual,
                     pidFile, peers, restarts, renumbered>>
  <2>1. CASE ExecProgram(p)
    <3>1. ~renumbered
      BY <2>1 DEF ExecProgram, Bounded, PidInv, PidTypeOK
    <3>2. execs' \in [Progs -> Nat]
      BY <2>1 DEF ExecProgram, PidInv, PidTypeOK
    <3> QED BY <2>1, <3>1, <3>2 DEF ExecProgram, restartVars, PidInv, PidTypeOK
  <2>2. CASE HelloAfterExec(p)
    <3>1. making[p] = NoProg
      BY <2>2 DEF HelloAfterExec, PidInv, MakingInv
    <3> QED BY <2>2, <3>1 DEF HelloAfterExec, restartVars, PidInv, PidTypeOK
  <2> QED BY <2>1, <2>2
<1> HIDE DEF s
<1>2. /\ \A u \in Progs : stage'[u] = IF u = p THEN s ELSE stage[u]
      /\ \A u \in Progs : Present(stage'[u]) <=> Present(stage[u])
      /\ \A u \in Progs : Uses(stage'[u]) <=> Uses(stage[u])
      /\ \A u \in Progs : Named(stage'[u]) <=> Named(stage[u])
  BY <1>1 DEF PidInv, PidTypeOK, Present, Uses, Named
<1>3. PidTypeOK'
  BY <1>1 DEF PidInv, PidTypeOK, Stage
<1>4. VirtualInv' /\ RealInv'
  BY <1>1, <1>2 DEF PidInv, VirtualInv, RealInv, Distinct, Fresh
<1>5. CountInv'
  <2>1. Known' = Known /\ p \in Known
    BY <1>1, <1>2 DEF Known
  <2> QED BY <1>1, <2>1 DEF PidInv, CountInv
<1>6. RegisteredInv'
  <2> SUFFICES ASSUME renumbered'
               PROVE  FALSE
    BY DEF RegisteredInv
  <2> QED BY <1>1 DEF PidInv, RegisteredInv
<1>7. MakingInv' /\ MotherInv'
  BY <1>1, <1>2 DEF PidInv, MakingInv, MotherInv, PidTypeOK
<1>8. IsRunning /\ IsRunning'
  <2>1. IsRunning
    BY DEF ExecProgram, HelloAfterExec, PidInv, RestoringInv
  <2> QED BY <1>1, <1>2, <2>1 DEF IsRunning
<1>9. RestoringInv'
  BY <1>8 DEF RestoringInv
<1>10. TableInv'
  BY <1>1, <1>2 DEF PidInv, TableInv, Names
<1>11. KnowsInv'
  <2>1. peers \subseteq Progs
    BY DEF PidInv, PidTypeOK
  <2>2. \A u \in Progs : /\ stage'[u] \in {"live", "execing"} <=> stage[u] \in {"live", "execing"}
                         /\ stage'[u] = "restored" <=> stage[u] = "restored"
                         /\ stage'[u] \in {"absent", "asked", "made"}
                              <=> stage[u] \in {"absent", "asked", "made"}
    BY <1>1, <1>2
  <2> QED BY <1>1, <1>2, <1>8, <2>1, <2>2 DEF PidInv, KnowsInv
<1> QED BY <1>3, <1>4, <1>5, <1>6, <1>7, <1>9, <1>10, <1>11 DEF PidInv

\* A process that exits keeps its pids until it is waited for.
LEMMA ExitKeeps ==
  ASSUME PidInv, NEW p \in Progs, ExitProgram(p)
  PROVE  PidInv'
<1>1. /\ IsRunning /\ stage[p] = "live" /\ making[p] = NoProg
      /\ stage' = [t \in Progs |->
                     CASE t = p -> IF mother[p] = NoProg THEN "gone" ELSE "zombie"
                       [] stage[t] = "zombie" /\ mother[t] = p -> "gone"
                       [] OTHER -> stage[t]]
      /\ mother' = [t \in Progs |-> IF mother[t] = p THEN NoProg ELSE mother[t]]
      /\ ends' = ends \union {<<p, execs[p]>>}
      /\ UNCHANGED <<vpid, realPid, making, execs, failures, nextReal, idTable, registered,
                     nextVirtual, pidFile, peers, restarts, renumbered>>
  BY DEF ExitProgram, restartVars
<1>2. /\ \A u \in Progs :
           \/ u = p /\ stage'[u] = IF mother[p] = NoProg THEN "gone" ELSE "zombie"
           \/ u # p /\ stage[u] = "zombie" /\ mother[u] = p /\ stage'[u] = "gone"
           \/ u # p /\ ~(stage[u] = "zombie" /\ mother[u] = p) /\ stage'[u] = stage[u]
      /\ \A u \in Progs : mother'[u] = IF mother[u] = p THEN NoProg ELSE mother[u]
  BY <1>1
<1>3. /\ \A u \in Progs : Present(stage'[u]) => Present(stage[u])
      /\ \A u \in Progs : Uses(stage'[u]) => u # p /\ stage'[u] = stage[u]
      /\ \A u \in Progs : Named(stage[u]) => Named(stage'[u])
      /\ \A u \in Progs : stage'[u] # stage[u] =>
           stage[u] \in {"live", "zombie"} /\ stage'[u] \in {"zombie", "gone"}
  BY <1>1, <1>2 DEF Present, Uses, Named
<1> DEFINE next == [t \in Progs |->
                     CASE t = p -> IF mother[p] = NoProg THEN "gone" ELSE "zombie"
                       [] stage[t] = "zombie" /\ mother[t] = p -> "gone"
                       [] OTHER -> stage[t]]
<1>4. PidTypeOK'
  <2>1. \A u \in Progs : stage'[u] \in Stage
    BY <1>3 DEF PidInv, PidTypeOK, Stage
  <2>2. stage' \in [Progs -> Stage]
    BY <1>1, <2>1
  <2>3. mother' \in [Progs -> Progs \union {NoProg}]
    BY <1>1 DEF PidInv, PidTypeOK
  <2>4. ends' \subseteq Progs \X Nat
    BY <1>1 DEF PidInv, PidTypeOK
  <2> QED BY <1>1, <2>2, <2>3, <2>4 DEF PidInv, PidTypeOK
<1>5. VirtualInv'
  BY <1>1, <1>3 DEF PidInv, VirtualInv, Distinct
<1>6. RealInv'
  BY <1>1, <1>3 DEF PidInv, RealInv, Fresh
<1>7. CountInv'
  <2>1. Known' = Known
    BY <1>3 DEF Known
  <2> QED BY <1>1, <2>1 DEF PidInv, CountInv
<1>8. RegisteredInv'
  <2>1. \A e \in ends' : e = <<p, execs[p]>> \/ (e \in ends /\ e[1] \in Progs)
    BY <1>1 DEF PidInv, PidTypeOK
  <2>2. stage'[p] \in {"zombie", "gone"}
    BY <1>2
  <2>3. renumbered' => \A e \in ends' : stage'[e[1]] \in {"zombie", "gone"}
    BY <1>1, <1>3, <2>1, <2>2 DEF PidInv, RegisteredInv
  <2>4. renumbered' => \A u \in Progs : stage'[u] # "execing"
    BY <1>1, <1>3 DEF PidInv, RegisteredInv
  <2>5. renumbered' =>
          \A u \in Progs : stage'[u] \in {"made", "live", "restored"} => vpid'[u] \in registered'
    BY <1>1, <1>3 DEF PidInv, RegisteredInv
  <2> QED BY <2>3, <2>4, <2>5 DEF RegisteredInv
<1>9. MakingInv'
  <2>1. ASSUME NEW q \in Progs, making[q] # NoProg
        PROVE  /\ stage'[q] = "live" /\ making[q] # q
               /\ \/ stage'[making[q]] = "made"
                  \/ /\ stage'[making[q]] \in {"live", "execing", "zombie"}
                     /\ mother'[making[q]] = q
    <3>1. /\ q # p /\ stage[q] = "live" /\ making[q] # q /\ making[q] \in Progs
          /\ \/ stage[making[q]] = "made"
             \/ stage[making[q]] \in {"live", "execing", "zombie"} /\ mother[making[q]] = q
      BY <1>1, <2>1 DEF PidInv, MakingInv, PidTypeOK
    <3>2. stage'[q] = "live"
      BY <1>2, <3>1
    <3>3. CASE stage[making[q]] = "made"
      BY <1>3, <3>1, <3>2, <3>3
    <3>4. CASE stage[making[q]] \in {"live", "execing", "zombie"} /\ mother[making[q]] = q
      <4>1. mother'[making[q]] = q
        BY <1>2, <3>1, <3>4
      <4>2. q # NoProg
        BY PidsAssumption DEF NoProg
      <4>3. CASE making[q] = p
        BY <1>2, <3>1, <3>2, <3>4, <4>1, <4>2, <4>3
      <4>4. CASE making[q] # p
        BY <1>2, <3>1, <3>2, <3>4, <4>1, <4>4
      <4> QED BY <4>3, <4>4
    <3> QED BY <3>1, <3>3, <3>4
  <2>2. \A q, r \in Progs : making[q] = making[r] /\ making[q] # NoProg => q = r
    BY DEF PidInv, MakingInv
  <2> QED BY <1>1, <2>1, <2>2 DEF MakingInv
<1>10. MotherInv'
  <2> SUFFICES ASSUME NEW u \in Progs
               PROVE  /\ mother'[u] # NoProg =>
                           /\ mother'[u] # u
                           /\ stage'[mother'[u]] \in {"live", "execing", "saved", "restored"}
                           /\ stage'[u] \notin {"absent", "asked", "made"}
                      /\ stage'[u] = "zombie" => mother'[u] # NoProg
    BY DEF MotherInv
  <2>1. /\ mother[u] \in Progs \union {NoProg}
        /\ mother[u] # NoProg =>
             /\ mother[u] # u /\ stage[mother[u]] \in {"live", "execing", "saved", "restored"}
             /\ stage[u] \notin {"absent", "asked", "made"}
        /\ stage[u] = "zombie" => mother[u] # NoProg
    BY DEF PidInv, MotherInv, PidTypeOK
  <2>2. ASSUME mother'[u] # NoProg
        PROVE  /\ mother'[u] # u
               /\ stage'[mother'[u]] \in {"live", "execing", "saved", "restored"}
               /\ stage'[u] \notin {"absent", "asked", "made"}
    <3>1. mother[u] # p /\ mother'[u] = mother[u] /\ mother[u] # NoProg /\ mother[u] \in Progs
      BY <1>2, <2>1, <2>2
    <3>2. stage'[mother[u]] = stage[mother[u]]
      BY <1>2, <2>1, <3>1
    <3> QED BY <1>3, <2>1, <3>1, <3>2
  <2>3. ASSUME stage'[u] = "zombie"
        PROVE  mother'[u] # NoProg
    <3>1. CASE u = p
      BY <1>2, <2>1, <2>3, <3>1
    <3>2. CASE u # p
      BY <1>2, <2>1, <2>3, <3>2
    <3> QED BY <3>1, <3>2
  <2> QED BY <2>2, <2>3
<1>11. IsRunning' /\ RestoringInv'
  BY <1>1, <1>3 DEF IsRunning, RestoringInv
<1>12. TableInv'
  <2>1. \A q \in Progs : Named(stage[q]) => Named(stage'[q]) /\ vpid'[q] = vpid[q]
    BY <1>1, <1>3
  <2>2. \A q \in Progs : Present(stage'[q]) => Present(stage[q]) /\ realPid'[q] = realPid[q]
    BY <1>1, <1>3
  <2>3. nextReal' \in Nat /\ nextReal <= nextReal'
    BY <1>1 DEF PidInv, PidTypeOK
  <2>4. \A f : Names(f, stage, vpid, realPid, nextReal)
                 => Names(f, stage', vpid', realPid', nextReal')
    BY <2>1, <2>2, <2>3, OldNames
  <2> QED BY <1>1, <1>3, <2>4 DEF PidInv, TableInv
<1>13. KnowsInv'
  <2>1. \A u, d \in Progs :
          /\ Uses(stage'[u]) /\ Present(stage'[d]) /\ mother'[d] = u
          /\ making'[u] # d /\ stage'[u] # "restored"
          => vpid'[d] \in DOMAIN idTable'[u]
    <3> TAKE u, d \in Progs
    <3> HAVE /\ Uses(stage'[u]) /\ Present(stage'[d]) /\ mother'[d] = u
             /\ making'[u] # d /\ stage'[u] # "restored"
    <3>1. u # NoProg
      BY PidsAssumption DEF NoProg
    <3>2. mother[d] = u /\ Uses(stage[u]) /\ stage[u] # "restored" /\ Present(stage[d])
      BY <1>2, <1>3, <3>1
    <3> QED BY <1>1, <3>2 DEF PidInv, KnowsInv
  <2>2. peers \subseteq Progs
    BY DEF PidInv, PidTypeOK
  <2>3. \A u, d \in peers' :
          stage'[u] \in {"live", "execing"} /\ Uses(stage'[d]) => vpid'[d] \in DOMAIN idTable'[u]
    <3> TAKE u, d \in peers'
    <3> HAVE stage'[u] \in {"live", "execing"} /\ Uses(stage'[d])
    <3>1. stage[u] \in {"live", "execing"} /\ Uses(stage[d]) /\ u \in peers /\ d \in peers
      BY <1>1, <1>3, <2>2 DEF Uses
    <3> QED BY <1>1, <3>1 DEF PidInv, KnowsInv
  <2>4. \A u \in peers' : stage'[u] \notin {"absent", "asked", "made"}
    BY <1>1, <1>3, <2>2 DEF PidInv, KnowsInv
  <2> QED BY <1>11, <2>1, <2>3, <2>4 DEF KnowsInv
<1> QED BY <1>4, <1>5, <1>6, <1>7, <1>8, <1>9, <1>10, <1>11, <1>12, <1>13 DEF PidInv

\* wait4 takes the child out of the caller's table.
LEMMA WaitKeeps ==
  ASSUME PidInv, ~HandlerWaits, NEW p \in Progs, NEW c \in Progs, WaitProgram(p, c)
  PROVE  PidInv'
<1>1. /\ IsRunning /\ stage[p] = "live" /\ making[p] = NoProg
      /\ stage[c] = "zombie" /\ mother[c] = p /\ c # p /\ c # NoProg
      /\ stage' = [stage EXCEPT ![c] = "gone"]
      /\ idTable' = [idTable EXCEPT ![p] = Erased(@, VirtualNumber(@, realPid[c]))]
      /\ UNCHANGED <<vpid, realPid, mother, making, execs, failures, nextReal, registered,
                     nextVirtual, ends, pidFile, peers, restarts, renumbered>>
  BY PidsAssumption DEF WaitProgram, CanWait, coordVars, restartVars, NoProg
<1>2. VirtualNumber(idTable[p], realPid[c]) = vpid[c]
  <2>1. vpid[c] \in DOMAIN idTable[p]
    BY <1>1 DEF PidInv, KnowsInv, Uses, Present
  <2>2. Names(idTable[p], stage, vpid, realPid, nextReal)
    BY <1>1 DEF PidInv, TableInv, Uses
  <2>3. Present(stage[c])
    BY <1>1 DEF Present
  <2> QED BY <2>1, <2>2, <2>3, NameFound DEF PidInv
<1> DEFINE table == Erased(idTable[p], vpid[c])
<1>3. DOMAIN table = DOMAIN idTable[p] \ {vpid[c]} /\ IsTable(table)
  BY TableTypes DEF PidInv, PidTypeOK, Erased, Restrict
<1> HIDE DEF table
<1>4. /\ \A u \in Progs : stage'[u] = IF u = c THEN "gone" ELSE stage[u]
      /\ \A u \in Progs : idTable'[u] = IF u = p THEN table ELSE idTable[u]
      /\ idTable' = [u \in Progs |-> idTable'[u]]
  BY <1>1, <1>2 DEF PidInv, PidTypeOK, table
<1>5. PidTypeOK'
  <2>1. \A u \in Progs : IsTable(idTable'[u])
    BY <1>3, <1>4 DEF PidInv, PidTypeOK
  <2> QED BY <1>1, <1>4, <2>1 DEF PidInv, PidTypeOK, Stage
<1>6. VirtualInv'
  BY <1>1, <1>4 DEF PidInv, VirtualInv, Distinct
<1>7. RealInv'
  BY <1>1, <1>4 DEF PidInv, RealInv, Fresh, Present
<1>8. CountInv'
  <2>1. Known' = Known
    BY <1>1, <1>4 DEF Known
  <2> QED BY <1>1, <2>1 DEF PidInv, CountInv
<1>9. RegisteredInv'
  <2>1. \A e \in ends : e[1] \in Progs
    BY DEF PidInv, PidTypeOK
  <2>2. renumbered => \A e \in ends' : stage'[e[1]] \in {"zombie", "gone"}
    BY <1>1, <1>4, <2>1 DEF PidInv, RegisteredInv
  <2> QED BY <1>1, <1>4, <2>2 DEF PidInv, RegisteredInv
<1>10. MakingInv'
  <2>1. \A q \in Progs : making[q] # c
    BY <1>1 DEF PidInv, MakingInv
  <2> QED BY <1>1, <1>4, <2>1 DEF PidInv, MakingInv, PidTypeOK
<1>11. MotherInv'
  BY <1>1, <1>4 DEF PidInv, MotherInv, PidTypeOK
<1>12. IsRunning' /\ RestoringInv'
  BY <1>1, <1>4 DEF IsRunning, RestoringInv
<1>13. TableInv'
  <2>1. \A q \in Progs : Named(stage[q]) => Named(stage'[q]) /\ vpid'[q] = vpid[q]
    BY <1>1, <1>4 DEF Named, Present
  <2>2. \A q \in Progs : Present(stage'[q]) => Present(stage[q]) /\ realPid'[q] = realPid[q]
    BY <1>1, <1>4 DEF Present
  <2>3. nextReal' \in Nat /\ nextReal <= nextReal'
    BY <1>1 DEF PidInv, PidTypeOK
  <2>4. \A f : Names(f, stage, vpid, realPid, nextReal)
                 => Names(f, stage', vpid', realPid', nextReal')
    BY <2>1, <2>2, <2>3, OldNames
  <2>5. Names(table, stage, vpid, realPid, nextReal)
    BY <1>1, ErasedNames DEF PidInv, TableInv, Uses, table
  <2>6. \A q \in Progs : Uses(stage'[q]) => Uses(stage[q])
    BY <1>4 DEF Uses
  <2> QED BY <1>1, <1>4, <2>4, <2>5, <2>6 DEF PidInv, TableInv
<1>14. KnowsInv'
  <2>1. /\ \A q \in Progs : Uses(stage'[q]) => q # c /\ stage'[q] = stage[q]
        /\ \A q \in Progs : Present(stage'[q]) => q # c /\ stage'[q] = stage[q]
    BY <1>4 DEF Uses, Present
  <2>2. \A u, d \in Progs :
          d # c /\ stage[d] # "absent" /\ vpid[d] \in DOMAIN idTable[u] => vpid[d] \in DOMAIN idTable'[u]
    BY <1>1, <1>3, <1>4 DEF PidInv, VirtualInv, Distinct
  <2>3. \A u, d \in Progs :
          /\ Uses(stage'[u]) /\ Present(stage'[d]) /\ mother'[d] = u
          /\ making'[u] # d /\ stage'[u] # "restored"
          => vpid'[d] \in DOMAIN idTable'[u]
    <3> TAKE u, d \in Progs
    <3> HAVE /\ Uses(stage'[u]) /\ Present(stage'[d]) /\ mother'[d] = u
             /\ making'[u] # d /\ stage'[u] # "restored"
    <3>1. /\ Uses(stage[u]) /\ Present(stage[d]) /\ mother[d] = u
          /\ making[u] # d /\ stage[u] # "restored"
      BY <1>1, <2>1
    <3>2. vpid[d] \in DOMAIN idTable[u]
      BY <3>1 DEF PidInv, KnowsInv
    <3>3. stage[d] # "absent" /\ d # c
      BY <2>1, <3>1 DEF Present
    <3> QED BY <1>1, <2>2, <3>2, <3>3
  <2>4. peers \subseteq Progs
    BY DEF PidInv, PidTypeOK
  <2>5. \A u, d \in peers' :
          stage'[u] \in {"live", "execing"} /\ Uses(stage'[d]) => vpid'[d] \in DOMAIN idTable'[u]
    <3> TAKE u, d \in peers'
    <3> HAVE stage'[u] \in {"live", "execing"} /\ Uses(stage'[d])
    <3>1. /\ stage[u] \in {"live", "execing"} /\ Uses(stage[d]) /\ u \in peers /\ d \in peers
          /\ d # c /\ u \in Progs /\ d \in Progs
      BY <1>1, <2>1, <2>4 DEF Uses
    <3>2. vpid[d] \in DOMAIN idTable[u]
      BY <3>1 DEF PidInv, KnowsInv
    <3>3. stage[d] # "absent"
      BY <3>1 DEF Uses
    <3> QED BY <1>1, <2>2, <3>1, <3>2, <3>3
  <2>6. \A u \in peers' : stage'[u] \notin {"absent", "asked", "made"}
    BY <1>1, <1>4, <2>4 DEF PidInv, KnowsInv
  <2> QED BY <1>12, <2>3, <2>5, <2>6 DEF KnowsInv
<1> QED BY <1>5, <1>6, <1>7, <1>8, <1>9, <1>10, <1>11, <1>12, <1>13, <1>14 DEF PidInv

\* The coordinator forgets a number when a connection of it ends.
LEMMA DisconnectKeeps ==
  ASSUME PidInv, NEW e \in ends, OnPidDisconnect(e)
  PROVE  PidInv'
<1>1. /\ ends' = ends \ {e} /\ registered' = registered \ {vpid[e[1]]}
      /\ UNCHANGED <<stage, vpid, realPid, mother, making, execs, failures, nextReal,
                     idTable, nextVirtual, pidFile, peers, restarts, renumbered>>
  BY DEF OnPidDisconnect, procVars, restartVars
<1>2. PidTypeOK'
  BY <1>1 DEF PidInv, PidTypeOK
<1>3. VirtualInv' /\ RealInv' /\ MakingInv' /\ MotherInv' /\ (IsRunning <=> IsRunning')
  BY <1>1 DEF PidInv, VirtualInv, RealInv, MakingInv, MotherInv, IsRunning
<1>4. CountInv'
  <2>1. Known' = Known
    BY <1>1 DEF Known
  <2> QED BY <1>1, <2>1 DEF PidInv, CountInv
<1>5. RegisteredInv'
  <2> SUFFICES ASSUME renumbered
               PROVE  \A t \in Progs : stage[t] \in {"made", "live", "restored"} =>
                                         vpid[t] \in registered'
    BY <1>1 DEF PidInv, RegisteredInv
  <2>1. e[1] \in Progs /\ stage[e[1]] \in {"zombie", "gone"}
    BY DEF PidInv, RegisteredInv, PidTypeOK
  <2>2. \A t \in Progs : stage[t] \in {"made", "live", "restored"} => vpid[t] # vpid[e[1]]
    BY <2>1 DEF PidInv, VirtualInv, Distinct
  <2> QED BY <1>1, <2>2 DEF PidInv, RegisteredInv
<1>6. RestoringInv'
  BY <1>1, <1>3 DEF PidInv, RestoringInv
<1>7. TableInv'
  BY <1>1 DEF PidInv, TableInv
<1>8. KnowsInv'
  BY <1>1, <1>3 DEF PidInv, KnowsInv
<1> QED BY <1>2, <1>3, <1>4, <1>5, <1>6, <1>7, <1>8 DEF PidInv

\* Images have the tables of all processes, and the processes end.
LEMMA CheckpointKeeps ==
  ASSUME PidInv, CheckpointAndEnd
  PROVE  PidInv'
<1>1. /\ IsRunning
      /\ \A t \in Progs : stage[t] \notin {"made", "execing"} /\ making[t] = NoProg
      /\ restarts' = restarts + 1
      /\ peers' = {t \in Progs : stage[t] = "live"}
      /\ stage' = [t \in Progs |-> CASE stage[t] = "live" -> "saved"
                                      [] stage[t] = "zombie" -> "gone"
                                      [] OTHER -> stage[t]]
      /\ nextReal' = 1 /\ registered' = {} /\ ends' = {}
      /\ \/ nextVirtual' = nextVirtual /\ renumbered' = renumbered
         \/ NewCoordinators /\ nextVirtual' = 0 /\ renumbered' = TRUE
      /\ pidFile' = Empty
      /\ UNCHANGED <<vpid, realPid, mother, making, execs, failures, idTable>>
  BY DEF CheckpointAndEnd
<1>2. \A t \in Progs : /\ stage[t] \in {"absent", "asked", "live", "zombie", "gone"}
                       /\ stage[t] = "live" <=> stage'[t] = "saved"
                       /\ stage[t] = "absent" <=> stage'[t] = "absent"
                       /\ stage'[t] \in {"absent", "asked", "saved", "gone"}
  BY <1>1 DEF PidInv, PidTypeOK, Stage, IsRunning
<1>3. restarts' \in Nat /\ renumbered' \in BOOLEAN /\ (renumbered' => NewCoordinators)
  <2>1. restarts' \in Nat
    BY <1>1 DEF PidInv, PidTypeOK
  <2>2. renumbered' \in BOOLEAN /\ (renumbered' => NewCoordinators)
    <3>1. CASE renumbered' = renumbered
      BY <3>1 DEF PidInv, PidTypeOK
    <3>2. CASE NewCoordinators /\ renumbered' = TRUE
      BY <3>2
    <3> QED BY <1>1, <3>1, <3>2
  <2> QED BY <2>1, <2>2
<1>4. PidTypeOK'
  <2>1. stage' \in [Progs -> Stage]
    BY <1>1, <1>2 DEF Stage
  <2>2. nextVirtual' \in Number
    BY <1>1, PidsAssumption DEF PidInv, PidTypeOK, Number
  <2> QED BY <1>1, <1>3, <2>1, <2>2, TableTypes DEF PidInv, PidTypeOK
<1>5. VirtualInv'
  BY <1>1, <1>2 DEF PidInv, VirtualInv, Distinct
<1>6. RealInv'
  BY <1>2 DEF RealInv, Fresh, Present
<1>7. CountInv' /\ RegisteredInv'
  <2>1. Known' = Known
    BY <1>2 DEF Known
  <2> QED BY <1>1, <1>2, <2>1 DEF PidInv, CountInv, RegisteredInv
<1>8. MakingInv'
  BY <1>1 DEF MakingInv
<1>9. MotherInv'
  <2>1. \A t \in Progs : mother[t] # NoProg => /\ mother[t] # t /\ mother[t] \in Progs
                                               /\ stage[mother[t]] = "live"
                                               /\ stage[t] \notin {"absent", "asked"}
    BY <1>2 DEF PidInv, MotherInv, PidTypeOK
  <2>2. \A t \in Progs : stage[t] \notin {"absent", "asked"} => stage'[t] \in {"saved", "gone"}
    BY <1>1, <1>2
  <2> QED BY <1>1, <1>2, <2>1, <2>2 DEF MotherInv
<1>10. RestoringInv'
  BY <1>1, <1>2, <1>3 DEF RestoringInv
<1>11. TableInv'
  <2>1. Names(Empty, stage', vpid', realPid', nextReal')
    BY NoNames
  <2>2. \A t \in Progs : ~Uses(stage'[t])
    BY <1>2 DEF Uses
  <2> QED BY <1>1, <2>1, <2>2 DEF TableInv
<1>12. KnowsInv'
  <2>1. \A t \in Progs : ~Uses(stage'[t]) /\ stage'[t] \notin {"live", "execing"}
    BY <1>2 DEF Uses
  <2>2. \A t \in peers' : t \in Progs /\ stage'[t] = "saved"
    BY <1>1, <1>2
  <2> QED BY <2>1, <2>2 DEF KnowsInv
<1> QED BY <1>4, <1>5, <1>6, <1>7, <1>8, <1>9, <1>10, <1>11, <1>12 DEF PidInv

\* A restored process enters its number with the pid of the new kernel.
LEMMA RestoreKeeps ==
  ASSUME PidInv, NEW t \in Progs, RestoreProgram(t)
  PROVE  PidInv'
<1> DEFINE own == Put(Empty, vpid[t], nextReal)
           table == IF mother[t] = NoProg THEN own
                    ELSE Put(own, vpid[mother[t]], realPid[mother[t]])
<1>1. /\ stage[t] = "saved" /\ (mother[t] # NoProg => stage[mother[t]] = "restored")
      /\ stage' = [stage EXCEPT ![t] = "restored"]
      /\ registered' = registered \union {vpid[t]}
      /\ realPid' = [realPid EXCEPT ![t] = nextReal] /\ nextReal' = nextReal + 1
      /\ idTable' = [idTable EXCEPT ![t] = table]
      /\ pidFile' = Merged(pidFile, table)
      /\ UNCHANGED <<vpid, mother, making, execs, failures, nextVirtual, ends, peers, restarts,
                     renumbered>>
  BY DEF RestoreProgram, Kept, Merged
<1>2. /\ VirtualInv' /\ RealInv' /\ CountInv' /\ RegisteredInv'
      /\ nextReal' \in Nat \ {0} /\ realPid' \in [Progs -> Nat]
      /\ stage' \in [Progs -> Stage] /\ registered' \subseteq Number
      /\ \A f : Names(f, stage, vpid, realPid, nextReal)
                  => Names(f, stage', vpid', realPid', nextReal')
  <2>1. "restored" \in {"live", "restored"}
    OBVIOUS
  <2> QED BY <1>1, <2>1, FirstPid
<1>3. /\ \A u \in Progs : stage'[u] = IF u = t THEN "restored" ELSE stage[u]
      /\ \A u \in Progs : realPid'[u] = IF u = t THEN nextReal ELSE realPid[u]
      /\ \A u \in Progs : idTable'[u] = IF u = t THEN table ELSE idTable[u]
      /\ idTable' = [u \in Progs |-> idTable'[u]]
      /\ mother[t] \in Progs \union {NoProg} /\ mother[t] # t
      /\ mother[t] # NoProg => mother[t] \in Progs
  BY <1>1, PidsAssumption DEF PidInv, PidTypeOK, MotherInv, NoProg
<1>4. IsTable(table)
  <2>1. vpid[t] \in Number /\ nextReal \in Nat
    BY DEF PidInv, PidTypeOK
  <2>2. IsTable(own)
    BY <2>1, TableTypes
  <2> HIDE DEF own
  <2>3. mother[t] # NoProg => vpid[mother[t]] \in Number /\ realPid[mother[t]] \in Nat
    BY <1>3 DEF PidInv, PidTypeOK
  <2> QED BY <2>2, <2>3, TableTypes
<1>5. Names(table, stage', vpid', realPid', nextReal') /\ vpid[t] \in DOMAIN table
  <2>1. /\ Present(stage'[t]) /\ realPid'[t] = nextReal /\ vpid' = vpid
        /\ Distinct(stage', vpid') /\ Fresh(stage', realPid', nextReal')
    BY <1>1, <1>2, <1>3 DEF Present, VirtualInv, RealInv
  <2>2. /\ Names(own, stage', vpid', realPid', nextReal')
        /\ vpid[t] \in DOMAIN own
    <3>1. Names(Empty, stage', vpid', realPid', nextReal')
      BY NoNames
    <3>2. /\ Names(Put(Empty, vpid'[t], realPid'[t]), stage', vpid', realPid', nextReal')
          /\ DOMAIN Put(Empty, vpid'[t], realPid'[t]) = DOMAIN Empty \union {vpid'[t]}
      BY <2>1, <3>1, PutNames
    <3> QED BY <2>1, <3>2
  <2> HIDE DEF own
  <2>3. CASE mother[t] = NoProg
    BY <2>2, <2>3
  <2>4. CASE mother[t] # NoProg
    <3> DEFINE m == mother[t]
    <3>1. m \in Progs /\ Present(stage'[m]) /\ realPid'[m] = realPid[m]
      BY <1>1, <1>3, <2>4 DEF Present
    <3> HIDE DEF m
    <3>2. /\ Names(Put(own, vpid'[m], realPid'[m]), stage', vpid', realPid', nextReal')
          /\ DOMAIN Put(own, vpid'[m], realPid'[m]) = DOMAIN own \union {vpid'[m]}
      BY <2>1, <2>2, <3>1, PutNames
    <3> QED BY <2>1, <2>2, <2>4, <3>1, <3>2 DEF m
  <2> QED BY <2>3, <2>4
<1> HIDE DEF own, table
<1>6. ~IsRunning /\ ~IsRunning'
  BY <1>1, <1>3 DEF IsRunning
<1>7. /\ ends = {}
      /\ \A u \in Progs : /\ stage[u] \in {"absent", "asked", "gone", "saved", "restored"}
                         /\ making[u] = NoProg
      /\ \A u \in Progs : stage[u] = "saved" => u \in peers
  BY <1>1, <1>6 DEF PidInv, RestoringInv
<1>8. PidTypeOK'
  <2>1. \A u \in Progs : IsTable(idTable'[u])
    BY <1>3, <1>4 DEF PidInv, PidTypeOK
  <2>2. IsTable(pidFile')
    BY <1>1, <1>4, TableTypes DEF PidInv, PidTypeOK
  <2> QED BY <1>1, <1>2, <1>3, <2>1, <2>2 DEF PidInv, PidTypeOK
<1>9. MakingInv'
  BY <1>1, <1>7 DEF MakingInv
<1>10. MotherInv'
  <2>1. \A u \in Progs : mother[u] # NoProg => mother[u] \in Progs
    BY PidsAssumption DEF PidInv, PidTypeOK
  <2> QED BY <1>1, <1>3, <2>1 DEF PidInv, MotherInv
<1>11. RestoringInv'
  BY <1>1, <1>3, <1>7 DEF RestoringInv
<1>12. TableInv'
  <2>1. Names(pidFile', stage', vpid', realPid', nextReal')
    <3>1. Names(pidFile, stage', vpid', realPid', nextReal')
      BY <1>2 DEF PidInv, TableInv
    <3> QED BY <1>1, <1>5, <3>1, MergedNames
  <2>2. ASSUME NEW u \in Progs, Uses(stage'[u])
        PROVE  Names(idTable'[u], stage', vpid', realPid', nextReal')
    <3>1. CASE u = t
      BY <1>3, <1>5, <3>1
    <3>2. CASE u # t
      BY <1>2, <1>3, <2>2, <3>2 DEF PidInv, TableInv
    <3> QED BY <3>1, <3>2
  <2> QED BY <2>1, <2>2 DEF TableInv
<1>13. KnowsInv'
  <2>1. \A u \in Progs : stage'[u] \notin {"live", "execing"} /\ (Uses(stage'[u]) => stage'[u] = "restored")
    BY <1>3, <1>7 DEF Uses
  <2>2. peers \subseteq Progs
    BY DEF PidInv, PidTypeOK
  <2>3. \A u \in peers' : stage'[u] \notin {"absent", "asked", "made"}
    BY <1>1, <1>3, <2>2 DEF PidInv, KnowsInv
  <2>4. ASSUME NEW q \in Progs, Uses(stage'[q])
        PROVE  q \in peers' /\ vpid'[q] \in DOMAIN pidFile'
    <3>1. DOMAIN pidFile' = DOMAIN pidFile \union DOMAIN table
      BY <1>1 DEF Merged
    <3>2. CASE q = t
      BY <1>1, <1>5, <1>7, <3>1, <3>2
    <3>3. CASE q # t
      <4>1. Uses(stage[q])
        BY <1>3, <2>4, <3>3
      <4> QED BY <1>1, <1>6, <3>1, <4>1 DEF PidInv, KnowsInv
    <3> QED BY <3>2, <3>3
  <2>5. \A u, d \in Progs :
          Uses(stage'[u]) /\ stage'[u] # "restored" => vpid'[d] \in DOMAIN idTable'[u]
    BY <2>1
  <2>6. \A u, d \in peers' : stage'[u] \in {"live", "execing"} => vpid'[d] \in DOMAIN idTable'[u]
    BY <1>1, <2>1, <2>2
  <2> QED BY <2>3, <2>4, <2>5, <2>6 DEF KnowsInv
<1> QED BY <1>2, <1>8, <1>9, <1>10, <1>11, <1>12, <1>13 DEF PidInv

\* Every restored process reads the numbers of all of them.
LEMMA ReadMapsKeeps ==
  ASSUME PidInv, ReadMaps
  PROVE  PidInv'
<1>1. PICK t \in Progs :
        /\ stage[t] = "restored" /\ stage' = [stage EXCEPT ![t] = "live"]
        /\ idTable' = [idTable EXCEPT ![t] = Merged(@, pidFile)]
  BY DEF ReadMaps, Merged
<1>2. /\ \A u \in Progs : stage[u] # "saved"
      /\ UNCHANGED <<vpid, realPid, mother, making, execs, failures, nextReal, registered,
                     nextVirtual, ends, pidFile, peers, restarts, renumbered>>
  BY DEF ReadMaps, AllWrote, coordVars, restartVars
<1>3. /\ \A u \in Progs : stage'[u] = IF u = t THEN "live" ELSE stage[u]
      /\ \A u \in Progs : idTable'[u] = IF u = t THEN Merged(idTable[t], pidFile) ELSE idTable[u]
      /\ idTable' = [u \in Progs |-> idTable'[u]]
  BY <1>1 DEF PidInv, PidTypeOK
<1>4. /\ \A u \in Progs : /\ Uses(stage'[u]) <=> Uses(stage[u])
                          /\ Present(stage'[u]) <=> Present(stage[u])
                          /\ Named(stage'[u]) <=> Named(stage[u])
                          /\ stage'[u] = "absent" <=> stage[u] = "absent"
  BY <1>1, <1>3 DEF Uses, Present, Named
<1>5. ~IsRunning
  BY <1>1 DEF IsRunning
<1>6. /\ ends = {}
      /\ \A u \in Progs : /\ stage[u] \in {"absent", "asked", "live", "gone", "restored"}
                         /\ making[u] = NoProg
      /\ \A u \in Progs : Uses(stage[u]) => u \in peers /\ vpid[u] \in DOMAIN pidFile
  BY <1>2, <1>5 DEF PidInv, RestoringInv, KnowsInv
<1>7. PidTypeOK'
  <2>1. \A u \in Progs : IsTable(idTable'[u])
    BY <1>3, TableTypes DEF PidInv, PidTypeOK
  <2> QED BY <1>1, <1>2, <1>3, <2>1 DEF PidInv, PidTypeOK, Stage
<1>8. VirtualInv'
  BY <1>2, <1>4 DEF PidInv, VirtualInv, Distinct
<1>9. RealInv'
  BY <1>2, <1>4 DEF PidInv, RealInv, Fresh
<1>10. CountInv' /\ RegisteredInv'
  <2>1. Known' = Known
    BY <1>4 DEF Known
  <2> QED BY <1>1, <1>2, <1>3, <1>6, <2>1 DEF PidInv, CountInv, RegisteredInv
<1>11. MakingInv'
  BY <1>2, <1>6 DEF MakingInv
<1>12. MotherInv'
  BY <1>1, <1>2, <1>3 DEF PidInv, MotherInv, PidTypeOK
<1>13. RestoringInv'
  BY <1>2, <1>3, <1>6 DEF RestoringInv
<1>14. TableInv'
  <2>1. \A q \in Progs : Named(stage[q]) => Named(stage'[q]) /\ vpid'[q] = vpid[q]
    BY <1>2, <1>4
  <2>2. \A q \in Progs : Present(stage'[q]) => Present(stage[q]) /\ realPid'[q] = realPid[q]
    BY <1>2, <1>4
  <2>3. nextReal' \in Nat /\ nextReal <= nextReal'
    BY <1>2 DEF PidInv, PidTypeOK
  <2>4. \A f : Names(f, stage, vpid, realPid, nextReal)
                 => Names(f, stage', vpid', realPid', nextReal')
    BY <2>1, <2>2, <2>3, OldNames
  <2>5. Names(Merged(idTable[t], pidFile), stage, vpid, realPid, nextReal)
    BY <1>1, MergedNames DEF PidInv, TableInv, Uses
  <2> QED BY <1>2, <1>3, <1>4, <2>4, <2>5 DEF PidInv, TableInv
<1>15. KnowsInv'
  <2>1. \A u, d \in Progs :
          /\ Uses(stage'[u]) /\ Present(stage'[d]) /\ mother'[d] = u
          /\ making'[u] # d /\ stage'[u] # "restored"
          => vpid'[d] \in DOMAIN idTable'[u]
    <3> TAKE u, d \in Progs
    <3> HAVE /\ Uses(stage'[u]) /\ Present(stage'[d]) /\ mother'[d] = u
             /\ making'[u] # d /\ stage'[u] # "restored"
    <3>1. CASE u = t
      <4>1. Uses(stage[d])
        BY <1>4, <1>6 DEF Uses, Present
      <4>2. vpid[d] \in DOMAIN Merged(idTable[t], pidFile)
        BY <1>6, <4>1 DEF Merged
      <4> QED BY <1>2, <1>3, <3>1, <4>2
    <3>2. CASE u # t
      BY <1>2, <1>3, <1>4, <3>2 DEF PidInv, KnowsInv
    <3> QED BY <3>1, <3>2
  <2>2. peers \subseteq Progs
    BY DEF PidInv, PidTypeOK
  <2>3. \A u, d \in peers' :
          stage'[u] \in {"live", "execing"} /\ Uses(stage'[d]) => vpid'[d] \in DOMAIN idTable'[u]
    <3> TAKE u, d \in peers'
    <3> HAVE stage'[u] \in {"live", "execing"} /\ Uses(stage'[d])
    <3>0. u \in peers /\ d \in peers /\ u \in Progs /\ d \in Progs /\ Uses(stage[d])
      BY <1>2, <1>4, <2>2
    <3>1. CASE u = t
      <4>2. vpid[d] \in DOMAIN Merged(idTable[t], pidFile)
        BY <1>6, <3>0 DEF Merged
      <4> QED BY <1>2, <1>3, <3>1, <4>2
    <3>2. CASE u # t
      BY <1>2, <1>3, <3>0, <3>2 DEF PidInv, KnowsInv
    <3> QED BY <3>1, <3>2
  <2>4. \A u \in peers' : stage'[u] \notin {"absent", "asked", "made"}
    BY <1>2, <1>3, <2>2 DEF PidInv, KnowsInv
  <2>5. \A q \in Progs : Uses(stage'[q]) => q \in peers' /\ vpid'[q] \in DOMAIN pidFile'
    BY <1>2, <1>4, <1>6
  <2> QED BY <2>1, <2>3, <2>4, <2>5 DEF KnowsInv
<1> QED BY <1>7, <1>8, <1>9, <1>10, <1>11, <1>12, <1>13, <1>14, <1>15 DEF PidInv

-----------------------------------------------------------------------------
(* Theorems.  While the first coordinator lives they need no bound on      *)
(* execs, on numbers used again or on when a number is asked for; where a  *)
(* restart may have a new one (NewCoordinators) they rest on Bounded,      *)
(* beyond which the code does give two processes one number.  None covers  *)
(* a handler that waits inside fork, which takes an entry out of a table   *)
(* before it is put in.                                                    *)

\* The invariant holds before the first program.
LEMMA InitPidInv == PidsInit => PidInv
<1> SUFFICES ASSUME PidsInit
             PROVE  PidInv
  OBVIOUS
<1>1. \A t \in Progs : stage[t] = "absent" /\ mother[t] = NoProg /\ making[t] = NoProg
  BY DEF PidsInit
<1>2. PidTypeOK
  <2>1. 0 \in Number
    BY PidsAssumption, FS_CardinalityType DEF Number
  <2>2. renumbered \in BOOLEAN /\ ~renumbered
    BY Zenon DEF PidsInit
  <2> QED BY <2>1, <2>2, TableTypes DEF PidsInit, PidTypeOK, Stage
<1>3. VirtualInv /\ RealInv /\ RegisteredInv /\ MakingInv /\ MotherInv
  BY <1>1 DEF PidsInit, VirtualInv, Distinct, RealInv, Fresh, Present, RegisteredInv,
              MakingInv, MotherInv
<1>4. CountInv
  <2>1. Known = {} /\ nextVirtual = 0 /\ registered = {}
    BY <1>1 DEF Known, PidsInit
  <2> QED BY <2>1, FS_EmptySet DEF CountInv
<1>5. IsRunning /\ RestoringInv
  BY <1>1 DEF IsRunning, RestoringInv
<1>6. TableInv
  BY <1>1, NoNames DEF TableInv, Uses, PidsInit
<1>7. KnowsInv
  BY <1>1, <1>5 DEF KnowsInv, Uses, PidsInit
<1> QED BY <1>2, <1>3, <1>4, <1>5, <1>6, <1>7 DEF PidInv

\* Every step keeps the invariant.
LEMMA NextPidInv ==
  ASSUME Bounded, ~HandlerWaits
  PROVE  PidInv /\ [PidsNext]_pidVars => PidInv'
<1> SUFFICES ASSUME PidInv, [PidsNext]_pidVars
             PROVE  PidInv'
  OBVIOUS
<1>1. CASE UNCHANGED pidVars
  <2>1. UNCHANGED <<stage, vpid, realPid, mother, making, execs, failures, nextReal, idTable,
                    registered, nextVirtual, ends, pidFile, peers, restarts, renumbered>>
    BY <1>1 DEF pidVars, procVars, coordVars, restartVars
  <2>2. PidTypeOK' /\ VirtualInv' /\ RealInv' /\ RegisteredInv' /\ MakingInv' /\ MotherInv'
    BY <2>1 DEF PidInv, PidTypeOK, VirtualInv, RealInv, RegisteredInv, MakingInv, MotherInv
  <2>3. CountInv' /\ RestoringInv' /\ TableInv' /\ KnowsInv'
    BY <2>1 DEF PidInv, CountInv, Known, RestoringInv, IsRunning, TableInv, KnowsInv
  <2> QED BY <2>2, <2>3 DEF PidInv
<1>2. ASSUME NEW t \in Progs, AskVirtualPid(t)
      PROVE  PidInv'
  BY <1>2, AskKeeps
<1>3. ASSUME NEW t \in Progs, StartProgram(t) \/ RefuseProgram(t)
      PROVE  PidInv'
  BY <1>3, StartKeeps, RefuseKeeps
<1>4. ASSUME NEW t \in Progs, RestoreProgram(t)
      PROVE  PidInv'
  BY <1>4, RestoreKeeps
<1>5. ASSUME NEW p \in Progs, ForkFails(p)
      PROVE  PidInv'
  BY <1>5, ForkFailsKeeps
<1>6. ASSUME NEW p \in Progs, RealFork(p)
      PROVE  PidInv'
  BY <1>6, RealForkKeeps
<1>7. ASSUME NEW p \in Progs, UpdateMapping(p)
      PROVE  PidInv'
  BY <1>7, UpdateMappingKeeps
<1>8. ASSUME NEW p \in Progs, ExecProgram(p) \/ HelloAfterExec(p)
      PROVE  PidInv'
  BY <1>8, ExecKeeps
<1>9. ASSUME NEW p \in Progs, ExitProgram(p)
      PROVE  PidInv'
  BY <1>9, ExitKeeps
<1>10. ASSUME NEW p \in Progs, NEW c \in Progs, ConnectBeforeFork(p, c)
       PROVE  PidInv'
  BY <1>10, ConnectKeeps
<1>11. ASSUME NEW p \in Progs, NEW c \in Progs, WaitProgram(p, c)
       PROVE  PidInv'
  BY <1>11, WaitKeeps
<1>12. ASSUME NEW e \in ends, OnPidDisconnect(e)
       PROVE  PidInv'
  BY <1>12, DisconnectKeeps
<1>13. CASE CheckpointAndEnd
  BY <1>13, CheckpointKeeps
<1>14. CASE ReadMaps
  BY <1>14, ReadMapsKeeps
<1> QED BY <1>1, <1>2, <1>3, <1>4, <1>5, <1>6, <1>7, <1>8, <1>9, <1>10, <1>11, <1>12, <1>13,
           <1>14 DEF PidsNext

\* The invariant holds throughout.
LEMMA PidInvariant ==
  ASSUME Bounded, ~HandlerWaits
  PROVE  PidsSpec => []PidInv
<1>1. PidsInit => PidInv
  BY InitPidInv
<1>2. PidInv /\ [PidsNext]_pidVars => PidInv'
  BY NextPidInv
<1> QED BY <1>1, <1>2, PTL DEF PidsSpec

\* The state of the processes, the coordinator and the tables is of its type.
THEOREM PidTypeCorrect ==
  ASSUME Bounded, ~HandlerWaits
  PROVE  PidsSpec => []PidTypeOK
<1>1. PidInv => PidTypeOK
  BY DEF PidInv
<1> QED BY <1>1, PidInvariant, PTL

\* No two processes of a computation have one virtual pid: with one coordinator, which
\* counts on whatever it forgets from its map, answers at any time and refuses programs
\* while processes are restored; with a new one within Bounded.
THEOREM VirtualPidsDiffer ==
  ASSUME Bounded, ~HandlerWaits
  PROVE  PidsSpec => []DistinctVirtual
<1>1. PidInv => DistinctVirtual
  BY DEF PidInv, VirtualInv, Distinct, DistinctVirtual
<1> QED BY <1>1, PidInvariant, PTL

\* The tables of all processes name the right processes, and after a restart all that
\* were restored: with one coordinator, or with a new one within Bounded.
THEOREM TablesNameTruly ==
  ASSUME Bounded, ~HandlerWaits
  PROVE  PidsSpec => []TablesTrue
<1>1. PidInv => TablesTrue
  <2> SUFFICES ASSUME PidInv, IsRunning, NEW p \in Alive, NEW q \in Alive
               PROVE  /\ vpid[q] \in DOMAIN idTable[p] => idTable[p][vpid[q]] = realPid[q]
                      /\ \A v \in DOMAIN idTable[p] : idTable[p][v] = realPid[q] => v = vpid[q]
                      /\ {p, q} \subseteq peers => vpid[q] \in DOMAIN idTable[p]
    BY DEF TablesTrue
  <2>1. /\ p \in Progs /\ q \in Progs /\ Uses(stage[p]) /\ Uses(stage[q]) /\ Present(stage[q])
        /\ stage[p] \in {"live", "execing"}
    BY DEF Alive, Uses, Present
  <2>2. Names(idTable[p], stage, vpid, realPid, nextReal)
    BY <2>1 DEF PidInv, TableInv
  <2>3. \A v \in DOMAIN idTable[p] : v = vpid[q] <=> idTable[p][v] = realPid[q]
    BY <2>1, <2>2 DEF Names
  <2>4. {p, q} \subseteq peers => vpid[q] \in DOMAIN idTable[p]
    BY <2>1 DEF PidInv, KnowsInv
  <2> QED BY <2>3, <2>4
<1> QED BY <1>1, PidInvariant, PTL

\* wait4 gives the caller the virtual pid of the child that the kernel took.
THEOREM WaitsNameTheChild ==
  ASSUME Bounded, ~HandlerWaits
  PROVE  PidsSpec => WaitNamesChild
<1> DEFINE Named1 ==
             \A c \in Progs :
               stage[c] = "zombie" /\ stage'[c] = "gone" /\ stage'[mother[c]] = "live"
                 => VirtualNumber(idTable[mother[c]], realPid[c]) = vpid[c]
<1>1. PidInv /\ [PidsNext]_pidVars => [Named1]_pidVars
  <2> SUFFICES ASSUME PidInv, PidsNext, NEW c \in Progs, stage[c] = "zombie",
                      stage'[c] = "gone", stage'[mother[c]] = "live"
               PROVE  VirtualNumber(idTable[mother[c]], realPid[c]) = vpid[c]
    OBVIOUS
  <2> DEFINE p == mother[c]
  <2>1. p \in Progs /\ p # c /\ p # NoProg /\ stage \in [Progs -> Stage]
        /\ stage[p] \in {"live", "execing", "saved", "restored"}
    BY DEF PidInv, MotherInv, PidTypeOK
  <2> HIDE DEF p
  <2>2. stage[p] = "live" /\ making[p] = NoProg
    <3>1. ASSUME NEW t \in Progs, \/ AskVirtualPid(t) \/ StartProgram(t)
                                 \/ RefuseProgram(t) \/ RestoreProgram(t)
          PROVE  FALSE
      BY <2>1, <3>1 DEF AskVirtualPid, StartProgram, RefuseProgram, RestoreProgram, IsNext
    <3>2. ASSUME NEW t \in Progs, ForkFails(t) \/ RealFork(t) \/ UpdateMapping(t)
          PROVE  FALSE
      BY <2>1, <3>2 DEF ForkFails, RealFork, UpdateMapping
    <3>3. ASSUME NEW t \in Progs, ExecProgram(t) \/ HelloAfterExec(t)
          PROVE  FALSE
      BY <2>1, <3>3 DEF ExecProgram, HelloAfterExec
    <3>4. ASSUME NEW t \in Progs, ExitProgram(t)
          PROVE  FALSE
      <4>1. /\ stage[t] = "live"
            /\ stage' = [u \in Progs |->
                           CASE u = t -> IF mother[t] = NoProg THEN "gone" ELSE "zombie"
                             [] stage[u] = "zombie" /\ mother[u] = t -> "gone"
                             [] OTHER -> stage[u]]
        BY <3>4 DEF ExitProgram
      <4>2. c # t /\ mother[c] = t
        BY <4>1
      <4>3. stage'[t] # "live"
        BY <4>1
      <4> QED BY <4>2, <4>3
    <3>5. ASSUME NEW t \in Progs, NEW d \in Progs, ConnectBeforeFork(t, d)
          PROVE  FALSE
      BY <2>1, <3>5 DEF ConnectBeforeFork, IsNext
    <3>6. ASSUME NEW t \in Progs, NEW d \in Progs, WaitProgram(t, d)
          PROVE  stage[p] = "live" /\ making[p] = NoProg
      <4>1. /\ stage[t] = "live" /\ making[t] = NoProg /\ mother[d] = t
            /\ stage' = [stage EXCEPT ![d] = "gone"]
        BY <3>6 DEF WaitProgram, CanWait
      <4>2. c = d
        BY <2>1, <4>1
      <4> QED BY <4>1, <4>2 DEF p
    <3>7. ASSUME NEW e \in ends, OnPidDisconnect(e)
          PROVE  FALSE
      BY <3>7 DEF OnPidDisconnect, procVars
    <3>8. CASE CheckpointAndEnd
      <4>1. stage' = [t \in Progs |-> CASE stage[t] = "live" -> "saved"
                                        [] stage[t] = "zombie" -> "gone"
                                        [] OTHER -> stage[t]]
        BY <3>8 DEF CheckpointAndEnd
      <4>2. stage'[p] # "live"
        BY <2>1, <4>1
      <4> QED BY <4>2 DEF p
    <3>9. CASE ReadMaps
      BY <2>1, <3>9 DEF ReadMaps
    <3> QED BY <3>1, <3>2, <3>3, <3>4, <3>5, <3>6, <3>7, <3>8, <3>9 DEF PidsNext
  <2>3. Names(idTable[p], stage, vpid, realPid, nextReal)
    BY <2>1, <2>2 DEF PidInv, TableInv, Uses
  <2>4. vpid[c] \in DOMAIN idTable[p]
    <3>1. making[p] # c /\ c # NoProg
      BY <2>2, PidsAssumption DEF NoProg
    <3>2. Uses(stage[p]) /\ Present(stage[c]) /\ stage[p] # "restored"
      BY <2>2 DEF Uses, Present
    <3> QED BY <2>1, <3>1, <3>2 DEF PidInv, KnowsInv, p
  <2> QED BY <2>3, <2>4, NameFound DEF p, PidInv, Present
<1> QED BY <1>1, PidInvariant, PTL DEF PidsSpec, WaitNamesChild
=============================================================================
