---------------------------- MODULE DmtcpRoundProofs ----------------------------
(***************************************************************************)
(* RoundInv is an invariant of the computation under DMTCP, for every set  *)
(* of workers, every bound and all the user's commands; what follows from  *)
(* it about the barriers.                                                  *)
(***************************************************************************)
EXTENDS DmtcpRounds, DmtcpProofs

-----------------------------------------------------------------------------
(* States, barriers and messages. *)

\* The states of eWorkerState in the order the coordinator compares them.
LEMMA Ranks ==
  /\ Rank("UNKNOWN") = 1 /\ Rank("PRE_FORK") = 2 /\ Rank("PRE_EXEC") = 3
  /\ Rank("RUNNING") = 4 /\ Rank("SUSPENDED") = 5
  /\ Rank("FD_LEADER_ELECTION") = 6 /\ Rank("DRAINED") = 7
  /\ Rank("RESTARTING") = 8 /\ Rank("CHECKPOINTED") = 9
  /\ Rank("NAME_SERVICE_DATA_REGISTERED") = 10 /\ Rank("DONE_QUERYING") = 11
  /\ Rank("REFILLED") = 12
BY DEF Rank, StateOrder

\* A state of a lower rank stands for no later barrier.
LEMMA LevelFollowsRank ==
  /\ \A s \in WorkerState : Level(s) \in 0 .. 7 /\ Rank(s) \in 1 .. 12
  /\ \A s, u \in WorkerState : Rank(s) <= Rank(u) => Level(s) <= Level(u)
BY StateNames, Ranks DEF Level

\* getStatus: the lowest state is some client's, and no client's is lower.
LEMMA LowestAttained ==
  ASSUME NEW C \in SUBSET Worker, C # {}, NEW cs \in [Worker -> WorkerState]
  PROVE  /\ \E w \in C : LowestState(C, cs) = cs[w]
         /\ \A w \in C : Level(LowestState(C, cs)) <= Level(cs[w])
         /\ LowestState(C, cs) \in WorkerState
<1> DEFINE Has(r) == \E v \in C : Rank(cs[v]) = r
           Low(w) == \A v \in C : Rank(cs[w]) <= Rank(cs[v])
<1>1. \A v \in C : cs[v] \in WorkerState /\ Rank(cs[v]) \in 1 .. 12
  BY LevelFollowsRank
<1>2. \E w \in C : Low(w)
  <2>1. \E r \in 1 .. 12 : Has(r) /\ \A q \in 1 .. 12 : q < r => ~Has(q)
    <3>1. \E r \in 1 .. 12 : Has(r)
      BY <1>1
    <3> HIDE DEF Has
    <3> QED BY <3>1
  <2>2. PICK r \in 1 .. 12 : Has(r) /\ \A q \in 1 .. 12 : q < r => ~Has(q)
    BY <2>1
  <2>3. PICK w \in C : Rank(cs[w]) = r
    BY <2>2
  <2>4. ASSUME NEW v \in C
        PROVE  Rank(cs[w]) <= Rank(cs[v])
    BY <1>1, <2>2, <2>3
  <2> QED BY <2>4
<1>3. \E s \in {cs[w] : w \in C} : \A w \in C : Rank(s) <= Rank(cs[w])
  BY <1>2
<1>4. /\ LowestState(C, cs) \in {cs[w] : w \in C}
      /\ \A w \in C : Rank(LowestState(C, cs)) <= Rank(cs[w])
  BY <1>3 DEF LowestState
<1>5. LowestState(C, cs) \in WorkerState
  BY <1>1, <1>4
<1> QED BY <1>1, <1>4, <1>5, LevelFollowsRank

\* A barrier opens when the lowest state is one barrier ahead of the state the
\* client leaves.
LEMMA BarrierOpens ==
  ASSUME NEW old \in WorkerState, NEW C \in SUBSET Worker, C # {},
         NEW cs \in [Worker -> WorkerState],
         BarrierMessage(old, MinimumState(C, cs)) # "none"
  PROVE  LET t == BarrierMessage(old, MinimumState(C, cs))
         IN /\ Number(t) \in 1 .. 7 /\ t # "DO_SUSPEND"
            /\ Number(t) = 1 <=> t = "DO_FD_LEADER_ELECTION"
            /\ MinimumState(C, cs) = LowestState(C, cs)
            /\ Level(LowestState(C, cs)) = Number(t)
            /\ Level(old) = Number(t) - 1
<1>1. MinimumState(C, cs) = LowestState(C, cs) \/ MinimumState(C, cs) = "RESTARTING"
  BY DEF MinimumState
<1> DEFINE new == MinimumState(C, cs)
<1>2. ASSUME NEW n
      PROVE  BarrierMessage(old, n) # "none" =>
               /\ n # "RESTARTING"
               /\ Number(BarrierMessage(old, n)) \in 1 .. 7
               /\ BarrierMessage(old, n) # "DO_SUSPEND"
               /\ Number(BarrierMessage(old, n)) = 1
                    <=> BarrierMessage(old, n) = "DO_FD_LEADER_ELECTION"
               /\ Level(n) = Number(BarrierMessage(old, n))
               /\ Level(old) = Number(BarrierMessage(old, n)) - 1
  BY DEF BarrierMessage, Number, Level
<1> QED BY <1>1, <1>2


-----------------------------------------------------------------------------
(* The channels. *)

\* A report stays where it is when its sender says something more.
Adds(w, s) ==
  \E n \in Nat :
    /\ Reports(w)' = Reports(w) \cup {n} /\ Said(w, n)' = Level(s)
    /\ toCoord'[w][n].state = s
    /\ \A i \in Reports(w) : i < n /\ Said(w, i)' = Said(w, i)
                             /\ toCoord'[w][i].state = toCoord[w][i].state

SameReports(w) ==
  /\ Reports(w)' = Reports(w)
  /\ \A i \in Reports(w) : Said(w, i)' = Said(w, i)
                           /\ toCoord'[w][i].state = toCoord[w][i].state

SameOrders(w) ==
  /\ Orders(w)' = Orders(w) /\ Suspends(w)' = Suspends(w)
  /\ \A i \in Orders(w) \cup Suspends(w) : toWorker'[w][i] = toWorker[w][i]

\* Nothing that opens a barrier or suspends is under way that was not.
FewerOrders(w) ==
  /\ \A i \in Orders(w)' : \E k \in Orders(w) : toWorker'[w][i] = toWorker[w][k]
  /\ \A i \in Suspends(w)' : \E k \in Suspends(w) : toWorker'[w][i] = toWorker[w][k]

\* Where reports and orders are in a channel.
LEMMA Positions ==
  ASSUME DiskInv, NEW w \in Worker
  PROVE  /\ toCoord[w] \in Seq(ToCoordMsg) /\ toWorker[w] \in Seq(ToWorkerMsg)
         /\ Reports(w) = {i \in 1 .. Len(toCoord[w]) : toCoord[w][i].type = "OK"}
         /\ Reports(w) \subseteq Nat \ {0}
         /\ Orders(w) \subseteq Nat \ {0} /\ Suspends(w) \subseteq Nat \ {0}
         /\ \A i \in Reports(w) : /\ toCoord[w][i].state \in WorkerState
                                  /\ Said(w, i) \in 0 .. 7
<1>1. toCoord[w] \in Seq(ToCoordMsg) /\ toWorker[w] \in Seq(ToWorkerMsg)
  BY DEF DiskInv, TypeOK, NetTypeOK
<1>2. \A i \in Reports(w) : toCoord[w][i].state \in WorkerState
  BY <1>1, ReportFields DEF Reports
<1> QED BY <1>1, <1>2, LevelFollowsRank DEF Reports, Orders, Suspends, Said

\* The coordinator takes a message off a channel: a report or another one.
LEMMA TakesReport ==
  ASSUME DiskInv, NEW w \in Worker, toCoord[w] # <<>>,
         toCoord' = [toCoord EXCEPT ![w] = Tail(@)]
  PROVE  /\ \A i \in Reports(w)' : /\ i \in Nat \ {0} /\ i + 1 \in Reports(w)
                                   /\ Said(w, i)' = Said(w, i + 1)
                                   /\ toCoord'[w][i].state = toCoord[w][i + 1].state
         /\ \A i \in Reports(w) :
              i = 1 \/ (i - 1 \in Reports(w)' /\ Said(w, i - 1)' = Said(w, i))
         /\ 1 \in Reports(w) <=> Head(toCoord[w]).type = "OK"
         /\ Said(w, 1) = Level(Head(toCoord[w]).state)
         /\ \A v \in Worker \ {w} : toCoord'[v] = toCoord[v]
<1>1. toCoord \in [Worker -> Seq(ToCoordMsg)]
  BY DEF DiskInv, TypeOK, NetTypeOK
<1>2. /\ toCoord'[w] = Tail(toCoord[w])
      /\ Len(toCoord'[w]) = Len(toCoord[w]) - 1 /\ Len(toCoord[w]) \in Nat \ {0}
      /\ \A i \in 1 .. Len(toCoord'[w]) : toCoord'[w][i] = toCoord[w][i + 1]
      /\ Head(toCoord[w]) = toCoord[w][1]
      /\ \A v \in Worker \ {w} : toCoord'[v] = toCoord[v]
  BY <1>1
<1>3. /\ Reports(w)' = {i \in 1 .. Len(toCoord'[w]) : toCoord'[w][i].type = "OK"}
      /\ Reports(w) = {i \in 1 .. Len(toCoord[w]) : toCoord[w][i].type = "OK"}
  BY DEF Reports
<1>4. \A i \in 1 .. Len(toCoord'[w]) : Said(w, i)' = Said(w, i + 1)
  BY <1>2 DEF Said
<1>5. \A i \in Reports(w)' : i \in Nat \ {0} /\ i + 1 \in Reports(w)
  BY <1>2, <1>3
<1>6. \A i \in Reports(w) :
        i = 1 \/ (i - 1 \in Reports(w)' /\ Said(w, i - 1)' = Said(w, i))
  <2> SUFFICES ASSUME NEW i \in Reports(w), i # 1
               PROVE  i - 1 \in Reports(w)' /\ Said(w, i - 1)' = Said(w, i)
    OBVIOUS
  <2>1. i - 1 \in 1 .. Len(toCoord'[w]) /\ (i - 1) + 1 = i
    BY <1>2, <1>3
  <2>2. toCoord'[w][i - 1] = toCoord[w][i]
    BY <1>2, <2>1
  <2> QED BY <1>3, <2>1, <2>2 DEF Said
<1>7. 1 \in Reports(w) <=> Head(toCoord[w]).type = "OK"
  BY <1>2, <1>3
<1>8. Said(w, 1) = Level(Head(toCoord[w]).state)
  BY <1>2 DEF Said
<1> QED BY <1>2, <1>3, <1>4, <1>5, <1>6, <1>7, <1>8

\* A worker sends messages, of which only the last is a report.
LEMMA SendsReport ==
  ASSUME DiskInv, NEW w \in Worker, NEW msgs \in Seq(ToCoordMsg), msgs # <<>>,
         Send(w, msgs), \A i \in 1 .. Len(msgs) - 1 : msgs[i].type # "OK"
  PROVE  /\ msgs[Len(msgs)].type = "OK" => Adds(w, msgs[Len(msgs)].state)
         /\ msgs[Len(msgs)].type # "OK" => SameReports(w)
         /\ \A v \in Worker \ {w} : toCoord'[v] = toCoord[v]
<1>1. /\ toCoord \in [Worker -> Seq(ToCoordMsg)]
      /\ toCoord' = [toCoord EXCEPT ![w] = toCoord[w] \o msgs]
  BY DEF DiskInv, TypeOK, NetTypeOK, Send
<1>2. PICK l \in Nat : l = Len(toCoord[w])
  BY <1>1
<1>3. PICK n \in Nat : n = l + Len(msgs)
  OBVIOUS
<1>4. /\ Len(msgs) \in Nat \ {0} /\ Len(toCoord'[w]) = n
      /\ \A i \in 1 .. l : toCoord'[w][i] = toCoord[w][i]
      /\ \A i \in l + 1 .. n : toCoord'[w][i] = msgs[i - l]
      /\ \A v \in Worker \ {w} : toCoord'[v] = toCoord[v]
  BY <1>1, <1>2, <1>3
<1>5. /\ Reports(w)' = {i \in 1 .. n : toCoord'[w][i].type = "OK"}
      /\ Reports(w) = {i \in 1 .. l : toCoord[w][i].type = "OK"}
  BY <1>2, <1>4 DEF Reports
<1>6. n \in l + 1 .. n /\ toCoord'[w][n] = msgs[Len(msgs)]
  <2>1. n \in l + 1 .. n /\ n - l = Len(msgs)
    BY <1>3, <1>4
  <2> QED BY <1>4, <2>1
<1>7. \A i \in Reports(w) : i < n /\ i \in Reports(w)'
  BY <1>4, <1>5, <1>6
<1>8. ASSUME NEW i \in Reports(w)', i \notin Reports(w), i # n
      PROVE  FALSE
  <2>1. i \in l + 1 .. n - 1
    BY <1>4, <1>5, <1>8
  <2>2. i - l \in 1 .. Len(msgs) - 1 /\ toCoord'[w][i] = msgs[i - l]
    BY <1>3, <1>4, <2>1
  <2> QED BY <1>5, <1>8, <2>2
<1>9. \A i \in Reports(w) : Said(w, i)' = Said(w, i)
                            /\ toCoord'[w][i].state = toCoord[w][i].state
  BY <1>4, <1>5 DEF Said
<1>10. ASSUME msgs[Len(msgs)].type = "OK"
       PROVE  Adds(w, msgs[Len(msgs)].state)
  <2>1. Reports(w)' = Reports(w) \cup {n}
    BY <1>5, <1>6, <1>7, <1>8, <1>10
  <2>2. Said(w, n)' = Level(msgs[Len(msgs)].state)
    BY <1>6 DEF Said
  <2> QED BY <2>1, <2>2, <1>6, <1>7, <1>9 DEF Adds
<1>11. ASSUME msgs[Len(msgs)].type # "OK"
       PROVE  SameReports(w)
  BY <1>5, <1>6, <1>7, <1>8, <1>9, <1>11 DEF SameReports
<1> QED BY <1>4, <1>10, <1>11

\* The coordinator has written m after what was under way to w.
Writes(w, m) ==
  \E n \in Nat :
    /\ toWorker'[w][n] = m
    /\ Orders(w)' = Orders(w) \cup (IF Number(m.type) # 0 THEN {n} ELSE {})
    /\ Suspends(w)' = Suspends(w) \cup (IF m.type = "DO_SUSPEND" THEN {n} ELSE {})
    /\ \A i \in Orders(w) \cup Suspends(w) :
         i < n /\ toWorker'[w][i] = toWorker[w][i]

\* Writing to clients: one that has ended gets nothing, the others the message.
LEMMA PostWrites ==
  ASSUME DiskInv, NEW W \in SUBSET Worker, NEW m, toWorker' = Post(toWorker, W, m)
  PROVE  /\ \A v \in W : Alive(v) => Writes(v, m)
         /\ \A v \in Worker : v \notin W \/ ~Alive(v) => toWorker'[v] = toWorker[v]
<1>1. ASSUME NEW v \in W, Alive(v)
      PROVE  Writes(v, m)
  <2>1. toWorker[v] \in Seq(ToWorkerMsg) /\ toWorker'[v] = Append(toWorker[v], m)
    BY <1>1 DEF Post, DiskInv, TypeOK, NetTypeOK
  <2>2. PICK n \in Nat : n = Len(toWorker[v]) + 1
    BY <2>1
  <2>3. /\ Len(toWorker'[v]) = n /\ toWorker'[v][n] = m
        /\ \A i \in 1 .. n - 1 : toWorker'[v][i] = toWorker[v][i]
        /\ 1 .. Len(toWorker[v]) = 1 .. n - 1
    BY <2>1, <2>2
  <2>4. /\ Orders(v)' = {i \in 1 .. n : Number(toWorker'[v][i].type) # 0}
        /\ Orders(v) = {i \in 1 .. n - 1 : Number(toWorker[v][i].type) # 0}
        /\ Suspends(v)' = {i \in 1 .. n : toWorker'[v][i].type = "DO_SUSPEND"}
        /\ Suspends(v) = {i \in 1 .. n - 1 : toWorker[v][i].type = "DO_SUSPEND"}
    BY <2>3 DEF Orders, Suspends
  <2>5. \A i : i \in 1 .. n <=> i \in 1 .. n - 1 \/ i = n
    BY <2>2, <2>1
  <2>6. Orders(v)' = Orders(v) \cup (IF Number(m.type) # 0 THEN {n} ELSE {})
    BY <2>3, <2>4, <2>5
  <2>7. Suspends(v)' = Suspends(v) \cup (IF m.type = "DO_SUSPEND" THEN {n} ELSE {})
    BY <2>3, <2>4, <2>5
  <2>8. \A i \in Orders(v) \cup Suspends(v) : i < n /\ toWorker'[v][i] = toWorker[v][i]
    BY <2>3, <2>4
  <2> QED BY <2>3, <2>6, <2>7, <2>8 DEF Writes
<1>2. \A v \in Worker : v \notin W \/ ~Alive(v) => toWorker'[v] = toWorker[v]
  BY DEF Post
<1> QED BY <1>1, <1>2

\* A message that is neither an order nor a suspend leaves those as they were.
LEMMA PostQuiet ==
  ASSUME DiskInv, NEW W \in SUBSET Worker, NEW m, toWorker' = Post(toWorker, W, m),
         Number(m.type) = 0, m.type # "DO_SUSPEND"
  PROVE  \A v \in Worker : SameOrders(v)
<1>1. ASSUME NEW v \in Worker
      PROVE  SameOrders(v)
  <2>1. CASE v \in W /\ Alive(v)
    <3>1. Writes(v, m)
      BY <2>1, PostWrites
    <3> QED BY <3>1 DEF Writes, SameOrders
  <2>2. CASE ~(v \in W /\ Alive(v))
    <3>1. toWorker'[v] = toWorker[v]
      BY <2>2, PostWrites
    <3> QED BY <3>1 DEF SameOrders, Orders, Suspends
  <2> QED BY <2>1, <2>2
<1> QED BY <1>1

\* A worker takes the next message of its connection.
LEMMA TakesOrder ==
  ASSUME DiskInv, NEW w \in Worker, Receives(w), Consume(w)
  PROVE  /\ \A i \in Orders(w)' : /\ i \in Nat \ {0} /\ i + 1 \in Orders(w)
                                  /\ toWorker'[w][i] = toWorker[w][i + 1]
         /\ \A i \in Suspends(w)' : /\ i \in Nat \ {0} /\ i + 1 \in Suspends(w)
                                    /\ toWorker'[w][i] = toWorker[w][i + 1]
         /\ 1 \in Orders(w) <=> Number(Received(w).type) # 0
         /\ 1 \in Suspends(w) <=> Received(w).type = "DO_SUSPEND"
         /\ toWorker[w][1] = Received(w) /\ FewerOrders(w)
         /\ \A v \in Worker \ {w} : toWorker'[v] = toWorker[v]
<1>1. /\ toWorker \in [Worker -> Seq(ToWorkerMsg)] /\ toWorker[w] # <<>>
      /\ toWorker' = [toWorker EXCEPT ![w] = Tail(@)]
  BY DEF DiskInv, TypeOK, NetTypeOK, Receives, Consume
<1>2. /\ toWorker'[w] = Tail(toWorker[w])
      /\ Len(toWorker'[w]) = Len(toWorker[w]) - 1 /\ Len(toWorker[w]) \in Nat \ {0}
      /\ \A i \in 1 .. Len(toWorker'[w]) : toWorker'[w][i] = toWorker[w][i + 1]
      /\ Received(w) = toWorker[w][1]
      /\ \A v \in Worker \ {w} : toWorker'[v] = toWorker[v]
  BY <1>1 DEF Received
<1>3. /\ Orders(w)' = {i \in 1 .. Len(toWorker'[w]) : Number(toWorker'[w][i].type) # 0}
      /\ Orders(w) = {i \in 1 .. Len(toWorker[w]) : Number(toWorker[w][i].type) # 0}
      /\ Suspends(w)' = {i \in 1 .. Len(toWorker'[w]) :
                           toWorker'[w][i].type = "DO_SUSPEND"}
      /\ Suspends(w) = {i \in 1 .. Len(toWorker[w]) :
                          toWorker[w][i].type = "DO_SUSPEND"}
  BY DEF Orders, Suspends
<1>4. \A i \in 1 .. Len(toWorker'[w]) : i + 1 \in 1 .. Len(toWorker[w]) /\ i \in Nat \ {0}
  BY <1>2
<1>5. 1 \in 1 .. Len(toWorker[w])
  BY <1>2
<1>6. /\ \A i \in Orders(w)' : /\ i \in Nat \ {0} /\ i + 1 \in Orders(w)
                                /\ toWorker'[w][i] = toWorker[w][i + 1]
      /\ \A i \in Suspends(w)' : /\ i \in Nat \ {0} /\ i + 1 \in Suspends(w)
                                 /\ toWorker'[w][i] = toWorker[w][i + 1]
  BY <1>2, <1>3, <1>4
<1>7. FewerOrders(w)
  BY <1>6 DEF FewerOrders
<1> QED BY <1>2, <1>3, <1>5, <1>6, <1>7

-----------------------------------------------------------------------------
(* Steps that touch one process. *)

\* What a step leaves as it was, of a process and of the checkpoint.
Untouched(v) ==
  /\ cstate'[v] = cstate[v] /\ toCoord'[v] = toCoord[v] /\ toWorker'[v] = toWorker[v]
  /\ pc'[v] = pc[v] /\ parent'[v] = parent[v] /\ fromImage'[v] = fromImage[v]
  /\ wComp'[v] = wComp[v] /\ wGen'[v] = wGen[v]
  /\ v \in backlog' <=> v \in backlog
  /\ v \in clients' <=> v \in clients

SamePlace(v) ==
  /\ pc'[v] = pc[v] /\ fromImage'[v] = fromImage[v]
  /\ wComp'[v] = wComp[v] /\ wGen'[v] = wGen[v]

SameCheckpoint == UNCHANGED <<suspendSent, compId, generation, restarts>>

\* A client is in the round it was in when what the round speaks of is kept.
LEMMA ClientKept ==
  ASSUME NEW v, NEW j, ClientInRound(v, j), SameCheckpoint,
         cstate'[v] = cstate[v], SamePlace(v), SameReports(v), SameOrders(v)
  PROVE  ClientInRound(v, j)'
<1>1. Told(v, j)' <=> Told(v, j)
  BY DEF Told, SameReports
<1>2. ReportsInRound(v, j)'
  BY DEF ClientInRound, ReportsInRound, SameReports
<1>3. Alive(v)' = Alive(v) /\ Reached(v)' = Reached(v)
  BY DEF Alive, Reached, SamePlace
<1>4. Alive(v) => PlaceInRound(v, j)'
  BY <1>1, <1>3 DEF ClientInRound, PlaceInRound, SameOrders, SamePlace, SameCheckpoint
<1>5. Alive(v) => SuspendInRound(v, j)'
  BY <1>3 DEF ClientInRound, SuspendInRound, SameOrders, SamePlace, SameCheckpoint
<1> QED BY <1>1, <1>2, <1>3, <1>4, <1>5 DEF ClientInRound, SameCheckpoint

\* So is a client of a restart that goes on.
LEMMA BackKept ==
  ASSUME NEW v, ClientBack(v), cstate'[v] = cstate[v], SamePlace(v),
         SameReports(v), SameOrders(v)
  PROVE  ClientBack(v)'
<1>1. Alive(v)' = Alive(v) /\ Reached(v)' = Reached(v)
  BY DEF Alive, Reached, SamePlace
<1>2. ReportsBack(v)'
  BY DEF ClientBack, ReportsBack, SameReports
<1>3. Alive(v) => PlaceBack(v)'
  BY <1>1 DEF ClientBack, PlaceBack, SameOrders, SamePlace, SameReports
<1> QED BY <1>1, <1>2, <1>3 DEF ClientBack

\* Of a client that has ended only its reports count.
LEMMA ClientEnded ==
  ASSUME NEW v, cstate'[v] = cstate[v], SameReports(v), ~Alive(v)',
         suspendSent' = suspendSent
  PROVE  /\ \A j : ClientInRound(v, j) => ClientInRound(v, j)'
         /\ ClientBack(v) => ClientBack(v)'
<1>1. ASSUME NEW j, ClientInRound(v, j)
      PROVE  ClientInRound(v, j)'
  <2>1. Told(v, j)' <=> Told(v, j)
    BY DEF Told, SameReports
  <2>2. ReportsInRound(v, j)'
    BY <1>1 DEF ClientInRound, ReportsInRound, SameReports
  <2> QED BY <1>1, <2>1, <2>2 DEF ClientInRound
<1>2. ASSUME ClientBack(v)
      PROVE  ClientBack(v)'
  BY <1>2 DEF ClientBack, ReportsBack, SameReports
<1> QED BY <1>1, <1>2

\* The same reports and orders are under way on channels that are kept.
LEMMA ChannelsKept ==
  ASSUME NEW v
  PROVE  /\ toCoord'[v] = toCoord[v] => SameReports(v)
         /\ toWorker'[v] = toWorker[v] => SameOrders(v) /\ FewerOrders(v)
BY DEF SameReports, SameOrders, FewerOrders, Reports, Orders, Suspends, Said

\* What holds of a process a step does not touch.
LEMMA UntouchedKeeps ==
  ASSUME NEW v, Untouched(v)
  PROVE  /\ SameReports(v) /\ SameOrders(v) /\ SamePlace(v)
         /\ ConnectionOf(v) => ConnectionOf(v)'
         /\ restarts' >= restarts /\ restarts \in Nat /\ restarts' \in Nat =>
              (HelloOf(v) => HelloOf(v)')
<1>1. SameReports(v) /\ SameOrders(v) /\ SamePlace(v)
  BY ChannelsKept DEF Untouched, SamePlace
<1>2. Reports(v)' = Reports(v) /\ Alive(v)' = Alive(v)
  BY DEF Untouched, Reports, Alive
<1>3. ConnectionOf(v) => ConnectionOf(v)'
  BY <1>2 DEF ConnectionOf, Untouched
<1>4. restarts' >= restarts /\ restarts \in Nat /\ restarts' \in Nat =>
        (HelloOf(v) => HelloOf(v)')
  BY <1>2 DEF HelloOf, Untouched
<1> QED BY <1>1, <1>3, <1>4

\* A step that touches w alone, and what it has to respect.
LEMMA StepOfOne ==
  ASSUME DiskInv, RoundInv, NEW w \in Worker, SameCheckpoint,
         \A v \in Worker \ {w} : Untouched(v),
         clients' = clients, ConnectionOf(w)', HelloOf(w)',
         restarting' \subseteq restarting,
         \A f \in DOMAIN images' : images'[f].comp # Nobody /\ images'[f].gen # 0,
         w \in clients => /\ \A j \in 0 .. 7 : Round(j) => ClientInRound(w, j)'
                          /\ Back => ClientBack(w)'
  PROVE  RoundInv'
<1>1. clients \subseteq Worker /\ restarts \in Nat /\ restarts' \in Nat
  BY BoundAssumption
     DEF DiskInv, TypeOK, CoordTypeOK, EnvTypeOK, SameCheckpoint
<1>2. Connected' /\ RestoredHello'
  <2>1. \A v \in Worker : ConnectionOf(v)' /\ HelloOf(v)'
    BY <1>1, UntouchedKeeps DEF RoundInv, Connected, RestoredHello, SameCheckpoint
  <2> QED BY <2>1 DEF RoundInv, Connected, RestoredHello, SameCheckpoint
<1>3. ASSUME NEW j \in 0 .. 7, Round(j)
      PROVE  Round(j)'
  <2>1. ASSUME NEW v \in clients, v # w
        PROVE  ClientInRound(v, j)'
    <3>1. Untouched(v) /\ ClientInRound(v, j)
      BY <1>1, <1>3, <2>1 DEF Round
    <3> QED BY <3>1, UntouchedKeeps, ClientKept DEF Untouched
  <2> QED BY <1>3, <2>1 DEF Round, SameCheckpoint
<1>4. ASSUME Back
      PROVE  Back'
  <2>1. ASSUME NEW v \in clients, v # w
        PROVE  ClientBack(v)'
    <3>1. Untouched(v) /\ ClientBack(v)
      BY <1>1, <1>4, <2>1 DEF Back
    <3> QED BY <3>1, UntouchedKeeps, BackKept DEF Untouched
  <2> QED BY <1>4, <2>1 DEF Back, SameCheckpoint
<1> QED BY <1>2, <1>3, <1>4 DEF RoundInv

\* A process ends, and with it the connection for the child it was to fork.
LEMMA DeathRound ==
  ASSUME DiskInv, RoundInv, NEW w, NEW p \in DeadPoint, Die(w, p), CoordinatorKept,
         UNCHANGED <<coord, backlog, diskVars, toCoord, identityVars, restarts>>
  PROVE  RoundInv'
<1> DEFINE gone == {w} \cup Children(w)
<1>1. \A v \in Worker : v \in gone =>
        pc'[v] = p /\ parent'[v] = Nobody /\ toWorker'[v] = <<>>
  BY DEF Die
<1>2. \A v \in Worker : v \notin gone => Untouched(v)
  BY DEF Die, Untouched, CoordinatorKept, identityVars
<1> HIDE DEF gone
<1>3. \A v \in Worker : v \in gone => ~Alive(v)'
  BY <1>1 DEF Alive
<1>4. restarts \in Nat /\ clients \subseteq Worker /\ SameCheckpoint
  BY BoundAssumption DEF DiskInv, TypeOK, EnvTypeOK, CoordTypeOK, CoordinatorKept,
     SameCheckpoint
<1>5. \A v \in Worker : SameReports(v)
  BY ChannelsKept
<1>6. ASSUME NEW v \in Worker
      PROVE  ConnectionOf(v)' /\ HelloOf(v)'
  <2>1. ConnectionOf(v) /\ HelloOf(v)
    BY DEF RoundInv, Connected, RestoredHello
  <2>2. CASE v \notin gone
    BY <1>2, <1>4, <2>1, <2>2, UntouchedKeeps DEF SameCheckpoint
  <2>3. CASE v \in gone
    <3>1. Reports(v)' = Reports(v)
      BY <1>5 DEF SameReports
    <3>2. p \notin {"hello", "unborn"}
      BY DEF DeadPoint
    <3>3. ConnectionOf(v)'
      BY <1>1, <1>3, <2>1, <2>3, <3>1, <3>2
         DEF ConnectionOf, CoordinatorKept
    <3>4. HelloOf(v)'
      BY <1>1, <1>3, <2>1, <2>3, <3>1, <3>2 DEF HelloOf, identityVars
    <3> QED BY <3>3, <3>4
  <2> QED BY <2>2, <2>3
<1>7. Connected' /\ RestoredHello'
  BY <1>6 DEF RoundInv, Connected, RestoredHello, CoordinatorKept, diskVars
<1>8. ASSUME NEW v \in clients
      PROVE  /\ \A j : ClientInRound(v, j) => ClientInRound(v, j)'
             /\ ClientBack(v) => ClientBack(v)'
  <2>1. CASE v \notin gone
    <3>1. Untouched(v)
      BY <1>2, <1>4, <2>1
    <3> QED BY <1>4, <3>1, UntouchedKeeps, ClientKept, BackKept DEF Untouched
  <2>2. CASE v \in gone
    BY <1>3, <1>4, <1>5, <2>2, ClientEnded DEF CoordinatorKept
  <2> QED BY <2>1, <2>2
<1>9. \A j \in 0 .. 7 : Round(j) => Round(j)'
  BY <1>8 DEF Round, CoordinatorKept
<1>10. Back => Back'
  BY <1>8 DEF Back, CoordinatorKept
<1> QED BY <1>7, <1>9, <1>10 DEF RoundInv

-----------------------------------------------------------------------------
(* The steps of the workers. *)

\* What a client in a round has to do with its messages.
LEMMA AliveInRound ==
  ASSUME NEW w \in clients, NEW j \in 0 .. 7, Round(j), Alive(w)
  PROVE  /\ ReportsInRound(w, j) /\ PlaceInRound(w, j) /\ SuspendInRound(w, j)
         /\ ClientInRound(w, j) /\ Reached(w) \in {j, After(j)}
BY DEF Round, ClientInRound, PlaceInRound

\* A report of the next barrier, from a process at work in round j.
LEMMA ReportInRound ==
  ASSUME DiskInv, NEW w \in clients, w \in Worker, NEW j \in 0 .. 7,
         ClientInRound(w, j), Alive(w), SameCheckpoint, cstate'[w] = cstate[w],
         NEW s, Adds(w, s), Level(s) = After(j),
         FewerOrders(w),
         Alive(w)', Reached(w)' = After(j),
         pc[w] \notin WaitPoint, pc'[w] \notin WorkPoint \cup {"hello", "locking"},
         pc[w] \notin {"run", "hello"},
         wComp'[w] = wComp[w], wGen'[w] = wGen[w],
         pc[w] = "locking" \/ Reached(w) \in 1 .. 3 \/ Reached(w)' \notin 1 .. 3,
         j = 0 => suspendSent
  PROVE  ClientInRound(w, j)'
<1>1. PICK n \in Nat :
        /\ Reports(w)' = Reports(w) \cup {n} /\ Said(w, n)' = Level(s)
        /\ \A i \in Reports(w) : i < n /\ Said(w, i)' = Said(w, i)
  BY DEF Adds
<1>2. After(j) # j /\ \A i \in Reports(w) : i \in Nat
  BY Positions DEF After
<1>3. ReportsInRound(w, j)'
  BY <1>1, <1>2 DEF ClientInRound, ReportsInRound
<1>4. Told(w, j)'
  BY <1>1 DEF Told
<1>5. Orders(w)' = {} /\ Suspends(w)' = {}
  BY DEF ClientInRound, PlaceInRound, SuspendInRound, FewerOrders
<1>6. PlaceInRound(w, j)'
  BY <1>4, <1>5 DEF PlaceInRound
<1>7. SuspendInRound(w, j)'
  BY <1>5 DEF ClientInRound, SuspendInRound, SameCheckpoint
<1> QED BY <1>3, <1>4, <1>6, <1>7 DEF ClientInRound, SameCheckpoint

\* A report of a later barrier, from a process that comes back from its image.
LEMMA ReportBack ==
  ASSUME DiskInv, NEW w \in Worker, ClientBack(w), Alive(w), cstate'[w] = cstate[w],
         NEW s, Adds(w, s), Level(s) \in 4 .. 7, Level(s) >= Reached(w),
         Suspends(w)' = {}, \A i \in Orders(w)' : Number(toWorker'[w][i].type) \in 4 .. 6,
         Alive(w)', Reached(w)' = Level(s), pc'[w] \notin {"drained", "writing", "resuming"}
  PROVE  ClientBack(w)'
<1>1. PICK n \in Nat :
        /\ Reports(w)' = Reports(w) \cup {n} /\ Said(w, n)' = Level(s)
        /\ \A i \in Reports(w) : i < n /\ Said(w, i)' = Said(w, i)
  BY DEF Adds
<1>2. /\ \A i \in Reports(w) : i \in Nat /\ Said(w, i) \in 4 .. 7
                               /\ Said(w, i) <= Reached(w)
      /\ Reached(w) \in 3 .. 7 /\ Level(cstate[w]) \in 3 .. 7
      /\ Level(cstate[w]) <= Reached(w)
  BY Positions DEF ClientBack, ReportsBack, PlaceBack
<1>3. ReportsBack(w)'
  <2>1. cstate'[w] # "DRAINED" /\ Level(cstate'[w]) \in 3 .. 7
    BY DEF ClientBack, ReportsBack
  <2>2. \A i \in Reports(w)' :
          Said(w, i)' \in 4 .. 7 /\ Level(cstate'[w]) <= Said(w, i)'
    BY <1>1, <1>2 DEF ClientBack, ReportsBack
  <2>3. \A i, k \in Reports(w)' : i < k => Said(w, i)' <= Said(w, k)'
    BY <1>1, <1>2 DEF ClientBack, ReportsBack
  <2> QED BY <2>1, <2>2, <2>3 DEF ReportsBack
<1>4. PlaceBack(w)'
  <2>1. \A i \in Reports(w)' : Said(w, i)' <= Reached(w)'
    BY <1>1, <1>2
  <2> QED BY <1>2, <2>1 DEF PlaceBack
<1> QED BY <1>3, <1>4 DEF ClientBack

\* The connection of a client that goes on.
LEMMA ClientGoesOn ==
  ASSUME DiskInv, RoundInv, NEW w \in clients, w \in Worker,
         clients' = clients, backlog' = backlog, restarts' = restarts,
         Alive(w)', pc'[w] # "hello",
         parent'[w] = Nobody, fromImage'[w] \in {0, fromImage[w]},
         SameReports(w) \/ \E s : Adds(w, s) /\ s # "RESTARTING"
  PROVE  ConnectionOf(w)' /\ HelloOf(w)'
<1>1. w \notin backlog /\ HelloOf(w) /\ pc'[w] # "unborn"
  BY DEF DiskInv, HelloFirst, RoundInv, RestoredHello, Alive
<1>2. \A i \in Reports(w)' : toCoord'[w][i].state # "RESTARTING"
  BY <1>1 DEF HelloOf, SameReports, Adds
<1>3. ConnectionOf(w)'
  BY <1>1 DEF ConnectionOf
<1>4. HelloOf(w)'
  BY <1>1, <1>2 DEF HelloOf
<1> QED BY <1>3, <1>4

\* A process beyond the handshake is a client, and no child to be.
LEMMA BeyondHello ==
  ASSUME DiskInv, RoundInv, NEW w \in Worker, Alive(w), pc[w] # "hello"
  PROVE  w \in clients /\ parent[w] = Nobody
BY DEF RoundInv, Connected, ConnectionOf, RestoredHello, HelloOf

\* A message with a single report.
LEMMA SendsOk ==
  ASSUME DiskInv, NEW w \in Worker, NEW s \in WorkerState, Send(w, <<Ok(s)>>)
  PROVE  Adds(w, s) /\ \A v \in Worker \ {w} : toCoord'[v] = toCoord[v]
<1>1. /\ <<Ok(s)>> \in Seq(ToCoordMsg) /\ <<Ok(s)>> # <<>> /\ Len(<<Ok(s)>>) = 1
      /\ <<Ok(s)>>[Len(<<Ok(s)>>)] = Ok(s) /\ Ok(s).type = "OK" /\ Ok(s).state = s
  BY OkMessage DEF Ok
<1>2. \A i \in 1 .. Len(<<Ok(s)>>) - 1 : <<Ok(s)>>[i].type # "OK"
  BY <1>1
<1> HIDE DEF Ok
<1> QED BY <1>1, <1>2, SendsReport

\* A process at work between two barriers reports that it is done: the next
\* barrier, or RUNNING after the last.
LEMMA ReportStep ==
  ASSUME DiskInv, RoundInv, NEW w \in Worker, pc[w] \in WorkPoint \cup {"locking"},
         NEW s \in WorkerState, Adds(w, s), s # "RESTARTING",
         Level(s) = IF pc[w] = "resuming" THEN 0 ELSE Reached(w) + 1,
         NEW p \in WaitPoint \cup {"run"}, Move(w, p), Reached(w)' = Level(s),
         \A v \in Worker \ {w} : /\ toCoord'[v] = toCoord[v]
                                 /\ toWorker'[v] = toWorker[v]
                                 /\ fromImage'[v] = fromImage[v],
         FewerOrders(w), fromImage'[w] \in {0, fromImage[w]},
         CoordinatorKept, UNCHANGED <<backlog, parent, wComp, wGen, restarting, envVars>>,
         \A f \in DOMAIN images' : images'[f].comp # Nobody /\ images'[f].gen # 0
  PROVE  RoundInv'
<1>1. /\ pc'[w] = p /\ \A v \in Worker \ {w} : Untouched(v)
      /\ SameCheckpoint /\ clients' = clients /\ cstate'[w] = cstate[w]
  BY DEF Move, DiskInv, TypeOK, WorkerTypeOK, Untouched, CoordinatorKept,
     SameCheckpoint, envVars
<1>2. /\ Alive(w) /\ Alive(w)' /\ pc[w] # "hello" /\ pc'[w] # "hello"
      /\ w \in clients /\ parent[w] = Nobody
  <2>1. /\ Alive(w) /\ Alive(w)' /\ pc[w] # "hello" /\ pc'[w] # "hello"
    BY <1>1 DEF Alive, DeadPoint, WorkPoint, WaitPoint
  <2> QED BY <2>1, BeyondHello
<1>3. ConnectionOf(w)' /\ HelloOf(w)'
  BY <1>1, <1>2, ClientGoesOn DEF envVars
<1>4. /\ pc[w] \notin WaitPoint /\ pc'[w] \notin WorkPoint \cup {"hello", "locking"}
      /\ pc[w] \notin {"run", "hello"}
      /\ pc[w] = "locking" => Reached(w) = 0
      /\ pc[w] = "resuming" <=> pc[w] \in WorkPoint /\ Reached(w) = 7
      /\ pc[w] \in WorkPoint => Reached(w) \in 1 .. 7
  BY <1>1 DEF WaitPoint, WorkPoint, Reached
<1>5. ASSUME NEW j \in 0 .. 7, Round(j)
      PROVE  ClientInRound(w, j)'
  <2>1. /\ PlaceInRound(w, j) /\ SuspendInRound(w, j) /\ ClientInRound(w, j)
    BY <1>2, <1>5, AliveInRound
  <2>2. j = Reached(w) /\ (j = 0 => suspendSent)
    <3>1. CASE pc[w] \in WorkPoint
      BY <1>4, <2>1, <3>1 DEF PlaceInRound
    <3>2. CASE pc[w] = "locking"
      BY <1>4, <1>5, <2>1, <3>2 DEF SuspendInRound, Round
    <3> QED BY <3>1, <3>2
  <2>3. Level(s) = After(j) /\ Reached(w)' = After(j)
    BY <1>4, <2>2 DEF After
  <2>4. pc[w] = "locking" \/ Reached(w) \in 1 .. 3 \/ Reached(w)' \notin 1 .. 3
    BY <1>4, <2>2, <2>3 DEF After
  <2> QED BY <1>1, <1>2, <1>4, <2>1, <2>2, <2>3, <2>4, ReportInRound
<1>6. ASSUME Back
      PROVE  ClientBack(w)'
  <2>1. ClientBack(w) /\ pc[w] \notin {"drained", "writing", "resuming"}
        /\ Reached(w) \in 3 .. 7
    BY <1>2, <1>6 DEF Back, ClientBack, PlaceBack
  <2>2. Reached(w) \in 4 .. 6
    BY <1>4, <2>1 DEF Reached, WorkPoint
  <2>3. Level(s) \in 5 .. 7 /\ Level(s) >= Reached(w)
    BY <2>1, <2>2
  <2>4. pc'[w] \notin {"drained", "writing", "resuming"}
    BY <1>1, <2>3 DEF Reached, WaitPoint
  <2>5. /\ Suspends(w)' = {}
        /\ \A i \in Orders(w)' : Number(toWorker'[w][i].type) \in 4 .. 6
    BY <1>2, <2>1 DEF ClientBack, PlaceBack, FewerOrders
  <2> QED BY <1>1, <1>2, <2>1, <2>3, <2>4, <2>5, ReportBack
<1> QED BY <1>1, <1>2, <1>3, <1>5, <1>6, StepOfOne

\* A worker's step that writes no image leaves those there are.
LEMMA ImagesKept ==
  ASSUME RoundInv, images' = images
  PROVE  \A f \in DOMAIN images' : images'[f].comp # Nobody /\ images'[f].gen # 0
BY DEF RoundInv, RestoredHello

\* Suspended, elected, drained, refilled, resumed: nothing but the report.
LEMMA StageRound ==
  ASSUME DiskInv, RoundInv, NEW w \in Worker, Suspend(w) \/ FinishStage(w) \/ Resume(w),
         CoordinatorKept, UNCHANGED <<diskVars, envVars>>
  PROVE  RoundInv'
<1>1. UNCHANGED <<coord, backlog, parent, wComp, wGen, toWorker>>
  BY DEF Suspend, FinishStage, Resume, identityVars
<1>2. /\ pc \in [Worker -> Point] /\ FewerOrders(w)
      /\ \A f \in DOMAIN images' : images'[f].comp # Nobody /\ images'[f].gen # 0
  BY <1>1, ChannelsKept, ImagesKept DEF DiskInv, TypeOK, WorkerTypeOK, diskVars
<1>3. PICK p \in WaitPoint \cup {"run"}, s \in WorkerState :
        /\ pc[w] \in WorkPoint \cup {"locking"} /\ Move(w, p) /\ Send(w, <<Ok(s)>>)
        /\ Level(s) = IF pc[w] = "resuming" THEN 0 ELSE Reached(w) + 1
        /\ Reached(w)' = Level(s) /\ s # "RESTARTING"
  <2>1. CASE Suspend(w)
    <3>1. pc[w] = "locking" /\ Move(w, "suspended") /\ Send(w, <<Ok("SUSPENDED")>>)
      BY <2>1 DEF Suspend
    <3>2. /\ Reached(w) = 0 /\ Reached(w)' = 1 /\ Level("SUSPENDED") = 1
          /\ "SUSPENDED" \in WorkerState /\ "suspended" \in WaitPoint
      BY <1>2, <3>1, StateNames DEF Reached, Move, Level, WaitPoint
    <3> QED BY <3>1, <3>2
  <2>2. CASE pc[w] = "electing" /\ Move(w, "elected")
             /\ Send(w, <<Ok("FD_LEADER_ELECTION")>>)
    <3>2. /\ Reached(w) = 1 /\ Reached(w)' = 2 /\ Level("FD_LEADER_ELECTION") = 2
          /\ "FD_LEADER_ELECTION" \in WorkerState /\ "elected" \in WaitPoint
          /\ "electing" \in WorkPoint
      BY <1>2, <2>2, StateNames DEF Reached, Move, Level, WaitPoint, WorkPoint
    <3> QED BY <2>2, <3>2
  <2>3. CASE pc[w] = "draining" /\ Move(w, "drained") /\ Send(w, <<Ok("DRAINED")>>)
    <3>2. /\ Reached(w) = 2 /\ Reached(w)' = 3 /\ Level("DRAINED") = 3
          /\ "DRAINED" \in WorkerState /\ "drained" \in WaitPoint
          /\ "draining" \in WorkPoint
      BY <1>2, <2>3, StateNames DEF Reached, Move, Level, WaitPoint, WorkPoint
    <3> QED BY <2>3, <3>2
  <2>4. CASE pc[w] = "refilling" /\ Move(w, "refilled") /\ Send(w, <<Ok("REFILLED")>>)
    <3>2. /\ Reached(w) = 6 /\ Reached(w)' = 7 /\ Level("REFILLED") = 7
          /\ "REFILLED" \in WorkerState /\ "refilled" \in WaitPoint
          /\ "refilling" \in WorkPoint
      BY <1>2, <2>4, StateNames DEF Reached, Move, Level, WaitPoint, WorkPoint
    <3> QED BY <2>4, <3>2
  <2>5. CASE Resume(w)
    <3>1. pc[w] = "resuming" /\ Move(w, "run") /\ Send(w, <<Ok("RUNNING")>>)
      BY <2>5 DEF Resume
    <3>2. /\ Reached(w)' = 0 /\ Level("RUNNING") = 0
          /\ "RUNNING" \in WorkerState /\ "resuming" \in WorkPoint
      BY <1>2, <3>1, StateNames DEF Reached, Move, Level, WorkPoint
    <3> QED BY <3>1, <3>2
  <2> QED BY <2>1, <2>2, <2>3, <2>4, <2>5 DEF FinishStage
<1>4. Adds(w, s) /\ \A v \in Worker \ {w} : toCoord'[v] = toCoord[v]
  BY <1>3, SendsOk
<1>5. fromImage'[w] \in {0, fromImage[w]}
      /\ \A v \in Worker \ {w} : fromImage'[v] = fromImage[v]
  BY DEF Suspend, FinishStage, Resume, identityVars, DiskInv, TypeOK, WorkerTypeOK
<1> QED BY <1>1, <1>2, <1>3, <1>4, <1>5, ReportStep DEF diskVars

\* Publishing addresses, and asking for those of the peers.
LEMMA NameServiceRound ==
  ASSUME DiskInv, RoundInv, NEW w \in Worker, RegisterNSData(w),
         CoordinatorKept, UNCHANGED <<diskVars, envVars>>
  PROVE  RoundInv'
<1> DEFINE s == "NAME_SERVICE_DATA_REGISTERED"
           msgs == (IF fromImage[w] = 0 THEN <<>> ELSE <<RegisterData>>) \o <<Ok(s)>>
<1>1. /\ pc[w] = "registering" /\ Move(w, "registered") /\ Send(w, msgs)
      /\ UNCHANGED <<coord, backlog, parent, wComp, wGen, fromImage, toWorker>>
  BY DEF RegisterNSData, identityVars
<1>2. /\ pc \in [Worker -> Point] /\ FewerOrders(w)
      /\ \A f \in DOMAIN images' : images'[f].comp # Nobody /\ images'[f].gen # 0
  BY <1>1, ChannelsKept, ImagesKept DEF DiskInv, TypeOK, WorkerTypeOK, diskVars
<1>3. /\ Reached(w) = 4 /\ Reached(w)' = 5 /\ Level(s) = 5 /\ s \in WorkerState
      /\ "registered" \in WaitPoint /\ "registering" \in WorkPoint
  BY <1>1, <1>2, StateNames DEF Reached, Move, Level, WaitPoint, WorkPoint
<1>4. /\ msgs \in Seq(ToCoordMsg) /\ msgs # <<>> /\ msgs[Len(msgs)] = Ok(s)
      /\ \A i \in 1 .. Len(msgs) - 1 : msgs[i].type # "OK"
      /\ Ok(s).type = "OK" /\ Ok(s).state = s
  <2>1. RegisterData \in ToCoordMsg /\ RegisterData.type # "OK" /\ Ok(s) \in ToCoordMsg
    BY <1>3, ReportTypes DEF RegisterData
  <2>2. Ok(s).type = "OK" /\ Ok(s).state = s
    BY DEF Ok
  <2> QED BY <2>1, <2>2
<1> HIDE DEF msgs
<1>5. Adds(w, s) /\ \A v \in Worker \ {w} : toCoord'[v] = toCoord[v]
  BY <1>1, <1>4, SendsReport
<1> QED BY <1>1, <1>2, <1>3, <1>5, ReportStep DEF diskVars

\* A checkpointed process names its image, then reports.
LEMMA SendsImage ==
  ASSUME DiskInv, NEW w \in Worker, NEW f \in FileName,
         Send(w, <<CkptFilename(f), Ok("CHECKPOINTED")>>)
  PROVE  Adds(w, "CHECKPOINTED") /\ \A v \in Worker \ {w} : toCoord'[v] = toCoord[v]
<1> DEFINE msgs == <<CkptFilename(f), Ok("CHECKPOINTED")>>
<1>1. /\ msgs \in Seq(ToCoordMsg) /\ msgs # <<>> /\ Len(msgs) = 2
      /\ msgs[1].type # "OK" /\ msgs[2].type = "OK" /\ msgs[2].state = "CHECKPOINTED"
  <2>1. CkptFilename(f) \in ToCoordMsg /\ Ok("CHECKPOINTED") \in ToCoordMsg
    BY ReportTypes, StateNames
  <2>2. CkptFilename(f).type # "OK" /\ Ok("CHECKPOINTED").type = "OK"
        /\ Ok("CHECKPOINTED").state = "CHECKPOINTED"
    BY DEF CkptFilename, Ok
  <2> QED BY <2>1, <2>2
<1> HIDE DEF msgs
<1>2. Send(w, msgs)
  BY DEF msgs
<1>3. \A i \in 1 .. Len(msgs) - 1 : msgs[i].type # "OK"
  BY <1>1
<1>4. msgs[Len(msgs)].type = "OK" /\ msgs[Len(msgs)].state = "CHECKPOINTED"
  BY <1>1
<1> QED BY <1>1, <1>2, <1>3, <1>4, SendsReport

\* The image carries the computation and the generation of the checkpoint.
LEMMA WriteImageRound ==
  ASSUME DiskInv, RoundInv, NEW w \in Worker, WriteImage(w), CoordinatorKept,
         UNCHANGED <<script, restarting, envVars>>
  PROVE  RoundInv'
<1> DEFINE file == NameOf(w, wGen[w])
           msgs == <<CkptFilename(file), Ok("CHECKPOINTED")>>
<1>1. /\ pc[w] = "writing" /\ Move(w, "written") /\ Send(w, msgs)
      /\ UNCHANGED <<coord, backlog, parent, wComp, wGen, fromImage, toWorker>>
      /\ images' = [f \in DOMAIN images \cup {file} |->
                      IF f = file
                      THEN [gen |-> wGen[w], comp |-> wComp[w], cohort |-> wCohort[w]]
                      ELSE images[f]]
  BY DEF WriteImage, identityVars
<1>2. pc \in [Worker -> Point] /\ FewerOrders(w) /\ wGen[w] \in Generation
  BY <1>1, ChannelsKept DEF DiskInv, TypeOK, WorkerTypeOK
<1>3. /\ Reached(w) = 3 /\ Reached(w)' = 4 /\ Level("CHECKPOINTED") = 4
      /\ "CHECKPOINTED" \in WorkerState
      /\ "written" \in WaitPoint /\ "writing" \in WorkPoint
      /\ Alive(w) /\ w \in clients
  <2>1. Alive(w) /\ w \in clients
    BY <1>1, BeyondHello DEF Alive, DeadPoint
  <2> QED BY <1>1, <1>2, <2>1, StateNames DEF Reached, Move, Level, WaitPoint, WorkPoint
<1>4. file \in FileName
  BY <1>2, FileNameType
<1>5. wComp[w] # Nobody /\ wGen[w] # 0
  <2>1. ASSUME Back PROVE FALSE
    BY <1>1, <1>3, <2>1 DEF Back, ClientBack, PlaceBack
  <2>2. PICK j \in 0 .. 7 : Round(j)
    BY <2>1 DEF RoundInv
  <2>3. SuspendInRound(w, j)
    BY <1>3, <2>2, AliveInRound
  <2> QED BY <1>3, <2>3 DEF SuspendInRound, RoundInv, Connected
<1>6. \A f \in DOMAIN images' : images'[f].comp # Nobody /\ images'[f].gen # 0
  BY <1>1, <1>5 DEF RoundInv, RestoredHello
<1>7. Adds(w, "CHECKPOINTED") /\ \A v \in Worker \ {w} : toCoord'[v] = toCoord[v]
  BY <1>1, <1>4, SendsImage
<1>8. /\ Move(w, "written") /\ fromImage'[w] \in {0, fromImage[w]}
      /\ \A v \in Worker \ {w} : /\ toCoord'[v] = toCoord[v]
                                 /\ toWorker'[v] = toWorker[v]
                                 /\ fromImage'[v] = fromImage[v]
      /\ Level("CHECKPOINTED") = IF pc[w] = "resuming" THEN 0 ELSE Reached(w) + 1
      /\ pc[w] \in WorkPoint \cup {"locking"} /\ Reached(w)' = Level("CHECKPOINTED")
      /\ UNCHANGED <<backlog, parent, wComp, wGen>>
  BY <1>1, <1>3, <1>7
<1> HIDE DEF msgs, file
<1> QED BY <1>2, <1>3, <1>6, <1>7, <1>8, ReportStep

\* A client goes from a point to another of the same barrier.
LEMMA ClientMoves ==
  ASSUME NEW w, NEW j, ClientInRound(w, j), Alive(w), SameCheckpoint,
         cstate'[w] = cstate[w], SameReports(w), Reached(w)' = Reached(w),
         pc'[w] = "hello" => fromImage'[w] = 0,
         pc'[w] \in WorkPoint => Reached(w) = j,
         \A i \in Orders(w)' :
           /\ pc'[w] \in WaitPoint /\ Reached(w) = j
           /\ Number(toWorker'[w][i].type) = j \/ (j = 7 /\ restarts > 0)
           /\ Number(toWorker'[w][i].type) = j => \A k \in Orders(w)' : k <= i,
         SuspendInRound(w, j)'
  PROVE  ClientInRound(w, j)'
<1>1. Told(w, j)' <=> Told(w, j)
  BY DEF Told, SameReports
<1>2. ReportsInRound(w, j)'
  BY DEF ClientInRound, ReportsInRound, SameReports
<1>3. PlaceInRound(w, j)'
  BY <1>1 DEF ClientInRound, PlaceInRound, SameCheckpoint
<1> QED BY <1>1, <1>2, <1>3 DEF ClientInRound, SameCheckpoint

\* The user's RUNNING report, which may come late.
LEMMA InformRound ==
  ASSUME DiskInv, RoundInv, NEW w \in Worker, InformCoordinatorOfRUNNINGState(w),
         CoordinatorKept, UNCHANGED <<diskVars, envVars>>
  PROVE  RoundInv'
<1>1. /\ pc[w] \in {"run", "locking"} /\ Send(w, <<Ok("RUNNING")>>)
      /\ UNCHANGED <<coord, backlog, pc, parent, wComp, wGen, fromImage, toWorker>>
  BY DEF InformCoordinatorOfRUNNINGState, identityVars
<1>2. Adds(w, "RUNNING") /\ \A v \in Worker \ {w} : toCoord'[v] = toCoord[v]
  BY <1>1, SendsOk, StateNames
<1>3. /\ \A v \in Worker \ {w} : Untouched(v)
      /\ SameCheckpoint /\ clients' = clients /\ cstate'[w] = cstate[w]
      /\ SamePlace(w) /\ SameOrders(w)
  BY <1>1, <1>2, ChannelsKept
     DEF Untouched, CoordinatorKept, SameCheckpoint, SamePlace, envVars
<1>4. /\ Alive(w) /\ pc[w] # "hello" /\ Alive(w)' /\ Reached(w) = 0 /\ Reached(w)' = 0
      /\ w \in clients /\ parent[w] = Nobody
  <2>1. Alive(w) /\ pc[w] # "hello" /\ Alive(w)' /\ Reached(w) = 0 /\ Reached(w)' = 0
    BY <1>1 DEF Alive, DeadPoint, Reached
  <2> QED BY <2>1, BeyondHello
<1>5. ConnectionOf(w)' /\ HelloOf(w)'
  BY <1>1, <1>2, <1>3, <1>4, ClientGoesOn DEF envVars
<1>6. ~Back
  BY <1>4 DEF Back, ClientBack, PlaceBack
<1>7. ASSUME NEW j \in 0 .. 7, Round(j)
      PROVE  ClientInRound(w, j)'
  <2>1. /\ ReportsInRound(w, j) /\ PlaceInRound(w, j) /\ SuspendInRound(w, j)
        /\ ClientInRound(w, j) /\ Reached(w) \in {j, After(j)}
    BY <1>4, <1>7, AliveInRound
  <2>2. (j = 0 /\ ~Told(w, j)) \/ (j = 7 /\ Told(w, j))
    BY <1>4, <2>1 DEF After, PlaceInRound
  <2>3. PICK n \in Nat :
          /\ Reports(w)' = Reports(w) \cup {n} /\ Said(w, n)' = 0
          /\ \A i \in Reports(w) : i < n /\ Said(w, i)' = Said(w, i)
    <3>1. Level("RUNNING") = 0
      BY DEF Level
    <3> QED BY <1>2, <3>1 DEF Adds
  <2>4. \A i \in Reports(w) : i \in Nat
    BY Positions
  <2>5. (Told(w, j)' <=> Told(w, j)) /\ ReportsInRound(w, j)'
    <3>1. CASE j = 0 /\ ~Told(w, j)
      BY <1>3, <2>1, <2>3, <2>4, <3>1 DEF Told, ReportsInRound, After
    <3>2. CASE j = 7 /\ Told(w, j)
      BY <1>3, <2>1, <2>3, <2>4, <3>2 DEF Told, ReportsInRound, After
    <3> QED BY <2>2, <3>1, <3>2
  <2>6. PlaceInRound(w, j)'
    BY <1>3, <1>4, <2>1, <2>5 DEF PlaceInRound, SameOrders, SamePlace, SameCheckpoint
  <2>7. SuspendInRound(w, j)'
    BY <1>3, <1>4, <2>1 DEF SuspendInRound, SameOrders, SamePlace, SameCheckpoint
  <2> QED BY <1>3, <2>1, <2>5, <2>6, <2>7 DEF ClientInRound, SameCheckpoint
<1> QED BY <1>3, <1>5, <1>6, <1>7, ImagesKept, StepOfOne DEF diskVars

\* Only the coordinator's clients get more than a refusal.
LEMMA ServedClient ==
  ASSUME DiskInv, RoundInv, NEW w \in Worker, Receives(w),
         Received(w).type \notin {"REJECT", "KILL_PEER"}
  PROVE  w \in clients /\ w \notin backlog /\ Alive(w)
<1>1. toWorker[w] \in Seq(ToWorkerMsg) /\ toWorker[w] # <<>>
  BY DEF DiskInv, TypeOK, NetTypeOK, Receives
<1>2. 1 \in 1 .. Len(toWorker[w]) /\ Received(w) = toWorker[w][1]
  BY <1>1 DEF Received
<1> QED BY <1>1, <1>2 DEF RoundInv, Connected, ConnectionOf

\* What is left under way to a process that leaves the handshake.
LEMMA GreetedInRound ==
  ASSUME DiskInv, NEW w \in Worker, NEW j \in 0 .. 7, ClientInRound(w, j), Alive(w),
         pc[w] = "hello", Receives(w), Consume(w), SameCheckpoint,
         cstate'[w] = cstate[w], SameReports(w), pc'[w] = "run"
  PROVE  ClientInRound(w, j)'
<1>1. /\ PlaceInRound(w, j) /\ SuspendInRound(w, j)
      /\ fromImage[w] = 0 /\ Reached(w) = 0 /\ Reached(w)' = 0
  BY DEF ClientInRound, PlaceInRound, Reached
<1>2. Orders(w)' = {}
  <2>1. Orders(w) = {}
    BY <1>1 DEF PlaceInRound, WaitPoint
  <2> QED BY <2>1, TakesOrder
<1>3. SuspendInRound(w, j)'
  <2>1. \A i \in Suspends(w)' : /\ i \in Nat /\ i + 1 \in Suspends(w)
                                /\ toWorker'[w][i] = toWorker[w][i + 1]
    BY TakesOrder
  <2>2. ASSUME NEW i \in Suspends(w)'
        PROVE  /\ toWorker'[w][i].comp = compId /\ toWorker'[w][i].gen = generation
               /\ \A k \in Suspends(w)' : k = i
    BY <1>1, <2>1 DEF SuspendInRound
  <2>3. suspendSent \/ Suspends(w)' = {}
    BY <1>1, <2>1 DEF SuspendInRound
  <2> QED BY <1>1, <2>2, <2>3 DEF SuspendInRound, SameCheckpoint
<1> QED BY <1>1, <1>2, <1>3, ClientMoves DEF WorkPoint

\* The answer to a hello: a new process runs, a restored one reports its image.
LEMMA HandshakeRound ==
  ASSUME DiskInv, RoundInv, NEW w \in Worker, Handshake(w), CoordinatorKept,
         UNCHANGED <<diskVars, envVars>>
  PROVE  RoundInv'
<1>1. /\ pc[w] = "hello" /\ parent[w] = Nobody /\ Receives(w) /\ Consume(w)
      /\ UNCHANGED <<coord, backlog, parent, fromImage>>
      /\ w \in clients /\ Alive(w)
      /\ \A v \in Worker \ {w} : /\ toWorker'[v] = toWorker[v] /\ wComp'[v] = wComp[v]
                                 /\ wGen'[v] = wGen[v]
  <2>1. /\ pc[w] = "hello" /\ parent[w] = Nobody /\ Receives(w) /\ Consume(w)
        /\ UNCHANGED <<coord, backlog, parent, fromImage>>
        /\ Received(w).type = "HELLO_WORKER"
    BY DEF Handshake
  <2>2. w \in clients /\ Alive(w)
    BY <2>1, ServedClient
  <2>3. \A v \in Worker \ {w} : toWorker'[v] = toWorker[v]
    BY <2>1, TakesOrder
  <2>4. \A v \in Worker \ {w} : wComp'[v] = wComp[v] /\ wGen'[v] = wGen[v]
    BY DEF Handshake, DiskInv, TypeOK, WorkerTypeOK
  <2> QED BY <2>1, <2>2, <2>3, <2>4
<1>2. /\ pc \in [Worker -> Point] /\ SameCheckpoint /\ clients' = clients
      /\ cstate'[w] = cstate[w]
  BY DEF DiskInv, TypeOK, WorkerTypeOK, CoordinatorKept, SameCheckpoint, envVars
<1>3. CASE fromImage[w] = 0
  <2>1. Move(w, "run") /\ toCoord' = toCoord
    BY <1>3 DEF Handshake
  <2>2. /\ \A v \in Worker \ {w} : Untouched(v)
        /\ pc'[w] = "run" /\ Alive(w)' /\ SameReports(w)
    BY <1>1, <1>2, <2>1, ChannelsKept
       DEF Untouched, Move, Alive, DeadPoint, CoordinatorKept
  <2>3. ConnectionOf(w)' /\ HelloOf(w)'
    BY <1>1, <1>2, <2>2, ClientGoesOn DEF envVars
  <2>4. \A j \in 0 .. 7 : Round(j) => ClientInRound(w, j)'
    BY <1>1, <1>2, <2>2, GreetedInRound, AliveInRound
  <2>5. ~Back
    BY <1>1, <1>3 DEF Back, ClientBack, PlaceBack, Reached
  <2> QED BY <1>2, <2>2, <2>3, <2>4, <2>5, ImagesKept, StepOfOne DEF diskVars
<1>4. CASE fromImage[w] # 0
  <2>1. /\ Move(w, "written")
        /\ Send(w, <<CkptFilename(NameOf(w, fromImage[w])), Ok("CHECKPOINTED")>>)
    BY <1>4 DEF Handshake
  <2>2. NameOf(w, fromImage[w]) \in FileName
    BY FileNameType DEF DiskInv, TypeOK, WorkerTypeOK
  <2>3. Adds(w, "CHECKPOINTED") /\ \A v \in Worker \ {w} : toCoord'[v] = toCoord[v]
    BY <2>1, <2>2, SendsImage
  <2>4. /\ \A v \in Worker \ {w} : Untouched(v)
        /\ pc'[w] = "written" /\ Alive(w)' /\ Reached(w) = 3 /\ Reached(w)' = 4
        /\ Level("CHECKPOINTED") = 4
    BY <1>1, <1>2, <1>4, <2>1, <2>3
       DEF Untouched, Move, Alive, DeadPoint, CoordinatorKept, Reached, Level
  <2>5. ConnectionOf(w)' /\ HelloOf(w)'
    BY <1>1, <1>2, <2>3, <2>4, ClientGoesOn DEF envVars
  <2>6. \A j \in 0 .. 7 : ~Round(j)
    BY <1>1, <1>4, AliveInRound DEF PlaceInRound
  <2>7. Back => ClientBack(w)'
    <3> SUFFICES ASSUME Back PROVE ClientBack(w)'
      OBVIOUS
    <3>1. ClientBack(w)
      BY <1>1 DEF Back
    <3>2. /\ Suspends(w)' = {}
          /\ \A i \in Orders(w)' : Number(toWorker'[w][i].type) \in 4 .. 6
      BY <1>1, <3>1, TakesOrder DEF ClientBack, PlaceBack
    <3> QED BY <1>1, <1>2, <2>3, <2>4, <3>1, <3>2, ReportBack
  <2> QED BY <1>2, <2>4, <2>5, <2>6, <2>7, ImagesKept, StepOfOne DEF diskVars
<1> QED BY <1>3, <1>4

\* A child is forked: it leaves its handshake, or its connection is closed.
LEMMA FinishForkRound ==
  ASSUME DiskInv, RoundInv, NEW w \in Worker, FinishFork(w), CoordinatorKept,
         UNCHANGED <<diskVars, envVars>>
  PROVE  RoundInv'
<1>1. /\ pc[w] = "hello" /\ parent[w] # Nobody /\ Receives(w)
      /\ Received(w).type = "HELLO_WORKER"
      /\ parent' = [parent EXCEPT ![w] = Nobody]
      /\ UNCHANGED <<coord, backlog, fromImage, toCoord>>
  BY DEF FinishFork
<1>2. w \in clients /\ Alive(w) /\ w \notin backlog
  BY <1>1, ServedClient
<1>3. /\ pc \in [Worker -> Point] /\ SameCheckpoint /\ clients' = clients
      /\ cstate'[w] = cstate[w] /\ parent'[w] = Nobody /\ SameReports(w)
      /\ \A v \in Worker \ {w} : wComp'[v] = wComp[v] /\ wGen'[v] = wGen[v]
                                 /\ parent'[v] = parent[v]
  BY <1>1, ChannelsKept DEF DiskInv, TypeOK, WorkerTypeOK, CoordinatorKept,
     SameCheckpoint, envVars, FinishFork
<1>4. fromImage[w] = 0 /\ ~Back
  <2>1. fromImage[w] = 0
    BY <1>1 DEF RoundInv, RestoredHello, HelloOf
  <2> QED BY <1>1, <1>2, <2>1 DEF Back, ClientBack, PlaceBack, Reached
<1>5. CASE Move(w, "run") /\ Consume(w)
  <2>1. \A v \in Worker \ {w} : toWorker'[v] = toWorker[v]
    BY <1>1, <1>5, TakesOrder
  <2>2. /\ \A v \in Worker \ {w} : Untouched(v)
        /\ pc'[w] = "run" /\ Alive(w)'
    BY <1>1, <1>3, <1>5, <2>1 DEF Untouched, Move, Alive, DeadPoint, CoordinatorKept
  <2>3. ConnectionOf(w)' /\ HelloOf(w)'
    BY <1>1, <1>2, <1>3, <2>2, ClientGoesOn DEF envVars
  <2>4. \A j \in 0 .. 7 : Round(j) => ClientInRound(w, j)'
    BY <1>1, <1>2, <1>3, <1>5, <2>2, GreetedInRound, AliveInRound
  <2> QED BY <1>3, <1>4, <2>2, <2>3, <2>4, ImagesKept, StepOfOne DEF diskVars
<1>6. CASE Move(w, "dead") /\ toWorker' = [toWorker EXCEPT ![w] = <<>>]
           /\ UNCHANGED <<wComp, wGen, wCohort>>
  <2>1. toWorker \in [Worker -> Seq(ToWorkerMsg)]
    BY DEF DiskInv, TypeOK, NetTypeOK
  <2>2. /\ \A v \in Worker \ {w} : Untouched(v)
        /\ pc'[w] = "dead" /\ ~Alive(w)' /\ toWorker'[w] = <<>>
    BY <1>1, <1>3, <1>6, <2>1 DEF Untouched, Move, Alive, DeadPoint, CoordinatorKept
  <2>3. HelloOf(w) /\ Reports(w)' = Reports(w)
    BY <1>3 DEF RoundInv, RestoredHello, SameReports
  <2>4. ConnectionOf(w)'
    BY <1>1, <1>2, <1>3, <2>2 DEF ConnectionOf
  <2>5. HelloOf(w)'
    BY <1>1, <1>2, <1>3, <1>4, <2>2, <2>3 DEF HelloOf
  <2>6. \A j \in 0 .. 7 : Round(j) => ClientInRound(w, j)'
    BY <1>2, <1>3, <2>2, ClientEnded DEF Round, CoordinatorKept
  <2> QED BY <1>3, <1>4, <2>2, <2>4, <2>5, <2>6, ImagesKept, StepOfOne DEF diskVars
<1> QED BY <1>5, <1>6 DEF FinishFork

\* DO_SUSPEND arrives, or what ends the process.
LEMMA Stage1Round ==
  ASSUME DiskInv, RoundInv, NEW w \in Worker, WaitForStage1Suspend(w), CoordinatorKept,
         UNCHANGED <<diskVars, envVars>>
  PROVE  RoundInv'
<1>1. /\ pc[w] = "run" /\ Receives(w)
      /\ UNCHANGED <<coord, backlog, wCohort, fromImage, toCoord>>
  BY DEF WaitForStage1Suspend
<1>2. Alive(w) /\ pc[w] # "hello" /\ w \in clients /\ parent[w] = Nobody
  BY <1>1, BeyondHello DEF Alive, DeadPoint
<1>3. CASE Received(w).type = "DO_SUSPEND"
  <2>1. /\ Move(w, "locking") /\ Consume(w) /\ UNCHANGED parent
        /\ wComp' = [wComp EXCEPT ![w] = Received(w).comp]
        /\ wGen' = [wGen EXCEPT ![w] = Received(w).gen]
    BY <1>3 DEF WaitForStage1Suspend
  <2>2. WorkerTypeOK /\ \A v \in Worker \ {w} : toWorker'[v] = toWorker[v]
    BY <1>1, <2>1, TakesOrder DEF DiskInv, TypeOK
  <2>3. /\ \A v \in Worker \ {w} : Untouched(v)
        /\ pc'[w] = "locking" /\ Alive(w)' /\ SameReports(w) /\ SameCheckpoint
        /\ clients' = clients /\ cstate'[w] = cstate[w]
        /\ wComp'[w] = Received(w).comp /\ wGen'[w] = Received(w).gen
        /\ Reached(w) = 0 /\ Reached(w)' = 0
    BY <1>1, <2>1, <2>2, ChannelsKept
       DEF Untouched, Move, Alive, DeadPoint, CoordinatorKept, WorkerTypeOK,
           SameCheckpoint, envVars, Reached
  <2>4. ConnectionOf(w)' /\ HelloOf(w)'
    BY <1>1, <1>2, <2>1, <2>3, ClientGoesOn DEF envVars
  <2>5. ~Back
    BY <1>2, <2>3 DEF Back, ClientBack, PlaceBack
  <2>6. ASSUME NEW j \in 0 .. 7, Round(j)
        PROVE  ClientInRound(w, j)'
    <3>1. /\ PlaceInRound(w, j) /\ SuspendInRound(w, j) /\ ClientInRound(w, j)
      BY <1>2, <2>6, AliveInRound
    <3>2. Orders(w)' = {}
      <4>1. Orders(w) = {}
        BY <1>1, <3>1 DEF PlaceInRound, WaitPoint
      <4> QED BY <1>1, <2>1, <4>1, TakesOrder
    <3>3. 1 \in Suspends(w) /\ toWorker[w][1] = Received(w)
      BY <1>1, <1>3, <2>1, TakesOrder
    <3>4. Suspends(w)' = {}
      <4>1. \A i \in Suspends(w)' : i \in Nat \ {0} /\ i + 1 \in Suspends(w)
        BY <1>1, <2>1, TakesOrder
      <4>2. \A i \in Suspends(w) : i = 1
        BY <3>1, <3>3 DEF SuspendInRound
      <4> QED BY <4>1, <4>2
    <3>5. /\ suspendSent /\ generation # 0
          /\ Received(w).comp = compId /\ Received(w).gen = generation
      BY <2>6, <3>1, <3>3 DEF SuspendInRound, Round
    <3>6. SuspendInRound(w, j)'
      BY <2>3, <3>4, <3>5 DEF SuspendInRound, SameCheckpoint
    <3> QED BY <1>2, <2>3, <3>1, <3>2, <3>6, ClientMoves DEF WorkPoint
  <2> QED BY <2>3, <2>4, <2>5, <2>6, ImagesKept, StepOfOne DEF diskVars
<1>4. CASE Received(w).type # "DO_SUSPEND"
  <2>1. /\ Die(w, "dead") \/ Die(w, "abort")
        /\ UNCHANGED <<wComp, wGen>>
    BY <1>4 DEF WaitForStage1Suspend
  <2> QED BY <1>1, <2>1, DeathRound DEF DeadPoint, identityVars, envVars
<1> QED BY <1>3, <1>4

\* A barrier's message arrives, or what a worker skips, or what ends it.
LEMMA WaitRound ==
  ASSUME DiskInv, RoundInv, NEW w \in Worker, WaitForCoordinatorMsg(w), CoordinatorKept,
         UNCHANGED <<diskVars, envVars>>
  PROVE  RoundInv'
<1> DEFINE m == Received(w)
<1>1. /\ pc[w] \in WaitPoint /\ Receives(w)
      /\ UNCHANGED <<coord, backlog, wComp, wGen, fromImage, toCoord>>
  BY DEF WaitForCoordinatorMsg
<1>2. Alive(w) /\ pc[w] # "hello" /\ w \in clients /\ parent[w] = Nobody
  <2>1. Alive(w) /\ pc[w] # "hello"
    BY <1>1 DEF Alive, DeadPoint, WaitPoint
  <2> QED BY <2>1, BeyondHello
<1>3. ASSUME Consume(w), UNCHANGED parent, NEW p \in WaitPoint \cup WorkPoint,
             pc'[w] = p, \A v \in Worker \ {w} : pc'[v] = pc[v],
             Reached(w)' = Reached(w),
             p \in WaitPoint => p = pc[w],
             p \in WorkPoint => Number(m.type) = Reached(w)
      PROVE  RoundInv'
  <2>1. \A v \in Worker \ {w} : Untouched(v)
    BY <1>1, <1>3, TakesOrder DEF Untouched, CoordinatorKept
  <2>2. /\ Alive(w)' /\ pc'[w] # "hello" /\ SameReports(w) /\ SameCheckpoint
        /\ clients' = clients /\ cstate'[w] = cstate[w]
    BY <1>1, <1>3, ChannelsKept DEF Alive, DeadPoint, WaitPoint, WorkPoint,
       CoordinatorKept, SameCheckpoint, envVars
  <2>3. ConnectionOf(w)' /\ HelloOf(w)'
    BY <1>1, <1>2, <1>3, <2>2, ClientGoesOn DEF envVars
  <2>4. /\ \A i \in Orders(w)' : /\ i \in Nat \ {0} /\ i + 1 \in Orders(w)
                                 /\ toWorker'[w][i] = toWorker[w][i + 1]
        /\ 1 \in Orders(w) <=> Number(m.type) # 0
        /\ toWorker[w][1] = m /\ FewerOrders(w)
    BY <1>1, <1>3, TakesOrder
  <2> HIDE DEF m
  <2>5. ASSUME NEW j \in 0 .. 7, Round(j)
        PROVE  ClientInRound(w, j)'
    <3>1. /\ PlaceInRound(w, j) /\ SuspendInRound(w, j) /\ ClientInRound(w, j)
      BY <1>2, <2>5, AliveInRound
    <3>2. Suspends(w)' = {}
      BY <1>1, <2>4, <3>1 DEF SuspendInRound, WaitPoint, FewerOrders
    <3>3. SuspendInRound(w, j)'
      BY <1>1, <1>3, <2>2, <3>1, <3>2
         DEF SuspendInRound, SameCheckpoint, WaitPoint, WorkPoint
    <3>4. ASSUME p \in WorkPoint
          PROVE  Reached(w) = j /\ Orders(w)' = {}
      <4>1. Reached(w) \in 1 .. 7
        BY <1>1 DEF Reached, WaitPoint
      <4>2. 1 \in Orders(w) /\ Reached(w) = j /\ \A k \in Orders(w) : k <= 1
        BY <1>3, <2>4, <3>1, <3>4, <4>1 DEF PlaceInRound
      <4> QED BY <2>4, <4>2
    <3>5. ASSUME NEW i \in Orders(w)'
          PROVE  /\ pc'[w] \in WaitPoint /\ Reached(w) = j
                 /\ Number(toWorker'[w][i].type) = j \/ (j = 7 /\ restarts > 0)
                 /\ Number(toWorker'[w][i].type) = j => \A k \in Orders(w)' : k <= i
      <4>1. p \in WaitPoint
        BY <1>3, <3>4, <3>5
      <4>2. \A k \in Orders(w)' : k \in Nat /\ k + 1 \in Orders(w)
        BY <2>4
      <4> QED BY <1>3, <2>4, <3>1, <3>5, <4>1, <4>2 DEF PlaceInRound
    <3> QED BY <1>2, <1>3, <2>2, <3>1, <3>3, <3>4, <3>5, ClientMoves
  <2>6. ASSUME Back
        PROVE  ClientBack(w)'
    <3>1. ClientBack(w) /\ PlaceBack(w) /\ ReportsBack(w)
      BY <1>2, <2>6 DEF Back, ClientBack
    <3>2. ReportsBack(w)'
      BY <2>2, <3>1 DEF ReportsBack, SameReports
    <3>3. pc'[w] \notin {"drained", "writing", "resuming"}
      <4>1. CASE p \in WaitPoint
        BY <1>3, <3>1, <4>1 DEF PlaceBack
      <4>2. CASE p \in WorkPoint
        <5>1. Reached(w) \in 3 .. 7 /\ 1 \in Orders(w)
          BY <1>3, <2>4, <3>1, <4>2 DEF PlaceBack
        <5>2. Reached(w)' \in 4 .. 6
          BY <1>3, <2>4, <3>1, <4>2, <5>1 DEF PlaceBack
        <5> QED BY <5>2 DEF Reached
      <4> QED BY <1>3, <4>1, <4>2
    <3>4. /\ Suspends(w)' = {}
          /\ \A i \in Orders(w)' : Number(toWorker'[w][i].type) \in 4 .. 6
      BY <2>4, <3>1 DEF PlaceBack, FewerOrders
    <3>5. PlaceBack(w)'
      BY <1>3, <2>2, <3>1, <3>3, <3>4 DEF PlaceBack, SameReports
    <3> QED BY <3>2, <3>5 DEF ClientBack
  <2> QED BY <2>1, <2>2, <2>3, <2>5, <2>6, ImagesKept, StepOfOne DEF diskVars
<1>4. CASE Expected(w, m) /\ Move(w, WorkAfter(pc[w])) /\ Consume(w) /\ UNCHANGED parent
  <2>1. /\ WorkAfter(pc[w]) \in WorkPoint /\ WorkAfter(pc[w]) \notin WaitPoint
        /\ Number(Awaited(pc[w])) = Reached(w) /\ m.type = Awaited(pc[w])
    BY <1>1, <1>4 DEF WaitPoint, WorkPoint, WorkAfter, Awaited, Number, Reached, Expected
  <2>2. /\ pc'[w] = WorkAfter(pc[w]) /\ \A v \in Worker \ {w} : pc'[v] = pc[v]
    BY <1>4 DEF Move, DiskInv, TypeOK, WorkerTypeOK
  <2>3. Reached(w)' = Reached(w)
    BY <1>1, <2>2 DEF WaitPoint, WorkAfter, Reached
  <2> QED BY <1>3, <1>4, <2>1, <2>2, <2>3
<1>5. CASE Skipped(w, m) /\ Consume(w) /\ UNCHANGED <<pc, parent>>
  <2>1. /\ Reached(w)' = Reached(w) /\ pc[w] \notin WorkPoint
    BY <1>1, <1>5 DEF Reached, WaitPoint, WorkPoint
  <2> QED BY <1>1, <1>3, <1>5, <2>1
<1>6. CASE Die(w, "dead") \/ Die(w, "abort")
  <2>1. UNCHANGED wCohort
    BY <1>6, <1>1 DEF WaitForCoordinatorMsg, Die, Move, WaitPoint, WorkAfter
  <2> QED BY <1>1, <1>6, <2>1, DeathRound DEF DeadPoint, identityVars, envVars
<1> QED BY <1>4, <1>5, <1>6 DEF WaitForCoordinatorMsg

\* A restarted process asks for the addresses of its peers, and gets them.
LEMMA QueriesRound ==
  ASSUME DiskInv, RoundInv, NEW w \in Worker, SendQueries(w) \/ QueryAnswered(w),
         CoordinatorKept, UNCHANGED <<diskVars, envVars>>
  PROVE  RoundInv'
<1>1. /\ pc[w] \in {"querying", "asking"}
      /\ UNCHANGED <<coord, backlog, identityVars>>
  BY DEF SendQueries, QueryAnswered
<1>2. /\ Alive(w) /\ pc[w] # "hello" /\ w \in clients /\ parent[w] = Nobody
      /\ pc \in [Worker -> Point] /\ "DONE_QUERYING" \in WorkerState
  <2>1. Alive(w) /\ pc[w] # "hello"
    BY <1>1 DEF Alive, DeadPoint
  <2> QED BY <2>1, BeyondHello, StateNames DEF DiskInv, TypeOK, WorkerTypeOK
<1>3. ASSUME Send(w, <<Ok("DONE_QUERYING")>>), Move(w, "queried"), UNCHANGED parent,
             FewerOrders(w), \A v \in Worker \ {w} : toWorker'[v] = toWorker[v]
      PROVE  RoundInv'
  <2>1. Adds(w, "DONE_QUERYING") /\ \A v \in Worker \ {w} : toCoord'[v] = toCoord[v]
    BY <1>2, <1>3, SendsOk
  <2>2. /\ Reached(w) = 5 /\ Reached(w)' = 6 /\ Level("DONE_QUERYING") = 6
        /\ "queried" \in WaitPoint /\ pc[w] \in WorkPoint /\ pc[w] # "resuming"
    BY <1>1, <1>2, <1>3 DEF Reached, Move, Level, WaitPoint, WorkPoint
  <2> QED BY <1>1, <1>2, <1>3, <2>1, <2>2, ImagesKept, ReportStep
          DEF diskVars, identityVars
<1>4. CASE Send(w, <<Ok("DONE_QUERYING")>>) /\ Move(w, "queried")
           /\ UNCHANGED <<parent, toWorker>>
  BY <1>3, <1>4, ChannelsKept
<1>5. CASE /\ pc[w] = "querying"
           /\ \E k \in wCohort[w] \ {w} : Send(w, <<Query(k)>>)
           /\ Move(w, "asking") /\ UNCHANGED <<parent, toWorker>>
  <2>1. PICK k \in Worker : Send(w, <<Query(k)>>)
    BY <1>5 DEF DiskInv, TypeOK, WorkerTypeOK
  <2>2. SameReports(w) /\ \A v \in Worker \ {w} : toCoord'[v] = toCoord[v]
    <3>1. Query(k) \in ToCoordMsg /\ Query(k).type # "OK"
      BY ReportTypes DEF Query
    <3>2. <<Query(k)>> \in Seq(ToCoordMsg) /\ <<Query(k)>> # <<>>
          /\ Len(<<Query(k)>>) = 1 /\ <<Query(k)>>[Len(<<Query(k)>>)] = Query(k)
      BY <3>1
    <3>3. \A i \in 1 .. Len(<<Query(k)>>) - 1 : <<Query(k)>>[i].type # "OK"
      BY <3>2
    <3> QED BY <2>1, <3>1, <3>2, <3>3, SendsReport
  <2>3. /\ \A v \in Worker \ {w} : Untouched(v)
        /\ pc'[w] = "asking" /\ Alive(w)' /\ SameOrders(w) /\ SameCheckpoint
        /\ clients' = clients /\ cstate'[w] = cstate[w]
        /\ Reached(w) = 5 /\ Reached(w)' = 5
    BY <1>1, <1>2, <1>5, <2>2, ChannelsKept
       DEF Untouched, Move, Alive, DeadPoint, CoordinatorKept, SameCheckpoint,
           envVars, Reached, identityVars
  <2>4. ConnectionOf(w)' /\ HelloOf(w)'
    BY <1>1, <1>2, <1>5, <2>2, <2>3, ClientGoesOn DEF envVars, identityVars
  <2>5. ASSUME NEW j \in 0 .. 7, Round(j)
        PROVE  ClientInRound(w, j)'
    <3>1. /\ PlaceInRound(w, j) /\ SuspendInRound(w, j) /\ ClientInRound(w, j)
      BY <1>2, <2>5, AliveInRound
    <3>2. j = 5 /\ Orders(w)' = {} /\ Suspends(w)' = {}
      BY <1>5, <2>3, <3>1
         DEF PlaceInRound, SuspendInRound, WorkPoint, WaitPoint, SameOrders
    <3>3. SuspendInRound(w, j)'
      BY <2>3, <3>2 DEF SuspendInRound
    <3> QED BY <1>2, <2>2, <2>3, <3>1, <3>2, <3>3, ClientMoves
  <2>6. Back => ClientBack(w)'
    BY <1>2, <2>2, <2>3
       DEF Back, ClientBack, ReportsBack, PlaceBack, SameReports, SameOrders
  <2> QED BY <2>3, <2>4, <2>5, <2>6, ImagesKept, StepOfOne DEF diskVars
<1>6. CASE QueryAnswered(w)
  <2>1. CASE /\ Received(w).type = "NAME_SERVICE_QUERY_RESPONSE"
             /\ Move(w, "queried") /\ Consume(w) /\ Receives(w)
             /\ Send(w, <<Ok("DONE_QUERYING")>>) /\ UNCHANGED parent
    BY <1>3, <2>1, TakesOrder
  <2>2. CASE Die(w, "abort") /\ UNCHANGED toCoord
    BY <1>1, <2>2, DeathRound DEF DeadPoint, envVars
  <2> QED BY <1>6, <2>1, <2>2 DEF QueryAnswered
<1> QED BY <1>4, <1>5, <1>6 DEF SendQueries, identityVars

\* A process is turned away, exits, crashes or loses the coordinator.
LEMMA EndRound ==
  ASSUME DiskInv, RoundInv, NEW w \in Worker,
         TurnedAway(w) \/ CoordinatorLost(w) \/ Exit(w) \/ Crash(w),
         CoordinatorKept, UNCHANGED <<diskVars, restarts>>
  PROVE  RoundInv'
<1>1. PICK v : Die(v, "dead")
  BY DEF TurnedAway, CoordinatorLost, Exit, Crash
<1>2. UNCHANGED <<coord, backlog, identityVars, toCoord>>
  BY DEF TurnedAway, CoordinatorLost, Exit, Crash
<1> QED BY <1>1, <1>2, DeathRound DEF DeadPoint

\* A process that connects: its channel holds nothing but its hello.
LEMMA ConnectionRound ==
  ASSUME DiskInv, RoundInv, NEW w \in Worker, w \notin clients, ~Alive(w),
         NEW hello \in ToCoordMsg, hello.type = "HELLO_COORDINATOR", Connect(w, hello),
         Move(w, "hello"), CoordinatorKept,
         UNCHANGED <<images, restarts>>, restarting' \subseteq restarting,
         toWorker'[w] = <<>>,
         hello.state = "RESTARTING" => restarts > 0 /\ hello.comp # Nobody,
         hello.state = "RESTARTING" <=> fromImage'[w] # 0,
         parent'[w] # Nobody => fromImage'[w] = 0,
         \A v \in Worker \ {w} :
           /\ parent'[v] = parent[v] /\ fromImage'[v] = fromImage[v]
           /\ wComp'[v] = wComp[v] /\ wGen'[v] = wGen[v]
           /\ toWorker'[v] = toWorker[v]
  PROVE  RoundInv'
<1>1. /\ toCoord'[w] = <<hello>> /\ backlog' = backlog \cup {w} /\ pc'[w] = "hello"
      /\ \A v \in Worker \ {w} : toCoord'[v] = toCoord[v] /\ pc'[v] = pc[v]
  BY DEF Connect, Move, DiskInv, TypeOK, NetTypeOK, WorkerTypeOK
<1>2. /\ \A v \in Worker \ {w} : Untouched(v)
      /\ SameCheckpoint /\ clients' = clients
  BY <1>1 DEF Untouched, SameCheckpoint, CoordinatorKept
<1>3. Reports(w)' = {} /\ Head(toCoord'[w]) = hello
  <2>1. Len(<<hello>>) = 1 /\ <<hello>>[1] = hello /\ Head(<<hello>>) = hello
    OBVIOUS
  <2>2. \A i \in 1 .. 1 : <<hello>>[i].type # "OK"
    BY <2>1
  <2> QED BY <1>1, <2>1, <2>2 DEF Reports
<1>4. ConnectionOf(w)'
  BY <1>1, <1>2, <1>3 DEF ConnectionOf
<1>5. HelloOf(w)'
  BY <1>1, <1>3 DEF HelloOf
<1> QED BY <1>2, <1>4, <1>5, ImagesKept, StepOfOne

\* A process is launched, begins a fork, exits or crashes.
LEMMA UserProcessRound ==
  ASSUME DiskInv, RoundInv, NEW w \in Worker, UserProcessStep(w)
  PROVE  RoundInv'
<1>1. CoordinatorKept /\ UNCHANGED <<diskVars, commands, restarts>>
  BY DEF UserProcessStep
<1>2. ASSUME NEW c \in Worker, pc[c] = "unborn"
      PROVE  /\ c \notin clients /\ ~Alive(c) /\ toWorker[c] = <<>> /\ fromImage[c] = 0
  BY <1>2 DEF DiskInv, HelloFirst, RoundInv, Connected, ConnectionOf, RestoredHello,
     HelloOf, Alive
<1>3. CASE Launch(w)
  <2> DEFINE hello == Hello("UNKNOWN", Nobody, 0, {})
  <2>1. hello \in ToCoordMsg /\ hello.type = "HELLO_COORDINATOR"
        /\ hello.state = "UNKNOWN"
    <3>1. hello \in ToCoordMsg
      BY BoundAssumption, ReportTypes DEF Group, Generation
    <3> QED BY <3>1 DEF Hello
  <2>2. /\ pc[w] = "unborn" /\ Connect(w, hello) /\ Move(w, "hello")
        /\ UNCHANGED <<parent, identityVars, toWorker>>
    BY <1>3 DEF Launch
  <2> HIDE DEF hello
  <2> QED BY <1>1, <1>2, <2>1, <2>2, ConnectionRound DEF diskVars, identityVars
<1>4. ASSUME NEW c \in Worker, BeginFork(w, c)
      PROVE  RoundInv'
  <2> DEFINE hello == Hello("RUNNING", Nobody, 0, {})
  <2>1. hello \in ToCoordMsg /\ hello.type = "HELLO_COORDINATOR"
        /\ hello.state = "RUNNING"
    <3>1. hello \in ToCoordMsg
      BY BoundAssumption, ReportTypes DEF Group, Generation
    <3> QED BY <3>1 DEF Hello
  <2>2. /\ pc[c] = "unborn" /\ Connect(c, hello) /\ Move(c, "hello")
        /\ UNCHANGED <<identityVars, toWorker>>
        /\ parent' = [parent EXCEPT ![c] = w]
    BY <1>4 DEF BeginFork
  <2>3. \A v \in Worker \ {c} : parent'[v] = parent[v]
    BY <2>2 DEF DiskInv, TypeOK, WorkerTypeOK
  <2> HIDE DEF hello
  <2> QED BY <1>1, <1>2, <2>1, <2>2, <2>3, ConnectionRound DEF diskVars, identityVars
<1> QED BY <1>1, <1>3, <1>4, EndRound DEF UserProcessStep

\* A process is restored from its image.
LEMMA RestartRound ==
  ASSUME DiskInv, RoundInv, NEW f \in FileName, RestartStep(f)
  PROVE  RoundInv'
<1>1. PICK w \in Worker : w = f[1]
  BY DEF FileName
<1>2. PICK image \in Image : image = images[f] /\ f \in DOMAIN images
  BY DEF RestartStep, RestartProcess, DiskInv, FilesOnDisk, TypeOK, DiskTypeOK
<1>3. PICK hello : hello = Hello("RESTARTING", image.comp, image.gen, image.cohort)
  OBVIOUS
<1>4. /\ f \in restarting /\ Gone(w) /\ restarting' = restarting \ {f}
      /\ Connect(w, hello) /\ Move(w, "hello")
      /\ wComp' = [wComp EXCEPT ![w] = image.comp]
      /\ wGen' = [wGen EXCEPT ![w] = image.gen]
      /\ fromImage' = [fromImage EXCEPT ![w] = image.gen]
      /\ toWorker' = [toWorker EXCEPT ![w] = <<>>]
      /\ UNCHANGED <<coord, unannounced, parent, images, script>>
      /\ CoordinatorKept /\ UNCHANGED envVars
  BY <1>1, <1>2, <1>3 DEF RestartStep, RestartProcess
<1>5. /\ hello \in ToCoordMsg /\ hello.type = "HELLO_COORDINATOR"
      /\ hello.state = "RESTARTING" /\ hello.comp = image.comp
  <2>1. hello \in ToCoordMsg
    BY <1>3, ReportTypes DEF Image
  <2> QED BY <1>3, <2>1 DEF Hello
<1>6. /\ w \notin clients /\ ~Alive(w) /\ parent[w] = Nobody
      /\ restarts > 0 /\ image.comp # Nobody /\ image.gen # 0
  <2>1. w \notin clients /\ ~Alive(w) /\ pc[w] # "hello"
    BY <1>4 DEF Gone, Dead, Alive, DeadPoint
  <2> QED BY <1>2, <1>4, <2>1 DEF RoundInv, RestoredHello, HelloOf
<1>7. /\ toWorker'[w] = <<>> /\ fromImage'[w] = image.gen
      /\ \A v \in Worker \ {w} :
           /\ parent'[v] = parent[v] /\ fromImage'[v] = fromImage[v]
           /\ wComp'[v] = wComp[v] /\ wGen'[v] = wGen[v]
           /\ toWorker'[v] = toWorker[v]
  BY <1>4 DEF DiskInv, TypeOK, WorkerTypeOK, NetTypeOK
<1> QED BY <1>4, <1>5, <1>6, <1>7, ConnectionRound DEF envVars

\* The script is run when nobody is left.
LEMMA RunScriptRound ==
  ASSUME DiskInv, RoundInv, RunScript
  PROVE  RoundInv'
<1>1. /\ \A w \in Worker : ~Alive(w)
      /\ restarts' = restarts + 1
      /\ UNCHANGED coordVars /\ UNCHANGED workerVars /\ UNCHANGED netVars
      /\ UNCHANGED images
  BY DEF RunScript
<1>2. /\ restarts \in Nat /\ restarts' \in Nat /\ restarts' > 0 /\ restarts' >= restarts
      /\ clients \subseteq Worker
  BY <1>1, BoundAssumption DEF DiskInv, TypeOK, EnvTypeOK, CoordTypeOK
<1>3. \A v \in Worker : Untouched(v) /\ ~Alive(v)'
  BY <1>1 DEF Untouched, coordVars, workerVars, netVars, Alive
<1>4. Connected' /\ RestoredHello'
  <2>1. \A v \in Worker : ConnectionOf(v)' /\ HelloOf(v)'
    BY <1>2, <1>3, UntouchedKeeps DEF RoundInv, Connected, RestoredHello
  <2> QED BY <1>1, <1>2, <2>1 DEF RoundInv, Connected, RestoredHello, coordVars
<1>5. \A v \in clients : SameReports(v) /\ cstate'[v] = cstate[v]
  BY <1>2, <1>3, UntouchedKeeps DEF Untouched
<1>6. \A j \in 0 .. 7 : Round(j) => Round(j)'
  BY <1>1, <1>2, <1>3, <1>5, ClientEnded DEF Round, coordVars
<1>7. Back => Back'
  BY <1>1, <1>2, <1>3, <1>5, ClientEnded DEF Back, coordVars
<1> QED BY <1>4, <1>6, <1>7 DEF RoundInv

-----------------------------------------------------------------------------
(* The coordinator reads a message of a client. *)

\* The head of a client's channel is taken: a report becomes its state.
LEMMA ReportsTaken ==
  ASSUME DiskInv, NEW w \in Worker, HelloOf(w), toCoord[w] # <<>>,
         toCoord' = [toCoord EXCEPT ![w] = Tail(@)],
         cstate'[w] = IF Head(toCoord[w]).type = "OK" THEN Head(toCoord[w]).state
                      ELSE cstate[w]
  PROVE  /\ \A j \in 0 .. 7 : ReportsInRound(w, j) =>
              ReportsInRound(w, j)' /\ (Told(w, j)' <=> Told(w, j))
         /\ ReportsBack(w) =>
              /\ ReportsBack(w)'
              /\ \A n \in 3 .. 7 :
                   Level(cstate[w]) <= n /\ (\A i \in Reports(w) : Said(w, i) <= n)
                   => /\ Level(cstate'[w]) <= n
                      /\ \A i \in Reports(w)' : Said(w, i)' <= n
         /\ \A i \in Reports(w)' : toCoord'[w][i].state # "RESTARTING"
<1> DEFINE head == Head(toCoord[w])
<1>1. /\ \A i \in Reports(w)' : /\ i \in Nat \ {0} /\ i + 1 \in Reports(w)
                                /\ Said(w, i)' = Said(w, i + 1)
                                /\ toCoord'[w][i].state = toCoord[w][i + 1].state
      /\ \A i \in Reports(w) :
           i = 1 \/ (i - 1 \in Reports(w)' /\ Said(w, i - 1)' = Said(w, i))
      /\ 1 \in Reports(w) <=> head.type = "OK"
      /\ Said(w, 1) = Level(head.state)
  BY TakesReport
<1>2. /\ \A i \in Reports(w) : i \in Nat \ {0} /\ toCoord[w][i].state # "RESTARTING"
      /\ head.type = "OK" => head.state # "RESTARTING"
  <2>1. toCoord[w] \in Seq(ToCoordMsg)
    BY Positions
  <2>2. toCoord[w][1] = head
    BY <2>1
  <2> QED BY <1>1, <2>2, Positions DEF HelloOf
<1> HIDE DEF head
<1>3. /\ head.type = "OK" => cstate'[w] = head.state
      /\ head.type # "OK" => cstate'[w] = cstate[w]
  BY DEF head
<1>4. ASSUME NEW j \in 0 .. 7, ReportsInRound(w, j)
      PROVE  ReportsInRound(w, j)' /\ (Told(w, j)' <=> Told(w, j))
  <2>1. /\ Level(cstate[w]) \in {j, After(j)} /\ cstate[w] # "RESTARTING"
        /\ \A i \in Reports(w) :
             /\ Said(w, i) \in {j, After(j)}
             /\ Level(cstate[w]) = After(j) => Said(w, i) = After(j)
        /\ \A i, k \in Reports(w) :
             i < k /\ Said(w, i) = After(j) => Said(w, k) = After(j)
        /\ After(j) # j
    BY <1>4 DEF ReportsInRound, After
  <2>2. CASE head.type = "OK"
    <3>1. /\ Level(cstate'[w]) = Said(w, 1) /\ 1 \in Reports(w)
          /\ cstate'[w] # "RESTARTING"
      BY <1>1, <1>2, <1>3, <2>2
    <3>2. \A i \in Reports(w)' : 1 < i + 1
      BY <1>1, <1>2
    <3>3. ReportsInRound(w, j)'
      BY <1>1, <2>1, <3>1, <3>2 DEF ReportsInRound
    <3>4. Told(w, j)' <=> Told(w, j)
      <4>1. Told(w, j) => Told(w, j)'
        BY <1>1, <2>1, <3>1 DEF Told
      <4>2. Told(w, j)' => Told(w, j)
        BY <1>1, <2>1, <3>1 DEF Told
      <4> QED BY <4>1, <4>2
    <3> QED BY <3>3, <3>4
  <2>3. CASE head.type # "OK"
    <3>1. ReportsInRound(w, j)'
      BY <1>1, <1>3, <2>1, <2>3 DEF ReportsInRound
    <3>2. Told(w, j)' <=> Told(w, j)
      BY <1>1, <1>3, <2>1, <2>3 DEF Told
    <3> QED BY <3>1, <3>2
  <2> QED BY <2>2, <2>3
<1>5. ASSUME ReportsBack(w)
      PROVE  /\ ReportsBack(w)'
             /\ \A n \in 3 .. 7 :
                  Level(cstate[w]) <= n /\ (\A i \in Reports(w) : Said(w, i) <= n)
                  => /\ Level(cstate'[w]) <= n
                     /\ \A i \in Reports(w)' : Said(w, i)' <= n
  <2>1. /\ cstate[w] # "DRAINED" /\ Level(cstate[w]) \in 3 .. 7
        /\ \A i \in Reports(w) :
             Said(w, i) \in 4 .. 7 /\ Level(cstate[w]) <= Said(w, i)
        /\ \A i, k \in Reports(w) : i < k => Said(w, i) <= Said(w, k)
    BY <1>5 DEF ReportsBack
  <2>2. CASE head.type = "OK"
    <3>1. Level(cstate'[w]) = Said(w, 1) /\ 1 \in Reports(w)
      BY <1>1, <1>3, <2>2
    <3>2. cstate'[w] # "DRAINED"
      BY <2>1, <3>1 DEF Level
    <3>3. \A i \in Reports(w)' : 1 < i + 1
      BY <1>1, <1>2
    <3> QED BY <1>1, <2>1, <3>1, <3>2, <3>3 DEF ReportsBack
  <2>3. CASE head.type # "OK"
    BY <1>1, <1>3, <2>1, <2>3 DEF ReportsBack
  <2> QED BY <2>2, <2>3
<1>6. \A i \in Reports(w)' : toCoord'[w][i].state # "RESTARTING"
  BY <1>1, <1>2
<1> QED BY <1>4, <1>5, <1>6

\* A client the coordinator has read from or written to.
LEMMA ClientServed ==
  ASSUME DiskInv, RoundInv, NEW v \in clients, v \in Worker,
         clients' = clients, backlog' = backlog, UNCHANGED workerVars,
         restarts' = restarts,
         \A i \in Reports(v)' : i + 1 \in Reports(v) \/ i \in Reports(v),
         \A i \in Reports(v)' : toCoord'[v][i].state # "RESTARTING",
         ~Alive(v) => toWorker'[v] = toWorker[v]
  PROVE  ConnectionOf(v)' /\ HelloOf(v)'
<1>1. v \notin backlog /\ ConnectionOf(v) /\ HelloOf(v)
  BY DEF DiskInv, HelloFirst, RoundInv, Connected, RestoredHello
<1>2. Alive(v)' = Alive(v) /\ pc' = pc /\ parent' = parent /\ fromImage' = fromImage
  BY DEF Alive, workerVars
<1>3. ConnectionOf(v)'
  BY <1>1, <1>2 DEF ConnectionOf
<1>4. HelloOf(v)'
  BY <1>1, <1>2 DEF HelloOf
<1> QED BY <1>3, <1>4

\* A client in the round it was in, whatever its channel has lost.
LEMMA PlaceKept ==
  ASSUME NEW v, NEW j, ClientInRound(v, j), SameCheckpoint, SamePlace(v), SameOrders(v),
         ReportsInRound(v, j)', Told(v, j)' <=> Told(v, j)
  PROVE  ClientInRound(v, j)'
<1>1. Alive(v)' = Alive(v) /\ Reached(v)' = Reached(v)
  BY DEF Alive, Reached, SamePlace
<1>2. Alive(v) => PlaceInRound(v, j)'
  BY <1>1 DEF ClientInRound, PlaceInRound, SameOrders, SamePlace, SameCheckpoint
<1>3. Alive(v) => SuspendInRound(v, j)'
  BY <1>1 DEF ClientInRound, SuspendInRound, SameOrders, SamePlace, SameCheckpoint
<1> QED BY <1>1, <1>2, <1>3 DEF ClientInRound, SameCheckpoint

\* Messages other than reports: a file name, an address, a query.
LEMMA OnDataRound ==
  ASSUME DiskInv, RoundInv, NEW w \in Worker,
         OnCkptFilename(w) \/ OnRegister(w) \/ OnQuery(w)
  PROVE  RoundInv'
<1>1. /\ w \in clients /\ toCoord[w] # <<>> /\ Head(toCoord[w]).type # "OK"
      /\ toCoord' = [toCoord EXCEPT ![w] = Tail(@)]
      /\ UNCHANGED <<backlog, clients, cstate, suspendSent, compId, generation,
                     images, restarting, restarts>>
      /\ UNCHANGED workerVars
  BY DEF OnCkptFilename, OnRegister, OnQuery, Arrives, Readable, diskVars, envVars
<1>2. /\ \A v \in Worker : SameOrders(v)
      /\ \A v \in Worker : v # w \/ ~Alive(v) => toWorker'[v] = toWorker[v]
  <2>1. CASE toWorker' = toWorker
    BY <2>1, ChannelsKept
  <2>2. CASE toWorker' = Post(toWorker, {w}, Plain("NAME_SERVICE_QUERY_RESPONSE"))
    <3>1. /\ Number(Plain("NAME_SERVICE_QUERY_RESPONSE").type) = 0
          /\ Plain("NAME_SERVICE_QUERY_RESPONSE").type # "DO_SUSPEND"
      BY DEF Plain, Number
    <3>2. \A v \in Worker : SameOrders(v)
      BY <2>2, <3>1, PostQuiet
    <3> QED BY <2>2, <3>2 DEF Post
  <2> QED BY <2>1, <2>2 DEF OnCkptFilename, OnRegister, OnQuery
<1>3. /\ \A v \in Worker : HelloOf(v) /\ SamePlace(v)
      /\ SameCheckpoint /\ clients \subseteq Worker
  BY <1>1 DEF RoundInv, RestoredHello, SamePlace, SameCheckpoint, workerVars,
     DiskInv, TypeOK, CoordTypeOK
<1>4. \A v \in Worker \ {w} : Untouched(v)
  BY <1>1, <1>2, TakesReport DEF Untouched, workerVars
<1>5. ConnectionOf(w)' /\ HelloOf(w)'
  <2>1. \A i \in Reports(w)' : i + 1 \in Reports(w)
    BY <1>1, TakesReport
  <2>2. \A i \in Reports(w)' : toCoord'[w][i].state # "RESTARTING"
    BY <1>1, <1>3, ReportsTaken
  <2> QED BY <1>1, <1>2, <2>1, <2>2, ClientServed
<1>6. ASSUME NEW j \in 0 .. 7, Round(j)
      PROVE  ClientInRound(w, j)'
  <2>1. ClientInRound(w, j) /\ ReportsInRound(w, j)
    BY <1>1, <1>6 DEF Round, ClientInRound
  <2>2. ReportsInRound(w, j)' /\ (Told(w, j)' <=> Told(w, j))
    BY <1>1, <1>3, <2>1, ReportsTaken
  <2> QED BY <1>2, <1>3, <2>1, <2>2, PlaceKept
<1>7. ASSUME Back
      PROVE  ClientBack(w)'
  <2>1. ClientBack(w) /\ ReportsBack(w)
    BY <1>1, <1>7 DEF Back, ClientBack
  <2>2. /\ ReportsBack(w)' /\ SameOrders(w)
        /\ Alive(w)' = Alive(w) /\ Reached(w)' = Reached(w) /\ pc' = pc
    BY <1>1, <1>2, <1>3, <2>1, ReportsTaken DEF Alive, Reached, workerVars
  <2>3. ASSUME Alive(w)
        PROVE  PlaceBack(w)'
    <3>1. PlaceBack(w) /\ Reached(w) \in 3 .. 7
      BY <2>1, <2>3 DEF ClientBack, PlaceBack
    <3>2. \A i \in Reports(w)' : Said(w, i)' <= Reached(w)
      BY <1>1, <1>3, <2>1, <3>1, ReportsTaken DEF PlaceBack
    <3> QED BY <1>1, <2>2, <3>1, <3>2 DEF PlaceBack, SameOrders
  <2> QED BY <2>2, <2>3 DEF ClientBack
<1> QED BY <1>1, <1>3, <1>4, <1>5, <1>6, <1>7, ImagesKept, StepOfOne

-----------------------------------------------------------------------------
(* updateMinimumState: how one round follows another. *)

\* The message that opens the next barrier, or none, reaches every client.
LEMMA UpdateRound ==
  ASSUME DiskInv, NEW C \in SUBSET clients, C # {}, clients' = C, clients \subseteq Worker,
         cstate' \in [Worker -> WorkerState], NEW old \in WorkerState,
         UpdateMinimumState(old, C, cstate'),
         UNCHANGED <<compId, generation, restarts>>, UNCHANGED workerVars,
         NEW j \in 0 .. 7, Round(j), Level(old) \in {j, After(j)},
         \A v \in C : ReportsInRound(v, j)' /\ (Told(v, j)' <=> Told(v, j))
  PROVE  \E k \in 0 .. 7 : Round(k)'
<1>1. /\ C \in SUBSET Worker
      /\ \A v \in C : ClientInRound(v, j) /\ SamePlace(v)
      /\ \A v \in C : Alive(v)' = Alive(v) /\ Reached(v)' = Reached(v)
  BY DEF Round, SamePlace, workerVars, Alive, Reached
<1>2. PICK t : t = BarrierMessage(old, MinimumState(C, cstate'))
  OBVIOUS
<1>3. CASE t = "none"
  <2>1. toWorker' = toWorker /\ suspendSent' = suspendSent
    BY <1>2, <1>3 DEF UpdateMinimumState, WriteRestartScript, DiskInv, TypeOK, CoordTypeOK
  <2>2. \A v \in C : SameOrders(v) /\ SameCheckpoint
    BY <2>1, ChannelsKept DEF SameCheckpoint
  <2>3. \A v \in C : ClientInRound(v, j)'
    BY <1>1, <2>2, PlaceKept
  <2> QED BY <2>1, <2>3 DEF Round
<1>4. CASE t # "none"
  <2>1. /\ Number(t) \in 1 .. 7 /\ t # "DO_SUSPEND"
        /\ Number(t) = 1 <=> t = "DO_FD_LEADER_ELECTION"
        /\ Level(LowestState(C, cstate')) = Number(t)
        /\ Level(old) = Number(t) - 1
    BY <1>1, <1>2, <1>4, BarrierOpens
  <2>2. /\ \E v \in C : Level(cstate'[v]) = Number(t)
        /\ \A v \in C : Number(t) <= Level(cstate'[v])
    BY <1>1, <2>1, LowestAttained
  <2>3. \A v \in C : Level(cstate'[v]) \in {j, After(j)}
    BY DEF ReportsInRound
  <2>4. j < 7 /\ Number(t) = j + 1 /\ \A v \in C : Level(cstate'[v]) = j + 1
    BY <2>1, <2>2, <2>3 DEF After
  <2>5. suspendSent' = FALSE
    <3>1. suspendSent' = (suspendSent /\ t # "DO_FD_LEADER_ELECTION")
      BY <1>2 DEF UpdateMinimumState, WriteRestartScript
    <3>2. j # 0 => ~suspendSent
      BY DEF Round
    <3>3. j = 0 => t = "DO_FD_LEADER_ELECTION"
      BY <2>1, <2>4
    <3> QED BY <3>1, <3>2, <3>3, Zenon
  <2>6. PICK m : m.type = t /\ toWorker' = Post(toWorker, C, m)
    <3>1. DoElection(compId, C).type = "DO_FD_LEADER_ELECTION" /\ Plain(t).type = t
      BY DEF DoElection, Plain
    <3> QED BY <1>2, <1>4, <3>1 DEF UpdateMinimumState, WriteRestartScript
  <2>7. ASSUME NEW v \in C
        PROVE  ClientInRound(v, j + 1)'
    <3>1. /\ Level(cstate'[v]) = j + 1 /\ After(j) = j + 1 /\ After(j + 1) # j + 1
          /\ ReportsInRound(v, j)' /\ Told(v, j)
      <4>1. After(j) = j + 1 /\ After(j + 1) # j + 1
        BY <2>4 DEF After
      <4> QED BY <2>4, <4>1 DEF Told
    <3>2. \A i \in Reports(v)' : Said(v, i)' = j + 1
      BY <3>1 DEF ReportsInRound
    <3>3. ReportsInRound(v, j + 1)' /\ ~Told(v, j + 1)'
      BY <3>1, <3>2 DEF ReportsInRound, Told
    <3>4. ASSUME Alive(v)
          PROVE  PlaceInRound(v, j + 1)' /\ SuspendInRound(v, j + 1)'
      <4>1. /\ PlaceInRound(v, j) /\ SuspendInRound(v, j)
            /\ Reached(v) = j + 1 /\ fromImage' = fromImage /\ pc' = pc
            /\ wComp' = wComp /\ wGen' = wGen
        BY <1>1, <3>1, <3>4 DEF ClientInRound, PlaceInRound, workerVars
      <4>2. Orders(v) = {} /\ Suspends(v) = {}
        <5>1. pc[v] \notin {"hello", "run"}
          BY <2>4, <4>1 DEF PlaceInRound, Reached
        <5> QED BY <3>1, <4>1, <5>1 DEF PlaceInRound, SuspendInRound
      <4>3. Writes(v, m)
        BY <1>1, <2>6, <3>4, PostWrites
      <4>4. PICK n \in Nat :
              toWorker'[v][n] = m /\ Orders(v)' = {n} /\ Suspends(v)' = {}
        BY <2>1, <2>6, <4>2, <4>3 DEF Writes
      <4>5. pc[v] \in WaitPoint /\ pc[v] \notin WorkPoint /\ pc[v] # "hello"
            /\ pc[v] # "locking"
        BY <2>4, <3>1, <4>1 DEF PlaceInRound, Reached, WaitPoint, WorkPoint
      <4>6. PlaceInRound(v, j + 1)'
        BY <1>1, <2>4, <2>6, <3>3, <4>1, <4>4, <4>5 DEF PlaceInRound
      <4>7. SuspendInRound(v, j + 1)'
        BY <1>1, <4>1, <4>4, <4>5 DEF SuspendInRound
      <4> QED BY <4>6, <4>7
    <3> QED BY <1>1, <3>3, <3>4 DEF ClientInRound
  <2> QED BY <2>4, <2>5, <2>7 DEF Round
<1> QED BY <1>3, <1>4

\* A restored computation whose last client has refilled is in round 7.
LEMMA UpdateBack ==
  ASSUME DiskInv, NEW C \in SUBSET clients, C # {}, clients' = C, clients \subseteq Worker,
         cstate' \in [Worker -> WorkerState], NEW old \in WorkerState,
         UpdateMinimumState(old, C, cstate'),
         UNCHANGED <<compId, generation, restarts>>, UNCHANGED workerVars,
         Back, Level(old) \in 3 .. 7,
         \A v \in C : /\ ReportsBack(v)'
                      /\ Alive(v) => /\ Level(cstate'[v]) <= Reached(v)
                                     /\ \A i \in Reports(v)' : Said(v, i)' <= Reached(v)
  PROVE  Back' \/ Round(7)'
<1>1. /\ C \in SUBSET Worker
      /\ \A v \in C : ClientBack(v)
      /\ \A v \in C : Alive(v)' = Alive(v) /\ Reached(v)' = Reached(v)
      /\ pc' = pc /\ fromImage' = fromImage
  BY DEF Back, workerVars, Alive, Reached
<1>2. PICK t : t = BarrierMessage(old, MinimumState(C, cstate'))
  OBVIOUS
<1>3. ~suspendSent' /\ restarts' > 0
  <2>1. suspendSent' = (suspendSent /\ t # "DO_FD_LEADER_ELECTION")
    BY <1>2 DEF UpdateMinimumState, WriteRestartScript
  <2>2. ~suspendSent /\ restarts' > 0
    BY DEF Back
  <2> QED BY <2>1, <2>2, Zenon
<1>4. CASE t = "none"
  <2>1. toWorker' = toWorker
    BY <1>2, <1>4 DEF UpdateMinimumState, WriteRestartScript
  <2>2. \A v \in C : SameOrders(v)
    BY <2>1, ChannelsKept
  <2>3. ASSUME NEW v \in C
        PROVE  ClientBack(v)'
    <3>1. Alive(v) => PlaceBack(v)'
      BY <1>1, <2>2 DEF ClientBack, PlaceBack, SameOrders
    <3> QED BY <1>1, <3>1 DEF ClientBack
  <2> QED BY <1>3, <2>3 DEF Back
<1>5. CASE t # "none"
  <2>1. /\ Number(t) \in 4 .. 7 /\ t # "DO_SUSPEND"
        /\ Number(t) = 1 <=> t = "DO_FD_LEADER_ELECTION"
        /\ Level(LowestState(C, cstate')) = Number(t)
    BY <1>1, <1>2, <1>5, BarrierOpens
  <2>2. /\ \E v \in C : Level(cstate'[v]) = Number(t)
        /\ \A v \in C : Number(t) <= Level(cstate'[v])
    BY <1>1, <2>1, LowestAttained
  <2>3. PICK m : m.type = t /\ toWorker' = Post(toWorker, C, m)
    <3>1. DoElection(compId, C).type = "DO_FD_LEADER_ELECTION" /\ Plain(t).type = t
      BY DEF DoElection, Plain
    <3> QED BY <1>2, <1>5, <3>1 DEF UpdateMinimumState, WriteRestartScript
  <2>4. ASSUME NEW v \in C, Alive(v)
        PROVE  /\ PlaceBack(v)
               /\ Suspends(v)' = {}
               /\ \E n \in Nat : /\ toWorker'[v][n] = m /\ Orders(v)' = Orders(v) \cup {n}
                                 /\ \A i \in Orders(v) :
                                      i < n /\ toWorker'[v][i] = toWorker[v][i]
    <3>1. PlaceBack(v) /\ Suspends(v) = {}
      BY <1>1, <2>4 DEF ClientBack, PlaceBack
    <3>2. Writes(v, m)
      BY <1>1, <2>3, <2>4, PostWrites
    <3>3. Number(m.type) # 0 /\ m.type # "DO_SUSPEND"
      BY <2>1, <2>3
    <3> QED BY <3>1, <3>2, <3>3 DEF Writes
  <2>5. CASE Number(t) \in 4 .. 6
    <3>1. ASSUME NEW v \in C
          PROVE  ClientBack(v)'
      <4>1. ASSUME Alive(v)
            PROVE  PlaceBack(v)'
        <5>1. \A i \in Orders(v)' : Number(toWorker'[v][i].type) \in 4 .. 6
          BY <2>3, <2>4, <2>5, <4>1 DEF PlaceBack
        <5> QED BY <1>1, <2>4, <4>1, <5>1 DEF PlaceBack
      <4> QED BY <1>1, <4>1 DEF ClientBack
    <3> QED BY <1>3, <3>1 DEF Back
  <2>6. CASE Number(t) = 7
    <3>1. ASSUME NEW v \in C
          PROVE  ClientInRound(v, 7)'
      <4>1. /\ Level(cstate'[v]) = 7 /\ After(7) = 0 /\ cstate'[v] # "RESTARTING"
            /\ \A i \in Reports(v)' : Said(v, i)' = 7
        <5>1. ReportsBack(v)' /\ Level(cstate'[v]) = 7
          <6>1. Level(cstate'[v]) \in 3 .. 7 /\ 7 <= Level(cstate'[v])
            BY <2>2, <2>6 DEF ReportsBack
          <6> QED BY <6>1
        <5>2. cstate'[v] # "RESTARTING"
          BY <5>1 DEF Level
        <5>3. \A i \in Reports(v)' : Said(v, i)' = 7
          BY <5>1 DEF ReportsBack
        <5> QED BY <5>1, <5>2, <5>3 DEF After
      <4>2. ReportsInRound(v, 7)' /\ ~Told(v, 7)'
        BY <4>1 DEF ReportsInRound, Told
      <4>3. ASSUME Alive(v)
            PROVE  PlaceInRound(v, 7)' /\ SuspendInRound(v, 7)'
        <5>1. /\ PlaceBack(v) /\ Suspends(v)' = {}
              /\ Alive(v)' = Alive(v) /\ Reached(v)' = Reached(v)
          BY <1>1, <2>4, <4>3
        <5>2. Reached(v) = 7 /\ pc[v] = "refilled"
          <6>1. Reached(v) = 7
            BY <4>1, <4>3, <5>1 DEF PlaceBack
          <6> QED BY <5>1, <6>1 DEF PlaceBack, Reached
        <5>3. PICK n \in Nat :
                /\ toWorker'[v][n] = m /\ Orders(v)' = Orders(v) \cup {n}
                /\ \A i \in Orders(v) : i < n /\ toWorker'[v][i] = toWorker[v][i]
          BY <2>4, <4>3
        <5>4. \A i \in Orders(v) : Number(toWorker'[v][i].type) \in 4 .. 6
          BY <5>1, <5>3 DEF PlaceBack
        <5>5. \A i \in Orders(v)' : Number(toWorker'[v][i].type) = 7 =>
                \A k \in Orders(v)' : k <= i
          <6>1. Orders(v) \subseteq Nat
            BY <1>1, Positions
          <6> QED BY <5>3, <5>4, <6>1
        <5>6. "refilled" \in WaitPoint /\ "refilled" \notin WorkPoint
          BY DEF WaitPoint, WorkPoint
        <5>7. PlaceInRound(v, 7)'
          BY <1>1, <1>3, <4>2, <5>1, <5>2, <5>5, <5>6 DEF PlaceInRound
        <5>8. SuspendInRound(v, 7)'
          BY <1>1, <5>1, <5>2 DEF SuspendInRound
        <5> QED BY <5>7, <5>8
      <4> QED BY <1>1, <4>2, <4>3 DEF ClientInRound
    <3> QED BY <1>3, <3>1 DEF Round
  <2> QED BY <2>1, <2>5, <2>6
<1> QED BY <1>4, <1>5

\* What updateMinimumState broadcasts reaches the clients that are alive.
LEMMA UpdateWrites ==
  ASSUME DiskInv, NEW C \in SUBSET Worker, NEW old, NEW cs, UpdateMinimumState(old, C, cs)
  PROVE  \A v \in Worker : v \notin C \/ ~Alive(v) => toWorker'[v] = toWorker[v]
<1>1. PICK t : t = BarrierMessage(old, MinimumState(C, cs))
  OBVIOUS
<1>2. PICK m : m = IF t = "DO_FD_LEADER_ELECTION" THEN DoElection(compId, C) ELSE Plain(t)
  OBVIOUS
<1>3. toWorker' = toWorker \/ toWorker' = Post(toWorker, C, m)
  BY <1>1, <1>2 DEF UpdateMinimumState, WriteRestartScript
<1> QED BY <1>3 DEF Post

\* A report reaches the coordinator.
LEMMA OnOkRound ==
  ASSUME DiskInv, RoundInv, NEW w \in Worker, OnOk(w)
  PROVE  RoundInv'
<1>1. /\ w \in clients /\ toCoord[w] # <<>> /\ Head(toCoord[w]).type = "OK"
      /\ toCoord' = [toCoord EXCEPT ![w] = Tail(@)]
      /\ cstate' = [cstate EXCEPT ![w] = Head(toCoord[w]).state]
      /\ UpdateMinimumState(cstate[w], clients, cstate')
      /\ UNCHANGED <<backlog, clients, compId, generation, images, restarting, restarts>>
      /\ UNCHANGED workerVars
  BY DEF OnOk, Arrives, Readable, envVars
<1>2. /\ clients \subseteq Worker /\ cstate \in [Worker -> WorkerState]
      /\ toCoord \in [Worker -> Seq(ToCoordMsg)]
      /\ \A v \in Worker : HelloOf(v) /\ ConnectionOf(v)
  BY DEF RoundInv, RestoredHello, Connected, DiskInv, TypeOK, CoordTypeOK, NetTypeOK
<1>3. cstate' \in [Worker -> WorkerState]
  <2>1. Head(toCoord[w]) \in ToCoordMsg
    BY <1>1, <1>2
  <2> QED BY <1>1, <1>2, <2>1, ReportFields
<1>4. /\ cstate'[w] = IF Head(toCoord[w]).type = "OK" THEN Head(toCoord[w]).state
                      ELSE cstate[w]
      /\ \A v \in Worker \ {w} : cstate'[v] = cstate[v] /\ toCoord'[v] = toCoord[v]
  BY <1>1, <1>2
<1>5. \A v \in Worker : v \notin clients \/ ~Alive(v) => toWorker'[v] = toWorker[v]
  BY <1>1, <1>2, UpdateWrites
<1>6. \A v \in Worker \ {w} : SameReports(v)
  BY <1>4, ChannelsKept
<1>7. /\ \A i \in Reports(w)' : toCoord'[w][i].state # "RESTARTING"
      /\ \A i \in Reports(w)' : i + 1 \in Reports(w)
  BY <1>1, <1>2, <1>4, ReportsTaken, TakesReport
<1>8. ASSUME NEW v \in Worker
      PROVE  ConnectionOf(v)' /\ HelloOf(v)'
  <2>1. CASE v \notin clients
    <3>1. Untouched(v)
      BY <1>1, <1>4, <1>5, <2>1 DEF Untouched, workerVars
    <3>2. restarts' >= restarts /\ restarts \in Nat /\ restarts' \in Nat
      BY <1>1, BoundAssumption DEF DiskInv, TypeOK, EnvTypeOK
    <3> QED BY <1>2, <3>1, <3>2, UntouchedKeeps
  <2>2. CASE v \in clients
    <3>1. /\ \A i \in Reports(v)' : i + 1 \in Reports(v) \/ i \in Reports(v)
          /\ \A i \in Reports(v)' : toCoord'[v][i].state # "RESTARTING"
      <4>1. CASE v = w
        BY <1>7, <4>1, Zenon
      <4>2. CASE v # w
        <5>1. SameReports(v) /\ HelloOf(v)
          BY <1>2, <1>6, <4>2
        <5> QED BY <5>1, Zenon DEF SameReports, HelloOf
      <4> QED BY <4>1, <4>2
    <3> QED BY <1>1, <1>5, <2>2, <3>1, ClientServed
  <2> QED BY <2>1, <2>2
<1>9. Connected' /\ RestoredHello'
  BY <1>1, <1>8 DEF RoundInv, Connected, RestoredHello
<1>10. ASSUME NEW j \in 0 .. 7, Round(j)
       PROVE  \E k \in 0 .. 7 : Round(k)'
  <2>1. \A v \in clients : ReportsInRound(v, j)
    BY <1>10 DEF Round, ClientInRound
  <2>2. \A v \in clients : ReportsInRound(v, j)' /\ (Told(v, j)' <=> Told(v, j))
    <3>1. ReportsInRound(w, j)' /\ (Told(w, j)' <=> Told(w, j))
      BY <1>1, <1>2, <1>4, <2>1, ReportsTaken
    <3>2. ASSUME NEW v \in clients, v # w
          PROVE  ReportsInRound(v, j)' /\ (Told(v, j)' <=> Told(v, j))
      <4>1. ReportsInRound(v, j) /\ SameReports(v) /\ cstate'[v] = cstate[v]
        BY <1>2, <1>4, <1>6, <2>1, <3>2
      <4> QED BY <4>1 DEF ReportsInRound, Told, SameReports
    <3> QED BY <3>1, <3>2
  <2>3. Level(cstate[w]) \in {j, After(j)} /\ cstate[w] \in WorkerState
    BY <1>1, <1>2, <2>1 DEF ReportsInRound
  <2> QED BY <1>1, <1>2, <1>3, <1>10, <2>2, <2>3, UpdateRound
<1>11. ASSUME Back
       PROVE  Back' \/ Round(7)'
  <2>1. \A v \in clients : ClientBack(v) /\ ReportsBack(v)
    BY <1>11 DEF Back, ClientBack
  <2>2. ASSUME NEW v \in clients
        PROVE  /\ ReportsBack(v)'
               /\ Alive(v) => /\ Level(cstate'[v]) <= Reached(v)
                              /\ \A i \in Reports(v)' : Said(v, i)' <= Reached(v)
    <3>1. Alive(v) => /\ Reached(v) \in 3 .. 7 /\ Level(cstate[v]) <= Reached(v)
                      /\ \A i \in Reports(v) : Said(v, i) <= Reached(v)
      BY <2>1 DEF ClientBack, PlaceBack
    <3>2. CASE v = w
      BY <1>1, <1>2, <1>4, <2>1, <3>1, <3>2, ReportsTaken
    <3>3. CASE v # w
      <4>1. SameReports(v) /\ cstate'[v] = cstate[v] /\ ReportsBack(v)
        BY <1>2, <1>4, <1>6, <2>1, <3>3
      <4> QED BY <3>1, <4>1 DEF ReportsBack, SameReports
    <3> QED BY <3>2, <3>3
  <2>3. Level(cstate[w]) \in 3 .. 7 /\ cstate[w] \in WorkerState
    BY <1>1, <1>2, <2>1 DEF ReportsBack
  <2> QED BY <1>1, <1>2, <1>3, <1>11, <2>2, <2>3, UpdateBack
<1> QED BY <1>9, <1>10, <1>11 DEF RoundInv

\* The coordinator sees the end of a client, which may open the next barrier.
LEMMA OnDisconnectRound ==
  ASSUME DiskInv, RoundInv, NEW w \in Worker, OnDisconnect(w)
  PROVE  RoundInv'
<1>1. /\ w \in clients /\ Dead(w) /\ clients' = clients \ {w}
      /\ UNCHANGED <<backlog, cstate, compId, generation, toCoord, images, restarting,
                     restarts>>
      /\ UNCHANGED workerVars
  BY DEF OnDisconnect, envVars
<1>2. /\ clients \subseteq Worker /\ cstate \in [Worker -> WorkerState]
      /\ cstate' \in [Worker -> WorkerState] /\ restarts \in Nat
      /\ \A v \in Worker : HelloOf(v) /\ ConnectionOf(v)
  BY <1>1, BoundAssumption DEF RoundInv, RestoredHello, Connected, DiskInv, TypeOK,
     CoordTypeOK, EnvTypeOK
<1>3. clients' = {} =>
        suspendSent' = suspendSent /\ toWorker' = toWorker
  BY DEF OnDisconnect
<1>4. clients' # {} => UpdateMinimumState(cstate[w], clients', cstate')
  <2>1. clients' # {} => UpdateMinimumState(cstate[w], clients', cstate)
    BY DEF OnDisconnect
  <2> QED BY <1>1, <2>1
<1>5. \A v \in Worker : v \notin clients' \/ ~Alive(v) => toWorker'[v] = toWorker[v]
  <2>1. CASE clients' = {}
    BY <1>3, <2>1
  <2>2. CASE clients' # {}
    <3>1. PICK C \in SUBSET Worker : C = clients'
      BY <1>1, <1>2
    <3>2. UpdateMinimumState(cstate[w], C, cstate')
      BY <1>4, <2>2, <3>1
    <3> QED BY <3>1, <3>2, UpdateWrites
  <2> QED BY <2>1, <2>2
<1>6. \A v \in Worker : SameReports(v)
  BY <1>1, ChannelsKept
<1>7. ASSUME NEW v \in Worker
      PROVE  ConnectionOf(v)' /\ HelloOf(v)'
  <2>1. /\ Alive(v)' = Alive(v) /\ pc' = pc /\ parent' = parent /\ fromImage' = fromImage
        /\ Reports(v)' = Reports(v)
    BY <1>1, <1>6 DEF Alive, workerVars, SameReports
  <2>2. v = w => ~Alive(v) /\ pc[v] # "hello" /\ v \notin backlog
    BY <1>1 DEF Alive, Dead, DeadPoint, DiskInv, HelloFirst
  <2>3. v \in clients => v \notin backlog
    BY DEF DiskInv, HelloFirst
  <2>4. ConnectionOf(v)'
    BY <1>1, <1>2, <1>5, <2>1, <2>2, <2>3 DEF ConnectionOf
  <2>5. HelloOf(v)'
    BY <1>1, <1>2, <2>1 DEF HelloOf
  <2> QED BY <2>4, <2>5
<1>8. Connected' /\ RestoredHello'
  BY <1>1, <1>7 DEF RoundInv, Connected, RestoredHello
<1>9. CASE clients' = {}
  <2>1. suspendSent => generation # 0
    BY DEF RoundInv, Round, Back
  <2>2. Round(0)'
    BY <1>1, <1>3, <1>9, <2>1 DEF Round
  <2> QED BY <1>8, <2>2 DEF RoundInv
<1>10. CASE clients' # {}
  <2>1. PICK C \in SUBSET clients : C = clients'
    BY <1>1
  <2>2. UpdateMinimumState(cstate[w], C, cstate') /\ clients' = C /\ C # {}
    BY <1>4, <1>10, <2>1
  <2>3. ASSUME NEW j \in 0 .. 7, Round(j)
        PROVE  \E k \in 0 .. 7 : Round(k)'
    <3>1. \A v \in clients : ReportsInRound(v, j)
      BY <2>3 DEF Round, ClientInRound
    <3>2. \A v \in C : ReportsInRound(v, j)' /\ (Told(v, j)' <=> Told(v, j))
      BY <1>1, <1>2, <1>6, <3>1 DEF ReportsInRound, Told, SameReports
    <3>3. Level(cstate[w]) \in {j, After(j)} /\ cstate[w] \in WorkerState
      BY <1>1, <1>2, <3>1 DEF ReportsInRound
    <3> HIDE DEF workerVars
    <3> QED BY <1>1, <1>2, <2>2, <2>3, <3>2, <3>3, UpdateRound
  <2>4. ASSUME Back
        PROVE  Back' \/ Round(7)'
    <3>1. \A v \in clients : ClientBack(v) /\ ReportsBack(v)
      BY <2>4 DEF Back, ClientBack
    <3>2. \A v \in C :
            /\ ReportsBack(v)'
            /\ Alive(v) => /\ Level(cstate'[v]) <= Reached(v)
                           /\ \A i \in Reports(v)' : Said(v, i)' <= Reached(v)
      BY <1>1, <1>2, <1>6, <3>1 DEF ClientBack, PlaceBack, ReportsBack, SameReports
    <3>3. Level(cstate[w]) \in 3 .. 7 /\ cstate[w] \in WorkerState
      BY <1>1, <1>2, <3>1 DEF ReportsBack
    <3> QED BY <1>1, <1>2, <2>2, <2>4, <3>2, <3>3, UpdateBack
  <2> QED BY <1>8, <2>3, <2>4 DEF RoundInv
<1> QED BY <1>9, <1>10

-----------------------------------------------------------------------------
(* Connections and commands. *)

\* What is written to clients that are alive leaves the connections in order.
LEMMA ClientsWritten ==
  ASSUME DiskInv, RoundInv, UNCHANGED <<clients, backlog, toCoord, restarts>>,
         UNCHANGED workerVars,
         \A v \in Worker : v \notin clients \/ ~Alive(v) => toWorker'[v] = toWorker[v]
  PROVE  \A v \in Worker : ConnectionOf(v)' /\ HelloOf(v)'
<1>1. ASSUME NEW v \in Worker
      PROVE  ConnectionOf(v)' /\ HelloOf(v)'
  <2>1. /\ Alive(v)' = Alive(v) /\ pc' = pc /\ parent' = parent /\ fromImage' = fromImage
        /\ Reports(v)' = Reports(v)
    BY DEF Alive, workerVars, Reports
  <2>2. /\ ConnectionOf(v) /\ HelloOf(v)
        /\ v \in clients => v \notin backlog
    BY DEF DiskInv, HelloFirst, RoundInv, Connected, RestoredHello
  <2>3. ConnectionOf(v)'
    BY <2>1, <2>2 DEF ConnectionOf
  <2>4. HelloOf(v)'
    BY <2>1, <2>2 DEF HelloOf
  <2> QED BY <2>3, <2>4
<1> QED BY <1>1

\* Steps of the coordinator that neither take a client nor open a barrier; an
\* idle coordinator may forget the last computation.
LEMMA QuietStep ==
  ASSUME DiskInv, RoundInv, UNCHANGED <<clients, cstate, images, restarting, restarts>>,
         UNCHANGED workerVars,
         \A v \in Worker : SameOrders(v),
         \A v \in clients : toCoord'[v] = toCoord[v],
         clients = {} \/ UNCHANGED <<suspendSent, compId, generation>>,
         suspendSent' => suspendSent /\ generation' = generation,
         \A v \in Worker : ConnectionOf(v)' /\ HelloOf(v)'
  PROVE  RoundInv'
<1>1. Connected' /\ RestoredHello'
  BY DEF RoundInv, Connected, RestoredHello
<1>2. CASE clients = {}
  <2>1. suspendSent' => generation' # 0
    BY DEF RoundInv, Round, Back
  <2>2. Round(0)'
    BY <1>2, <2>1 DEF Round
  <2> QED BY <1>1, <2>2 DEF RoundInv
<1>3. CASE clients # {}
  <2>1. SameCheckpoint
    BY <1>3 DEF SameCheckpoint
  <2>2. /\ \A v \in clients : SameReports(v) /\ SameOrders(v) /\ SamePlace(v)
        /\ \A v \in clients : cstate'[v] = cstate[v]
    BY ChannelsKept DEF SamePlace, workerVars, DiskInv, TypeOK, CoordTypeOK
  <2>3. ASSUME NEW j \in 0 .. 7, Round(j)
        PROVE  Round(j)'
    <3>1. \A v \in clients : ClientInRound(v, j)'
      BY <2>1, <2>2, <2>3, ClientKept DEF Round
    <3> QED BY <2>1, <2>3, <3>1 DEF Round, SameCheckpoint
  <2>4. ASSUME Back
        PROVE  Back'
    <3>1. \A v \in clients : ClientBack(v)'
      BY <2>2, <2>4, BackKept DEF Back
    <3> QED BY <2>1, <2>4, <3>1 DEF Back, SameCheckpoint
  <2> QED BY <1>1, <2>3, <2>4 DEF RoundInv
<1> QED BY <1>2, <1>3

\* What a connection not yet accepted is.
LEMMA NotAccepted ==
  ASSUME DiskInv, RoundInv, NEW w \in backlog, w \in Worker, toCoord[w] # <<>>,
         toCoord' = [toCoord EXCEPT ![w] = Tail(@)]
  PROVE  /\ w \notin clients /\ toWorker[w] = <<>>
         /\ Reports(w)' = {} /\ \A v \in Worker \ {w} : toCoord'[v] = toCoord[v]
         /\ Alive(w) => pc[w] = "hello"
         /\ Alive(w) => (Head(toCoord[w]).state = "RESTARTING" <=> fromImage[w] # 0)
         /\ Head(toCoord[w]).state = "RESTARTING" =>
              restarts > 0 /\ Head(toCoord[w]).comp # Nobody
         /\ Head(toCoord[w]) \in ToCoordMsg
         /\ Head(toCoord[w]).state \in {"UNKNOWN", "RUNNING", "RESTARTING"}
<1>1. /\ w \notin clients /\ ConnectionOf(w) /\ HelloOf(w)
      /\ Head(toCoord[w]).type = "HELLO_COORDINATOR"
  BY DEF DiskInv, HelloFirst, RoundInv, Connected, RestoredHello
<1>2. Reports(w) = {}
  BY <1>1 DEF ConnectionOf
<1>3. Reports(w)' = {} /\ \A v \in Worker \ {w} : toCoord'[v] = toCoord[v]
  BY <1>2, TakesReport
<1>4. Head(toCoord[w]) \in ToCoordMsg
  BY Positions
<1>5. Head(toCoord[w]).state \in {"UNKNOWN", "RUNNING", "RESTARTING"}
  BY <1>1, <1>4 DEF ToCoordMsg
<1> QED BY <1>1, <1>3, <1>4, <1>5 DEF ConnectionOf, HelloOf

\* onConnect turns a connection away, or an assertion ends the coordinator.
LEMMA RefuseRound ==
  ASSUME DiskInv, RoundInv, NEW w \in backlog, w \in Worker, toCoord[w] # <<>>,
         backlog' = backlog \ {w}, toCoord' = [toCoord EXCEPT ![w] = Tail(@)],
         UNCHANGED <<clients, cstate, images, restarting, restarts>>,
         UNCHANGED workerVars,
         \/ \E t \in {"REJECT", "KILL_PEER"} :
              InitializeComputation /\ toWorker' = Post(toWorker, {w}, Plain(t))
         \/ UNCHANGED <<suspendSent, compId, generation, toWorker>>
  PROVE  RoundInv'
<1>1. /\ w \notin clients /\ toWorker[w] = <<>>
      /\ Reports(w)' = {} /\ \A v \in Worker \ {w} : toCoord'[v] = toCoord[v]
  BY NotAccepted
<1>2. /\ clients = {} \/ UNCHANGED <<suspendSent, compId, generation>>
      /\ suspendSent' => suspendSent /\ generation' = generation
  <2>1. CASE UNCHANGED <<suspendSent, compId, generation, toWorker>>
    BY <2>1
  <2>2. CASE InitializeComputation /\ clients = {}
    BY <2>2 DEF InitializeComputation, SuspendNow, Idle
  <2>3. CASE InitializeComputation /\ clients # {}
    <3>1. SuspendNow = suspendSent /\ CompNow = compId /\ GenNow = generation
      BY <2>3 DEF SuspendNow, CompNow, GenNow, Idle, DiskInv, TypeOK, CoordTypeOK
    <3> QED BY <2>3, <3>1 DEF InitializeComputation
  <2> QED BY <2>1, <2>2, <2>3
<1>3. /\ \A v \in Worker : SameOrders(v)
      /\ \A v \in Worker \ {w} : toWorker'[v] = toWorker[v]
      /\ ~Alive(w) => toWorker'[w] = <<>>
      /\ \A i \in 1 .. Len(toWorker'[w]) : toWorker'[w][i].type \in {"REJECT", "KILL_PEER"}
  <2>1. CASE toWorker' = toWorker
    BY <1>1, <2>1, ChannelsKept
  <2>2. ASSUME NEW t \in {"REJECT", "KILL_PEER"},
               toWorker' = Post(toWorker, {w}, Plain(t))
        PROVE  <1>3!:
    <3>1. PICK m : m = Plain(t) /\ m.type = t
      BY DEF Plain
    <3>2. Number(t) = 0 /\ t # "DO_SUSPEND"
      BY DEF Number
    <3>3. \A v \in Worker : SameOrders(v)
      BY <2>2, <3>1, <3>2, PostQuiet
    <3>4. \A v \in Worker \ {w} : toWorker'[v] = toWorker[v]
      BY <2>2 DEF Post
    <3>5. toWorker'[w] = IF Alive(w) THEN <<m>> ELSE <<>>
      <4>1. Append(<<>>, m) = <<m>>
        OBVIOUS
      <4> QED BY <1>1, <2>2, <3>1, <4>1 DEF Post
    <3>6. \A i \in 1 .. Len(<<m>>) : <<m>>[i] = m
      OBVIOUS
    <3> QED BY <3>1, <3>3, <3>4, <3>5, <3>6
  <2> QED BY <2>1, <2>2
<1>4. ASSUME NEW v \in Worker
      PROVE  ConnectionOf(v)' /\ HelloOf(v)'
  <2>1. ConnectionOf(v) /\ HelloOf(v)
    BY DEF RoundInv, Connected, RestoredHello
  <2>2. CASE v # w
    <3>1. Untouched(v)
      BY <1>1, <1>3, <2>2 DEF Untouched, workerVars
    <3>2. restarts' >= restarts /\ restarts \in Nat /\ restarts' \in Nat
      BY BoundAssumption DEF DiskInv, TypeOK, EnvTypeOK
    <3> QED BY <2>1, <3>1, <3>2, UntouchedKeeps
  <2>3. CASE v = w
    <3>1. Alive(w)' = Alive(w) /\ pc' = pc /\ parent' = parent /\ fromImage' = fromImage
      BY DEF Alive, workerVars
    <3>2. ConnectionOf(w)'
      BY <1>1, <1>3, <2>1, <2>3, <3>1 DEF ConnectionOf
    <3>3. HelloOf(w)'
      BY <1>1, <2>1, <2>3, <3>1 DEF HelloOf
    <3> QED BY <2>3, <3>2, <3>3
  <2> QED BY <2>2, <2>3
<1>5. \A v \in clients : toCoord'[v] = toCoord[v]
  BY <1>1 DEF DiskInv, TypeOK, CoordTypeOK
<1> QED BY <1>2, <1>3, <1>4, <1>5, QuietStep

\* onConnect adds a client: what it owes to the round the others are in.
LEMMA JoinRound ==
  ASSUME DiskInv, RoundInv, NEW w \in backlog, w \in Worker, toCoord[w] # <<>>,
         backlog' = backlog \ {w}, toCoord' = [toCoord EXCEPT ![w] = Tail(@)],
         NEW s \in WorkerState, AddDataSocket(w, s),
         UNCHANGED <<images, restarting, restarts>>, UNCHANGED workerVars,
         \A v \in Worker \ {w} : toWorker'[v] = toWorker[v],
         ~Alive(w) => toWorker'[w] = <<>>,
         compId' # Nobody, clients # {} => SameCheckpoint,
         suspendSent' => suspendSent /\ generation' = generation,
         \/ Back /\ ClientBack(w)'
         \/ \E j \in 0 .. 7 : Round(j) /\ ClientInRound(w, j)'
         \/ clients = {} /\ ClientInRound(w, 0)'
         \/ clients = {} /\ ~suspendSent' /\ restarts > 0 /\ ClientBack(w)'
  PROVE  RoundInv'
<1>1. /\ w \notin clients /\ toWorker[w] = <<>>
      /\ Reports(w)' = {} /\ \A v \in Worker \ {w} : toCoord'[v] = toCoord[v]
  BY NotAccepted
<1>2. /\ clients' = clients \cup {w} /\ clients \subseteq Worker
      /\ \A v \in Worker \ {w} : cstate'[v] = cstate[v]
      /\ \A v \in Worker \ {w} : Untouched(v)
  <2>1. /\ clients' = clients \cup {w} /\ clients \subseteq Worker
        /\ \A v \in Worker \ {w} : cstate'[v] = cstate[v]
    BY DEF AddDataSocket, DiskInv, TypeOK, CoordTypeOK
  <2> QED BY <1>1, <2>1 DEF Untouched, workerVars
<1>3. ASSUME NEW v \in Worker
      PROVE  ConnectionOf(v)' /\ HelloOf(v)'
  <2>1. ConnectionOf(v) /\ HelloOf(v)
    BY DEF RoundInv, Connected, RestoredHello
  <2>2. CASE v # w
    <3>1. restarts' >= restarts /\ restarts \in Nat /\ restarts' \in Nat
      BY BoundAssumption DEF DiskInv, TypeOK, EnvTypeOK
    <3> QED BY <1>2, <2>1, <2>2, <3>1, UntouchedKeeps
  <2>3. CASE v = w
    <3>1. Alive(w)' = Alive(w) /\ pc' = pc /\ parent' = parent /\ fromImage' = fromImage
      BY DEF Alive, workerVars
    <3>2. ConnectionOf(w)'
      BY <1>1, <1>2, <2>1, <2>3, <3>1 DEF ConnectionOf
    <3>3. HelloOf(w)'
      BY <1>1, <2>1, <2>3, <3>1 DEF HelloOf
    <3> QED BY <2>3, <3>2, <3>3
  <2> QED BY <2>2, <2>3
<1>4. Connected' /\ RestoredHello'
  BY <1>3 DEF RoundInv, Connected, RestoredHello
<1>5. ASSUME NEW j \in 0 .. 7, Round(j), ClientInRound(w, j)', clients # {}
      PROVE  Round(j)'
  <2>1. ASSUME NEW v \in clients
        PROVE  ClientInRound(v, j)'
    <3>1. Untouched(v) /\ ClientInRound(v, j) /\ SameCheckpoint
      BY <1>1, <1>2, <1>5, <2>1 DEF Round
    <3> QED BY <3>1, UntouchedKeeps, ClientKept DEF Untouched
  <2> QED BY <1>2, <1>5, <2>1 DEF Round, SameCheckpoint
<1>6. ASSUME Back, ClientBack(w)', clients # {}
      PROVE  Back'
  <2>1. ASSUME NEW v \in clients
        PROVE  ClientBack(v)'
    <3>1. Untouched(v) /\ ClientBack(v)
      BY <1>1, <1>2, <1>6 DEF Back
    <3> QED BY <3>1, UntouchedKeeps, BackKept DEF Untouched
  <2> QED BY <1>2, <1>6, <2>1 DEF Back, SameCheckpoint
<1>7. ASSUME NEW j \in 0 .. 7, clients = {}, ClientInRound(w, j)', suspendSent' => j = 0
      PROVE  Round(j)'
  <2>1. suspendSent' => generation' # 0
    BY DEF RoundInv, Round, Back
  <2> QED BY <1>2, <1>7, <2>1 DEF Round
<1>8. ASSUME clients = {}, ~suspendSent', restarts > 0, ClientBack(w)'
      PROVE  Back'
  BY <1>2, <1>8 DEF Back
<1>9. CASE clients # {}
  BY <1>4, <1>5, <1>6, <1>9 DEF RoundInv
<1>10. CASE clients = {}
  <2>1. ASSUME Back, ClientBack(w)'
        PROVE  Back'
    BY <1>8, <1>10, <2>1 DEF Back
  <2>2. ASSUME NEW j \in 0 .. 7, Round(j), ClientInRound(w, j)'
        PROVE  Round(j)'
    BY <1>7, <1>10, <2>2 DEF Round
  <2> QED BY <1>4, <1>7, <1>8, <1>10, <2>1, <2>2 DEF RoundInv
<1> QED BY <1>9, <1>10

\* A new client that has not been told to suspend: between two checkpoints.
LEMMA NewClient ==
  ASSUME DiskInv, NEW w \in Worker, NEW j \in {0, 7},
         Reports(w)' = {}, Level(cstate'[w]) = 0, cstate'[w] # "RESTARTING",
         Alive(w)' => /\ pc'[w] = "hello" /\ fromImage'[w] = 0
                      /\ Orders(w)' = {}
                      /\ Suspends(w)' = {} \/ (suspendSent' /\ j = 0)
                      /\ \A i \in Suspends(w)' :
                           /\ toWorker'[w][i].comp = compId'
                           /\ toWorker'[w][i].gen = generation'
                           /\ \A k \in Suspends(w)' : k = i
  PROVE  ClientInRound(w, j)'
<1>1. ReportsInRound(w, j)' /\ (Told(w, j)' <=> j = 7)
  BY DEF ReportsInRound, Told, After
<1>2. ASSUME Alive(w)'
      PROVE  PlaceInRound(w, j)' /\ SuspendInRound(w, j)'
  <2>1. Reached(w)' = 0 /\ "hello" \notin WorkPoint
    BY <1>2 DEF Reached, WorkPoint
  <2>2. PlaceInRound(w, j)'
    BY <1>1, <1>2, <2>1 DEF PlaceInRound, After
  <2>3. SuspendInRound(w, j)'
    BY <1>2, <2>1 DEF SuspendInRound
  <2> QED BY <2>2, <2>3
<1> QED BY <1>1, <1>2 DEF ClientInRound

\* A restored client, before barrier 3.
LEMMA RestoredClient ==
  ASSUME DiskInv, NEW w \in Worker, Reports(w)' = {}, cstate'[w] = "RESTARTING",
         Alive(w)' => /\ pc'[w] = "hello" /\ fromImage'[w] # 0
                      /\ Orders(w)' = {} /\ Suspends(w)' = {}
  PROVE  ClientBack(w)'
<1>1. Level("RESTARTING") = 3
  BY DEF Level
<1>2. ReportsBack(w)'
  BY <1>1 DEF ReportsBack
<1>3. Alive(w)' => Reached(w)' = 3
  BY DEF Reached
<1> QED BY <1>1, <1>2, <1>3 DEF ClientBack, PlaceBack

\* The handshake of a connection that has nothing under way.
LEMMA WritesHello ==
  ASSUME DiskInv, NEW w \in Worker, toWorker[w] = <<>>, NEW c, NEW g,
         toWorker' = Post(toWorker, {w}, HelloWorker(c, g))
  PROVE  /\ Orders(w)' = {} /\ Suspends(w)' = {}
         /\ \A v \in Worker \ {w} : toWorker'[v] = toWorker[v]
         /\ ~Alive(w) => toWorker'[w] = <<>>
<1>1. PICK m : m = HelloWorker(c, g) /\ m.type = "HELLO_WORKER"
  BY DEF HelloWorker
<1>2. Number("HELLO_WORKER") = 0
  BY DEF Number
<1>3. SameOrders(w)
  BY <1>1, <1>2, PostQuiet
<1>4. Orders(w) = {} /\ Suspends(w) = {}
  BY DEF Orders, Suspends
<1> QED BY <1>3, <1>4 DEF SameOrders, Post

\* getStatus at a level below the barriers, or at barrier 4.
LEMMA LowestLevel ==
  ASSUME DiskInv, clients # {}
  PROVE  /\ MinimumState(clients, cstate) \in {"RUNNING", "UNKNOWN"} =>
              \E v \in clients : Level(cstate[v]) = 0
         /\ MinimumState(clients, cstate) \in {"RESTARTING", "CHECKPOINTED"} =>
              /\ \E v \in clients : cstate[v] \in {"RESTARTING", "CHECKPOINTED"}
              /\ (\A v \in clients : cstate[v] # "RESTARTING") =>
                    \A v \in clients : Level(cstate[v]) >= 4
<1>1. /\ \E v \in clients : LowestState(clients, cstate) = cstate[v]
      /\ \A v \in clients : Level(LowestState(clients, cstate)) <= Level(cstate[v])
      /\ \A v \in clients : Level(cstate[v]) \in 0 .. 7
  BY LowestAttained, LevelFollowsRank DEF DiskInv, TypeOK, CoordTypeOK
<1>2. \/ MinimumState(clients, cstate) = LowestState(clients, cstate)
      \/ /\ MinimumState(clients, cstate) = "RESTARTING"
         /\ LowestState(clients, cstate) = "CHECKPOINTED"
  BY DEF MinimumState
<1>3. Level("RUNNING") = 0 /\ Level("UNKNOWN") = 0 /\ Level("CHECKPOINTED") = 4
  BY DEF Level
<1> QED BY <1>1, <1>2, <1>3

\* A checkpoint of a restored computation that has reached barrier 4 everywhere
\* is as good as one that comes back.
LEMMA RoundIsBack ==
  ASSUME DiskInv, NEW j \in {3, 4}, Round(j), restarts > 0,
         \A v \in clients : Level(cstate[v]) >= 4
  PROVE  Back
<1>1. ASSUME NEW v \in clients
      PROVE  ClientBack(v)
  <2>1. ClientInRound(v, j) /\ ReportsInRound(v, j) /\ Level(cstate[v]) >= 4
    BY DEF Round, ClientInRound
  <2>2. After(3) = 4 /\ After(4) = 5
    BY DEF After
  <2>3. /\ Level(cstate[v]) \in 4 .. 5 /\ cstate[v] # "DRAINED"
        /\ \A i \in Reports(v) : Said(v, i) \in 4 .. 5 /\ Level(cstate[v]) <= Said(v, i)
    <3>1. Level(cstate[v]) \in 4 .. 5
      BY <2>1, <2>2 DEF ReportsInRound
    <3>2. cstate[v] # "DRAINED"
      BY <2>1 DEF Level
    <3>3. \A i \in Reports(v) : Said(v, i) \in 4 .. 5 /\ Level(cstate[v]) <= Said(v, i)
      BY <2>1, <2>2 DEF ReportsInRound
    <3> QED BY <3>1, <3>2, <3>3
  <2>4. ReportsBack(v)
    <3>1. \A i, k \in Reports(v) : i < k => Said(v, i) <= Said(v, k)
      BY <2>1, <2>2, <2>3 DEF ReportsInRound
    <3> QED BY <2>3, <3>1 DEF ReportsBack
  <2>5. ASSUME Alive(v)
        PROVE  PlaceBack(v)
    <3>1. PlaceInRound(v, j) /\ SuspendInRound(v, j) /\ ~suspendSent
      BY <2>1, <2>5 DEF ClientInRound, Round
    <3>2. /\ Reached(v) \in 4 .. 5 /\ Level(cstate[v]) <= Reached(v)
          /\ \A i \in Reports(v) : Said(v, i) <= Reached(v)
          /\ j = 3 => Reached(v) # j
      BY <2>1, <2>2, <2>3, <3>1 DEF PlaceInRound, Told, ReportsInRound
    <3>3. pc[v] \notin {"drained", "writing", "resuming"}
      BY <3>2 DEF Reached
    <3>4. Suspends(v) = {}
      BY <3>1 DEF SuspendInRound
    <3>5. \A i \in Orders(v) : Number(toWorker[v][i].type) \in 4 .. 6
      BY <3>1, <3>2 DEF PlaceInRound
    <3> QED BY <3>2, <3>3, <3>4, <3>5 DEF PlaceBack
  <2> QED BY <2>4, <2>5 DEF ClientBack
<1> QED BY <1>1 DEF Back, Round

\* validateNewWorkerProcess: a program is launched, or forked.
LEMMA ConnectNewRound ==
  ASSUME DiskInv, RoundInv, NEW w \in Worker, OnConnect(w),
         Head(toCoord[w]).state # "RESTARTING", ~KillNow
  PROVE  RoundInv'
<1> DEFINE hello == Head(toCoord[w])
<1>1. /\ w \in backlog /\ toCoord[w] # <<>>
      /\ backlog' = backlog \ {w} /\ toCoord' = [toCoord EXCEPT ![w] = Tail(@)]
      /\ ConnectNew(w, hello) /\ UNCHANGED <<images, restarting, restarts>>
      /\ UNCHANGED workerVars
  BY DEF OnConnect, diskVars, envVars
<1>2. /\ w \notin clients /\ toWorker[w] = <<>> /\ Reports(w)' = {}
      /\ Alive(w) => pc[w] = "hello" /\ fromImage[w] = 0
      /\ hello.state \in {"UNKNOWN", "RUNNING"}
  BY <1>1, NotAccepted
<1> HIDE DEF hello
<1>3. /\ clients \subseteq Worker /\ cstate \in [Worker -> WorkerState]
      /\ hello.state \in WorkerState
      /\ Level(hello.state) = 0 /\ hello.state # "RESTARTING"
  BY <1>2, StateNames DEF DiskInv, TypeOK, CoordTypeOK, Level
<1>4. /\ clients # {} => compId # Nobody
      /\ Alive(w)' = Alive(w) /\ pc' = pc /\ fromImage' = fromImage
  BY DEF RoundInv, Connected, Alive, workerVars, OnConnect
<1>5. AddDataSocket(w, hello.state) =>
        cstate'[w] = hello.state /\ Level(cstate'[w]) = 0 /\ cstate'[w] # "RESTARTING"
  BY <1>3 DEF AddDataSocket
<1>6. CASE /\ UNCHANGED <<clients, cstate>>
           /\ \/ Refuse(w, "REJECT")
              \/ UNCHANGED <<suspendSent, compId, generation, toWorker>>
  BY <1>1, <1>6, RefuseRound DEF Refuse
<1>7. CASE /\ SuspendNow /\ AddDataSocket(w, hello.state) /\ InitializeComputation
           /\ toWorker' = Post(Post(toWorker, {w}, HelloWorker(compId, generation)),
                               {w}, DoSuspend(compId, generation))
  <2>1. /\ suspendSent /\ clients # {} /\ SameCheckpoint /\ restarts' = restarts
    BY <1>1, <1>7
       DEF SuspendNow, InitializeComputation, CompNow, GenNow, Idle, SameCheckpoint
  <2>2. Round(0)
    BY <2>1 DEF RoundInv, Back, Round
  <2> DEFINE a == HelloWorker(compId, generation)
             b == DoSuspend(compId, generation)
  <2>3. /\ a.type = "HELLO_WORKER" /\ b.type = "DO_SUSPEND"
        /\ b.comp = compId /\ b.gen = generation
    BY DEF HelloWorker, DoSuspend
  <2>4. /\ \A v \in Worker \ {w} : toWorker'[v] = toWorker[v]
        /\ toWorker'[w] = IF Alive(w) THEN Append(<<a>>, b) ELSE <<>>
    <3>1. toWorker' = Post(Post(toWorker, {w}, a), {w}, b)
      BY <1>7
    <3> HIDE DEF a, b
    <3>2. \A v \in Worker \ {w} : toWorker'[v] = toWorker[v]
      BY <3>1 DEF Post
    <3>3. ~Alive(w) => toWorker'[w] = toWorker[w]
      BY <3>1 DEF Post
    <3>4. Alive(w) => toWorker'[w] = Append(Append(toWorker[w], a), b)
      BY <3>1 DEF Post
    <3>5. Append(<<>>, a) = <<a>>
      OBVIOUS
    <3> QED BY <1>2, <3>2, <3>3, <3>4, <3>5
  <2> HIDE DEF a, b
  <2>5. ASSUME Alive(w)
        PROVE  Orders(w)' = {} /\ Suspends(w)' = {2} /\ toWorker'[w][2] = b
    <3>1. /\ Len(toWorker'[w]) = 2 /\ toWorker'[w][1] = a /\ toWorker'[w][2] = b
      BY <2>4, <2>5
    <3>2. Number(a.type) = 0 /\ Number(b.type) = 0
      BY <2>3 DEF Number
    <3>3. 1 .. 2 = {1, 2}
      OBVIOUS
    <3> QED BY <2>3, <3>1, <3>2, <3>3 DEF Orders, Suspends
  <2>6. ClientInRound(w, 0)'
    BY <1>2, <1>4, <1>5, <1>7, <2>1, <2>3, <2>5, NewClient DEF SameCheckpoint
  <2>7. /\ compId' # Nobody
        /\ suspendSent' => suspendSent /\ generation' = generation
        /\ ~Alive(w) => toWorker'[w] = <<>>
    BY <1>4, <2>1, <2>4 DEF SameCheckpoint
  <2>8. \E j \in 0 .. 7 : Round(j) /\ ClientInRound(w, j)'
    BY <2>2, <2>6
  <2> HIDE DEF hello
  <2> QED BY <1>1, <1>3, <1>7, <2>1, <2>4, <2>7, <2>8, JoinRound
<1>8. ASSUME ~SuspendNow, Idle \/ MinimumState(clients, cstate) \in {"RUNNING", "UNKNOWN"},
             AddDataSocket(w, hello.state),
             NEW c, NEW g, compId' = c, generation' = g, suspendSent' = SuspendNow,
             c = (IF CompNow = Nobody THEN w ELSE compId),
             g = (IF CompNow = Nobody THEN 0 ELSE generation),
             toWorker' = Post(toWorker, {w}, HelloWorker(c, g))
      PROVE  RoundInv'
  <2>1. /\ compId' # Nobody /\ ~suspendSent'
        /\ clients # {} => SameCheckpoint
    <3>1. CompNow = Nobody <=> Idle
      BY <1>4 DEF CompNow, Idle
    <3>2. clients # {} => SuspendNow = suspendSent /\ ~Idle
      BY DEF SuspendNow, Idle, DiskInv, TypeOK, CoordTypeOK
    <3> QED BY <1>1, <1>4, <1>8, <3>1, <3>2, NobodyAssumption DEF SameCheckpoint, Idle
  <2>2. /\ Orders(w)' = {} /\ Suspends(w)' = {}
        /\ \A v \in Worker \ {w} : toWorker'[v] = toWorker[v]
        /\ ~Alive(w) => toWorker'[w] = <<>>
    BY <1>2, <1>8, WritesHello
  <2>3. \A j \in {0, 7} : ClientInRound(w, j)'
    BY <1>2, <1>4, <1>5, <1>8, <2>2, NewClient
  <2>4. clients # {} => \E j \in {0, 7} : Round(j)
    <3>1. clients # {} => \E v \in clients : Level(cstate[v]) = 0
      BY <1>8, LowestLevel DEF Idle
    <3>2. ASSUME NEW v \in clients, Level(cstate[v]) = 0
          PROVE  \E j \in {0, 7} : Round(j)
      <4>1. ~Back
        BY <3>2 DEF Back, ClientBack, ReportsBack
      <4>2. PICK j \in 0 .. 7 : Round(j)
        BY <4>1 DEF RoundInv
      <4>3. 0 \in {j, After(j)}
        BY <3>2, <4>2 DEF Round, ClientInRound, ReportsInRound
      <4>4. j \in {0, 7}
        BY <4>3 DEF After
      <4> QED BY <4>2, <4>4
    <3> QED BY <3>1, <3>2
  <2>5. \/ \E j \in 0 .. 7 : Round(j) /\ ClientInRound(w, j)'
        \/ clients = {} /\ ClientInRound(w, 0)'
    BY <2>3, <2>4
  <2> QED BY <1>1, <1>3, <1>8, <2>1, <2>2, <2>5, JoinRound
<1>9. \/ /\ UNCHANGED <<clients, cstate>>
         /\ Refuse(w, "REJECT") \/ UNCHANGED <<suspendSent, compId, generation, toWorker>>
      \/ /\ SuspendNow /\ AddDataSocket(w, hello.state) /\ InitializeComputation
         /\ toWorker' = Post(Post(toWorker, {w}, HelloWorker(compId, generation)),
                             {w}, DoSuspend(compId, generation))
      \/ /\ ~SuspendNow
         /\ Idle \/ MinimumState(clients, cstate) \in {"RUNNING", "UNKNOWN"}
         /\ AddDataSocket(w, hello.state)
         /\ suspendSent' = SuspendNow
         /\ compId' = IF CompNow = Nobody THEN w ELSE compId
         /\ generation' = IF CompNow = Nobody THEN 0 ELSE generation
         /\ toWorker' = Post(toWorker, {w}, HelloWorker(compId', generation'))
  BY <1>1 DEF ConnectNew, Refuse, Abort
<1> QED BY <1>6, <1>7, <1>8, <1>9

\* validateRestartingWorkerProcess: a process comes back from its image.
LEMMA ConnectRestartingRound ==
  ASSUME DiskInv, RoundInv, NEW w \in Worker, OnConnect(w),
         Head(toCoord[w]).state = "RESTARTING", ~KillNow
  PROVE  RoundInv'
<1> DEFINE hello == Head(toCoord[w])
<1>1. /\ w \in backlog /\ toCoord[w] # <<>>
      /\ backlog' = backlog \ {w} /\ toCoord' = [toCoord EXCEPT ![w] = Tail(@)]
      /\ ConnectRestarting(w, hello) /\ UNCHANGED <<images, restarting, restarts>>
      /\ UNCHANGED workerVars
  BY DEF OnConnect, diskVars, envVars
<1>2. /\ w \notin clients /\ toWorker[w] = <<>> /\ Reports(w)' = {}
      /\ Alive(w) => pc[w] = "hello" /\ fromImage[w] # 0
      /\ restarts > 0 /\ hello.comp # Nobody
  BY <1>1, NotAccepted
<1> HIDE DEF hello
<1>3. /\ clients \subseteq Worker /\ cstate \in [Worker -> WorkerState]
      /\ "RESTARTING" \in WorkerState
  BY StateNames DEF DiskInv, TypeOK, CoordTypeOK
<1>4. /\ clients # {} => compId # Nobody
      /\ Alive(w)' = Alive(w) /\ pc' = pc /\ fromImage' = fromImage
  BY DEF RoundInv, Connected, Alive, workerVars, OnConnect
<1>5. CASE /\ UNCHANGED <<clients, cstate>>
           /\ \/ Refuse(w, "REJECT")
              \/ UNCHANGED <<suspendSent, compId, generation, toWorker>>
  BY <1>1, <1>5, RefuseRound DEF Refuse
<1>6. ASSUME AddDataSocket(w, "RESTARTING"), NEW c, NEW g,
             toWorker' = Post(toWorker, {w}, HelloWorker(c, g))
      PROVE  /\ ClientBack(w)' /\ (~Alive(w) => toWorker'[w] = <<>>)
             /\ \A v \in Worker \ {w} : toWorker'[v] = toWorker[v]
  <2>1. cstate'[w] = "RESTARTING"
    BY <1>3, <1>6 DEF AddDataSocket
  <2>2. /\ Orders(w)' = {} /\ Suspends(w)' = {}
        /\ \A v \in Worker \ {w} : toWorker'[v] = toWorker[v]
        /\ ~Alive(w) => toWorker'[w] = <<>>
    BY <1>2, <1>6, WritesHello
  <2>3. ClientBack(w)'
    BY <1>2, <1>4, <2>1, <2>2, RestoredClient
  <2> QED BY <2>2, <2>3
<1>7. CASE /\ CompNow = Nobody /\ AddDataSocket(w, "RESTARTING")
           /\ compId' = hello.comp /\ suspendSent' = SuspendNow
           /\ toWorker' = Post(toWorker, {w}, HelloWorker(CompNow, GenNow))
  <2>1. clients = {} /\ ~suspendSent' /\ compId' # Nobody
    BY <1>2, <1>4, <1>7 DEF CompNow, SuspendNow, Idle
  <2>2. /\ ClientBack(w)' /\ (~Alive(w) => toWorker'[w] = <<>>)
        /\ \A v \in Worker \ {w} : toWorker'[v] = toWorker[v]
    BY <1>6, <1>7
  <2> QED BY <1>1, <1>2, <1>3, <1>7, <2>1, <2>2, JoinRound
<1>8. CASE /\ CompNow # Nobody /\ AddDataSocket(w, "RESTARTING") /\ InitializeComputation
           /\ MinimumState(clients, cstate) \in {"RESTARTING", "CHECKPOINTED"}
           /\ toWorker' = Post(toWorker, {w}, HelloWorker(compId, generation))
  <2>1. clients # {} /\ SameCheckpoint
    BY <1>1, <1>8 DEF InitializeComputation, SuspendNow, CompNow, GenNow, Idle,
       SameCheckpoint, DiskInv, TypeOK, CoordTypeOK
  <2>2. /\ \E v \in clients : cstate[v] \in {"RESTARTING", "CHECKPOINTED"}
        /\ (\A v \in clients : cstate[v] # "RESTARTING") =>
              \A v \in clients : Level(cstate[v]) >= 4
    BY <1>8, <2>1, LowestLevel
  <2>3. Back
    <3>1. ASSUME NEW j \in 0 .. 7, Round(j)
          PROVE  Back
      <4>1. \A v \in clients : ReportsInRound(v, j)
        BY <3>1 DEF Round, ClientInRound
      <4>2. PICK v \in clients : cstate[v] = "CHECKPOINTED"
        BY <2>2, <4>1 DEF ReportsInRound
      <4>3. 4 \in {j, After(j)}
        BY <4>1, <4>2 DEF ReportsInRound, Level
      <4>4. j \in {3, 4}
        BY <4>3 DEF After
      <4>5. \A u \in clients : Level(cstate[u]) >= 4
        BY <2>2, <4>1 DEF ReportsInRound
      <4> QED BY <1>2, <3>1, <4>4, <4>5, RoundIsBack
    <3> QED BY <3>1 DEF RoundInv
  <2>4. /\ ClientBack(w)' /\ (~Alive(w) => toWorker'[w] = <<>>)
        /\ \A v \in Worker \ {w} : toWorker'[v] = toWorker[v]
    BY <1>6, <1>8
  <2>5. compId' # Nobody /\ (suspendSent' => suspendSent /\ generation' = generation)
    BY <1>4, <2>1 DEF SameCheckpoint
  <2> QED BY <1>1, <1>3, <1>8, <2>1, <2>3, <2>4, <2>5, JoinRound
<1>9. \/ /\ UNCHANGED <<clients, cstate>>
         /\ Refuse(w, "REJECT") \/ UNCHANGED <<suspendSent, compId, generation, toWorker>>
      \/ /\ CompNow = Nobody /\ AddDataSocket(w, "RESTARTING")
         /\ compId' = hello.comp /\ suspendSent' = SuspendNow
         /\ toWorker' = Post(toWorker, {w}, HelloWorker(CompNow, GenNow))
      \/ /\ CompNow # Nobody /\ AddDataSocket(w, "RESTARTING") /\ InitializeComputation
         /\ MinimumState(clients, cstate) \in {"RESTARTING", "CHECKPOINTED"}
         /\ toWorker' = Post(toWorker, {w}, HelloWorker(compId, generation))
  BY <1>1 DEF ConnectRestarting, Refuse, Abort
<1> QED BY <1>5, <1>7, <1>8, <1>9

\* A connection reaches the coordinator.
LEMMA OnConnectRound ==
  ASSUME DiskInv, RoundInv, NEW w \in Worker, OnConnect(w)
  PROVE  RoundInv'
<1>1. CASE KillNow
  <2>1. /\ w \in backlog /\ toCoord[w] # <<>>
        /\ backlog' = backlog \ {w} /\ toCoord' = [toCoord EXCEPT ![w] = Tail(@)]
        /\ Refuse(w, "KILL_PEER") /\ UNCHANGED <<images, restarting, restarts>>
        /\ UNCHANGED workerVars
    BY <1>1 DEF OnConnect, diskVars, envVars
  <2> QED BY <2>1, RefuseRound DEF Refuse
<1>2. CASE ~KillNow /\ Head(toCoord[w]).state = "RESTARTING"
  BY <1>2, ConnectRestartingRound
<1>3. CASE ~KillNow /\ Head(toCoord[w]).state # "RESTARTING"
  BY <1>3, ConnectNewRound
<1> QED BY <1>1, <1>2, <1>3

\* startCheckpoint accepts only between two checkpoints.
LEMMA CheckpointAccepted ==
  ASSUME DiskInv, RoundInv, CanCheckpoint
  PROVE  Round(0) /\ clients # {} /\ \A v \in clients : ~Told(v, 0)
<1>1. MinimumState(clients, cstate) = "RUNNING" /\ ~suspendSent
      /\ clients \subseteq Worker /\ cstate \in [Worker -> WorkerState]
  BY DEF CanCheckpoint, DiskInv, TypeOK, CoordTypeOK
<1>2. clients # {}
  BY <1>1 DEF MinimumState, LowestState
<1>3. \A v \in clients : Level(cstate[v]) = 0
  <2>1. \E v \in clients : Level(cstate[v]) = 0
    BY <1>1, <1>2, LowestLevel
  <2> QED BY <2>1 DEF CanCheckpoint, Unanimous
<1>4. ~Back
  BY <1>2, <1>3 DEF Back, ClientBack, ReportsBack
<1>5. PICK j \in 0 .. 7 : Round(j)
  BY <1>4 DEF RoundInv
<1>6. j \in {0, 7} /\ \A v \in clients : ReportsInRound(v, j)
  <2>1. \A v \in clients : ReportsInRound(v, j)
    BY <1>5 DEF Round, ClientInRound
  <2>2. 0 \in {j, After(j)}
    BY <1>2, <1>3, <2>1 DEF ReportsInRound
  <2> QED BY <2>1, <2>2 DEF After
<1>7. CASE j = 0
  BY <1>1, <1>2, <1>5, <1>7 DEF Round, ClientInRound
<1>8. CASE j = 7
  <2>1. ASSUME NEW v \in clients
        PROVE  ClientInRound(v, 0) /\ ~Told(v, 0)
    <3>1. After(7) = 0 /\ After(0) = 1
      BY DEF After
    <3>2. \A i \in Reports(v) : Said(v, i) = 0
      BY <1>3, <1>6, <1>8, <3>1 DEF ReportsInRound
    <3>3. ReportsInRound(v, 0) /\ ~Told(v, 0) /\ Told(v, 7)
      BY <1>3, <1>6, <1>8, <3>1, <3>2 DEF ReportsInRound, Told
    <3>4. ASSUME Alive(v)
          PROVE  PlaceInRound(v, 0) /\ SuspendInRound(v, 0)
      <4>1. PlaceInRound(v, 7) /\ SuspendInRound(v, 7)
        BY <1>5, <1>8, <3>4 DEF Round, ClientInRound
      <4>2. Reached(v) = 0 /\ pc[v] \notin WorkPoint /\ Orders(v) = {}
        BY <3>1, <3>3, <4>1 DEF PlaceInRound
      <4>3. PlaceInRound(v, 0)
        BY <3>3, <4>1, <4>2 DEF PlaceInRound
      <4>4. SuspendInRound(v, 0)
        BY <4>1 DEF SuspendInRound
      <4> QED BY <4>3, <4>4
    <3> QED BY <3>3, <3>4 DEF ClientInRound
  <2> QED BY <1>1, <1>2, <2>1 DEF Round
<1> QED BY <1>6, <1>7, <1>8

\* A checkpoint begins: every client is told to suspend.
LEMMA StartCheckpointRound ==
  ASSUME DiskInv, RoundInv, StartCheckpoint,
         UNCHANGED <<backlog, clients, cstate, compId, toCoord, images, restarting, restarts>>,
         UNCHANGED workerVars
  PROVE  RoundInv'
<1>1. /\ Round(0) /\ clients # {} /\ \A v \in clients : ~Told(v, 0)
      /\ ~suspendSent /\ suspendSent' = TRUE /\ generation' = generation + 1
      /\ generation \in Nat /\ clients \subseteq Worker
      /\ toWorker' = Post(toWorker, clients, DoSuspend(compId, generation'))
  BY CheckpointAccepted, BoundAssumption
     DEF StartCheckpoint, CanCheckpoint, DiskInv, TypeOK, CoordTypeOK, Generation
<1> DEFINE m == DoSuspend(compId, generation')
<1>2. /\ m.type = "DO_SUSPEND" /\ m.comp = compId /\ m.gen = generation'
      /\ Number(m.type) = 0
  BY DEF DoSuspend, Number
<1>3. /\ \A v \in clients : Alive(v) => Writes(v, m)
      /\ \A v \in Worker : v \notin clients \/ ~Alive(v) => toWorker'[v] = toWorker[v]
  BY <1>1, <1>2, PostWrites
<1>4. Connected' /\ RestoredHello'
  <2>1. \A v \in Worker : ConnectionOf(v)' /\ HelloOf(v)'
    BY <1>3, ClientsWritten
  <2> QED BY <2>1 DEF RoundInv, Connected, RestoredHello
<1>5. ASSUME NEW v \in clients
      PROVE  ClientInRound(v, 0)'
  <2>1. /\ ClientInRound(v, 0) /\ SameReports(v) /\ cstate'[v] = cstate[v]
    BY <1>1, ChannelsKept DEF Round
  <2>2. ReportsInRound(v, 0)' /\ ~Told(v, 0)'
    BY <1>1, <2>1 DEF ClientInRound, ReportsInRound, Told, SameReports
  <2>3. Alive(v)' = Alive(v) /\ Reached(v)' = Reached(v) /\ pc' = pc
        /\ fromImage' = fromImage
    BY DEF Alive, Reached, workerVars
  <2>4. ASSUME Alive(v)
        PROVE  PlaceInRound(v, 0)' /\ SuspendInRound(v, 0)'
    <3>1. PlaceInRound(v, 0) /\ SuspendInRound(v, 0) /\ Reached(v) = 0
      BY <1>1, <2>1, <2>4 DEF ClientInRound, PlaceInRound
    <3>2. pc[v] \in {"hello", "run"} /\ Suspends(v) = {} /\ Orders(v) = {}
      BY <1>1, <2>4, <3>1 DEF SuspendInRound, PlaceInRound, Reached, Alive, WaitPoint,
         DeadPoint, DiskInv, TypeOK, WorkerTypeOK, Point, WorkPoint
    <3>3. PICK n \in Nat :
            toWorker'[v][n] = m /\ Orders(v)' = {} /\ Suspends(v)' = {n}
      BY <1>2, <1>3, <2>4, <3>2 DEF Writes
    <3>4. PlaceInRound(v, 0)'
      BY <2>2, <2>3, <3>1, <3>3 DEF PlaceInRound
    <3>5. SuspendInRound(v, 0)'
      BY <1>1, <1>2, <2>3, <3>1, <3>2, <3>3 DEF SuspendInRound
    <3> QED BY <3>4, <3>5
  <2> QED BY <1>1, <2>2, <2>3, <2>4 DEF ClientInRound
<1>6. Round(0)'
  BY <1>1, <1>5 DEF Round
<1> QED BY <1>4, <1>6 DEF RoundInv

\* The user's commands: each but a checkpoint at most writes to the clients.
LEMMA UserRound ==
  ASSUME DiskInv, RoundInv, UserStep
  PROVE  RoundInv'
<1>1. /\ UNCHANGED <<backlog, clients, cstate, toCoord, images, restarting, restarts>>
      /\ UNCHANGED workerVars
  BY DEF UserStep, OnTimeoutInterval, CommandBlock, CommandCheckpoint, CommandKill,
     CommandForce, CommandQuit, netVars, diskVars, envVars
<1>2. CASE StartCheckpoint /\ compId' = compId
  BY <1>1, <1>2, StartCheckpointRound
<1>3. ASSUME /\ suspendSent' = SuspendNow /\ compId' = CompNow /\ generation' = GenNow
             /\ \/ toWorker' = toWorker
                \/ \E t \in {"KILL_PEER", "FORCE_RESTART"} :
                     toWorker' = Post(toWorker, clients, Plain(t))
      PROVE  RoundInv'
  <2>1. /\ clients = {} \/ UNCHANGED <<suspendSent, compId, generation>>
        /\ suspendSent' => suspendSent /\ generation' = generation
    BY <1>3 DEF SuspendNow, CompNow, GenNow, Idle, DiskInv, TypeOK, CoordTypeOK
  <2>2. /\ \A v \in Worker : SameOrders(v)
        /\ \A v \in Worker : v \notin clients \/ ~Alive(v) => toWorker'[v] = toWorker[v]
    <3>1. CASE toWorker' = toWorker
      BY <3>1, ChannelsKept
    <3>2. ASSUME NEW t \in {"KILL_PEER", "FORCE_RESTART"},
                 toWorker' = Post(toWorker, clients, Plain(t))
          PROVE  /\ \A v \in Worker : SameOrders(v)
                 /\ \A v \in Worker :
                      v \notin clients \/ ~Alive(v) => toWorker'[v] = toWorker[v]
      <4>1. PICK m : m = Plain(t)
        OBVIOUS
      <4>2. m.type = t /\ Number(t) = 0 /\ t # "DO_SUSPEND" /\ clients \subseteq Worker
        BY <4>1 DEF Plain, Number, DiskInv, TypeOK, CoordTypeOK
      <4>3. \A v \in Worker : SameOrders(v)
        BY <3>2, <4>1, <4>2, PostQuiet
      <4> QED BY <3>2, <4>3 DEF Post
    <3> QED BY <1>3, <3>1, <3>2
  <2>3. \A v \in Worker : ConnectionOf(v)' /\ HelloOf(v)'
    BY <1>1, <2>2, ClientsWritten
  <2>4. \A v \in clients : toCoord'[v] = toCoord[v]
    BY <1>1
  <2> QED BY <1>1, <2>1, <2>2, <2>3, <2>4, QuietStep
<1>4. \/ StartCheckpoint /\ compId' = compId
      \/ /\ suspendSent' = SuspendNow /\ compId' = CompNow /\ generation' = GenNow
         /\ \/ toWorker' = toWorker
            \/ \E t \in {"KILL_PEER", "FORCE_RESTART"} :
                 toWorker' = Post(toWorker, clients, Plain(t))
  BY DEF UserStep, OnTimeoutInterval, CommandBlock, CommandCheckpoint, CommandKill,
     CommandForce, CommandQuit, InitializeComputation, netVars
<1> QED BY <1>2, <1>3, <1>4

-----------------------------------------------------------------------------
(* The invariant, and what it says of the barriers. *)

\* At first nobody has reported anything.
LEMMA InitRound == Init => RoundInv
<1> SUFFICES ASSUME Init PROVE RoundInv
  OBVIOUS
<1>1. \A w \in Worker : Reports(w) = {} /\ ~Alive(w)
  BY DEF Init, Reports, Alive
<1>2. \A w \in Worker : ConnectionOf(w) /\ HelloOf(w)
  BY <1>1 DEF Init, ConnectionOf, HelloOf
<1>3. Connected /\ RestoredHello
  BY <1>2 DEF Init, Connected, RestoredHello
<1>4. Round(0)
  BY DEF Init, Round
<1> QED BY <1>3, <1>4 DEF RoundInv

\* No step of the coordinator, of a worker or of the user breaks the rounds.
LEMMA NextRound == DiskInv /\ RoundInv /\ [Next]_vars => RoundInv'
<1> SUFFICES ASSUME DiskInv, RoundInv, [Next]_vars PROVE RoundInv'
  OBVIOUS
<1>1. ASSUME NEW w \in Worker, CoordinatorStep(w)
      PROVE  RoundInv'
  BY <1>1, OnConnectRound, OnDisconnectRound, OnOkRound, OnDataRound DEF CoordinatorStep
<1>2. ASSUME NEW w \in Worker, CkptThreadStep(w)
      PROVE  RoundInv'
  <2>1. CoordinatorKept /\ UNCHANGED <<script, restarting, envVars>>
    BY <1>2 DEF CkptThreadStep
  <2>2. CASE WriteImage(w)
    BY <2>1, <2>2, WriteImageRound
  <2>3. CASE ~WriteImage(w)
    <3>1. UNCHANGED <<diskVars, envVars>> /\ UNCHANGED <<diskVars, restarts>>
      BY <1>2, <2>1, <2>3 DEF CkptThreadStep, diskVars, envVars
    <3> QED BY <1>2, <2>1, <2>3, <3>1, HandshakeRound, EndRound, Stage1Round, WaitRound,
               StageRound, NameServiceRound, QueriesRound DEF CkptThreadStep
  <2> QED BY <2>2, <2>3
<1>3. ASSUME NEW w \in Worker, MainThreadStep(w)
      PROVE  RoundInv'
  BY <1>3, InformRound, FinishForkRound DEF MainThreadStep
<1>4. CASE UNCHANGED vars
  <2>1. /\ \A v \in Worker : Untouched(v)
        /\ SameCheckpoint /\ restarts \in Nat
        /\ clients' = clients /\ clients \subseteq Worker
        /\ images' = images /\ restarting' = restarting
    BY <1>4, BoundAssumption DEF Untouched, SameCheckpoint, vars, coordVars, workerVars,
       netVars, diskVars, envVars, DiskInv, TypeOK, CoordTypeOK, EnvTypeOK
  <2>2. \A v \in Worker : ConnectionOf(v)' /\ HelloOf(v)'
    BY <2>1, UntouchedKeeps DEF RoundInv, Connected, RestoredHello, SameCheckpoint
  <2>3. Connected' /\ RestoredHello'
    BY <2>1, <2>2 DEF RoundInv, Connected, RestoredHello, SameCheckpoint
  <2>4. ASSUME NEW v \in clients
        PROVE  /\ \A j : ClientInRound(v, j) => ClientInRound(v, j)'
               /\ ClientBack(v) => ClientBack(v)'
    BY <2>1, UntouchedKeeps, ClientKept, BackKept DEF Untouched
  <2>5. /\ \A j \in 0 .. 7 : Round(j) => Round(j)'
        /\ Back => Back'
    BY <2>1, <2>4 DEF Round, Back, SameCheckpoint
  <2> QED BY <2>3, <2>5 DEF RoundInv
<1> QED BY <1>1, <1>2, <1>3, <1>4, UserProcessRound, RestartRound, RunScriptRound,
           UserRound DEF Next, WorkerStep

\* Every reachable state is within a round, or in a restart.
LEMMA RoundInvariant == Spec => [](DiskInv /\ RoundInv)
<1>1. DiskInv /\ RoundInv /\ [Next]_vars => DiskInv' /\ RoundInv'
  BY NextDiskInv, NextRound
<1> QED BY InitDiskInv, InitRound, <1>1, PTL DEF Spec

\* Who takes part in a checkpoint is a client.
LEMMA Participants ==
  ASSUME DiskInv, RoundInv, NEW w \in Worker, Participant(w)
  PROVE  /\ w \in clients /\ Alive(w) /\ (Back => PlaceBack(w))
         /\ \A j \in 0 .. 7 : Round(j) =>
              /\ PlaceInRound(w, j) /\ SuspendInRound(w, j)
              /\ Reached(w) \in {j, After(j)}
<1>1. w \in clients /\ Alive(w)
  BY DEF Participant, RoundInv, Connected, ConnectionOf
<1>2. Back => PlaceBack(w)
  BY <1>1 DEF Back, ClientBack
<1> QED BY <1>1, <1>2, AliveInRound

\* After DO_RESUME no process is still refilling its sockets when the user
\* threads of another run and may write to them: whatever the processes that
\* join, fork, crash, are killed or are restored, and the commands given.
THEOREM ResumeCorrect == Spec => []ResumeHolds
<1>1. DiskInv /\ RoundInv => ResumeHolds
  <2> SUFFICES ASSUME DiskInv, RoundInv, NEW v \in Worker, NEW w \in Worker,
                      Participant(v), Participant(w),
                      pc[w] \in {"resuming", "run", "locking"}
               PROVE  Reached(v) \in {0, 1, 7}
    BY DEF ResumeHolds
  <2>1. CASE Back
    <3>1. PlaceBack(w)
      BY <2>1, Participants
    <3> QED BY <3>1 DEF PlaceBack, Reached
  <2>2. ASSUME NEW j \in 0 .. 7, Round(j)
        PROVE  Reached(v) \in {0, 1, 7}
    <3>1. /\ PlaceInRound(w, j) /\ Reached(w) \in {j, After(j)}
          /\ Reached(v) \in {j, After(j)}
      BY <2>2, Participants
    <3>2. j \in {0, 7}
      BY <3>1 DEF PlaceInRound, Reached, After, WorkPoint
    <3> QED BY <3>1, <3>2 DEF After
  <2> QED BY <2>1, <2>2 DEF RoundInv
<1> QED BY <1>1, RoundInvariant, PTL

\* An image is written under the identity and the generation of the checkpoint
\* the coordinator is running: a late joiner is told them with its suspend.
THEOREM ImageCorrect == Spec => []ImageOfThisCheckpoint
<1>1. DiskInv /\ RoundInv => ImageOfThisCheckpoint
  <2> SUFFICES ASSUME DiskInv, RoundInv, NEW w \in Worker, pc[w] = "writing"
               PROVE  wComp[w] = compId /\ wGen[w] = generation
    BY DEF ImageOfThisCheckpoint
  <2>1. /\ Alive(w) /\ Participant(w) /\ Reached(w) = 3
    BY DEF Alive, Participant, DeadPoint, Reached
  <2>2. ~Back
    BY <2>1, Participants DEF PlaceBack
  <2>3. PICK j \in 0 .. 7 : Round(j)
    BY <2>2 DEF RoundInv
  <2> QED BY <2>1, <2>3, Participants DEF SuspendInRound
<1> QED BY <1>1, RoundInvariant, PTL

\* Until a first restart no worker leaves a barrier of a checkpoint before
\* every process of the computation has reached it.
THEOREM BarriersCorrect == Spec => [](restarts = 0 => BarriersHold)
<1>1. DiskInv /\ RoundInv => (restarts = 0 => BarriersHold)
  <2> SUFFICES ASSUME DiskInv, RoundInv, restarts = 0, NEW v \in Worker, NEW w \in Worker,
                      Participant(v), Participant(w), Left(w) \in 1 .. 6,
                      pc[w] # "refilled"
               PROVE  Reached(v) >= Left(w)
    BY DEF BarriersHold
  <2>1. PICK j \in 0 .. 7 : Round(j)
    BY DEF RoundInv, Back
  <2>2. /\ PlaceInRound(w, j) /\ Reached(w) \in {j, After(j)}
        /\ Reached(v) \in {j, After(j)}
    BY <2>1, Participants
  <2>3. /\ pc[w] \in WorkPoint => Left(w) = j
        /\ pc[w] \notin WorkPoint => Left(w) = Reached(w) - 1
    BY <2>2 DEF PlaceInRound, Left
  <2>4. Reached(w) = 7 /\ pc[w] \notin WorkPoint => FALSE
    BY DEF Reached, WorkPoint
  <2> QED BY <2>2, <2>3, <2>4 DEF After
<1> QED BY <1>1, RoundInvariant, PTL

\* In every checkpoint, also of a restored computation, no process drains its
\* sockets before all are suspended and have elected, and no process writes
\* its image before all sockets are drained.
THEOREM ImagesAfterDraining ==
  Spec => [](\A v, w \in Worker :
               Participant(v) /\ Participant(w) /\ Left(w) \in 1 .. 3
               => Reached(v) >= Left(w))
<1>1. DiskInv /\ RoundInv =>
        \A v, w \in Worker :
          Participant(v) /\ Participant(w) /\ Left(w) \in 1 .. 3
          => Reached(v) >= Left(w)
  <2> SUFFICES ASSUME DiskInv, RoundInv, NEW v \in Worker, NEW w \in Worker,
                      Participant(v), Participant(w), Left(w) \in 1 .. 3
               PROVE  Reached(v) >= Left(w)
    OBVIOUS
  <2>1. CASE Back
    BY <2>1, Participants DEF PlaceBack
  <2>2. ASSUME NEW j \in 0 .. 7, Round(j)
        PROVE  Reached(v) >= Left(w)
    <3>1. /\ PlaceInRound(w, j) /\ Reached(w) \in {j, After(j)}
          /\ Reached(v) \in {j, After(j)}
      BY <2>2, Participants
    <3>2. /\ pc[w] \in WorkPoint => Left(w) = j
          /\ pc[w] \notin WorkPoint => Left(w) = Reached(w) - 1
      BY <3>1 DEF PlaceInRound, Left
    <3> QED BY <3>1, <3>2 DEF After
  <2> QED BY <2>1, <2>2 DEF RoundInv
<1> QED BY <1>1, RoundInvariant, PTL
=============================================================================
