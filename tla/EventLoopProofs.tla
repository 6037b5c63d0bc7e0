-------------------------- MODULE EventLoopProofs --------------------------
(***************************************************************************)
(* The coordinator's loop keeps the messages of each connection apart and  *)
(* in order, for every set of clients, number of descriptors and bounds.   *)
(* LoopInv says that a write which is not to be dropped belongs to the     *)
(* present owner of its descriptor; OrderInv, that the writes of a pass    *)
(* are those of one broadcast.                                             *)
(***************************************************************************)
EXTENDS EventLoop, TLAPS, WellFoundedInduction

Socket == [fd : 1 .. MaxFds, error : BOOLEAN]
Write ==
  [fd : 1 .. MaxFds, done : BOOLEAN, error : BOOLEAN, serial : Nat, to : Clients]
Message == Nat \X Clients

LoopTypeInv ==
  /\ peer \in [Clients -> {"away", "waiting", "open", "closed"}]
  /\ fdOf \in [Clients -> 0 .. MaxFds]
  /\ toPeer \in [Clients -> Seq(Message)] /\ received \in [Clients -> Seq(Message)]
  /\ sockets \in Seq(Socket) /\ writes \in Seq(Write)
  /\ loopAt \in {"sockets", "writes", "select", "write", "read", "accept"}
  /\ index \in Nat \ {0} /\ serial \in Nat /\ inPass \in Nat

\* A descriptor has one owner, who was accepted; the sockets have each one of their own.
DescriptorInv ==
  /\ \A c \in Clients : peer[c] \in {"away", "waiting"} => fdOf[c] = 0
  /\ \A c, d \in Clients : fdOf[c] = fdOf[d] /\ fdOf[c] # 0 => c = d
  /\ \A k \in DOMAIN sockets : \E c \in Clients : fdOf[c] = sockets[k].fd
  /\ \A j, k \in DOMAIN sockets : sockets[j].fd = sockets[k].fd => j = k

\* A write that is not to be dropped goes to whom it was queued for; none to be dropped is
\* left when select is reached, where closedFds is emptied.
WriteInv ==
  /\ \A k \in DOMAIN writes : ~Dropped(writes[k]) => fdOf[writes[k].to] = writes[k].fd
  /\ loopAt = "writes" => \A k \in DOMAIN writes : k < index => ~Dropped(writes[k])
  /\ loopAt = "select" => \A k \in DOMAIN writes : ~Dropped(writes[k])
  /\ loopAt = "write" => \A k \in DOMAIN writes : k >= index => ~Dropped(writes[k])

OwnInv ==
  \A c \in Clients :
    /\ \A i \in DOMAIN received[c] : received[c][i][2] = c
    /\ \A i \in DOMAIN toPeer[c] : toPeer[c][i][2] = c

LoopInv == LoopTypeInv /\ DescriptorInv /\ WriteInv /\ OwnInv

-----------------------------------------------------------------------------
\* A set of numbers that has an element has a least one.
LEMMA MinOf ==
  ASSUME NEW S \in SUBSET Nat, S # {}
  PROVE  Min(S) \in S /\ \A y \in S : Min(S) <= y
<1> DEFINE Less == {ss \in Nat \X Nat : ss[1] < ss[2]}
<1>1. IsWellFoundedOn(Less, Nat)
  BY NatLessThanWellFounded DEF OpToRel
<1>2. \A x, y \in Nat : <<y, x>> \in Less <=> y < x
  OBVIOUS
<1> HIDE DEF Less
<1>3. PICK x \in S : \A y \in S : ~(<<y, x>> \in Less)
  BY <1>1, WFMin
<1>4. \A y \in S : y \in Nat /\ x \in Nat /\ ~(y < x)
  BY <1>2, <1>3
<1>5. \A y \in S : x <= y
  BY <1>4
<1> QED BY <1>5 DEF Min

\* "swap with last" and pop_back (jsocket.cpp, monitorSockets).
LEMMA Removed ==
  ASSUME NEW S, NEW s \in Seq(S), NEW i \in 1 .. Len(s)
  PROVE  /\ WithoutIndex(s, i) \in Seq(S)
         /\ Len(WithoutIndex(s, i)) = Len(s) - 1
         /\ \A k \in 1 .. Len(s) - 1 :
              WithoutIndex(s, i)[k] = IF k = i THEN s[Len(s)] ELSE s[k]
<1> DEFINE t == [s EXCEPT ![i] = s[Len(s)]]
<1>1. Len(s) \in Nat \ {0} /\ Len(s) \in 1 .. Len(s) /\ s[Len(s)] \in S
  OBVIOUS
<1>2. t \in Seq(S) /\ Len(t) = Len(s)
  BY <1>1
<1>3. \A k \in 1 .. Len(s) : t[k] = IF k = i THEN s[Len(s)] ELSE s[k]
  OBVIOUS
<1> HIDE DEF t
<1>4. /\ SubSeq(t, 1, Len(s) - 1) \in Seq(S)
      /\ Len(SubSeq(t, 1, Len(s) - 1)) = Len(s) - 1
      /\ \A k \in 1 .. Len(s) - 1 : SubSeq(t, 1, Len(s) - 1)[k] = t[k]
  BY <1>1, <1>2
<1>5. WithoutIndex(s, i) = SubSeq(t, 1, Len(s) - 1)
  BY DEF WithoutIndex, t
<1> QED BY <1>1, <1>3, <1>4, <1>5

\* What is left of s without its element i: old gives the former places of its elements.
Renumbers(old, t, s, i) ==
  /\ \A k \in 1 .. Len(s) - 1 :
       old[k] \in 1 .. Len(s) /\ old[k] # i /\ (k < i => old[k] = k) /\ t[k] = s[old[k]]
  /\ \A j, k \in 1 .. Len(s) - 1 : old[j] = old[k] => j = k

\* The element removed is gone, the others are there once, those before it in their place.
LEMMA RemovedFrom ==
  ASSUME NEW S, NEW s \in Seq(S), NEW i \in 1 .. Len(s)
  PROVE  /\ WithoutIndex(s, i) \in Seq(S)
         /\ DOMAIN WithoutIndex(s, i) = 1 .. Len(s) - 1
         /\ \E old : Renumbers(old, WithoutIndex(s, i), s, i)
<1> DEFINE old == [k \in 1 .. Len(s) - 1 |-> IF k = i THEN Len(s) ELSE k]
           t == WithoutIndex(s, i)
<1>1. /\ t \in Seq(S) /\ Len(t) = Len(s) - 1
      /\ \A k \in 1 .. Len(s) - 1 : t[k] = IF k = i THEN s[Len(s)] ELSE s[k]
  BY Removed
<1>2. Len(s) \in Nat /\ DOMAIN t = 1 .. Len(s) - 1
  BY <1>1
<1>3. \A k \in 1 .. Len(s) - 1 : old[k] = IF k = i THEN Len(s) ELSE k
  OBVIOUS
<1> HIDE DEF old, t
<1>5. \A k \in 1 .. Len(s) - 1 :
        old[k] \in 1 .. Len(s) /\ old[k] # i /\ (k < i => old[k] = k) /\ t[k] = s[old[k]]
  BY <1>1, <1>2, <1>3
<1>6. \A j, k \in 1 .. Len(s) - 1 : old[j] = old[k] => j = k
  BY <1>2, <1>3
<1>7. Renumbers(old, t, s, i)
  BY <1>5, <1>6 DEF Renumbers
<1> QED BY <1>1, <1>2, <1>7 DEF t

\* What a sequence is after another was appended to it.
LEMMA Joined ==
  ASSUME NEW S, NEW s \in Seq(S), NEW t \in Seq(S)
  PROVE  /\ s \o t \in Seq(S) /\ Len(s \o t) = Len(s) + Len(t)
         /\ \A k \in 1 .. Len(s) : (s \o t)[k] = s[k]
         /\ \A k \in Len(s) + 1 .. Len(s) + Len(t) : (s \o t)[k] = t[k - Len(s)]
OBVIOUS

\* A function on 1 .. n is a sequence.
LEMMA SequenceOf ==
  ASSUME NEW S, NEW n \in Nat, NEW f \in [1 .. n -> S]
  PROVE  f \in Seq(S) /\ Len(f) = n
OBVIOUS

\* What a handler queues: nothing, or a write for the owner of each socket.
LEMMA Queued ==
  ASSUME LoopTypeInv, NEW socks \in Seq(Socket),
         \A k \in DOMAIN socks : \E c \in Clients : fdOf[c] = socks[k].fd,
         \A j, k \in DOMAIN socks : socks[j].fd = socks[k].fd => j = k,
         HandlerQueues(socks, writes)
  PROVE  /\ writes' \in Seq(Write) /\ serial' \in Nat /\ inPass' \in Nat
         /\ Len(writes) <= Len(writes')
         /\ \A k \in 1 .. Len(writes) : writes'[k] = writes[k]
         /\ \A k \in Len(writes) + 1 .. Len(writes') :
              /\ ~writes'[k].done /\ ~writes'[k].error
              /\ writes'[k].serial = serial + 1 /\ serial' = serial + 1
              /\ fdOf[writes'[k].to] = writes'[k].fd
              /\ \E j \in DOMAIN socks : writes'[k].fd = socks[j].fd
         /\ \A j, k \in Len(writes) + 1 .. Len(writes') :
              writes'[j].fd = writes'[k].fd => j = k
         /\ \/ /\ writes' = writes /\ serial' = serial /\ inPass' = inPass
            \/ /\ inPass < MaxPerPass /\ serial < MaxBroadcasts
               /\ serial' = serial + 1 /\ inPass' = inPass + 1
<1> DEFINE B == BroadcastTo(socks)
<1> USE DEF LoopTypeInv
<1>1. CASE writes' = writes /\ UNCHANGED <<serial, inPass>>
  BY <1>1
<1>2. CASE /\ inPass < MaxPerPass /\ serial < MaxBroadcasts
           /\ writes' = writes \o B
           /\ serial' = serial + 1 /\ inPass' = inPass + 1
  <2>1. /\ B \in Seq(Write) /\ Len(B) = Len(socks)
        /\ \A k \in 1 .. Len(socks) :
             /\ B[k].fd = socks[k].fd /\ ~B[k].done /\ ~B[k].error
             /\ B[k].serial = serial + 1 /\ fdOf[B[k].to] = socks[k].fd
    <3> DEFINE addressee ==
                 [k \in 1 .. Len(socks) |-> CHOOSE c \in Clients : fdOf[c] = socks[k].fd]
    <3>1. DOMAIN socks = 1 .. Len(socks) /\ Len(socks) \in Nat
      OBVIOUS
    <3>2. \A k \in 1 .. Len(socks) :
            addressee[k] \in Clients /\ fdOf[addressee[k]] = socks[k].fd
      <4> TAKE k \in 1 .. Len(socks)
      <4>1. \E c \in Clients : fdOf[c] = socks[k].fd
        BY <3>1
      <4>2. addressee[k] = CHOOSE c \in Clients : fdOf[c] = socks[k].fd
        OBVIOUS
      <4> HIDE DEF addressee
      <4> QED BY <4>1, <4>2, Zenon
    <3>3. \A k \in 1 .. Len(socks) : socks[k].fd \in 1 .. MaxFds
      <4>1. \A k \in 1 .. Len(socks) : socks[k] \in Socket
        BY <3>1
      <4> QED BY <4>1 DEF Socket
    <3>4. B = [k \in 1 .. Len(socks) |->
                 [fd |-> socks[k].fd, done |-> FALSE, error |-> FALSE, serial |-> serial + 1,
                  to |-> addressee[k]]]
      BY <3>1 DEF BroadcastTo
    <3> HIDE DEF addressee, B
    <3>5. \A k \in 1 .. Len(socks) :
            B[k] = [fd |-> socks[k].fd, done |-> FALSE, error |-> FALSE, serial |-> serial + 1,
                    to |-> addressee[k]]
      BY <3>4
    <3>6. \A k \in 1 .. Len(socks) :
            /\ B[k] \in Write /\ B[k].fd = socks[k].fd /\ ~B[k].done /\ ~B[k].error
            /\ B[k].serial = serial + 1 /\ fdOf[B[k].to] = socks[k].fd
      <4> TAKE k \in 1 .. Len(socks)
      <4>1. serial + 1 \in Nat /\ addressee[k] \in Clients /\ socks[k].fd \in 1 .. MaxFds
        BY <3>2, <3>3
      <4>2. B[k] = [fd |-> socks[k].fd, done |-> FALSE, error |-> FALSE,
                    serial |-> serial + 1, to |-> addressee[k]]
        BY <3>5, Zenon
      <4>3. fdOf[addressee[k]] = socks[k].fd
        BY <3>2
      <4> QED BY <4>1, <4>2, <4>3 DEF Write
    <3>7. B \in [1 .. Len(socks) -> Write]
      BY <3>4, <3>5, <3>6
    <3>8. B \in Seq(Write) /\ Len(B) = Len(socks)
      BY <3>1, <3>7, SequenceOf
    <3> QED BY <3>6, <3>8
  <2> HIDE DEF B
  <2>2. /\ writes' \in Seq(Write) /\ Len(writes') = Len(writes) + Len(B)
        /\ \A k \in 1 .. Len(writes) : writes'[k] = writes[k]
        /\ \A k \in Len(writes) + 1 .. Len(writes') : writes'[k] = B[k - Len(writes)]
    <3>1. writes \in Seq(Write) /\ B \in Seq(Write) /\ writes' = writes \o B
      BY <1>2, <2>1
    <3>2. /\ writes \o B \in Seq(Write) /\ Len(writes \o B) = Len(writes) + Len(B)
          /\ \A k \in 1 .. Len(writes) : (writes \o B)[k] = writes[k]
          /\ \A k \in Len(writes) + 1 .. Len(writes) + Len(B) :
               (writes \o B)[k] = B[k - Len(writes)]
      BY <3>1, Joined
    <3> QED BY <3>1, <3>2
  <2>3. Len(writes) \in Nat /\ Len(socks) \in Nat /\ DOMAIN socks = 1 .. Len(socks)
    OBVIOUS
  <2>4. \A k \in Len(writes) + 1 .. Len(writes') : k - Len(writes) \in 1 .. Len(socks)
    BY <2>1, <2>2, <2>3
  <2>5. \A k \in Len(writes) + 1 .. Len(writes') :
          /\ ~writes'[k].done /\ ~writes'[k].error
          /\ writes'[k].serial = serial + 1
          /\ fdOf[writes'[k].to] = writes'[k].fd
          /\ writes'[k].fd = socks[k - Len(writes)].fd
    <3> TAKE k \in Len(writes) + 1 .. Len(writes')
    <3> DEFINE n == k - Len(writes)
    <3>1. n \in 1 .. Len(socks)
      BY <2>4
    <3>2. writes'[k] = B[n]
      BY <2>2
    <3> HIDE DEF n
    <3>3. /\ B[n].fd = socks[n].fd /\ ~B[n].done /\ ~B[n].error
          /\ B[n].serial = serial + 1 /\ fdOf[B[n].to] = socks[n].fd
      BY <2>1, <3>1
    <3>4. writes'[k].fd = socks[n].fd
      BY <3>2, <3>3, Zenon
    <3>5. fdOf[writes'[k].to] = writes'[k].fd
      BY <3>2, <3>3, Zenon
    <3>6. ~writes'[k].done /\ ~writes'[k].error /\ writes'[k].serial = serial + 1
      BY <3>2, <3>3, Zenon
    <3> QED BY <3>4, <3>5, <3>6 DEF n
  <2>6. \A j, k \in Len(writes) + 1 .. Len(writes') :
          writes'[j].fd = writes'[k].fd => j = k
    <3> TAKE j, k \in Len(writes) + 1 .. Len(writes')
    <3> HAVE writes'[j].fd = writes'[k].fd
    <3>1. socks[j - Len(writes)].fd = socks[k - Len(writes)].fd
      BY <2>5
    <3>2. j - Len(writes) = k - Len(writes)
      BY <3>1, <2>3, <2>4
    <3> QED BY <3>2, <2>2, <2>3
  <2>7. \A k \in Len(writes) + 1 .. Len(writes') :
          \E j \in DOMAIN socks : writes'[k].fd = socks[j].fd
    BY <2>3, <2>4, <2>5
  <2>8. Len(writes) <= Len(writes') /\ serial' \in Nat /\ inPass' \in Nat
    BY <1>2, <2>1, <2>2, <2>3
  <2> QED BY <1>2, <2>2, <2>5, <2>6, <2>7, <2>8
<1> QED BY <1>1, <1>2 DEF HandlerQueues

-----------------------------------------------------------------------------
\* What a client does leaves the program's queues alone.
LEMMA ClientKeeps ==
  ASSUME LoopInv, NEW c \in Clients,
         Connect(c) \/ SendToLoop(c) \/ Receive(c) \/ Disconnect(c)
  PROVE  LoopInv'
<1>1. UNCHANGED <<fdOf, sockets, writes, closedFds, loopAt, index, serial, inPass>>
  BY DEF Connect, SendToLoop, Receive, Disconnect, queueVars
<1>2. /\ peer' \in [Clients -> {"away", "waiting", "open", "closed"}]
      /\ \A d \in Clients : peer'[d] \in {"away", "waiting"} => peer[d] \in {"away", "waiting"}
  BY DEF LoopInv, LoopTypeInv, Connect, SendToLoop, Receive, Disconnect, clientVars
<1>3. /\ toPeer' \in [Clients -> Seq(Message)] /\ received' \in [Clients -> Seq(Message)]
      /\ OwnInv'
  <2>1. CASE Connect(c) \/ SendToLoop(c)
    BY <2>1 DEF LoopInv, LoopTypeInv, OwnInv, Connect, SendToLoop, channelVars
  <2>2. CASE Disconnect(c)
    <3>1. toPeer' = [toPeer EXCEPT ![c] = <<>>] /\ received' = received
      BY <2>2 DEF Disconnect
    <3> QED BY <3>1 DEF LoopInv, LoopTypeInv, OwnInv
  <2>3. CASE Receive(c)
    <3>1. /\ toPeer[c] \in Seq(Message) /\ received[c] \in Seq(Message) /\ toPeer[c] # <<>>
          /\ toPeer' = [toPeer EXCEPT ![c] = Tail(toPeer[c])]
          /\ received' = [received EXCEPT ![c] = Append(received[c], Head(toPeer[c]))]
      BY <2>3 DEF Receive, LoopInv, LoopTypeInv
    <3>2. /\ Tail(toPeer[c]) \in Seq(Message) /\ Head(toPeer[c]) \in Message
          /\ Head(toPeer[c])[2] = c
          /\ \A i \in DOMAIN Tail(toPeer[c]) : Tail(toPeer[c])[i][2] = c
      BY <3>1 DEF LoopInv, OwnInv
    <3>3. /\ Append(received[c], Head(toPeer[c])) \in Seq(Message)
          /\ \A i \in DOMAIN Append(received[c], Head(toPeer[c])) :
               Append(received[c], Head(toPeer[c]))[i][2] = c
      BY <3>1, <3>2 DEF LoopInv, OwnInv
    <3> QED BY <3>1, <3>2, <3>3 DEF LoopInv, LoopTypeInv, OwnInv
  <2> QED BY <2>1, <2>2, <2>3
<1>4. LoopTypeInv'
  BY <1>1, <1>2, <1>3 DEF LoopInv, LoopTypeInv
<1>5. DescriptorInv'
  BY <1>1, <1>2 DEF LoopInv, DescriptorInv
<1>6. WriteInv'
  BY <1>1 DEF LoopInv, WriteInv, Dropped
<1> QED BY <1>3, <1>4, <1>5, <1>6 DEF LoopInv

\* closedFds is emptied when no write to a closed connection is left.
LEMMA SelectKeeps ==
  ASSUME LoopInv, Select
  PROVE  LoopInv'
<1> USE DEF LoopInv, Select, GoTo, clientVars, channelVars
<1>1. LoopTypeInv'
  BY DEF LoopTypeInv
<1>2. DescriptorInv'
  BY DEF DescriptorInv
<1>3. WriteInv'
  BY DEF WriteInv, Dropped
<1>4. OwnInv'
  BY DEF OwnInv
<1> QED BY <1>1, <1>2, <1>3, <1>4

\* Of the queued writes, those before index stay, and those moved to later places were
\* already later.
LEMMA CleanWriteKeeps ==
  ASSUME LoopInv, CleanWrite
  PROVE  LoopInv'
<1> DEFINE dropped == {k \in Pending(writes) : Dropped(writes[k])}
<1>1. /\ loopAt = "writes" /\ index \in Nat \ {0} /\ writes \in Seq(Write)
      /\ UNCHANGED <<fdOf, peer, toPeer, received, sockets, closedFds, serial, inPass>>
      /\ Len(writes) \in Nat /\ DOMAIN writes = 1 .. Len(writes)
      /\ \A k \in 1 .. Len(writes) :
           /\ k < index => ~Dropped(writes[k])
           /\ ~Dropped(writes[k]) => fdOf[writes[k].to] = writes[k].fd
  BY DEF CleanWrite, LoopInv, LoopTypeInv, WriteInv, clientVars, channelVars
<1>2. OwnInv' /\ DescriptorInv'
  BY <1>1 DEF LoopInv, OwnInv, DescriptorInv
<1>3. CASE dropped = {}
  <2>1. writes' = writes /\ loopAt' = "select" /\ index' = 1
    BY <1>3 DEF CleanWrite, GoTo
  <2>2. \A k \in 1 .. Len(writes) : ~Dropped(writes[k])
    BY <1>1, <1>3 DEF Pending
  <2>3. LoopTypeInv'
    BY <1>1, <2>1 DEF LoopInv, LoopTypeInv
  <2>4. WriteInv'
    BY <1>1, <2>1, <2>2 DEF WriteInv, Dropped
  <2> QED BY <1>2, <2>3, <2>4 DEF LoopInv
<1>4. CASE dropped # {}
  <2> DEFINE m == Min(dropped)
  <2>1. m \in dropped /\ \A y \in dropped : m <= y
    <3>1. dropped \in SUBSET Nat
      BY <1>1 DEF Pending
    <3> QED BY <3>1, <1>4, MinOf
  <2>2. writes' = WithoutIndex(writes, m) /\ index' = m /\ loopAt' = "writes"
    BY <1>1, <1>4 DEF CleanWrite
  <2>3. m \in 1 .. Len(writes) /\ index <= m
    BY <1>1, <2>1 DEF Pending
  <2>4. \A k \in 1 .. Len(writes) : k < m => ~Dropped(writes[k])
    BY <1>1, <2>1, <2>3 DEF Pending
  <2> HIDE DEF dropped, m
  <2>5. writes' \in Seq(Write) /\ DOMAIN writes' = 1 .. Len(writes) - 1
    BY <1>1, <2>2, <2>3, RemovedFrom
  <2>6. PICK old : Renumbers(old, writes', writes, m)
    BY <1>1, <2>2, <2>3, RemovedFrom
  <2>7. LoopTypeInv'
    BY <1>1, <2>2, <2>3, <2>5 DEF LoopInv, LoopTypeInv
  <2>8. \A k \in 1 .. Len(writes) - 1 :
          \E j \in 1 .. Len(writes) : writes'[k] = writes[j] /\ (k < m => j = k)
    BY <2>6 DEF Renumbers
  <2>9. WriteInv'
    <3>1. \A k \in DOMAIN writes' : \E j \in 1 .. Len(writes) :
            writes'[k] = writes[j] /\ (k < m => j < m)
      BY <2>5, <2>8
    <3>2. \A k \in DOMAIN writes' : ~Dropped(writes'[k]) => fdOf[writes'[k].to] = writes'[k].fd
      BY <1>1, <3>1
    <3>3. \A k \in DOMAIN writes' : k < m => ~Dropped(writes'[k])
      BY <2>4, <3>1
    <3> QED BY <1>1, <2>2, <3>2, <3>3 DEF WriteInv, Dropped
  <2> QED BY <1>2, <2>7, <2>9 DEF LoopInv
<1> QED BY <1>3, <1>4

\* When a socket is removed the others have owners and descriptors of their own.
LEMMA RestOfSockets ==
  ASSUME LoopInv, NEW i \in 1 .. Len(sockets)
  PROVE  /\ WithoutIndex(sockets, i) \in Seq(Socket)
         /\ \A k \in DOMAIN WithoutIndex(sockets, i) :
              /\ \E c \in Clients : fdOf[c] = WithoutIndex(sockets, i)[k].fd
              /\ WithoutIndex(sockets, i)[k].fd # sockets[i].fd
         /\ \A j, k \in DOMAIN WithoutIndex(sockets, i) :
              WithoutIndex(sockets, i)[j].fd = WithoutIndex(sockets, i)[k].fd => j = k
<1> DEFINE rest == WithoutIndex(sockets, i)
<1>1. sockets \in Seq(Socket) /\ DOMAIN sockets = 1 .. Len(sockets)
  BY DEF LoopInv, LoopTypeInv
<1>2. rest \in Seq(Socket) /\ DOMAIN rest = 1 .. Len(sockets) - 1
  BY <1>1, RemovedFrom
<1>3. PICK old : Renumbers(old, rest, sockets, i)
  BY <1>1, RemovedFrom
<1>4. /\ \A k \in 1 .. Len(sockets) : \E c \in Clients : fdOf[c] = sockets[k].fd
      /\ \A j, k \in 1 .. Len(sockets) : sockets[j].fd = sockets[k].fd => j = k
  BY <1>1 DEF LoopInv, DescriptorInv
<1> HIDE DEF rest
<1>5. /\ \A k \in DOMAIN rest :
           old[k] \in 1 .. Len(sockets) /\ old[k] # i /\ rest[k].fd = sockets[old[k]].fd
      /\ \A j, k \in DOMAIN rest : old[j] = old[k] => j = k
  BY <1>2, <1>3 DEF Renumbers
<1>6. \A k \in DOMAIN rest : \E c \in Clients : fdOf[c] = rest[k].fd
  BY <1>4, <1>5
<1>7. \A k \in DOMAIN rest : rest[k].fd # sockets[i].fd
  BY <1>4, <1>5
<1>8. \A j, k \in DOMAIN rest : rest[j].fd = rest[k].fd => j = k
  <2> TAKE j, k \in DOMAIN rest
  <2> HAVE rest[j].fd = rest[k].fd
  <2>1. old[j] = old[k]
    BY <1>4, <1>5
  <2> QED BY <1>5, <2>1
<1> QED BY <1>2, <1>6, <1>7, <1>8 DEF rest

\* A write to the closed socket is dropped from now on; the others keep their owner.
LEMMA CleanSocketKeeps ==
  ASSUME LoopInv, CleanSocket
  PROVE  LoopInv'
<1> DEFINE failed == {k \in Pending(sockets) : sockets[k].error}
<1>1. /\ loopAt = "sockets" /\ index \in Nat \ {0} /\ sockets \in Seq(Socket)
      /\ fdOf \in [Clients -> 0 .. MaxFds] /\ writes \in Seq(Write)
      /\ UNCHANGED <<peer, toPeer, received>>
      /\ Len(sockets) \in Nat /\ DOMAIN sockets = 1 .. Len(sockets)
      /\ Len(writes) \in Nat /\ DOMAIN writes = 1 .. Len(writes)
  BY DEF CleanSocket, LoopInv, LoopTypeInv, clientVars, channelVars
<1>2. OwnInv'
  BY <1>1 DEF LoopInv, OwnInv
<1>3. CASE failed = {}
  <2>1. /\ UNCHANGED <<fdOf, sockets, writes, closedFds, serial, inPass>>
        /\ loopAt' = "writes" /\ index' = 1
    BY <1>3 DEF CleanSocket, GoTo, queueVars
  <2>2. LoopTypeInv' /\ DescriptorInv'
    BY <1>1, <2>1 DEF LoopInv, LoopTypeInv, DescriptorInv
  <2>3. WriteInv'
    BY <1>1, <2>1 DEF LoopInv, WriteInv, Dropped
  <2> QED BY <1>2, <2>2, <2>3 DEF LoopInv
<1>4. CASE failed # {}
  <2> DEFINE i    == Min(failed)
             rest == WithoutIndex(sockets, i)
  <2>1. i \in failed
    <3>1. failed \in SUBSET Nat
      BY <1>1 DEF Pending
    <3> QED BY <3>1, <1>4, MinOf
  <2>2. /\ sockets' = rest /\ closedFds' = closedFds \union {sockets[i].fd}
        /\ HandlerQueues(rest, writes)
        /\ fdOf' = [c \in Clients |-> IF fdOf[c] = sockets[i].fd THEN 0 ELSE fdOf[c]]
        /\ index' = i /\ loopAt' = "sockets"
    BY <1>1, <1>4 DEF CleanSocket
  <2>3. i \in 1 .. Len(sockets)
    BY <1>1, <2>1 DEF Pending
  <2>4. /\ rest \in Seq(Socket)
        /\ \A k \in DOMAIN rest : \E c \in Clients : fdOf[c] = rest[k].fd
        /\ \A j, k \in DOMAIN rest : rest[j].fd = rest[k].fd => j = k
        /\ \A k \in DOMAIN rest : rest[k].fd # sockets[i].fd
    BY <2>3, RestOfSockets
  <2> HIDE DEF failed, i, rest
  <2>7. /\ \A c, d \in Clients : fdOf[c] = fdOf[d] /\ fdOf[c] # 0 => c = d
        /\ sockets[i].fd \in 1 .. MaxFds
    <3>1. sockets[i] \in Socket
      BY <1>1, <2>3
    <3> QED BY <3>1 DEF LoopInv, DescriptorInv, Socket
  <2>9. /\ writes' \in Seq(Write) /\ serial' \in Nat /\ inPass' \in Nat
        /\ Len(writes) <= Len(writes')
        /\ \A k \in 1 .. Len(writes) : writes'[k] = writes[k]
        /\ \A k \in Len(writes) + 1 .. Len(writes') :
             /\ fdOf[writes'[k].to] = writes'[k].fd
             /\ \E j \in DOMAIN rest : writes'[k].fd = rest[j].fd
    BY <2>2, <2>4, Queued DEF LoopInv
  <2>10. fdOf' \in [Clients -> 0 .. MaxFds]
    BY <1>1, <2>2, EventLoopAssumption
  <2>11. LoopTypeInv'
    <3>1. index' \in Nat \ {0} /\ loopAt' = "sockets" /\ sockets' \in Seq(Socket)
      BY <1>1, <2>2, <2>3, <2>4
    <3> QED BY <1>1, <2>9, <2>10, <3>1 DEF LoopInv, LoopTypeInv
  <2>12. DescriptorInv'
    <3>1. \A c \in Clients : peer'[c] \in {"away", "waiting"} => fdOf'[c] = 0
      BY <1>1, <2>2 DEF LoopInv, DescriptorInv
    <3>2. \A c, d \in Clients : fdOf'[c] = fdOf'[d] /\ fdOf'[c] # 0 => c = d
      BY <2>2, <2>7
    <3>3. \A k \in DOMAIN sockets' : \E c \in Clients : fdOf'[c] = sockets'[k].fd
      BY <2>2, <2>4
    <3>4. \A j, k \in DOMAIN sockets' : sockets'[j].fd = sockets'[k].fd => j = k
      BY <2>2, <2>4
    <3> QED BY <3>1, <3>2, <3>3, <3>4 DEF DescriptorInv
  <2>13. WriteInv'
    <3>1. ASSUME NEW k \in DOMAIN writes', ~Dropped(writes[k])'
          PROVE  fdOf'[writes'[k].to] = writes'[k].fd
      <4>1. k \in 1 .. Len(writes') /\ writes'[k] \in Write
        BY <2>9
      <4>2. writes'[k].to \in Clients /\ writes'[k].fd # sockets[i].fd
        BY <2>2, <3>1, <4>1 DEF Dropped, Write
      <4>3. fdOf[writes'[k].to] = writes'[k].fd
        <5>1. CASE k \in 1 .. Len(writes)
          <6>1. writes'[k] = writes[k] /\ ~Dropped(writes[k])
            BY <2>2, <2>9, <3>1, <5>1 DEF Dropped
          <6> QED BY <1>1, <5>1, <6>1 DEF LoopInv, WriteInv
        <5>2. CASE k \in Len(writes) + 1 .. Len(writes')
          BY <2>9, <5>2
        <5> QED BY <1>1, <2>9, <4>1, <5>1, <5>2
      <4> QED BY <2>2, <4>2, <4>3
    <3>2. \A k \in DOMAIN writes' : ~Dropped(writes[k])' => fdOf'[writes'[k].to] = writes'[k].fd
      BY <3>1
    <3> QED BY <2>2, <3>2 DEF WriteInv
  <2> QED BY <1>2, <2>11, <2>12, <2>13 DEF LoopInv
<1> QED BY <1>3, <1>4

\* The write that is made: the first that is ready, to its addressee's connection.
WriteMade(m, c) ==
  /\ m \in 1 .. Len(writes) /\ index <= m /\ ~Dropped(writes[m])
  /\ \A k \in Pending(writes) : writes[k].fd \in ready.write => m <= k
  /\ c \in Clients /\ c = writes[m].to
  /\ index' = m + 1 /\ loopAt' = "write"
  /\ writes' \in Seq(Write) /\ DOMAIN writes' = 1 .. Len(writes)
  /\ \A k \in 1 .. Len(writes) : k # m => writes'[k] = writes[k]
  /\ writes'[m].done \/ writes'[m].error
  /\ \/ toPeer' = toPeer
     \/ toPeer' = [toPeer EXCEPT ![c] = Append(toPeer[c], <<writes[m].serial, c>>)]

\* A pass either makes the next write or goes on to reading.
LEMMA Made ==
  ASSUME LoopInv, WriteOnce
  PROVE  \/ /\ \A k \in Pending(writes) : writes[k].fd \notin ready.write
            /\ UNCHANGED <<writes, toPeer>> /\ loopAt' = "read" /\ index' = 1
         \/ \E m, c : WriteMade(m, c)
<1> DEFINE todo == {k \in Pending(writes) : writes[k].fd \in ready.write}
<1>1. /\ loopAt = "write" /\ index \in Nat \ {0} /\ writes \in Seq(Write)
      /\ Len(writes) \in Nat /\ DOMAIN writes = 1 .. Len(writes)
      /\ \A k \in 1 .. Len(writes) :
           /\ index <= k => ~Dropped(writes[k])
           /\ ~Dropped(writes[k]) => fdOf[writes[k].to] = writes[k].fd
  BY DEF WriteOnce, LoopInv, LoopTypeInv, WriteInv
<1>2. CASE todo = {}
  BY <1>2 DEF WriteOnce, GoTo
<1>3. CASE todo # {}
  <2> DEFINE m == Min(todo)
             w == writes[m]
  <2>1. m \in todo /\ \A k \in todo : m <= k
    <3>1. todo \in SUBSET Nat
      BY <1>1 DEF Pending
    <3> QED BY <3>1, <1>3, MinOf
  <2>2. /\ m \in 1 .. Len(writes) /\ index <= m
        /\ \A k \in Pending(writes) : writes[k].fd \in ready.write => m <= k
    BY <1>1, <2>1 DEF Pending
  <2>3. /\ index' = m + 1 /\ loopAt' = "write"
        /\ \E c \in OwnerOf(w.fd) :
             \/ /\ toPeer' = [toPeer EXCEPT ![c] = Append(@, <<w.serial, w.to>>)]
                /\ writes' = [writes EXCEPT ![m].done = TRUE]
             \/ toPeer' = toPeer /\ writes' = [writes EXCEPT ![m].error = TRUE]
    BY <1>1, <1>3 DEF WriteOnce
  <2> HIDE DEF todo, m
  <2>4. PICK c \in OwnerOf(w.fd) :
          \/ /\ toPeer' = [toPeer EXCEPT ![c] = Append(@, <<w.serial, w.to>>)]
             /\ writes' = [writes EXCEPT ![m].done = TRUE]
          \/ toPeer' = toPeer /\ writes' = [writes EXCEPT ![m].error = TRUE]
    BY <2>3
  <2>5. w \in Write /\ ~Dropped(w) /\ c \in Clients /\ c = w.to
    <3>1. w \in Write /\ ~Dropped(w) /\ fdOf[w.to] = w.fd
      BY <1>1, <2>2
    <3>2. c \in Clients /\ fdOf[c] = w.fd
      BY DEF OwnerOf
    <3>3. w.to \in Clients /\ w.fd \in 1 .. MaxFds
      BY <3>1 DEF Write
    <3> QED BY <3>1, <3>2, <3>3 DEF LoopInv, DescriptorInv
  <2>6. /\ writes' \in Seq(Write) /\ DOMAIN writes' = 1 .. Len(writes)
        /\ \A k \in 1 .. Len(writes) : k # m => writes'[k] = writes[k]
        /\ writes'[m].done \/ writes'[m].error
    <3>1. CASE writes' = [writes EXCEPT ![m].done = TRUE]
      <4>1. [w EXCEPT !.done = TRUE] \in Write /\ [w EXCEPT !.done = TRUE].done
        BY <2>5 DEF Write
      <4>2. writes' = [writes EXCEPT ![m] = [w EXCEPT !.done = TRUE]]
        BY <3>1
      <4> QED BY <1>1, <2>2, <4>1, <4>2
    <3>2. CASE writes' = [writes EXCEPT ![m].error = TRUE]
      <4>1. [w EXCEPT !.error = TRUE] \in Write /\ [w EXCEPT !.error = TRUE].error
        BY <2>5 DEF Write
      <4>2. writes' = [writes EXCEPT ![m] = [w EXCEPT !.error = TRUE]]
        BY <3>2
      <4> QED BY <1>1, <2>2, <4>1, <4>2
    <3> QED BY <2>4, <3>1, <3>2
  <2>7. \/ toPeer' = toPeer
        \/ toPeer' = [toPeer EXCEPT ![c] = Append(toPeer[c], <<w.serial, c>>)]
    BY <2>4, <2>5
  <2>8. WriteMade(m, c)
    BY <2>2, <2>3, <2>5, <2>6, <2>7 DEF WriteMade
  <2> QED BY <2>8
<1> QED BY <1>2, <1>3

\* Its addressee gets the message that is written.
LEMMA WriteOnceKeeps ==
  ASSUME LoopInv, WriteOnce
  PROVE  LoopInv'
<1>1. /\ loopAt = "write" /\ index \in Nat \ {0} /\ writes \in Seq(Write)
      /\ UNCHANGED <<fdOf, peer, received, sockets, closedFds, serial, inPass>>
      /\ Len(writes) \in Nat /\ DOMAIN writes = 1 .. Len(writes)
      /\ toPeer \in [Clients -> Seq(Message)]
      /\ \A k \in 1 .. Len(writes) :
           /\ index <= k => ~Dropped(writes[k])
           /\ ~Dropped(writes[k]) => fdOf[writes[k].to] = writes[k].fd
  BY DEF WriteOnce, LoopInv, LoopTypeInv, WriteInv, clientVars
<1>2. DescriptorInv'
  BY <1>1 DEF LoopInv, DescriptorInv
<1>3. CASE UNCHANGED <<writes, toPeer>> /\ loopAt' = "read" /\ index' = 1
  <2>1. LoopTypeInv' /\ OwnInv'
    BY <1>1, <1>3 DEF LoopInv, LoopTypeInv, OwnInv
  <2>2. WriteInv'
    BY <1>1, <1>3 DEF WriteInv, Dropped
  <2> QED BY <1>2, <2>1, <2>2 DEF LoopInv
<1>4. ASSUME NEW m, NEW c, WriteMade(m, c)
      PROVE  LoopInv'
  <2>1. toPeer' \in [Clients -> Seq(Message)] /\ OwnInv'
    <3>1. CASE toPeer' = toPeer
      BY <1>1, <3>1 DEF LoopInv, OwnInv
    <3>2. CASE toPeer' = [toPeer EXCEPT ![c] = Append(toPeer[c], <<writes[m].serial, c>>)]
      <4> DEFINE message == <<writes[m].serial, c>>
      <4>1. message \in Message /\ message[2] = c /\ toPeer[c] \in Seq(Message) /\ c \in Clients
        <5>1. writes[m] \in Write /\ c \in Clients
          BY <1>1, <1>4 DEF WriteMade
        <5> QED BY <1>1, <5>1 DEF Write, Message
      <4> HIDE DEF message
      <4>2. /\ Append(toPeer[c], message) \in Seq(Message)
            /\ \A i \in DOMAIN Append(toPeer[c], message) :
                 Append(toPeer[c], message)[i][2] = c
        BY <4>1 DEF LoopInv, OwnInv
      <4>3. toPeer' = [toPeer EXCEPT ![c] = Append(toPeer[c], message)]
        BY <3>2 DEF message
      <4> QED BY <1>1, <4>1, <4>2, <4>3 DEF LoopInv, OwnInv
    <3> QED BY <1>4, <3>1, <3>2 DEF WriteMade
  <2>2. LoopTypeInv'
    <3>1. index' \in Nat \ {0} /\ loopAt' = "write" /\ writes' \in Seq(Write)
      BY <1>1, <1>4 DEF WriteMade
    <3> QED BY <1>1, <2>1, <3>1 DEF LoopInv, LoopTypeInv
  <2>3. WriteInv'
    <3>1. \A k \in 1 .. Len(writes) : index' <= k => index <= k /\ k # m
      BY <1>1, <1>4 DEF WriteMade
    <3>2. /\ loopAt' = "write" /\ DOMAIN writes' = 1 .. Len(writes) /\ Dropped(writes'[m])
          /\ \A k \in 1 .. Len(writes) : k # m => writes'[k] = writes[k]
      BY <1>4 DEF WriteMade, Dropped
    <3> QED BY <1>1, <3>1, <3>2 DEF WriteInv, Dropped
  <2> QED BY <1>2, <2>1, <2>2, <2>3 DEF LoopInv
<1> QED BY <1>3, <1>4, Made

\* What a handler of the read and the accept phase queues keeps the writes in order.
LEMMA QueuedWrites ==
  ASSUME LoopInv, HandlerQueues(sockets, writes),
         closedFds' = closedFds, loopAt' \in {"read", "accept", "sockets"},
         \A c \in Clients : fdOf[c] # 0 => fdOf'[c] = fdOf[c]
  PROVE  writes' \in Seq(Write) /\ serial' \in Nat /\ inPass' \in Nat /\ WriteInv'
<1>1. /\ LoopTypeInv /\ sockets \in Seq(Socket) /\ writes \in Seq(Write)
      /\ \A k \in DOMAIN sockets : \E c \in Clients : fdOf[c] = sockets[k].fd
      /\ \A j, k \in DOMAIN sockets : sockets[j].fd = sockets[k].fd => j = k
  BY DEF LoopInv, LoopTypeInv, DescriptorInv
<1>2. /\ writes' \in Seq(Write) /\ serial' \in Nat /\ inPass' \in Nat
      /\ \A k \in 1 .. Len(writes) : writes'[k] = writes[k]
      /\ Len(writes) <= Len(writes')
      /\ \A k \in Len(writes) + 1 .. Len(writes') : fdOf[writes'[k].to] = writes'[k].fd
  BY <1>1, Queued
<1>3. ASSUME NEW k \in DOMAIN writes', ~Dropped(writes[k])'
      PROVE  fdOf'[writes'[k].to] = writes'[k].fd
  <2>1. k \in 1 .. Len(writes') /\ writes'[k] \in Write /\ Len(writes) \in Nat
    BY <1>1, <1>2
  <2>2. writes'[k].to \in Clients /\ writes'[k].fd # 0
    BY <2>1 DEF Write
  <2>3. fdOf[writes'[k].to] = writes'[k].fd
    <3>1. CASE k \in 1 .. Len(writes)
      <4>1. writes'[k] = writes[k] /\ ~Dropped(writes[k]) /\ k \in DOMAIN writes
        BY <1>1, <1>2, <1>3, <3>1 DEF Dropped
      <4> QED BY <4>1 DEF LoopInv, WriteInv
    <3>2. CASE k \in Len(writes) + 1 .. Len(writes')
      BY <1>2, <3>2
    <3> QED BY <1>2, <2>1, <3>1, <3>2
  <2> QED BY <2>2, <2>3
<1>4. \A k \in DOMAIN writes' : ~Dropped(writes[k])' => fdOf'[writes'[k].to] = writes'[k].fd
  BY <1>3
<1> QED BY <1>2, <1>4 DEF WriteInv

\* Reading marks a failed socket, or runs a handler.
LEMMA ReadOnceKeeps ==
  ASSUME LoopInv, ReadOnce
  PROVE  LoopInv'
<1> DEFINE todo == {k \in Pending(sockets) : sockets[k].fd \in ready.read}
<1>1. /\ loopAt = "read" /\ index \in Nat \ {0} /\ sockets \in Seq(Socket)
      /\ UNCHANGED <<fdOf, peer, toPeer, received, closedFds>>
      /\ Len(sockets) \in Nat /\ DOMAIN sockets = 1 .. Len(sockets)
  BY DEF ReadOnce, LoopInv, LoopTypeInv, clientVars
<1>2. OwnInv'
  BY <1>1 DEF LoopInv, OwnInv
<1>3. CASE todo = {}
  <2>1. UNCHANGED <<sockets, writes, serial, inPass>> /\ loopAt' = "accept" /\ index' = 1
    BY <1>3 DEF ReadOnce, GoTo
  <2>2. LoopTypeInv' /\ DescriptorInv'
    BY <1>1, <2>1 DEF LoopInv, LoopTypeInv, DescriptorInv
  <2>3. WriteInv'
    BY <1>1, <2>1 DEF LoopInv, WriteInv, Dropped
  <2> QED BY <1>2, <2>2, <2>3 DEF LoopInv
<1>4. CASE todo # {}
  <2> DEFINE m == Min(todo)
  <2>1. m \in todo
    <3>1. todo \in SUBSET Nat
      BY <1>1 DEF Pending
    <3> QED BY <3>1, <1>4, MinOf
  <2>2. m \in 1 .. Len(sockets) /\ m + 1 \in Nat \ {0}
    BY <1>1, <2>1 DEF Pending
  <2>3. /\ index' = m + 1 /\ loopAt' = "read"
        /\ \/ HandlerQueues(sockets, writes) /\ sockets' = sockets
           \/ /\ sockets' = [sockets EXCEPT ![m].error = TRUE]
              /\ UNCHANGED <<writes, serial, inPass>>
    BY <1>1, <1>4 DEF ReadOnce
  <2> HIDE DEF todo, m
  <2>4. CASE HandlerQueues(sockets, writes) /\ sockets' = sockets
    <3>1. writes' \in Seq(Write) /\ serial' \in Nat /\ inPass' \in Nat /\ WriteInv'
      <4>1. /\ closedFds' = closedFds /\ loopAt' \in {"read", "accept", "sockets"}
            /\ \A c \in Clients : fdOf[c] # 0 => fdOf'[c] = fdOf[c]
        BY <1>1, <2>3
      <4> QED BY <2>4, <4>1, QueuedWrites
    <3>2. LoopTypeInv' /\ DescriptorInv'
      BY <1>1, <2>2, <2>3, <2>4, <3>1 DEF LoopInv, LoopTypeInv, DescriptorInv
    <3> QED BY <1>2, <3>1, <3>2 DEF LoopInv
  <2>5. CASE /\ sockets' = [sockets EXCEPT ![m].error = TRUE]
             /\ UNCHANGED <<writes, serial, inPass>>
    <3>1. /\ sockets' \in Seq(Socket) /\ DOMAIN sockets' = DOMAIN sockets
          /\ \A k \in DOMAIN sockets : sockets'[k].fd = sockets[k].fd
      <4> DEFINE s == [sockets[m] EXCEPT !.error = TRUE]
      <4>1. s \in Socket /\ s.fd = sockets[m].fd
        <5>1. sockets[m] \in Socket
          BY <1>1, <2>2
        <5> QED BY <5>1 DEF Socket
      <4>2. sockets' = [sockets EXCEPT ![m] = s]
        BY <2>5
      <4> HIDE DEF s
      <4> QED BY <1>1, <2>2, <4>1, <4>2
    <3>2. LoopTypeInv'
      BY <1>1, <2>2, <2>3, <2>5, <3>1 DEF LoopInv, LoopTypeInv
    <3>3. DescriptorInv'
      BY <1>1, <3>1 DEF LoopInv, DescriptorInv
    <3>4. WriteInv'
      BY <1>1, <2>3, <2>5 DEF LoopInv, WriteInv, Dropped
    <3> QED BY <1>2, <3>2, <3>3, <3>4 DEF LoopInv
  <2> QED BY <2>3, <2>4, <2>5
<1> QED BY <1>3, <1>4

\* The connection gets a descriptor that nobody has.
LEMMA AcceptKeeps ==
  ASSUME LoopInv, Accept
  PROVE  LoopInv'
<1>1. /\ loopAt = "accept" /\ loopAt' = "sockets" /\ index' = 1
      /\ sockets \in Seq(Socket) /\ fdOf \in [Clients -> 0 .. MaxFds]
      /\ peer \in [Clients -> {"away", "waiting", "open", "closed"}]
      /\ UNCHANGED <<toPeer, received, closedFds>>
      /\ Len(sockets) \in Nat /\ DOMAIN sockets = 1 .. Len(sockets)
  BY DEF Accept, GoTo, LoopInv, LoopTypeInv, channelVars
<1>2. OwnInv'
  BY <1>1 DEF LoopInv, OwnInv
<1>3. CASE ~ready.listen
  <2>1. UNCHANGED <<fdOf, peer, sockets, writes, serial, inPass>>
    BY <1>3 DEF Accept
  <2>2. LoopTypeInv' /\ DescriptorInv'
    BY <1>1, <2>1 DEF LoopInv, LoopTypeInv, DescriptorInv
  <2>3. WriteInv'
    BY <1>1, <2>1 DEF LoopInv, WriteInv, Dropped
  <2> QED BY <1>2, <2>2, <2>3 DEF LoopInv
<1>4. CASE ready.listen
  <2> DEFINE fd == Min(FreeFds)
  <2>1. PICK c \in Clients :
          /\ peer[c] = "waiting" /\ FreeFds # {}
          /\ peer' = [peer EXCEPT ![c] = "open"]
          /\ fdOf' = [fdOf EXCEPT ![c] = fd]
          /\ sockets' = Append(sockets, NewReader(fd))
          /\ HandlerQueues(sockets, writes)
    BY <1>4 DEF Accept
  <2>2. fd \in 1 .. MaxFds /\ \A d \in Clients : fdOf[d] # fd
    <3>1. FreeFds \in SUBSET Nat
      BY DEF FreeFds
    <3>2. fd \in FreeFds
      BY <2>1, <3>1, MinOf
    <3> QED BY <3>2 DEF FreeFds, OwnerOf
  <2> HIDE DEF fd
  <2>3. fdOf[c] = 0
    BY <2>1 DEF LoopInv, DescriptorInv
  <2>4. writes' \in Seq(Write) /\ serial' \in Nat /\ inPass' \in Nat /\ WriteInv'
    <3>1. /\ closedFds' = closedFds /\ loopAt' \in {"read", "accept", "sockets"}
          /\ \A d \in Clients : fdOf[d] # 0 => fdOf'[d] = fdOf[d]
      BY <1>1, <2>1, <2>3
    <3> QED BY <2>1, <3>1, QueuedWrites
  <2>5. /\ sockets' \in Seq(Socket) /\ DOMAIN sockets' = 1 .. Len(sockets) + 1
        /\ \A k \in 1 .. Len(sockets) : sockets'[k] = sockets[k]
        /\ sockets'[Len(sockets) + 1].fd = fd
    <3>1. NewReader(fd) \in Socket /\ NewReader(fd).fd = fd
      BY <2>2 DEF NewReader, Socket
    <3> QED BY <1>1, <2>1, <3>1
  <2>6. LoopTypeInv'
    <3>1. /\ peer' \in [Clients -> {"away", "waiting", "open", "closed"}]
          /\ fdOf' \in [Clients -> 0 .. MaxFds]
      BY <1>1, <2>1, <2>2, EventLoopAssumption
    <3> QED BY <1>1, <2>4, <2>5, <3>1 DEF LoopInv, LoopTypeInv
  <2>7. DescriptorInv'
    <3>1. \A d \in Clients : peer'[d] \in {"away", "waiting"} => fdOf'[d] = 0
      BY <1>1, <2>1 DEF LoopInv, DescriptorInv
    <3>2. \A d, e \in Clients : fdOf'[d] = fdOf'[e] /\ fdOf'[d] # 0 => d = e
      BY <1>1, <2>1, <2>2 DEF LoopInv, DescriptorInv
    <3>3. \A k \in 1 .. Len(sockets) : \E d \in Clients : fdOf[d] = sockets[k].fd
      BY <1>1 DEF LoopInv, DescriptorInv
    <3>4. \A k \in 1 .. Len(sockets) + 1 : \E d \in Clients : fdOf'[d] = sockets'[k].fd
      <4> TAKE k \in 1 .. Len(sockets) + 1
      <4>1. CASE k = Len(sockets) + 1
        BY <1>1, <2>1, <2>5, <4>1
      <4>2. CASE k \in 1 .. Len(sockets)
        <5>1. PICK d \in Clients : fdOf[d] = sockets[k].fd
          BY <3>3, <4>2
        <5>2. sockets[k] \in Socket
          BY <1>1, <4>2
        <5>3. d # c
          BY <2>3, <5>1, <5>2 DEF Socket
        <5> QED BY <1>1, <2>1, <2>5, <4>2, <5>1, <5>3
      <4> QED BY <1>1, <4>1, <4>2
    <3>5. \A k \in 1 .. Len(sockets) : sockets[k].fd # fd
      BY <2>2, <3>3
    <3>6. \A j, k \in 1 .. Len(sockets) : sockets[j].fd = sockets[k].fd => j = k
      BY <1>1 DEF LoopInv, DescriptorInv
    <3>7. \A j, k \in 1 .. Len(sockets) + 1 : sockets'[j].fd = sockets'[k].fd => j = k
      BY <1>1, <2>5, <3>5, <3>6
    <3> QED BY <2>5, <3>1, <3>2, <3>4, <3>7 DEF DescriptorInv
  <2> QED BY <1>2, <2>4, <2>6, <2>7 DEF LoopInv
<1> QED BY <1>3, <1>4

\* At the start there are no connections.
LEMMA InitLoopInv ==
  LoopInit => LoopInv
<1> SUFFICES ASSUME LoopInit PROVE LoopInv
  OBVIOUS
<1> USE DEF LoopInit
<1>1. LoopTypeInv
  BY EventLoopAssumption DEF LoopTypeInv
<1>2. DescriptorInv
  BY DEF DescriptorInv
<1>3. WriteInv
  BY DEF WriteInv
<1>4. OwnInv
  BY DEF OwnInv
<1> QED BY <1>1, <1>2, <1>3, <1>4 DEF LoopInv

\* Each step of the loop and of the clients keeps LoopInv.
LEMMA NextLoopInv ==
  LoopInv /\ [LoopNext]_loopVars => LoopInv'
<1> SUFFICES ASSUME LoopInv, [LoopNext]_loopVars PROVE LoopInv'
  OBVIOUS
<1>1. CASE UNCHANGED loopVars
  BY <1>1 DEF loopVars, LoopInv, LoopTypeInv, DescriptorInv, WriteInv, OwnInv, Dropped
<1>2. CASE CleanSocket
  BY <1>2, CleanSocketKeeps
<1>3. CASE CleanWrite
  BY <1>3, CleanWriteKeeps
<1>4. CASE Select
  BY <1>4, SelectKeeps
<1>5. CASE WriteOnce
  BY <1>5, WriteOnceKeeps
<1>6. CASE ReadOnce
  BY <1>6, ReadOnceKeeps
<1>7. CASE Accept
  BY <1>7, AcceptKeeps
<1>8. CASE \E c \in Clients : Connect(c) \/ SendToLoop(c) \/ Receive(c) \/ Disconnect(c)
  BY <1>8, ClientKeeps
<1> QED BY <1>1, <1>2, <1>3, <1>4, <1>5, <1>6, <1>7, <1>8 DEF LoopNext, LoopStep

\* What a client gets was received or is under way.
LEMMA ArrivedIsBoth ==
  ASSUME LoopTypeInv, NEW c \in Clients, NEW i \in DOMAIN Arrived(c)
  PROVE  /\ Len(received[c]) \in Nat
         /\ \/ /\ i \in DOMAIN received[c] /\ i \in 1 .. Len(received[c])
               /\ Arrived(c)[i] = received[c][i]
            \/ \E k \in DOMAIN toPeer[c] :
                 k \in Nat \ {0} /\ i = Len(received[c]) + k /\ Arrived(c)[i] = toPeer[c][k]
<1> DEFINE r == received[c]
           t == toPeer[c]
<1>1. r \in Seq(Message) /\ t \in Seq(Message)
  BY DEF LoopTypeInv
<1>2. Arrived(c) = r \o t
  BY DEF Arrived
<1> HIDE DEF r, t
<1>3. /\ r \o t \in Seq(Message) /\ Len(r \o t) = Len(r) + Len(t)
      /\ \A k \in 1 .. Len(r) : (r \o t)[k] = r[k]
      /\ \A k \in Len(r) + 1 .. Len(r) + Len(t) : (r \o t)[k] = t[k - Len(r)]
  BY <1>1, Joined
<1>4. /\ Len(r) \in Nat /\ Len(t) \in Nat /\ i \in 1 .. Len(r) + Len(t)
      /\ DOMAIN r = 1 .. Len(r) /\ DOMAIN t = 1 .. Len(t)
  BY <1>1, <1>2, <1>3
<1>5. CASE i \in 1 .. Len(r)
  <2>1. i \in DOMAIN r /\ Arrived(c)[i] = r[i]
    BY <1>2, <1>3, <1>4, <1>5
  <2> QED BY <1>4, <1>5, <2>1 DEF r
<1>6. CASE i \in Len(r) + 1 .. Len(r) + Len(t)
  <2>1. /\ i - Len(r) \in DOMAIN t /\ i - Len(r) \in Nat \ {0} /\ i = Len(r) + (i - Len(r))
        /\ Arrived(c)[i] = t[i - Len(r)]
    BY <1>2, <1>3, <1>4, <1>6
  <2> QED BY <1>4, <2>1 DEF r, t
<1> QED BY <1>4, <1>5, <1>6

\* Whatever connections end, are accepted under the descriptors of others, and fill up, a
\* connection gets only messages that were queued for it (jsocket.cpp, monitorSockets).
THEOREM OwnMessagesCorrect == LoopSpec => []OwnMessages
<1>1. ASSUME LoopInv PROVE OwnMessages
  <2> SUFFICES ASSUME NEW c \in Clients, NEW i \in DOMAIN Arrived(c)
               PROVE  Arrived(c)[i][2] = c
    BY DEF OwnMessages
  <2>1. \/ i \in DOMAIN received[c] /\ Arrived(c)[i] = received[c][i]
        \/ \E k \in DOMAIN toPeer[c] : Arrived(c)[i] = toPeer[c][k]
    <3>1. LoopTypeInv
      BY <1>1 DEF LoopInv
    <3> QED BY <3>1, ArrivedIsBoth
  <2> QED BY <1>1, <2>1 DEF LoopInv, OwnInv
<1>2. LoopInv => OwnMessages
  BY <1>1
<1> QED BY <1>2, InitLoopInv, NextLoopInv, PTL DEF LoopSpec

-----------------------------------------------------------------------------
\* A write that is still to be made.
Undone(w) == ~w.done /\ ~w.error

\* All messages that went to a client are older than n.
Below(c, n) ==
  /\ \A i \in DOMAIN received[c] : received[c][i][1] < n
  /\ \A i \in DOMAIN toPeer[c] : toPeer[c][i][1] < n

InOrderTo(c) ==
  /\ \A i, j \in DOMAIN received[c] : i < j => received[c][i][1] < received[c][j][1]
  /\ \A i, j \in DOMAIN toPeer[c] : i < j => toPeer[c][i][1] < toPeer[c][j][1]
  /\ \A i \in DOMAIN received[c], j \in DOMAIN toPeer[c] : received[c][i][1] < toPeer[c][j][1]

\* Each broadcast leaves at most one message on its way to a client.
SentInv ==
  /\ serial <= MaxBroadcasts /\ inPass <= 1
  /\ \A c \in Clients : Below(c, serial + 1) /\ InOrderTo(c) /\ Len(toPeer[c]) <= serial

\* The writes to be made are those of the last broadcast, one for each addressee.
PendingInv ==
  /\ \A k \in DOMAIN writes : Undone(writes[k]) =>
       /\ writes[k].serial = serial
       /\ Below(writes[k].to, serial) /\ Len(toPeer[writes[k].to]) < serial
  /\ \A j, k \in DOMAIN writes :
       Undone(writes[j]) /\ Undone(writes[k]) /\ writes[j].to = writes[k].to => j = k

\* Every write that is queued when select returns is made in the pass that follows.
PassInv ==
  /\ loopAt \in {"sockets", "read", "accept"} /\ inPass = 0 =>
       \A k \in DOMAIN writes : ~Undone(writes[k])
  /\ loopAt = "write" =>
       \A k \in DOMAIN writes : Undone(writes[k]) => k >= index /\ writes[k].fd \in ready.write

OrderInv == SentInv /\ PendingInv /\ PassInv

\* The first element of t goes to the end of r.
LEMMA Moved ==
  ASSUME NEW S, NEW r \in Seq(S), NEW t \in Seq(S), t # <<>>
  PROVE  /\ DOMAIN Append(r, Head(t)) = 1 .. Len(r) + 1
         /\ \A i \in 1 .. Len(r) : Append(r, Head(t))[i] = r[i]
         /\ Append(r, Head(t))[Len(r) + 1] = t[1]
         /\ Len(Tail(t)) = Len(t) - 1 /\ Len(t) \in Nat \ {0}
         /\ DOMAIN Tail(t) = 1 .. Len(t) - 1
         /\ \A i \in 1 .. Len(t) - 1 : Tail(t)[i] = t[i + 1]
OBVIOUS

\* Serials are numbers, whatever is on its way.
LEMMA Serials ==
  ASSUME LoopTypeInv, NEW c \in Clients
  PROVE  /\ \A i \in DOMAIN received[c] : received[c][i][1] \in Nat
         /\ \A i \in DOMAIN toPeer[c] : toPeer[c][i][1] \in Nat
         /\ DOMAIN received[c] = 1 .. Len(received[c]) /\ Len(received[c]) \in Nat
         /\ DOMAIN toPeer[c] = 1 .. Len(toPeer[c]) /\ Len(toPeer[c]) \in Nat
<1>1. received[c] \in Seq(Message) /\ toPeer[c] \in Seq(Message)
  BY DEF LoopTypeInv
<1>2. /\ \A i \in DOMAIN received[c] : received[c][i] \in Message
      /\ \A i \in DOMAIN toPeer[c] : toPeer[c][i] \in Message
  BY <1>1
<1> QED BY <1>1, <1>2 DEF Message

\* A client that receives takes the oldest message under way.
LEMMA ReceiveOrder ==
  ASSUME LoopInv, NEW c \in Clients, Receive(c), InOrderTo(c)
  PROVE  /\ InOrderTo(c)' /\ Len(toPeer'[c]) < Len(toPeer[c])
         /\ \A n \in Nat : Below(c, n) => Below(c, n)'
<1> DEFINE r == received[c]
           t == toPeer[c]
           s == Append(r, Head(t))
           u == Tail(t)
<1>1. /\ r \in Seq(Message) /\ t \in Seq(Message) /\ t # <<>>
      /\ received'[c] = s /\ toPeer'[c] = u
  BY DEF LoopInv, LoopTypeInv, Receive
<1>2. /\ \A i \in DOMAIN r : r[i][1] \in Nat
      /\ \A i \in DOMAIN t : t[i][1] \in Nat
      /\ DOMAIN r = 1 .. Len(r) /\ Len(r) \in Nat
      /\ DOMAIN t = 1 .. Len(t) /\ Len(t) \in Nat
  BY Serials DEF LoopInv
<1>3. /\ \A i, j \in DOMAIN r : i < j => r[i][1] < r[j][1]
      /\ \A i, j \in DOMAIN t : i < j => t[i][1] < t[j][1]
      /\ \A i \in DOMAIN r, j \in DOMAIN t : r[i][1] < t[j][1]
  BY DEF InOrderTo
<1>4. /\ DOMAIN s = 1 .. Len(r) + 1
      /\ \A i \in 1 .. Len(r) : s[i] = r[i]
      /\ s[Len(r) + 1] = t[1]
      /\ Len(u) = Len(t) - 1 /\ Len(t) \in Nat \ {0}
      /\ DOMAIN u = 1 .. Len(t) - 1
      /\ \A i \in 1 .. Len(t) - 1 : u[i] = t[i + 1]
  BY <1>1, Moved
<1> HIDE DEF r, t, s, u
<1>5. \A i \in DOMAIN s : \/ i \in DOMAIN r /\ s[i] = r[i]
                          \/ i = Len(r) + 1 /\ s[i] = t[1]
  BY <1>2, <1>4
<1>6. \A i \in DOMAIN u : u[i] = t[i + 1] /\ i + 1 \in DOMAIN t /\ 1 < i + 1
  BY <1>2, <1>4
<1>7. 1 \in DOMAIN t
  BY <1>2, <1>4
<1>8. \A n \in Nat : Below(c, n) => Below(c, n)'
  <2> SUFFICES ASSUME NEW n \in Nat, Below(c, n) PROVE Below(c, n)'
    OBVIOUS
  <2>1. (\A i \in DOMAIN r : r[i][1] < n) /\ (\A i \in DOMAIN t : t[i][1] < n)
    BY DEF Below, r, t
  <2>2. \A i \in DOMAIN s : s[i][1] < n
    BY <1>5, <1>7, <2>1
  <2>3. \A i \in DOMAIN u : u[i][1] < n
    BY <1>6, <2>1
  <2> QED BY <1>1, <2>2, <2>3 DEF Below
<1>9. InOrderTo(c)'
  <2>1. \A i, j \in DOMAIN s : i < j => s[i][1] < s[j][1]
    BY <1>2, <1>3, <1>4, <1>5, <1>7
  <2>2. \A i, j \in DOMAIN u : i < j => u[i][1] < u[j][1]
    <3> TAKE i, j \in DOMAIN u
    <3> HAVE i < j
    <3>1. i + 1 \in DOMAIN t /\ j + 1 \in DOMAIN t /\ i + 1 < j + 1
      BY <1>2, <1>4, <1>6
    <3>2. t[i + 1][1] < t[j + 1][1]
      BY <1>3, <3>1
    <3> QED BY <1>6, <3>2
  <2>3. \A i \in DOMAIN s, j \in DOMAIN u : s[i][1] < u[j][1]
    <3> TAKE i \in DOMAIN s, j \in DOMAIN u
    <3>1. u[j] = t[j + 1] /\ j + 1 \in DOMAIN t /\ 1 < j + 1
      BY <1>6
    <3>2. t[1][1] < t[j + 1][1] /\ (i \in DOMAIN r => r[i][1] < t[j + 1][1])
      BY <1>3, <1>7, <3>1
    <3> QED BY <1>5, <3>1, <3>2
  <2> QED BY <1>1, <2>1, <2>2, <2>3 DEF InOrderTo
<1> QED BY <1>1, <1>2, <1>4, <1>8, <1>9 DEF t

\* A handler broadcasts only when no older write is to be made.
LEMMA QueuedOrder ==
  ASSUME LoopInv, SentInv, PendingInv, MaxPerPass <= 1, NEW socks \in Seq(Socket),
         \A k \in DOMAIN socks : \E c \in Clients : fdOf[c] = socks[k].fd,
         \A j, k \in DOMAIN socks : socks[j].fd = socks[k].fd => j = k,
         HandlerQueues(socks, writes), UNCHANGED <<toPeer, received>>,
         inPass = 0 => \A k \in DOMAIN writes : ~Undone(writes[k])
  PROVE  /\ SentInv' /\ PendingInv'
         /\ inPass' = 0 => \A k \in DOMAIN writes' : ~Undone(writes'[k])
<1>1. /\ LoopTypeInv /\ writes \in Seq(Write) /\ serial \in Nat /\ inPass \in Nat
      /\ MaxBroadcasts \in Nat /\ MaxPerPass \in Nat
  BY EventLoopAssumption DEF LoopInv, LoopTypeInv
<1>2. CASE writes' = writes /\ serial' = serial /\ inPass' = inPass
  BY <1>2 DEF SentInv, PendingInv, Below, InOrderTo, Undone
<1>3. CASE /\ inPass < MaxPerPass /\ serial < MaxBroadcasts
           /\ serial' = serial + 1 /\ inPass' = inPass + 1
  <2>1. inPass = 0 /\ inPass' = 1
    BY <1>1, <1>3
  <2>2. \A k \in DOMAIN writes : ~Undone(writes[k])
    BY <2>1
  <2>3. /\ writes' \in Seq(Write) /\ Len(writes) <= Len(writes')
        /\ \A k \in 1 .. Len(writes) : writes'[k] = writes[k]
        /\ \A k \in Len(writes) + 1 .. Len(writes') :
             writes'[k].serial = serial + 1 /\ fdOf[writes'[k].to] = writes'[k].fd
        /\ \A j, k \in Len(writes) + 1 .. Len(writes') :
             writes'[j].fd = writes'[k].fd => j = k
    BY <1>1, Queued
  <2>4. Len(writes) \in Nat /\ DOMAIN writes = 1 .. Len(writes) /\ DOMAIN writes' = 1 .. Len(writes')
    BY <1>1, <2>3
  <2>5. \A k \in DOMAIN writes' : Undone(writes'[k]) => k \in Len(writes) + 1 .. Len(writes')
    BY <2>2, <2>3, <2>4 DEF Undone
  <2>6. \A c \in Clients : Below(c, serial + 1) /\ Len(toPeer[c]) <= serial /\ InOrderTo(c)
    BY DEF SentInv
  <2>7. SentInv'
    <3>1. serial' <= MaxBroadcasts /\ inPass' <= 1
      BY <1>1, <1>3, <2>1
    <3>2. ASSUME NEW c \in Clients
          PROVE  Below(c, serial + 1)' /\ InOrderTo(c)' /\ Len(toPeer'[c]) <= serial'
      <4>1. Below(c, serial + 1) /\ Len(toPeer[c]) <= serial /\ InOrderTo(c)
        BY <2>6
      <4>2. \A i \in DOMAIN received[c] : received[c][i][1] < serial + 2
        BY <1>1, <4>1, Serials DEF Below
      <4>3. \A i \in DOMAIN toPeer[c] : toPeer[c][i][1] < serial + 2
        BY <1>1, <4>1, Serials DEF Below
      <4>4. Len(toPeer'[c]) <= serial'
        BY <1>1, <1>3, <4>1, Serials
      <4>5. serial' + 1 = serial + 2
        BY <1>1, <1>3
      <4> QED BY <4>1, <4>2, <4>3, <4>4, <4>5 DEF Below, InOrderTo
    <3>3. \A c \in Clients : Below(c, serial + 1)' /\ InOrderTo(c)' /\ Len(toPeer'[c]) <= serial'
      BY <3>2
    <3> QED BY <3>1, <3>3 DEF SentInv
  <2>8. PendingInv'
    <3>1. ASSUME NEW k \in DOMAIN writes', Undone(writes'[k])
          PROVE  /\ writes'[k].serial = serial' /\ Below(writes[k].to, serial)'
                 /\ Len(toPeer'[writes'[k].to]) < serial'
      <4>1. writes'[k].serial = serial + 1 /\ writes'[k] \in Write
        BY <2>3, <2>5, <3>1
      <4>2. writes'[k].to \in Clients
        BY <4>1 DEF Write
      <4>3. Below(writes'[k].to, serial + 1) /\ Len(toPeer[writes'[k].to]) <= serial
        BY <2>6, <4>2
      <4>4. Len(toPeer[writes'[k].to]) < serial'
        BY <1>1, <1>3, <4>2, <4>3, Serials
      <4> QED BY <1>3, <4>1, <4>3, <4>4 DEF Below
    <3>2. ASSUME NEW j \in DOMAIN writes', NEW k \in DOMAIN writes',
                 Undone(writes'[j]), Undone(writes'[k]), writes'[j].to = writes'[k].to
          PROVE  j = k
      <4>1. /\ j \in Len(writes) + 1 .. Len(writes') /\ k \in Len(writes) + 1 .. Len(writes')
        BY <2>5, <3>2
      <4>2. writes'[j].fd = writes'[k].fd
        BY <2>3, <3>2, <4>1
      <4> QED BY <2>3, <4>1, <4>2
    <3>3. \A k \in DOMAIN writes' : Undone(writes'[k]) =>
            /\ writes'[k].serial = serial' /\ Below(writes[k].to, serial)'
            /\ Len(toPeer'[writes'[k].to]) < serial'
      BY <3>1
    <3>4. \A j, k \in DOMAIN writes' :
            Undone(writes'[j]) /\ Undone(writes'[k]) /\ writes'[j].to = writes'[k].to => j = k
      BY <3>2
    <3> QED BY <3>3, <3>4 DEF PendingInv, Below, Undone
  <2> QED BY <2>1, <2>7, <2>8
<1> QED BY <1>1, <1>2, <1>3, Queued

\* A client takes messages in their order, or loses those that were under way.
LEMMA ClientOrder ==
  ASSUME LoopInv, OrderInv, NEW c \in Clients,
         Connect(c) \/ SendToLoop(c) \/ Receive(c) \/ Disconnect(c)
  PROVE  OrderInv'
<1>1. /\ UNCHANGED <<writes, loopAt, index, ready, serial, inPass>>
      /\ serial \in Nat /\ writes \in Seq(Write)
  BY DEF LoopInv, LoopTypeInv, Connect, SendToLoop, Receive, Disconnect, queueVars
<1>2. ASSUME NEW d \in Clients
      PROVE  /\ InOrderTo(d)' /\ Len(toPeer'[d]) <= Len(toPeer[d])
             /\ \A n \in Nat : Below(d, n) => Below(d, n)'
  <2>1. InOrderTo(d) /\ Len(toPeer[d]) \in Nat
    BY Serials DEF LoopInv, OrderInv, SentInv
  <2>2. CASE received'[d] = received[d] /\ toPeer'[d] = toPeer[d]
    BY <2>1, <2>2 DEF Below, InOrderTo
  <2>3. CASE received'[d] = received[d] /\ toPeer'[d] = <<>>
    BY <2>1, <2>3 DEF Below, InOrderTo
  <2>4. CASE Receive(c) /\ c = d
    <3>1. Len(toPeer'[d]) < Len(toPeer[d]) /\ Len(toPeer'[d]) \in Nat
      <4>1. LoopTypeInv'
        BY <2>4, ClientKeeps DEF LoopInv
      <4>2. toPeer'[d] \in Seq(Message)
        BY <4>1 DEF LoopTypeInv
      <4> QED BY <2>1, <2>4, <4>2, ReceiveOrder
    <3> QED BY <2>1, <2>4, <3>1, ReceiveOrder
  <2>5. \/ received'[d] = received[d] /\ toPeer'[d] = toPeer[d]
        \/ received'[d] = received[d] /\ toPeer'[d] = <<>>
        \/ Receive(c) /\ c = d
    BY DEF LoopInv, LoopTypeInv, Connect, SendToLoop, Receive, Disconnect, channelVars
  <2> QED BY <2>2, <2>3, <2>4, <2>5
<1>3. SentInv'
  <2>1. ASSUME NEW d \in Clients
        PROVE  Below(d, serial + 1)' /\ InOrderTo(d)' /\ Len(toPeer'[d]) <= serial'
    <3>1. Below(d, serial + 1) /\ Len(toPeer[d]) <= serial /\ Len(toPeer[d]) \in Nat
      BY Serials DEF LoopInv, OrderInv, SentInv
    <3>2. LoopTypeInv'
      BY ClientKeeps DEF LoopInv
    <3>3. Len(toPeer'[d]) \in Nat
      <4>1. toPeer'[d] \in Seq(Message)
        BY <3>2 DEF LoopTypeInv
      <4> QED BY <4>1
    <3>4. Below(d, serial + 1)'
      <4>1. serial + 1 \in Nat
        BY <1>1
      <4>2. \A i \in DOMAIN received'[d] : received'[d][i][1] < serial + 1
        BY <1>2, <3>1, <4>1 DEF Below
      <4>3. \A i \in DOMAIN toPeer'[d] : toPeer'[d][i][1] < serial + 1
        BY <1>2, <3>1, <4>1 DEF Below
      <4> QED BY <1>1, <4>2, <4>3 DEF Below
    <3> QED BY <1>1, <1>2, <3>1, <3>3, <3>4
  <2>2. serial' <= MaxBroadcasts /\ inPass' <= 1
    BY <1>1 DEF OrderInv, SentInv
  <2>3. \A d \in Clients : Below(d, serial + 1)' /\ InOrderTo(d)' /\ Len(toPeer'[d]) <= serial'
    BY <2>1
  <2> QED BY <2>2, <2>3 DEF SentInv
<1>4. PendingInv'
  <2>1. ASSUME NEW k \in DOMAIN writes, Undone(writes[k])
        PROVE  Below(writes[k].to, serial)' /\ Len(toPeer'[writes[k].to]) < serial'
    <3>1. writes[k].to \in Clients
      <4>1. writes[k] \in Write
        BY <1>1
      <4> QED BY <4>1 DEF Write
    <3> DEFINE d == writes[k].to
    <3>2. Below(d, serial) /\ Len(toPeer[d]) < serial
      BY <2>1 DEF OrderInv, PendingInv
    <3> HIDE DEF d
    <3>3. d \in Clients /\ d = writes[k].to
      BY <3>1 DEF d
    <3>4. Len(toPeer[d]) \in Nat /\ Len(toPeer'[d]) \in Nat
      <4>1. LoopTypeInv' /\ LoopTypeInv
        BY ClientKeeps DEF LoopInv
      <4>2. toPeer'[d] \in Seq(Message) /\ toPeer[d] \in Seq(Message)
        BY <3>3, <4>1 DEF LoopTypeInv
      <4> QED BY <4>2
    <3>5. /\ \A i \in DOMAIN received'[d] : received'[d][i][1] < serial
          /\ \A i \in DOMAIN toPeer'[d] : toPeer'[d][i][1] < serial
      BY <1>1, <1>2, <3>2, <3>3 DEF Below
    <3>6. Len(toPeer'[d]) < serial
      BY <1>1, <1>2, <3>2, <3>3, <3>4
    <3> QED BY <1>1, <3>3, <3>5, <3>6 DEF Below
  <2>2. \A k \in DOMAIN writes : Undone(writes[k]) =>
          Below(writes[k].to, serial)' /\ Len(toPeer'[writes[k].to]) < serial'
    BY <2>1
  <2> QED BY <1>1, <2>2 DEF OrderInv, PendingInv, Below, Undone
<1>5. PassInv'
  BY <1>1 DEF OrderInv, PassInv, Undone
<1> QED BY <1>3, <1>4, <1>5 DEF OrderInv

\* Every socket that a write waits for is writable: its connection has room.
LEMMA SelectOrder ==
  ASSUME LoopInv, OrderInv, Select, MaxBroadcasts <= PeerRoom
  PROVE  OrderInv'
<1>1. /\ loopAt = "select" /\ loopAt' = "write" /\ index' = 1 /\ ready' = ReadyNow
      /\ inPass' = 0 /\ UNCHANGED <<toPeer, received, writes, serial>>
      /\ writes \in Seq(Write) /\ serial \in Nat
      /\ MaxBroadcasts \in Nat /\ PeerRoom \in Nat
  BY EventLoopAssumption DEF LoopInv, LoopTypeInv, Select, GoTo, channelVars
<1>2. SentInv' /\ PendingInv'
  BY <1>1 DEF OrderInv, SentInv, PendingInv, Below, InOrderTo, Undone
<1>3. ASSUME NEW k \in DOMAIN writes, Undone(writes[k])
      PROVE  k >= 1 /\ writes[k].fd \in ReadyNow.write
  <2> DEFINE c == writes[k].to
  <2>1. k \in Nat /\ k >= 1 /\ writes[k] \in Write
    BY <1>1
  <2>2. c \in Clients /\ fdOf[c] = writes[k].fd
    BY <1>1, <2>1 DEF LoopInv, WriteInv, Write
  <2>3. Len(toPeer[c]) < PeerRoom
    <3>1. Len(toPeer[c]) < serial /\ serial <= MaxBroadcasts
      BY <1>3 DEF OrderInv, PendingInv, SentInv
    <3>2. Len(toPeer[c]) \in Nat
      BY <2>2, Serials DEF LoopInv
    <3> QED BY <1>1, <3>1, <3>2
  <2>4. Writable(writes[k].fd)
    BY <2>2, <2>3 DEF Writable, OwnerOf
  <2>5. writes[k].fd \in {writes[j].fd : j \in {l \in DOMAIN writes : Writable(writes[l].fd)}}
    BY <2>4
  <2> QED BY <2>1, <2>5 DEF ReadyNow
<1>4. PassInv'
  <2>1. \A k \in DOMAIN writes : Undone(writes[k]) => k >= 1 /\ writes[k].fd \in ReadyNow.write
    BY <1>3
  <2> QED BY <1>1, <2>1 DEF PassInv, Undone
<1> QED BY <1>2, <1>4 DEF OrderInv

\* Removals change places in _writes, and nothing that is to be written.
LEMMA CleanWriteOrder ==
  ASSUME LoopInv, OrderInv, CleanWrite
  PROVE  OrderInv'
<1> DEFINE dropped == {k \in Pending(writes) : Dropped(writes[k])}
<1>1. /\ loopAt = "writes" /\ loopAt' \in {"writes", "select"} /\ writes \in Seq(Write)
      /\ index \in Nat \ {0} /\ UNCHANGED <<toPeer, received, serial, inPass>>
  BY DEF LoopInv, LoopTypeInv, CleanWrite, GoTo, channelVars
<1>2. SentInv' /\ PassInv'
  BY <1>1 DEF OrderInv, SentInv, PassInv, Below, InOrderTo
<1>3. CASE dropped = {}
  <2>1. writes' = writes
    BY <1>3 DEF CleanWrite
  <2>2. PendingInv'
    BY <1>1, <2>1 DEF OrderInv, PendingInv, Below, Undone
  <2> QED BY <1>2, <2>2 DEF OrderInv
<1>4. CASE dropped # {}
  <2> DEFINE m == Min(dropped)
  <2>1. m \in dropped
    <3>1. dropped \in SUBSET Nat
      BY <1>1 DEF Pending
    <3> QED BY <3>1, <1>4, MinOf
  <2>2. writes' = WithoutIndex(writes, m) /\ m \in 1 .. Len(writes)
    BY <1>1, <1>4, <2>1 DEF CleanWrite, Pending
  <2> HIDE DEF dropped, m
  <2>3. writes' \in Seq(Write) /\ DOMAIN writes' = 1 .. Len(writes) - 1
    BY <1>1, <2>2, RemovedFrom
  <2>4. PICK old : Renumbers(old, writes', writes, m)
    BY <1>1, <2>2, RemovedFrom
  <2>5. /\ \A k \in DOMAIN writes' : old[k] \in DOMAIN writes /\ writes'[k] = writes[old[k]]
        /\ \A j, k \in DOMAIN writes' : old[j] = old[k] => j = k
    <3>1. DOMAIN writes = 1 .. Len(writes)
      BY <1>1
    <3> QED BY <2>3, <2>4, <3>1, Zenon DEF Renumbers
  <2>6. PendingInv'
    <3>1. \A k \in DOMAIN writes' : Undone(writes'[k]) =>
            /\ writes'[k].serial = serial
            /\ Below(writes'[k].to, serial) /\ Len(toPeer[writes'[k].to]) < serial
      BY <2>5 DEF OrderInv, PendingInv
    <3>2. \A j, k \in DOMAIN writes' :
            Undone(writes'[j]) /\ Undone(writes'[k]) /\ writes'[j].to = writes'[k].to => j = k
      <4> TAKE j, k \in DOMAIN writes'
      <4> HAVE Undone(writes'[j]) /\ Undone(writes'[k]) /\ writes'[j].to = writes'[k].to
      <4>1. old[j] = old[k]
        BY <2>5 DEF OrderInv, PendingInv
      <4> QED BY <2>5, <4>1
    <3> QED BY <1>1, <3>1, <3>2 DEF PendingInv, Below, Undone
  <2> QED BY <1>2, <2>6 DEF OrderInv
<1> QED BY <1>3, <1>4

\* Removals keep what is to be written; a handler that is told may broadcast.
LEMMA CleanSocketOrder ==
  ASSUME LoopInv, OrderInv, CleanSocket, MaxPerPass <= 1
  PROVE  OrderInv'
<1> DEFINE failed == {k \in Pending(sockets) : sockets[k].error}
<1>1. /\ loopAt = "sockets" /\ UNCHANGED <<toPeer, received>> /\ index \in Nat \ {0}
  BY DEF LoopInv, LoopTypeInv, CleanSocket, channelVars
<1>2. CASE failed = {}
  <2>1. UNCHANGED <<writes, serial, inPass>> /\ loopAt' = "writes"
    BY <1>2 DEF CleanSocket, GoTo, queueVars
  <2> QED BY <1>1, <2>1 DEF OrderInv, SentInv, PendingInv, PassInv, Below, InOrderTo, Undone
<1>3. CASE failed # {}
  <2> DEFINE i    == Min(failed)
             rest == WithoutIndex(sockets, i)
  <2>1. i \in failed
    <3>1. failed \in SUBSET Nat
      BY <1>1 DEF Pending
    <3> QED BY <3>1, <1>3, MinOf
  <2>2. HandlerQueues(rest, writes) /\ loopAt' = "sockets"
    BY <1>1, <1>3 DEF CleanSocket
  <2>3. i \in 1 .. Len(sockets)
    BY <1>1, <2>1 DEF Pending, LoopInv, LoopTypeInv
  <2>4. /\ rest \in Seq(Socket)
        /\ \A k \in DOMAIN rest : \E c \in Clients : fdOf[c] = rest[k].fd
        /\ \A j, k \in DOMAIN rest : rest[j].fd = rest[k].fd => j = k
    BY <2>3, RestOfSockets
  <2> HIDE DEF failed, i, rest
  <2>5. SentInv /\ PendingInv /\ (inPass = 0 => \A k \in DOMAIN writes : ~Undone(writes[k]))
    BY <1>1 DEF OrderInv, PassInv
  <2>6. /\ SentInv' /\ PendingInv'
        /\ inPass' = 0 => \A k \in DOMAIN writes' : ~Undone(writes'[k])
    BY <1>1, <2>2, <2>4, <2>5, QueuedOrder
  <2> QED BY <2>2, <2>6 DEF OrderInv, PassInv, Undone
<1> QED BY <1>2, <1>3

\* A handler that reads a message may broadcast, once in a pass.
LEMMA ReadOnceOrder ==
  ASSUME LoopInv, OrderInv, ReadOnce, MaxPerPass <= 1
  PROVE  OrderInv'
<1>1. /\ loopAt = "read" /\ loopAt' \in {"read", "accept"} /\ UNCHANGED <<toPeer, received>>
      /\ (UNCHANGED <<writes, serial, inPass>>) \/ HandlerQueues(sockets, writes)
  BY DEF ReadOnce, GoTo
<1>2. CASE UNCHANGED <<writes, serial, inPass>>
  BY <1>1, <1>2 DEF OrderInv, SentInv, PendingInv, PassInv, Below, InOrderTo, Undone
<1>3. CASE HandlerQueues(sockets, writes)
  <2>1. /\ sockets \in Seq(Socket)
        /\ \A k \in DOMAIN sockets : \E c \in Clients : fdOf[c] = sockets[k].fd
        /\ \A j, k \in DOMAIN sockets : sockets[j].fd = sockets[k].fd => j = k
    BY DEF LoopInv, LoopTypeInv, DescriptorInv
  <2>2. SentInv /\ PendingInv /\ (inPass = 0 => \A k \in DOMAIN writes : ~Undone(writes[k]))
    BY <1>1 DEF OrderInv, PassInv
  <2>3. /\ SentInv' /\ PendingInv'
        /\ inPass' = 0 => \A k \in DOMAIN writes' : ~Undone(writes'[k])
    BY <1>1, <1>3, <2>1, <2>2, QueuedOrder
  <2> QED BY <1>1, <2>3 DEF OrderInv, PassInv, Undone
<1> QED BY <1>1, <1>2, <1>3

\* So may the handler of a new connection.
LEMMA AcceptOrder ==
  ASSUME LoopInv, OrderInv, Accept, MaxPerPass <= 1
  PROVE  OrderInv'
<1>1. /\ loopAt = "accept" /\ loopAt' = "sockets" /\ UNCHANGED <<toPeer, received>>
      /\ (UNCHANGED <<writes, serial, inPass>>) \/ HandlerQueues(sockets, writes)
  BY DEF Accept, GoTo, channelVars
<1>2. CASE UNCHANGED <<writes, serial, inPass>>
  BY <1>1, <1>2 DEF OrderInv, SentInv, PendingInv, PassInv, Below, InOrderTo, Undone
<1>3. CASE HandlerQueues(sockets, writes)
  <2>1. /\ sockets \in Seq(Socket)
        /\ \A k \in DOMAIN sockets : \E c \in Clients : fdOf[c] = sockets[k].fd
        /\ \A j, k \in DOMAIN sockets : sockets[j].fd = sockets[k].fd => j = k
    BY DEF LoopInv, LoopTypeInv, DescriptorInv
  <2>2. SentInv /\ PendingInv /\ (inPass = 0 => \A k \in DOMAIN writes : ~Undone(writes[k]))
    BY <1>1 DEF OrderInv, PassInv
  <2>3. /\ SentInv' /\ PendingInv'
        /\ inPass' = 0 => \A k \in DOMAIN writes' : ~Undone(writes'[k])
    BY <1>1, <1>3, <2>1, <2>2, QueuedOrder
  <2> QED BY <1>1, <2>3 DEF OrderInv, PassInv, Undone
<1> QED BY <1>1, <1>2, <1>3

\* The message written is newer than all before it, and no other to this client waits.
LEMMA WriteOnceOrder ==
  ASSUME LoopInv, OrderInv, WriteOnce
  PROVE  OrderInv'
<1>1. /\ loopAt = "write" /\ index \in Nat \ {0} /\ writes \in Seq(Write)
      /\ UNCHANGED <<received, ready, serial, inPass>>
      /\ Len(writes) \in Nat /\ DOMAIN writes = 1 .. Len(writes) /\ serial \in Nat
      /\ toPeer \in [Clients -> Seq(Message)]
  BY DEF WriteOnce, LoopInv, LoopTypeInv
<1>2. \A k \in 1 .. Len(writes) : Undone(writes[k]) => k >= index /\ writes[k].fd \in ready.write
  BY <1>1 DEF OrderInv, PassInv
<1>3. CASE /\ \A k \in Pending(writes) : writes[k].fd \notin ready.write
           /\ UNCHANGED <<writes, toPeer>> /\ loopAt' = "read" /\ index' = 1
  <2>1. \A k \in 1 .. Len(writes) : ~Undone(writes[k])
    BY <1>1, <1>2, <1>3 DEF Pending
  <2>2. SentInv' /\ PendingInv'
    BY <1>1, <1>3 DEF OrderInv, SentInv, PendingInv, Below, InOrderTo, Undone
  <2>3. PassInv'
    BY <1>1, <1>3, <2>1 DEF PassInv, Undone
  <2> QED BY <2>2, <2>3 DEF OrderInv
<1>4. ASSUME NEW m, NEW c, WriteMade(m, c)
      PROVE  OrderInv'
  <2>1. /\ m \in 1 .. Len(writes) /\ c \in Clients /\ c = writes[m].to /\ Undone(writes[m])
        /\ index' = m + 1 /\ loopAt' = "write" /\ DOMAIN writes' = 1 .. Len(writes)
        /\ ~Undone(writes'[m])
        /\ \A k \in 1 .. Len(writes) : k # m => writes'[k] = writes[k]
    BY <1>4 DEF WriteMade, Undone, Dropped
  <2>2. /\ writes[m].serial = serial /\ Below(c, serial) /\ Len(toPeer[c]) < serial
        /\ \A k \in 1 .. Len(writes) : Undone(writes[k]) /\ k # m => writes[k].to # c
    BY <1>1, <2>1 DEF OrderInv, PendingInv
  <2>3. \A d \in Clients : d # c => toPeer'[d] = toPeer[d]
    BY <1>1, <1>4 DEF WriteMade
  <2>4. Below(c, serial + 1)' /\ InOrderTo(c)' /\ Len(toPeer'[c]) <= serial
    <3>1. /\ Below(c, serial + 1) /\ InOrderTo(c) /\ Len(toPeer[c]) \in Nat
          /\ DOMAIN toPeer[c] = 1 .. Len(toPeer[c]) /\ toPeer[c] \in Seq(Message)
          /\ \A i \in DOMAIN toPeer[c] : toPeer[c][i][1] \in Nat
          /\ \A i \in DOMAIN received[c] : received[c][i][1] \in Nat
      BY <1>1, <2>1, Serials DEF LoopInv, OrderInv, SentInv
    <3>2. CASE toPeer' = toPeer
      <4>1. Below(c, serial + 1)'
        BY <1>1, <3>1, <3>2 DEF Below
      <4>2. InOrderTo(c)'
        BY <1>1, <3>1, <3>2 DEF InOrderTo
      <4>3. Len(toPeer[c]) <= serial
        BY <1>1, <2>2, <3>1
      <4> QED BY <3>2, <4>1, <4>2, <4>3
    <3>3. CASE toPeer' = [toPeer EXCEPT ![c] = Append(toPeer[c], <<writes[m].serial, c>>)]
      <4> DEFINE t == Append(toPeer[c], <<serial, c>>)
      <4>1. toPeer'[c] = t
        BY <1>1, <2>1, <2>2, <3>3
      <4>2. /\ DOMAIN t = 1 .. Len(toPeer[c]) + 1 /\ Len(t) = Len(toPeer[c]) + 1
            /\ \A i \in 1 .. Len(toPeer[c]) : t[i] = toPeer[c][i]
            /\ t[Len(toPeer[c]) + 1][1] = serial
        <5>1. <<serial, c>> \in Message /\ <<serial, c>>[1] = serial
          BY <1>1, <2>1 DEF Message
        <5> QED BY <3>1, <5>1
      <4> HIDE DEF t
      <4>3. \A i \in DOMAIN t : \/ i \in DOMAIN toPeer[c] /\ t[i] = toPeer[c][i]
                                \/ i = Len(toPeer[c]) + 1 /\ t[i][1] = serial
        BY <3>1, <4>2
      <4>4. /\ \A i \in DOMAIN toPeer[c] : toPeer[c][i][1] < serial
            /\ \A i \in DOMAIN received[c] : received[c][i][1] < serial
        BY <2>2 DEF Below
      <4>5. Below(c, serial + 1)'
        <5>1. \A i \in DOMAIN t : t[i][1] < serial + 1
          BY <1>1, <3>1, <4>3, <4>4
        <5>2. \A i \in DOMAIN received[c] : received[c][i][1] < serial + 1
          BY <3>1 DEF Below
        <5> QED BY <1>1, <4>1, <5>1, <5>2 DEF Below
      <4>6. InOrderTo(c)'
        <5>1. \A i, j \in DOMAIN t : i < j => t[i][1] < t[j][1]
          <6> TAKE i, j \in DOMAIN t
          <6> HAVE i < j
          <6>1. i \in DOMAIN toPeer[c] /\ t[i] = toPeer[c][i]
            BY <3>1, <4>2, <4>3
          <6>2. CASE j \in DOMAIN toPeer[c] /\ t[j] = toPeer[c][j]
            BY <3>1, <6>1, <6>2 DEF InOrderTo
          <6>3. CASE t[j][1] = serial
            BY <4>4, <6>1, <6>3
          <6> QED BY <4>3, <6>2, <6>3
        <5>2. \A i \in DOMAIN received[c], j \in DOMAIN t : received[c][i][1] < t[j][1]
          BY <3>1, <4>3, <4>4 DEF InOrderTo
        <5> QED BY <1>1, <3>1, <4>1, <5>1, <5>2 DEF InOrderTo
      <4>7. Len(t) <= serial
        BY <1>1, <2>2, <3>1, <4>2
      <4> QED BY <4>1, <4>5, <4>6, <4>7
    <3> QED BY <1>4, <3>2, <3>3 DEF WriteMade
  <2>5. SentInv'
    <3>1. \A d \in Clients : d # c => Below(d, serial + 1)' /\ InOrderTo(d)' /\ Len(toPeer'[d]) <= serial
      BY <1>1, <2>3 DEF OrderInv, SentInv, Below, InOrderTo
    <3>2. \A d \in Clients : Below(d, serial + 1)' /\ InOrderTo(d)' /\ Len(toPeer'[d]) <= serial'
      BY <1>1, <2>4, <3>1
    <3>3. serial' <= MaxBroadcasts /\ inPass' <= 1
      BY <1>1 DEF OrderInv, SentInv
    <3> QED BY <3>2, <3>3 DEF SentInv
  <2>6. PendingInv'
    <3>1. ASSUME NEW k \in DOMAIN writes', Undone(writes'[k])
          PROVE  /\ writes'[k].serial = serial' /\ writes'[k] = writes[k] /\ k # m
                 /\ Below(writes[k].to, serial)' /\ Len(toPeer'[writes'[k].to]) < serial'
      <4>1. k \in 1 .. Len(writes) /\ k # m /\ writes'[k] = writes[k]
        BY <2>1, <3>1
      <4>2. /\ writes[k].serial = serial /\ Below(writes[k].to, serial)
            /\ Len(toPeer[writes[k].to]) < serial /\ writes[k].to # c
        BY <1>1, <2>2, <3>1, <4>1 DEF OrderInv, PendingInv
      <4>3. writes[k].to \in Clients
        <5>1. writes[k] \in Write
          BY <1>1, <4>1
        <5> QED BY <5>1 DEF Write
      <4>4. toPeer'[writes[k].to] = toPeer[writes[k].to]
        BY <2>3, <4>2, <4>3
      <4> QED BY <1>1, <4>1, <4>2, <4>4 DEF Below
    <3>2. \A k \in DOMAIN writes' : Undone(writes'[k]) =>
            /\ writes'[k].serial = serial'
            /\ Below(writes[k].to, serial)' /\ Len(toPeer'[writes'[k].to]) < serial'
      BY <3>1
    <3>3. \A k \in DOMAIN writes' : Undone(writes'[k]) => Undone(writes[k]) /\ writes'[k] = writes[k]
      BY <3>1
    <3>4. \A j, k \in DOMAIN writes' :
            Undone(writes'[j]) /\ Undone(writes'[k]) /\ writes'[j].to = writes'[k].to => j = k
      BY <1>1, <2>1, <3>3 DEF OrderInv, PendingInv
    <3> QED BY <3>2, <3>4 DEF PendingInv, Below, Undone
  <2>7. PassInv'
    <3>1. ASSUME NEW k \in DOMAIN writes', Undone(writes'[k])
          PROVE  k >= index' /\ writes'[k].fd \in ready'.write
      <4>1. k \in 1 .. Len(writes) /\ k # m /\ writes'[k] = writes[k]
        BY <2>1, <3>1
      <4>2. k >= index /\ writes[k].fd \in ready.write
        BY <1>2, <3>1, <4>1
      <4>3. m <= k
        BY <1>1, <1>4, <4>1, <4>2 DEF WriteMade, Pending
      <4> QED BY <1>1, <2>1, <4>1, <4>2, <4>3
    <3>2. \A k \in DOMAIN writes' : Undone(writes'[k]) => k >= index' /\ writes'[k].fd \in ready'.write
      BY <3>1
    <3> QED BY <2>1, <3>2 DEF PassInv, Undone
  <2> QED BY <2>5, <2>6, <2>7 DEF OrderInv
<1> QED BY <1>3, <1>4, Made

\* At the start nothing was sent.
LEMMA InitOrderInv ==
  LoopInit => OrderInv
<1> SUFFICES ASSUME LoopInit PROVE OrderInv
  OBVIOUS
<1>1. SentInv
  BY EventLoopAssumption DEF LoopInit, SentInv, Below, InOrderTo
<1>2. PendingInv
  BY DEF LoopInit, PendingInv
<1>3. PassInv
  BY DEF LoopInit, PassInv
<1> QED BY <1>1, <1>2, <1>3 DEF OrderInv

\* Each step keeps OrderInv, with one broadcast in a pass and room for all.
LEMMA NextOrderInv ==
  ASSUME MaxPerPass <= 1, MaxBroadcasts <= PeerRoom, LoopInv, OrderInv, [LoopNext]_loopVars
  PROVE  OrderInv'
<1>1. CASE UNCHANGED loopVars
  BY <1>1 DEF loopVars, OrderInv, SentInv, PendingInv, PassInv, Below, InOrderTo, Undone
<1>2. CASE CleanSocket
  BY <1>2, CleanSocketOrder
<1>3. CASE CleanWrite
  BY <1>3, CleanWriteOrder
<1>4. CASE Select
  BY <1>4, SelectOrder
<1>5. CASE WriteOnce
  BY <1>5, WriteOnceOrder
<1>6. CASE ReadOnce
  BY <1>6, ReadOnceOrder
<1>7. CASE Accept
  BY <1>7, AcceptOrder
<1>8. CASE \E c \in Clients : Connect(c) \/ SendToLoop(c) \/ Receive(c) \/ Disconnect(c)
  BY <1>8, ClientOrder
<1> QED BY <1>1, <1>2, <1>3, <1>4, <1>5, <1>6, <1>7, <1>8 DEF LoopNext, LoopStep

\* If at most one broadcast is queued in a pass of the loop and connections have room for
\* all, a client gets its messages in the order of the broadcasts, whatever the removals from
\* _writes do to their order there (jsocket.cpp, monitorSockets).
THEOREM MessagesInOrder ==
  ASSUME MaxPerPass <= 1, MaxBroadcasts <= PeerRoom
  PROVE  LoopSpec => []OwnMessagesInOrder
<1>1. ASSUME LoopInv, OrderInv
      PROVE  \A c \in Clients : \A i, j \in DOMAIN Arrived(c) :
               i < j => Arrived(c)[i][1] < Arrived(c)[j][1]
  <2> TAKE c \in Clients
  <2> TAKE i, j \in DOMAIN Arrived(c)
  <2> HAVE i < j
  <2> DEFINE n == Len(received[c])
  <2>1. /\ n \in Nat
        /\ \/ i \in DOMAIN received[c] /\ i \in 1 .. n /\ Arrived(c)[i] = received[c][i]
           \/ \E k \in DOMAIN toPeer[c] :
                k \in Nat \ {0} /\ i = n + k /\ Arrived(c)[i] = toPeer[c][k]
        /\ \/ j \in DOMAIN received[c] /\ j \in 1 .. n /\ Arrived(c)[j] = received[c][j]
           \/ \E k \in DOMAIN toPeer[c] :
                k \in Nat \ {0} /\ j = n + k /\ Arrived(c)[j] = toPeer[c][k]
    BY <1>1, ArrivedIsBoth DEF LoopInv
  <2>2. InOrderTo(c)
    BY <1>1 DEF OrderInv, SentInv
  <2> HIDE DEF n
  <2>3. CASE i \in DOMAIN received[c] /\ Arrived(c)[i] = received[c][i]
    BY <2>1, <2>2, <2>3 DEF InOrderTo
  <2>4. CASE i \notin 1 .. n
    <3>1. PICK k \in DOMAIN toPeer[c] :
            k \in Nat \ {0} /\ i = n + k /\ Arrived(c)[i] = toPeer[c][k]
      BY <2>1, <2>4
    <3>2. PICK l \in DOMAIN toPeer[c] :
            l \in Nat \ {0} /\ j = n + l /\ Arrived(c)[j] = toPeer[c][l]
      BY <2>1, <3>1
    <3>3. k < l
      BY <2>1, <3>1, <3>2
    <3> QED BY <2>2, <3>1, <3>2, <3>3 DEF InOrderTo
  <2> QED BY <2>1, <2>3, <2>4
<1>2. LoopInv /\ OrderInv =>
        \A c \in Clients : \A i, j \in DOMAIN Arrived(c) :
          i < j => Arrived(c)[i][1] < Arrived(c)[j][1]
  BY <1>1
<1>3. OwnMessages /\ LoopInv /\ OrderInv => OwnMessagesInOrder
  BY <1>2 DEF OwnMessagesInOrder
<1>4. LoopInv /\ OrderInv /\ [LoopNext]_loopVars => OrderInv'
  BY NextOrderInv
<1> QED BY <1>3, <1>4, InitLoopInv, NextLoopInv, InitOrderInv, OwnMessagesCorrect, PTL DEF LoopSpec
=============================================================================
