------------------------------ MODULE Sockets -------------------------------
(***************************************************************************)
(* Stream sockets across a checkpoint (plugin/ipc/socket and               *)
(* connectionlist.cpp).  Forked processes share the end of a connection:   *)
(* they elect one of them through the owner of the file descriptor.  The   *)
(* two processes elected for the two ends empty the connection, each       *)
(* reading until a cookie written by the other, and fill it again when the *)
(* programs go on or, after a restart, when the elected processes have     *)
(* connected to each other anew and handed the end to those they share it  *)
(* with.                                                                   *)
(*                                                                         *)
(* The messages of the coordinator are the barriers of Pass: a process     *)
(* starts what follows one when all processes have reached it.             *)
(***************************************************************************)
EXTENDS Integers, Sequences, FiniteSets, SequencesExt

CONSTANTS
  Task,        \* the processes
  Connection,  \* the connections, by numbers
  Holders,     \* [End -> the processes that share it]
  Room,        \* what a connection holds in one direction
  MaxData,     \* [End -> bound on what programs send on it]
  Closes,      \* the ends that programs may close
  Backlog,     \* connections that a restore socket holds unaccepted
  QueueLength, \* descriptors that a receive socket holds
  MaxSockCkpt, \* bound on the checkpoints
  MaxSockRestart

End == Connection \X {"connect", "accept"}

ASSUME SocketsAssumption ==
  /\ Connection \subseteq Nat /\ Room \in Nat /\ MaxData \in [End -> Nat]
  /\ Holders \in [End -> SUBSET Task] /\ \A e \in End : Holders[e] # {}
  /\ Closes \subseteq End /\ Backlog \in Nat \ {0} /\ QueueLength \in Nat \ {0}

VARIABLES
  place,       \* how far each process is in a checkpoint
  rebuilt,     \* whether the processes come from a restart
  sockCkpts, sockRestarts,
  held,        \* the ends in each process's table
  usable,      \* those of them whose descriptor is an open socket
  in,          \* what is on its way to each end
  link,        \* the end that an end is connected to
  sent, got,   \* how much programs have sent from and received at each end
  owner,       \* F_SETOWN of each end
  locks,       \* the ends each process is elected for (_hasLock)
  broken,      \* <<process, end>> of type TCP_ERROR
  cookie,      \* ends whose cookie is not written yet (_writes)
  reading,     \* ends that a drainer still reads (_dataSockets)
  drained,     \* _drainedData of each end
  waiting,     \* the accept ends in the backlog of each restore socket
  jobs,        \* what refillAllSockets of each process has still to do
  handed,      \* <<process, end>> whose descriptor has been sent
  mail         \* ends whose descriptor waits at each receive socket

progVars == <<held, sent, got>>
netVars == <<in, link, usable>>
lockVars == <<owner, locks>>
drainVars == <<cookie, reading, drained, broken>>
restoreVars == <<waiting, handed, mail>>
countVars == <<rebuilt, sockCkpts, sockRestarts>>
sockVars == <<place, countVars, progVars, netVars, lockVars, drainVars, restoreVars, jobs>>

Apart == <<-1, "apart">>                 \* the link of an end not connected
OtherEnd(e) == <<e[1], IF e[2] = "connect" THEN "accept" ELSE "connect">>
Data(n) == [kind |-> "data", n |-> n]
Cookie == [kind |-> "cookie", n |-> 0]
Handshake == [kind |-> "handshake", n |-> 0]
RefillMsg(n) == [kind |-> "refill", n |-> n]
IsOpen(e) == \E p \in Task : e \in held[p]

(***************************************************************************)
(* The places of a process, in the order of dmtcpworker.cpp's events.      *)
(* Those that end with a barrier are in Barriers.                          *)
(***************************************************************************)
Run == 0
Halted == 1
Locked == 2
Draining == 3
Empty == 4
Greeted == 5
Saved == 6
Listening == 7
Reconnecting == 8
Connected == 9
Refilling == 10
Exchanging == 11
Filled == 12
Barriers == {Halted, Locked, Empty, Saved, Listening, Connected, Filled}

\* p goes from one place to another, when all have reached a barrier there is.
Pass(p, from, to) ==
  /\ place[p] = from /\ place' = [place EXCEPT ![p] = to]
  /\ from \in Barriers =>
       \A q \in Task : place[q] >= from \/ (from = Filled /\ place[q] = Run)
  /\ UNCHANGED countVars

\* The connections of the programs, as socket, bind, listen, connect and accept enter them in the
\* lists of their processes, and fork in those of the children: both ends open, nothing under way.
SocketsInit ==
  /\ place = [p \in Task |-> Run] /\ rebuilt = FALSE /\ sockCkpts = 0 /\ sockRestarts = 0
  /\ held = [p \in Task |-> {e \in End : p \in Holders[e]}] /\ usable = held
  /\ in = [e \in End |-> <<>>] /\ link = [e \in End |-> OtherEnd(e)]
  /\ sent = [e \in End |-> 0] /\ got = [e \in End |-> 0]
  /\ owner = [e \in End |-> {}] /\ locks = [p \in Task |-> {}]
  /\ broken = {} /\ cookie = {} /\ reading = {} /\ drained = [e \in End |-> <<>>]
  /\ waiting = [p \in Task |-> <<>>] /\ jobs = [p \in Task |-> <<>>]
  /\ handed = {} /\ mail = [p \in Task |-> <<>>]

(***************************************************************************)
(* The programs.                                                           *)
(***************************************************************************)
Working(p, e) == place[p] = Run /\ e \in usable[p] /\ <<p, e>> \notin broken

Send(p, e) ==
  /\ Working(p, e) /\ sent[e] < MaxData[e] /\ IsOpen(link[e]) /\ Len(in[link[e]]) < Room
  /\ sent' = [sent EXCEPT ![e] = @ + 1]
  /\ in' = [in EXCEPT ![link[e]] = Append(@, Data(sent[e] + 1))]
  /\ UNCHANGED <<place, countVars, held, got, link, usable, lockVars, drainVars, restoreVars, jobs>>

Receive(p, e) ==
  /\ Working(p, e) /\ in[e] # <<>>
  /\ got' = [got EXCEPT ![e] = @ + 1] /\ in' = [in EXCEPT ![e] = Tail(@)]
  /\ UNCHANGED <<place, countVars, held, sent, link, usable, lockVars, drainVars, restoreVars, jobs>>

Close(p, e) ==
  /\ Working(p, e) /\ e \in Closes
  /\ held' = [held EXCEPT ![p] = @ \ {e}] /\ usable' = [usable EXCEPT ![p] = @ \ {e}]
  /\ UNCHANGED <<place, countVars, sent, got, in, link, lockVars, drainVars, restoreVars, jobs>>

Program(p) == \E e \in End : Send(p, e) \/ Receive(p, e) \/ Close(p, e)

(***************************************************************************)
(* Suspension and the election.                                            *)
(***************************************************************************)
\* The first to be suspended starts a checkpoint.
Halt(p) ==
  /\ place[p] = Run /\ \A q \in Task : place[q] \in {Run, Halted}
  /\ \/ (\A q \in Task : place[q] = Run) /\ sockCkpts < MaxSockCkpt
        /\ sockCkpts' = sockCkpts + 1 /\ rebuilt' = FALSE
     \/ (\E q \in Task : place[q] = Halted) /\ UNCHANGED <<sockCkpts, rebuilt>>
  /\ place' = [place EXCEPT ![p] = Halted] /\ UNCHANGED sockRestarts
  /\ UNCHANGED <<progVars, netVars, lockVars, drainVars, restoreVars, jobs>>

\* p makes itself the owner of its ends one by one, between the others' doing so:
\* of an end that another has locked, p may have been the owner before.
DoLocking(p) ==
  /\ Pass(p, Halted, Locked)
  /\ \E last \in SUBSET held[p] :
       /\ \A e \in held[p] \ last : owner[e] # {}
       /\ owner' = [e \in End |-> IF e \in last THEN {p} ELSE owner[e]]
  /\ UNCHANGED <<progVars, netVars, locks, drainVars, restoreVars, jobs>>

\* checkLock: the process that finds itself the owner is elected.
ElectedForMutant(p) == held[p]
ElectedFor(p) == {e \in held[p] : owner[e] = {p}}

\* drain: the elected start a drainer of their connections that are not broken.
BeginDrain(p) ==
  LET mine == {e \in ElectedFor(p) : <<p, e>> \notin broken}
  IN /\ Pass(p, Locked, Draining)
     /\ locks' = [locks EXCEPT ![p] = ElectedFor(p)]
     /\ cookie' = cookie \cup mine /\ reading' = reading \cup mine
     /\ drained' = [e \in End |-> IF e \in mine THEN <<>> ELSE drained[e]]
     /\ UNCHANGED <<progVars, netVars, owner, broken, restoreVars, jobs>>

\* The buffer's end is the cookie: the drain of the end is complete.
Complete(buffer) == buffer # <<>> /\ buffer[Len(buffer)] = Cookie

\* The cookie is taken from a completed buffer.
StrippedMutant(buffer) == buffer
Stripped(buffer) == Front(buffer)

\* One round of monitorSockets: cookies are written where there is room, each
\* drainer reads, an end whose peer is closed and that is read to its end is
\* marked, and when the interval is over the drains are looked at.
DrainRound(p, timeout) ==
  LET mine == locks[p]
      writes == {e \in mine \cap cookie : IsOpen(link[e]) /\ Len(in[link[e]]) < Room}
      reads == {e \in mine \cap reading : in[e] # <<>>}
      ends == {e \in mine \cap reading : in[e] = <<>> /\ ~IsOpen(link[e])}
      now == [e \in End |-> IF e \in reads THEN Append(drained[e], Head(in[e])) ELSE drained[e]]
      complete == {e \in (mine \cap reading) \ ends : timeout /\ Complete(now[e])}
  IN /\ place[p] = Draining /\ writes \cup reads \cup ends \cup complete # {}
     /\ in' = [e \in End |->
          (IF e \in reads THEN Tail(in[e]) ELSE in[e]) \o
          (IF \E w \in writes : link[w] = e THEN <<Cookie>> ELSE <<>>)]
     /\ cookie' = cookie \ (writes \cup ends)
     /\ reading' = reading \ (ends \cup complete)
     /\ drained' = [e \in End |-> IF e \in ends THEN <<>>
                                  ELSE IF e \in complete THEN Stripped(now[e]) ELSE now[e]]
     /\ broken' = broken \cup {<<p, e>> : e \in ends}
     /\ UNCHANGED <<place, countVars, progVars, link, usable, lockVars, restoreVars, jobs>>

\* A cookie for a closed end that is not read to its end yet fails to be written.
CookieFails(p) ==
  LET fails == {e \in locks[p] \cap cookie : ~IsOpen(link[e])}
  IN /\ place[p] = Draining /\ fails # {} /\ cookie' = cookie \ fails
     /\ UNCHANGED <<place, countVars, progVars, netVars, lockVars, reading, drained, broken,
                    restoreVars, jobs>>

\* No socket is left to read or write: broken ones are replaced by dead sockets.
DrainEnds(p) ==
  /\ Pass(p, Draining, Empty) /\ locks[p] \cap (cookie \cup reading) = {}
  /\ UNCHANGED <<progVars, netVars, lockVars, drainVars, restoreVars, jobs>>

\* The connections of p's ends, as the elected process has them.
Sound(p) == {e \in locks[p] : <<p, e>> \notin broken}

\* preCkpt: handshakes are sent on all connections and then received.
DoSendHandshakes(p) ==
  /\ Pass(p, Empty, Greeted)
  /\ in' = [e \in End |-> IF \E s \in Sound(p) : link[s] = e THEN Append(in[e], Handshake) ELSE in[e]]
  /\ UNCHANGED <<progVars, link, usable, lockVars, drainVars, restoreVars, jobs>>

DoRecvHandshakes(p) ==
  /\ Pass(p, Greeted, Saved) /\ \A e \in Sound(p) : in[e] # <<>> /\ Head(in[e]) = Handshake
  /\ in' = [e \in End |-> IF e \in Sound(p) THEN Tail(in[e]) ELSE in[e]]
  /\ UNCHANGED <<progVars, link, usable, lockVars, drainVars, restoreVars, jobs>>

(***************************************************************************)
(* Restart.                                                                *)
(***************************************************************************)
\* The processes go on after the images are written.
GoOn(p) ==
  /\ ~rebuilt /\ Pass(p, Saved, Connected)
  /\ UNCHANGED <<progVars, netVars, lockVars, drainVars, restoreVars, jobs>>

\* They end, and are restored from their images, without any socket.
RestoreImages ==
  /\ \A p \in Task : place[p] = Saved
  /\ ~rebuilt /\ sockRestarts < MaxSockRestart
  /\ rebuilt' = TRUE /\ sockRestarts' = sockRestarts + 1 /\ UNCHANGED <<place, sockCkpts>>
  /\ in' = [e \in End |-> <<>>] /\ link' = [e \in End |-> Apart]
  /\ usable' = [p \in Task |-> {}] /\ owner' = [e \in End |-> {}]
  /\ waiting' = [p \in Task |-> <<>>] /\ handed' = {} /\ mail' = [p \in Task |-> <<>>]
  /\ UNCHANGED <<progVars, locks, drainVars, jobs>>

\* postRestart and registerNSData: broken connections get dead sockets, the
\* restore socket listens, its address is registered for the connect ends and
\* that of the receive socket for the ends of others.
RestoreSocket(p) ==
  /\ rebuilt /\ Pass(p, Saved, Listening)
  /\ usable' = [usable EXCEPT ![p] = locks[p] \ Sound(p)]
  /\ UNCHANGED <<progVars, in, link, lockVars, drainVars, restoreVars, jobs>>

SendQueries(p) ==
  /\ Pass(p, Listening, Reconnecting)
  /\ UNCHANGED <<progVars, netVars, lockVars, drainVars, restoreVars, jobs>>

Outgoing(p) == {e \in Sound(p) : e[2] = "accept" /\ link[e] = Apart}
Incoming(p) == {e \in Sound(p) : e[2] = "connect" /\ link[e] = Apart}
ServerOf(e) == CHOOSE q \in Task : OtherEnd(e) \in locks[q]

\* checkForPendingIncoming takes every waiting connection, as many as expected.
Accepts(p, queue, expected) == SubSeq(queue, 1, IF Len(queue) < Cardinality(expected)
                                                 THEN Len(queue) ELSE Cardinality(expected))
Joined(ends) == [e \in End |-> IF \E n \in DOMAIN ends : OtherEnd(ends[n]) = e THEN OtherEnd(e)
                               ELSE link[e]]

\* doReconnect: connect, send the id of the connection, accept those that wait.
Connect(p, e) ==
  LET q == ServerOf(e)
      queues == [waiting EXCEPT ![q] = Append(@, e)]
      taken == Accepts(p, queues[p], Incoming(p))
  IN /\ place[p] = Reconnecting /\ e \in Outgoing(p) /\ Len(waiting[q]) < Backlog
     /\ waiting' = [queues EXCEPT ![p] = SubSeq(@, Len(taken) + 1, Len(@))]
     /\ link' = [Joined(taken) EXCEPT ![e] = OtherEnd(e)]
     /\ usable' = [usable EXCEPT ![p] = @ \cup {e} \cup {OtherEnd(taken[n]) : n \in DOMAIN taken}]
     /\ UNCHANGED <<place, countVars, progVars, in, lockVars, drainVars, handed, mail, jobs>>

\* All connected: the remaining ones are waited for.
Accept(p) ==
  LET taken == Accepts(p, waiting[p], Incoming(p))
  IN /\ place[p] = Reconnecting /\ Outgoing(p) = {} /\ taken # <<>>
     /\ waiting' = [waiting EXCEPT ![p] = SubSeq(@, Len(taken) + 1, Len(@))]
     /\ link' = Joined(taken)
     /\ usable' = [usable EXCEPT ![p] = @ \cup {OtherEnd(taken[n]) : n \in DOMAIN taken}]
     /\ UNCHANGED <<place, countVars, progVars, in, lockVars, drainVars, handed, mail, jobs>>

Reconnected(p) ==
  /\ Pass(p, Reconnecting, Connected) /\ Outgoing(p) = {} /\ Incoming(p) = {}
  /\ UNCHANGED <<progVars, netVars, lockVars, drainVars, restoreVars, jobs>>

(***************************************************************************)
(* Refill.                                                                 *)
(***************************************************************************)
Put(e, item) == [op |-> "put", end |-> e, item |-> item]
Take(e) == [op |-> "take", end |-> e]
Read(e, n, buffer) == [op |-> "read", end |-> e, n |-> n, buffer |-> buffer]
Puts(e, items) == [n \in DOMAIN items |-> Put(e, items[n])]

\* All that was drained is sent back, end by end, and then on each end the peer's
\* is read and returned.
BeginRefill(p) ==
  LET order == SetToSeq(Sound(p))
      out == [n \in DOMAIN order |-> <<Put(order[n], RefillMsg(Len(drained[order[n]])))>>
                                       \o Puts(order[n], drained[order[n]])]
  IN /\ Pass(p, Connected, Refilling)
     /\ jobs' = [jobs EXCEPT ![p] = FlattenSeq(out) \o [n \in DOMAIN order |-> Take(order[n])]]
     /\ drained' = [e \in End |-> IF e \in Sound(p) THEN <<>> ELSE drained[e]]
     /\ UNCHANGED <<progVars, netVars, lockVars, cookie, reading, broken, restoreVars>>

\* The next blocking read or write of one item.
Refills(p) ==
  LET job == Head(jobs[p])
      e == job.end
      rest == Tail(jobs[p])
  IN /\ place[p] = Refilling /\ jobs[p] # <<>>
     /\ \/ /\ job.op = "put" /\ Len(in[link[e]]) < Room
           /\ in' = [in EXCEPT ![link[e]] = Append(@, job.item)]
           /\ jobs' = [jobs EXCEPT ![p] = rest]
        \/ /\ job.op = "take" /\ in[e] # <<>> /\ in' = [in EXCEPT ![e] = Tail(@)]
           /\ Head(in[e]).kind = "refill"
           /\ jobs' = [jobs EXCEPT ![p] =
                IF Head(in[e]).n = 0 THEN rest ELSE <<Read(e, Head(in[e]).n, <<>>)>> \o rest]
        \/ /\ job.op = "read" /\ in[e] # <<>> /\ in' = [in EXCEPT ![e] = Tail(@)]
           /\ LET buffer == Append(job.buffer, Head(in[e]))
              IN jobs' = [jobs EXCEPT ![p] = IF Len(buffer) < job.n
                                             THEN <<Read(e, job.n, buffer)>> \o rest
                                             ELSE Puts(e, buffer) \o rest]
     /\ UNCHANGED <<place, countVars, progVars, link, usable, lockVars, drainVars, restoreVars>>

\* restoreOptions gives the descriptors their owner again.
RefillEnds(p) ==
  /\ Pass(p, Refilling, IF rebuilt THEN Exchanging ELSE Filled) /\ jobs[p] = <<>>
  /\ owner' = [e \in End |-> IF e \in locks[p] THEN {} ELSE owner[e]]
  /\ UNCHANGED <<progVars, netVars, locks, drainVars, restoreVars, jobs>>

\* The ends that p has to send the descriptors of, and those it lacks.
ToSend(p) == {<<q, e>> \in (Task \ {p}) \X locks[p] : e \in held[q] /\ <<q, e>> \notin handed}
MissingMutant(p) == IF mail[p] = <<>> THEN {} ELSE held[p] \ usable[p]
Missing(p) == held[p] \ usable[p]

\* A round of sendReceiveMissingFds: a descriptor is sent if one is left to send,
\* and one is received if there is one.
Exchange(p) ==
  LET receives == Missing(p) # {} /\ mail[p] # <<>>
      taken == [mail EXCEPT ![p] = IF receives THEN Tail(@) ELSE @]
  IN /\ place[p] = Exchanging
     /\ \/ /\ \E out \in ToSend(p) :
                /\ Len(mail[out[1]]) < QueueLength
                /\ handed' = handed \cup {out}
                /\ mail' = [taken EXCEPT ![out[1]] = Append(@, out[2])]
        \/ ToSend(p) = {} /\ receives /\ mail' = taken /\ UNCHANGED handed
     /\ usable' = [usable EXCEPT ![p] = IF receives THEN @ \cup {Head(mail[p])} ELSE @]
     /\ UNCHANGED <<place, countVars, progVars, in, link, lockVars, drainVars, waiting, jobs>>

Exchanged(p) ==
  /\ Pass(p, Exchanging, Filled) /\ ToSend(p) = {} /\ Missing(p) = {}
  /\ UNCHANGED <<progVars, netVars, lockVars, drainVars, restoreVars, jobs>>

Resume(p) ==
  /\ Pass(p, Filled, Run)
  /\ UNCHANGED <<progVars, netVars, lockVars, drainVars, restoreVars, jobs>>

CkptSteps(p) ==
  \/ DoLocking(p) \/ BeginDrain(p) \/ DrainRound(p, TRUE) \/ CookieFails(p) \/ DrainEnds(p)
  \/ DoSendHandshakes(p) \/ DoRecvHandshakes(p) \/ GoOn(p)
  \/ RestoreSocket(p) \/ SendQueries(p) \/ (\E e \in End : Connect(p, e)) \/ Accept(p)
  \/ Reconnected(p) \/ BeginRefill(p) \/ Refills(p) \/ RefillEnds(p) \/ Exchange(p)
  \/ Exchanged(p) \/ Resume(p)

SocketsNext ==
  \/ \E p \in Task : Program(p) \/ Halt(p) \/ CkptSteps(p) \/ DrainRound(p, FALSE)
  \/ RestoreImages

\* The processes of a computation that is stopped go on with its checkpoint; all
\* are suspended once one is.  No process can go on for ever in a checkpoint, so
\* that it is enough that one that can go on does.
SocketsFair(p) == CkptSteps(p) \/ ((\E q \in Task : place[q] # Run) /\ Halt(p))
SocketsFairness == WF_sockVars(\E p \in Task : SocketsFair(p))
SocketsSpec == SocketsInit /\ [][SocketsNext]_sockVars /\ SocketsFairness

(***************************************************************************)
(* Properties.                                                             *)
(***************************************************************************)
Idle(e) == \A p \in Task : e \in held[p] => place[p] \in {Run, Halted, Filled}

\* Whatever the programs sent on a connection and have not received is on its way
\* whenever no process that has an end of it is in a checkpoint, in order, once,
\* and with nothing of the checkpoint's own among it.
StreamsIntact ==
  \A e \in End :
    IsOpen(e) /\ IsOpen(OtherEnd(e)) /\ Idle(e) /\ Idle(OtherEnd(e)) =>
      in[e] = [n \in 1..(sent[OtherEnd(e)] - got[e]) |-> Data(got[e] + n)]

\* The same of a connection whose other end is closed: its last data can still be read.
LastDataKept ==
  \A e \in End :
    IsOpen(e) /\ Idle(e) =>
      in[e] = [n \in 1..(sent[OtherEnd(e)] - got[e]) |-> Data(got[e] + n)]

\* Processes that shared an end share it again when they run: each has a
\* descriptor of it, elected for it or not.
EndsHeld == \A p \in Task : place[p] = Run => held[p] = usable[p]

\* A checkpoint that has suspended a process lets all of them run again: neither
\* the drain, nor the handshakes, the reconnection, the refill and the exchange of
\* descriptors leave processes waiting for each other.
SocketsResume == (\E p \in Task : place[p] # Run) ~> (\A p \in Task : place[p] = Run)
=============================================================================
