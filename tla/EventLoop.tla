----------------------------- MODULE EventLoop -----------------------------
(***************************************************************************)
(* JMultiSocketProgram::monitorSockets of jalib, the loop in which the     *)
(* coordinator reads messages, accepts connections and sends broadcasts.   *)
(* A pass removes the sockets that failed, then the writes that are done   *)
(* or whose socket was closed, waits in select, writes, reads and accepts. *)
(* An element is removed by moving the last one into its place.            *)
(***************************************************************************)
EXTENDS Integers, Sequences, FiniteSets, FiniteSetsExt

CONSTANTS
  Clients,      \* connections that clients make
  MaxFds,       \* descriptors of the program
  MaxSent,      \* bound: messages each client sends
  Leaving,      \* bound: the clients that may close their connection
  PeerRoom,     \* messages that a connection's buffer holds
  MaxPerPass,   \* bound: broadcasts that are queued in one pass of the loop
  MaxBroadcasts \* bound: broadcasts

ASSUME EventLoopAssumption ==
  /\ MaxFds \in Nat \ {0} /\ MaxSent \in [Clients -> Nat] /\ PeerRoom \in Nat \ {0} /\ MaxPerPass \in Nat
  /\ MaxBroadcasts \in Nat

VARIABLES
  peer,         \* each client: "away", "waiting" to be accepted, "open" or "closed"
  fdOf,         \* the program's descriptor of each connection, 0 for none
  sent,         \* messages each client has sent that are not read
  sentCount,    \* messages each client has sent
  toPeer,       \* what was written to a connection and not received: <<serial, addressee>>
  received,     \* what each client received
  sockets,      \* _dataSockets: [fd, error]
  writes,       \* _writes: [fd, done, error], and serial and addressee of the message
  closedFds,    \* closedFds
  loopAt,       \* "sockets", "writes", "select", "write", "read" or "accept"
  index,        \* i
  ready,        \* what select returned: [read, write, listen]
  serial,       \* broadcasts so far
  inPass        \* broadcasts queued in this pass

clientVars == <<peer, sentCount>>
channelVars == <<sent, toPeer, received>>
queueVars == <<sockets, writes, closedFds>>
loopVars == <<peer, fdOf, sent, sentCount, toPeer, received, sockets, writes, closedFds,
              loopAt, index, ready, serial, inPass>>

NothingReady == [read |-> {}, write |-> {}, listen |-> FALSE]

LoopInit ==
  /\ peer = [c \in Clients |-> "away"] /\ fdOf = [c \in Clients |-> 0]
  /\ sent = [c \in Clients |-> 0] /\ sentCount = [c \in Clients |-> 0]
  /\ toPeer = [c \in Clients |-> <<>>] /\ received = [c \in Clients |-> <<>>]
  /\ sockets = <<>> /\ writes = <<>> /\ closedFds = {}
  /\ loopAt = "sockets" /\ index = 1 /\ ready = NothingReady
  /\ serial = 0 /\ inPass = 0

OwnerOf(fd) == {c \in Clients : fdOf[c] = fd}
FreeFds == {fd \in 1 .. MaxFds : OwnerOf(fd) = {}}

\* "swap with last", and pop_back
WithoutIndex(s, i) ==
  SubSeq([s EXCEPT ![i] = s[Len(s)]], 1, Len(s) - 1)

\* broadcastMessage: a write for each data socket.
BroadcastTo(socks) ==
  [k \in DOMAIN socks |->
     [fd |-> socks[k].fd, done |-> FALSE, error |-> FALSE, serial |-> serial + 1,
      to |-> CHOOSE c \in Clients : fdOf[c] = socks[k].fd]]

\* A handler broadcasts or does not.
HandlerQueues(socks, rest) ==
  \/ /\ writes' = rest /\ UNCHANGED <<serial, inPass>>
  \/ /\ inPass < MaxPerPass /\ serial < MaxBroadcasts
     /\ writes' = rest \o BroadcastTo(socks)
     /\ serial' = serial + 1 /\ inPass' = inPass + 1

(***************************************************************************)
(* The clients.                                                            *)
(***************************************************************************)
Connect(c) ==
  /\ peer[c] = "away"
  /\ peer' = [peer EXCEPT ![c] = "waiting"]
  /\ UNCHANGED <<fdOf, sentCount, channelVars, queueVars, loopAt, index, ready, serial, inPass>>

SendToLoop(c) ==
  /\ peer[c] = "open" /\ sentCount[c] < MaxSent[c]
  /\ sent' = [sent EXCEPT ![c] = @ + 1]
  /\ sentCount' = [sentCount EXCEPT ![c] = @ + 1]
  /\ UNCHANGED <<peer, fdOf, toPeer, received, queueVars, loopAt, index, ready, serial, inPass>>

Receive(c) ==
  /\ peer[c] = "open" /\ toPeer[c] # <<>>
  /\ received' = [received EXCEPT ![c] = Append(@, Head(toPeer[c]))]
  /\ toPeer' = [toPeer EXCEPT ![c] = Tail(@)]
  /\ UNCHANGED <<fdOf, clientVars, sent, queueVars, loopAt, index, ready, serial, inPass>>

Disconnect(c) ==
  /\ peer[c] = "open" /\ c \in Leaving
  /\ peer' = [peer EXCEPT ![c] = "closed"]
  /\ toPeer' = [toPeer EXCEPT ![c] = <<>>]
  /\ UNCHANGED <<fdOf, sent, sentCount, received, queueVars, loopAt, index, ready, serial, inPass>>

(***************************************************************************)
(* The loop.                                                               *)
(***************************************************************************)
GoTo(place) == loopAt' = place /\ index' = 1

\* The elements of a queue that the loop has still to look at in this pass.
Pending(queue) == index .. Len(queue)

\* A socket that failed is removed; onDisconnect is told, then it is closed.
CleanSocket ==
  /\ loopAt = "sockets"
  /\ LET failed == {k \in Pending(sockets) : sockets[k].error}
     IN IF failed = {}
        THEN /\ GoTo("writes")
             /\ UNCHANGED <<fdOf, queueVars, serial, inPass>>
        ELSE LET i == Min(failed)
                 rest == WithoutIndex(sockets, i)
             IN /\ sockets' = rest
                /\ closedFds' = closedFds \union {sockets[i].fd}
                /\ HandlerQueues(rest, writes)
                /\ fdOf' = [c \in Clients |-> IF fdOf[c] = sockets[i].fd THEN 0 ELSE fdOf[c]]
                /\ index' = i /\ UNCHANGED loopAt
  /\ UNCHANGED <<clientVars, channelVars, ready>>

\* A bug the properties must catch: the writes of a closed socket stay.
DroppedMutant(w) == w.error \/ w.done

Dropped(w) == w.error \/ w.done \/ w.fd \in closedFds

CleanWrite ==
  /\ loopAt = "writes"
  /\ LET dropped == {k \in Pending(writes) : Dropped(writes[k])}
     IN IF dropped = {}
        THEN GoTo("select") /\ UNCHANGED writes
        ELSE /\ writes' = WithoutIndex(writes, Min(dropped))
             /\ index' = Min(dropped) /\ UNCHANGED loopAt
  /\ UNCHANGED <<fdOf, clientVars, channelVars, sockets, closedFds, ready, serial, inPass>>

\* A connection is writable when its buffer has room, or when writing to it fails.
Writable(fd) ==
  \E c \in OwnerOf(fd) : peer[c] = "closed" \/ Len(toPeer[c]) < PeerRoom
Readable(fd) == \E c \in OwnerOf(fd) : peer[c] = "closed" \/ sent[c] > 0

ReadyNow ==
  [read   |-> {sockets[k].fd : k \in {j \in DOMAIN sockets : Readable(sockets[j].fd)}},
   write  |-> {writes[k].fd : k \in {j \in DOMAIN writes : Writable(writes[j].fd)}},
   listen |-> \E c \in Clients : peer[c] = "waiting"]

\* select blocks until something is ready.
Select ==
  /\ loopAt = "select" /\ ReadyNow # NothingReady
  /\ ready' = ReadyNow
  /\ GoTo("write")
  /\ closedFds' = {} /\ inPass' = 0
  /\ UNCHANGED <<fdOf, clientVars, channelVars, sockets, writes, serial>>

\* writeOnce: a message is short enough to be written at once.
WriteOnce ==
  /\ loopAt = "write"
  /\ LET todo == {k \in Pending(writes) : writes[k].fd \in ready.write}
     IN IF todo = {}
        THEN GoTo("read") /\ UNCHANGED <<writes, toPeer>>
        ELSE LET w == writes[Min(todo)]
             IN /\ index' = Min(todo) + 1 /\ UNCHANGED loopAt
                /\ \E c \in OwnerOf(w.fd) :
                     IF peer[c] = "open"
                     THEN /\ Len(toPeer[c]) < PeerRoom
                          /\ toPeer' = [toPeer EXCEPT ![c] = Append(@, <<w.serial, w.to>>)]
                          /\ writes' = [writes EXCEPT ![Min(todo)].done = TRUE]
                     ELSE /\ writes' = [writes EXCEPT ![Min(todo)].error = TRUE]
                          /\ UNCHANGED toPeer
  /\ UNCHANGED <<fdOf, clientVars, sent, received, sockets, closedFds, ready, serial, inPass>>

\* readOnce and onData; the end of the connection is an error.
ReadOnce ==
  /\ loopAt = "read"
  /\ LET todo == {k \in Pending(sockets) : sockets[k].fd \in ready.read}
     IN IF todo = {}
        THEN GoTo("accept") /\ UNCHANGED <<sent, sockets, writes, serial, inPass>>
        ELSE /\ index' = Min(todo) + 1 /\ UNCHANGED loopAt
             /\ \E c \in OwnerOf(sockets[Min(todo)].fd) :
                  IF sent[c] > 0
                  THEN /\ sent' = [sent EXCEPT ![c] = @ - 1]
                       /\ HandlerQueues(sockets, writes)
                       /\ UNCHANGED sockets
                  ELSE /\ sockets' = [sockets EXCEPT ![Min(todo)].error = TRUE]
                       /\ UNCHANGED <<sent, writes, serial, inPass>>
  /\ UNCHANGED <<fdOf, clientVars, toPeer, received, closedFds, ready>>

\* accept, which takes the lowest free descriptor, and onConnect.
\* A data socket: its reader has read nothing of the next message.
NewReader(fd) == [fd |-> fd, error |-> FALSE]

Accept ==
  /\ loopAt = "accept"
  /\ IF ~ready.listen
     THEN UNCHANGED <<fdOf, peer, sockets, writes, serial, inPass>>
     ELSE \E c \in Clients :
            /\ peer[c] = "waiting" /\ FreeFds # {}
            /\ peer' = [peer EXCEPT ![c] = "open"]
            /\ fdOf' = [fdOf EXCEPT ![c] = Min(FreeFds)]
            /\ sockets' = Append(sockets, NewReader(Min(FreeFds)))
            /\ HandlerQueues(sockets, writes)
  /\ GoTo("sockets")
  /\ UNCHANGED <<sentCount, channelVars, closedFds, ready>>

LoopStep == CleanSocket \/ CleanWrite \/ Select \/ WriteOnce \/ ReadOnce \/ Accept

LoopNext ==
  \/ LoopStep
  \/ \E c \in Clients : Connect(c) \/ SendToLoop(c) \/ Receive(c) \/ Disconnect(c)

\* The program runs; a client reads what it gets.
LoopFairness ==
  /\ WF_loopVars(LoopStep)
  /\ \A c \in Clients : WF_loopVars(Receive(c))

LoopSpec == LoopInit /\ [][LoopNext]_loopVars

(***************************************************************************)
(* Properties.                                                             *)
(***************************************************************************)
Arrived(c) == received[c] \o toPeer[c]

\* A connection gets only messages that were queued for it, also when its descriptor was
\* that of a connection that failed with writes pending (closedFds).
OwnMessages ==
  \A c \in Clients : \A i \in DOMAIN Arrived(c) : Arrived(c)[i][2] = c

\* It gets them in the order of the broadcasts, although removals change the order of
\* _writes.
OwnMessagesInOrder ==
  /\ OwnMessages
  /\ \A c \in Clients : \A i, j \in DOMAIN Arrived(c) :
       i < j => Arrived(c)[i][1] < Arrived(c)[j][1]

\* A message queued for a connection is received, unless the connection ends.
QueuedReceived ==
  \A c \in Clients :
    (\E i \in DOMAIN writes : writes[i].to = c /\ ~writes[i].done /\ writes[i].serial = 1)
      ~> \/ peer[c] = "closed"
         \/ \E i \in DOMAIN received[c] : received[c][i][1] = 1
=============================================================================
