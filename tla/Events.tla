------------------------------ MODULE Events ------------------------------
(***************************************************************************)
(* The event descriptors of a process (plugin/ipc/event): an epoll set     *)
(* whose members the library records by descriptor number, an eventfd      *)
(* whose counter is read out and written back, a signalfd, and a poll      *)
(* that the checkpoint signal interrupts. A behaviour is about one kind.   *)
(***************************************************************************)
EXTENDS Integers, FiniteSets

CONSTANTS
  EventKinds,     \* subset of {"epoll", "eventfd", "signalfd", "poll"}
  Watched,        \* the descriptors a program may put into the epoll set
  MaxOpens,       \* bound on the files it opens
  Sizes,          \* the arguments of epoll_create and the flags of epoll_create1
  DeletesFirst,   \* whether programs take a descriptor out before they close or duplicate it
  MaxCount,       \* bound on the eventfd's 64-bit counter
  IntRange,       \* the values an unsigned int holds
  EventSignals,   \* the signals in the signalfd's mask
  MaxEventCkpt    \* bound on the checkpoints

ASSUME EventsAssumption ==
  /\ EventKinds \subseteq {"epoll", "eventfd", "signalfd", "poll"}
  /\ MaxOpens \in Nat /\ MaxCount \in Nat /\ IntRange \in Nat \ {0} /\ MaxEventCkpt \in Nat
  /\ Sizes \subseteq Nat /\ EventSignals \subseteq Nat \ {0}
  /\ DeletesFirst \in BOOLEAN

VARIABLES
  eventKind,   \* the kind of the behaviour
  evStage,     \* where the process is in a checkpoint
  fdObj,       \* [Watched -> the open file behind the descriptor, 0 if closed]
  opened,      \* the files opened so far
  interest,    \* the kernel's set: records of descriptor, file and events
  fdToEvent,   \* _fdToEvent: [descriptors -> events]
  epollSize,   \* _size
  count,       \* the counter in the kernel
  semaphore,   \* EFD_SEMAPHORE
  initval,     \* _initval
  pending,     \* the blocked signals that are pending
  fdsi,        \* the signal number in _fdsi, 0 at first
  pollPlace,   \* the program's place in poll()
  origGen,     \* orig_generation
  generation,  \* dmtcp_get_generation()
  lateCall,    \* whether the call read its generation after the order to suspend had come
  signalled,   \* whether a signal of the program's own has come during the call
  fresh,       \* whether the checkpoint or restart has just ended
  atCkpt       \* what the descriptors held when the program was stopped

epollVars == <<fdObj, opened, interest, fdToEvent, epollSize>>
counterVars == <<count, semaphore, initval>>
sigfdVars == <<pending, fdsi>>
pollVars == <<pollPlace, origGen, lateCall, signalled>>
kindVars == <<epollVars, counterVars, sigfdVars, pollVars>>
eventVars == <<eventKind, evStage, kindVars, generation, fresh, atCkpt>>

Held == [interest |-> interest, count |-> count, pending |-> pending]

EventsInit ==
  /\ eventKind \in EventKinds /\ evStage = "runs" /\ generation = 0
  /\ fdObj = [f \in Watched |-> 0] /\ opened = 0 /\ interest = {} /\ fdToEvent = <<>>
  /\ epollSize \in (IF eventKind = "epoll" THEN Sizes ELSE {1})
  /\ semaphore \in (IF eventKind = "eventfd" THEN BOOLEAN ELSE {FALSE})
  /\ count = 0 /\ initval = 0
  /\ pending = {} /\ fdsi = 0
  /\ pollPlace = "out" /\ origGen = 0 /\ lateCall = FALSE /\ signalled = FALSE
  /\ fresh = FALSE /\ atCkpt = Held

UserRuns == evStage \in {"runs", "ordered"}

Program(kind) ==
  /\ eventKind = kind /\ UserRuns
  /\ fresh' = FALSE /\ UNCHANGED <<eventKind, evStage, generation, atCkpt>>

(***************************************************************************)
(* The program's epoll set. The kernel keeps a member until its file has   *)
(* no descriptor left; the library forgets it when it is deleted.          *)
(***************************************************************************)
Member(f) == {m \in interest : m.fd = f /\ m.obj = fdObj[f]}

OpenWatched(f) ==
  /\ Program("epoll") /\ fdObj[f] = 0 /\ opened < MaxOpens
  /\ opened' = opened + 1 /\ fdObj' = [fdObj EXCEPT ![f] = opened + 1]
  /\ UNCHANGED <<interest, fdToEvent, epollSize, counterVars, sigfdVars, pollVars>>

CloseWatched(f) ==
  /\ Program("epoll") /\ fdObj[f] # 0
  /\ DeletesFirst => f \notin DOMAIN fdToEvent
  /\ fdObj' = [fdObj EXCEPT ![f] = 0]
  /\ interest' = {m \in interest : \E g \in Watched \ {f} : fdObj[g] = m.obj}
                   \union {m \in interest : m.obj # fdObj[f]}
  /\ UNCHANGED <<opened, fdToEvent, epollSize, counterVars, sigfdVars, pollVars>>

DupWatched(f, g) ==
  /\ Program("epoll") /\ fdObj[f] # 0 /\ fdObj[g] = 0
  /\ fdObj' = [fdObj EXCEPT ![g] = fdObj[f]]
  /\ UNCHANGED <<opened, interest, fdToEvent, epollSize, counterVars, sigfdVars, pollVars>>

\* A bug the properties must catch: a deletion is not recorded.
OnDeleteMutant(f) == fdToEvent

OnDelete(f) == [g \in DOMAIN fdToEvent \ {f} |-> fdToEvent[g]]

\* epoll_ctl: what the kernel accepts, onCTL records.
EpollCtl(op, f, ev) ==
  /\ Program("epoll") /\ fdObj[f] # 0
  /\ (op = "ADD") <=> (Member(f) = {})
  /\ interest' = (interest \ Member(f)) \union
                   (IF op = "DEL" THEN {} ELSE {[fd |-> f, obj |-> fdObj[f], ev |-> ev]})
  /\ fdToEvent' = IF op = "DEL" THEN OnDelete(f)
                  ELSE [g \in DOMAIN fdToEvent \union {f} |-> IF g = f THEN ev ELSE fdToEvent[g]]
  /\ UNCHANGED <<fdObj, opened, epollSize, counterVars, sigfdVars, pollVars>>

\* An exec hands the map over, but not the size: createDummyConnection gives 5.
ExecWithEpoll ==
  /\ Program("epoll") /\ epollSize' = 5
  /\ UNCHANGED <<fdObj, opened, interest, fdToEvent, counterVars, sigfdVars, pollVars>>

EpollStep ==
  \/ ExecWithEpoll
  \/ \E f \in Watched :
       \/ OpenWatched(f) \/ CloseWatched(f)
       \/ \E g \in Watched : DupWatched(f, g)
       \/ \E op \in {"ADD", "MOD"}, ev \in {"in", "out"} : EpollCtl(op, f, ev)
       \/ EpollCtl("DEL", f, "in")

(***************************************************************************)
(* The program's eventfd and signalfd.                                     *)
(***************************************************************************)
WriteCounter(n) ==
  /\ Program("eventfd") /\ count + n <= MaxCount
  /\ count' = count + n
  /\ UNCHANGED <<semaphore, initval, epollVars, sigfdVars, pollVars>>

ReadCounter ==
  /\ Program("eventfd") /\ count > 0
  /\ count' = IF semaphore THEN count - 1 ELSE 0
  /\ UNCHANGED <<semaphore, initval, epollVars, sigfdVars, pollVars>>

SignalComes(s) ==
  /\ Program("signalfd") /\ s \notin pending
  /\ pending' = pending \union {s}
  /\ UNCHANGED <<fdsi, epollVars, counterVars, pollVars>>

ReadSignal(s) ==
  /\ Program("signalfd") /\ s \in pending
  /\ pending' = pending \ {s}
  /\ UNCHANGED <<fdsi, epollVars, counterVars, pollVars>>

(***************************************************************************)
(* poll(): the wrapper does not keep a checkpoint out.                     *)
(***************************************************************************)
InPoll(from, to) ==
  /\ eventKind = "poll" /\ pollPlace = from /\ pollPlace' = to
  /\ fresh' = FALSE
  /\ UNCHANGED <<eventKind, evStage, generation, atCkpt, epollVars, counterVars, sigfdVars>>

ReadGeneration ==
  /\ UserRuns
  /\ \/ InPoll("out", "polls") /\ signalled' = FALSE
     \/ InPoll("again", "polls") /\ UNCHANGED signalled
  /\ origGen' = generation /\ lateCall' = (evStage = "ordered")

PollReturns ==
  /\ UserRuns /\ InPoll("polls", "out") /\ UNCHANGED <<origGen, lateCall, signalled>>

OwnSignal ==
  /\ UserRuns /\ InPoll("polls", "interrupted") /\ signalled' = TRUE /\ UNCHANGED <<origGen, lateCall>>

\* A bug the properties must catch: the call is never made again.
RestartedMutant == FALSE

\* dmtcp_get_generation() > orig_generation
Restarted == generation > origGen

TestGeneration ==
  /\ UserRuns /\ InPoll("interrupted", IF Restarted THEN "again" ELSE "failed")
  /\ UNCHANGED <<origGen, lateCall, signalled>>

LeaveFailed ==
  /\ UserRuns /\ InPoll("failed", "out") /\ UNCHANGED <<origGen, lateCall, signalled>>

(***************************************************************************)
(* The checkpoint: the order to suspend sets the generation, the signal    *)
(* stops the user threads later.                                           *)
(***************************************************************************)
SuspendOrdered ==
  /\ evStage = "runs" /\ generation < MaxEventCkpt
  /\ evStage' = "ordered" /\ generation' = generation + 1 /\ fresh' = FALSE
  /\ UNCHANGED <<eventKind, kindVars, atCkpt>>

StopUser ==
  /\ evStage = "ordered" /\ evStage' = "stopped" /\ atCkpt' = Held
  /\ pollPlace' = IF pollPlace = "polls" THEN "interrupted" ELSE pollPlace
  /\ UNCHANGED <<eventKind, epollVars, counterVars, sigfdVars, origGen, lateCall, signalled, generation, fresh>>

\* A bug the properties must catch: the first unit read is not counted.
UnitsReadMutant(n) == IF n = 0 THEN 0 ELSE n - 1

\* The reads of a semaphore, one unit each, until none is left.
UnitsRead(n) == n

\* What the read of the signalfd returns, the lowest of the signals pending; it goes into a local
\* variable of the name of _fdsi.
LowestOf(p) == IF eventKind = "signalfd" THEN {s \in p : \A r \in p : s <= r} ELSE {}

\* drain of the three kinds.
DrainEvents ==
  /\ evStage = "stopped" /\ evStage' = "drained"
  /\ CASE eventKind = "eventfd" ->
            /\ initval' = (IF semaphore THEN UnitsRead(count) ELSE count) % IntRange
            /\ count' = 0 /\ UNCHANGED <<semaphore, pending>>
       [] eventKind = "signalfd" -> pending' = pending \ LowestOf(pending) /\ UNCHANGED counterVars
       [] OTHER -> UNCHANGED <<counterVars, pending>>
  /\ UNCHANGED <<eventKind, epollVars, fdsi, pollVars, generation, fresh, atCkpt>>

\* raise(_fdsi.ssi_signo): signal 0 is none.
Raised == pending \union (IF eventKind = "signalfd" THEN {fdsi} \ {0} ELSE {})

\* refill(false): the counter's value is written back, which adds it.
RefillOnResume ==
  /\ evStage = "drained" /\ evStage' = "runs" /\ fresh' = TRUE
  /\ count' = count + (IF eventKind = "eventfd" THEN initval ELSE 0)
  /\ pending' = Raised
  /\ UNCHANGED <<eventKind, epollVars, semaphore, initval, fdsi, pollVars, generation, atCkpt>>

\* postRestart: a new descriptor of each kind; epoll_create refuses the size 0. The
\* signals that were pending when the image was written are raised by then.
RecreateEvents ==
  /\ evStage = "drained"
  /\ evStage' = IF eventKind = "epoll" /\ epollSize = 0 THEN "aborted" ELSE "recreated"
  /\ interest' = {} /\ count' = initval
  /\ UNCHANGED <<eventKind, fdObj, opened, fdToEvent, epollSize, semaphore, initval, sigfdVars, pollVars,
                 generation, fresh, atCkpt>>

\* refill(true): the recorded members are added; one whose descriptor is closed fails with a warning.
RefillOnRestart ==
  /\ evStage = "recreated" /\ evStage' = "runs" /\ fresh' = TRUE
  /\ interest' = {[fd |-> f, obj |-> fdObj[f], ev |-> fdToEvent[f]] :
                    f \in {g \in DOMAIN fdToEvent : fdObj[g] # 0}}
  /\ pending' = Raised
  /\ UNCHANGED <<eventKind, fdObj, opened, fdToEvent, epollSize, counterVars, fdsi, pollVars, generation, atCkpt>>

EventsNext ==
  \/ EpollStep \/ ReadCounter \/ \E n \in 1..2 : WriteCounter(n)
  \/ \E s \in EventSignals : SignalComes(s) \/ ReadSignal(s)
  \/ ReadGeneration \/ PollReturns \/ OwnSignal \/ TestGeneration \/ LeaveFailed
  \/ SuspendOrdered \/ StopUser \/ DrainEvents \/ RefillOnResume \/ RecreateEvents \/ RefillOnRestart

EventsSpec == EventsInit /\ [][EventsNext]_eventVars

(***************************************************************************)
(* Properties.                                                             *)
(***************************************************************************)

\* After a checkpoint and after a restart the program finds the epoll set and the counter it had
\* when it was stopped, and the restart does not abort: drain, postRestart and refill of the
\* event connections. Of the signals that were pending it finds all but the one drain has read.
EventsKept ==
  /\ evStage # "aborted"
  /\ fresh => /\ interest = atCkpt.interest /\ count = atCkpt.count
              /\ pending = atCkpt.pending \ LowestOf(atCkpt.pending)

\* "Poll wrapper forces poll to restart after ckpt/resume or ckpt/restart": poll fails with
\* EINTR only if a signal came that was not the checkpoint's.
PollRestarted == pollPlace = "failed" => signalled

\* That holds of a call that read its generation before the order to suspend came.
EarlyPollRestarted == pollPlace = "failed" => signalled \/ lateCall

\* Event descriptors are as they were, but for one signal, and a call of poll that began before
\* the order to suspend goes on after a checkpoint.
EventsTrue == EventsKept /\ EarlyPollRestarted
=============================================================================
