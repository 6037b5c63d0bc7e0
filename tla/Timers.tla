------------------------------- MODULE Timers -------------------------------
(***************************************************************************)
(* The timers and clocks of a process (plugin/ipc/timer): programs hold    *)
(* virtual ids, a checkpoint reads the time that is left, a restart makes  *)
(* new timers and looks the clocks up again.                               *)
(***************************************************************************)
EXTENDS Naturals, FiniteSets

CONSTANTS
  TimerThreads,      \* the threads that make and delete timers
  RealTimers,        \* the ids the kernel gives, a freed one again
  RealClocks,        \* the ids of clocks
  Owners,            \* what has a clock: records of a kind, "process" or "thread", and a name
  MaxTimers,         \* bound on the timers made
  MaxClocks,         \* bound on the clock ids asked for
  MaxNow,            \* bound on the time, and on the expiries of a timer that is set again
  Settings,          \* how timers may be set: records with "flags", "value" and "every"
  TicksWhileStopped, \* whether timers expire between the stop of the threads and the image
  MaxTimerCkpt       \* bound on the checkpoints

ASSUME TimersAssumption ==
  /\ MaxTimers \in Nat /\ MaxClocks \in Nat /\ MaxNow \in Nat /\ MaxTimerCkpt \in Nat
  /\ TicksWhileStopped \in BOOLEAN
  /\ Settings \subseteq [flags : {"relative", "absolute"}, value : Nat, every : Nat]

VARIABLES
  about,        \* "timers" or "clocks": what the program uses
  now,          \* the time of day
  armed,        \* the kernel's timers: [real ids -> time left, 0 if disarmed, and interval]
  timerInfo,    \* _timerInfo: [virtual ids -> flags, initial_timerspec and curr_timerspec]
  timerReal,    \* _timerVirtIdTable: [virtual ids -> real ids]
  timersMade,   \* the timers made so far
  inTimer,      \* what each thread's wrapper still has to do
  expired,      \* [virtual ids -> the expiries the program is told of]
  clockOf,      \* the kernel's clock of each owner
  clockReal,    \* _clockVirtIdTable: [virtual ids -> real ids]
  clockList,    \* _clockPidList and _clockPthreadList: [ids -> owners]
  clockGot,     \* the owner of each id the program was given
  tmStage, tmCkpts,
  atStop        \* time left and expiries of each timer when the threads stopped, and the time;
                \* forgotten at the first step after a restart

tableVars == <<timerInfo, timerReal, timersMade, inTimer>>
clockVars == <<clockOf, clockReal, clockList, clockGot>>
stageVars == <<tmStage, tmCkpts, atStop>>
timerVars == <<about, now, armed, tableVars, expired, clockVars, stageVars>>

Unarmed == [left |-> 0, every |-> 0]
AtOnce(a, b) == IF a > b THEN a - b ELSE 0
Live == {v \in DOMAIN timerInfo : timerReal[v] \in DOMAIN armed}
Left == [timers |-> [v \in Live |-> armed[timerReal[v]]], expired |-> expired, time |-> now]
Forgotten == [timers |-> <<>>, expired |-> <<>>, time |-> 0]
Extended(f, x, y) == [z \in DOMAIN f \union {x} |-> IF z = x THEN y ELSE f[z]]
Without(f, x) == [z \in DOMAIN f \ {x} |-> f[z]]

\* The clocks are told apart in behaviours about them.
Clocks ==
  LET all == {f \in [Owners -> RealClocks] : \A o, p \in Owners : f[o] = f[p] => o = p}
  IN  IF about = "clocks" THEN all ELSE {CHOOSE f \in all : TRUE}

TimersInit ==
  /\ about \in {"timers", "clocks"}
  /\ now = 0 /\ armed = <<>> /\ timerInfo = <<>> /\ timerReal = <<>> /\ timersMade = 0
  /\ inTimer = [t \in TimerThreads |-> [does |-> "nothing"]]
  /\ expired = <<>>
  /\ clockOf \in Clocks
  /\ clockReal = <<>> /\ clockList = <<>> /\ clockGot = <<>>
  /\ tmStage = "runs" /\ tmCkpts = 0 /\ atStop = Forgotten

(***************************************************************************)
(* The wrappers, each two steps that no checkpoint comes between: the call *)
(* and the entry in the tables.                                            *)
(***************************************************************************)
Wraps(t, from, to) ==
  /\ tmStage = "runs" /\ inTimer[t] = from
  /\ inTimer' = [inTimer EXCEPT ![t] = to]
  /\ atStop' = Forgotten /\ UNCHANGED <<now, clockVars, tmStage, tmCkpts>>

Idle == [does |-> "nothing"]

TimerCreate(t, r) ==
  /\ about = "timers" /\ timersMade < MaxTimers /\ r \notin DOMAIN armed
  /\ Wraps(t, Idle, [does |-> "create", real |-> r])
  /\ armed' = Extended(armed, r, Unarmed) /\ timersMade' = timersMade + 1
  /\ UNCHANGED <<timerInfo, timerReal, expired>>

\* on_timer_create; the id is assigned to the caller's variable
OnTimerCreate(t, r) ==
  /\ Wraps(t, [does |-> "create", real |-> r], Idle)
  /\ LET v == 1 + Cardinality(DOMAIN expired)
     IN  /\ timerReal' = Extended(timerReal, v, r)
         /\ timerInfo' = Extended(timerInfo, v, [flags |-> "relative", initial |-> Unarmed, curr |-> Unarmed])
         /\ expired' = Extended(expired, v, 0)
  /\ UNCHANGED <<armed, timersMade>>

TimerDelete(t, v) ==
  /\ v \in Live /\ \A u \in TimerThreads : inTimer[u] # [does |-> "delete", id |-> v]
  /\ Wraps(t, Idle, [does |-> "delete", id |-> v])
  /\ armed' = Without(armed, timerReal[v])
  /\ UNCHANGED <<timerInfo, timerReal, timersMade, expired>>

\* on_timer_delete
OnTimerDelete(t, v) ==
  /\ Wraps(t, [does |-> "delete", id |-> v], Idle)
  /\ timerReal' = Without(timerReal, v) /\ timerInfo' = Without(timerInfo, v)
  /\ UNCHANGED <<armed, timersMade, expired>>

\* timer_settime, on_timer_settime: an absolute time that has passed is an expiry at once.
TimerSettime(t, v, new) ==
  /\ v \in Live /\ expired[v] < MaxNow /\ Wraps(t, Idle, Idle)
  /\ LET left == IF new.flags = "absolute" THEN AtOnce(new.value, now) ELSE new.value
     IN  /\ armed' = [armed EXCEPT ![timerReal[v]] = [left |-> left, every |-> new.every]]
         /\ expired' = [expired EXCEPT ![v] = @ + (IF left = 0 /\ new.value > 0 THEN 1 ELSE 0)]
  /\ timerInfo' = [timerInfo EXCEPT ![v].flags = new.flags,
                                    ![v].initial = [left |-> new.value, every |-> new.every]]
  /\ UNCHANGED <<timerReal, timersMade>>

\* clock_getcpuclockid keeps the owner by the virtual id; pthread_getcpuclockid by the real one.
GetCpuClockId(t, o) ==
  /\ about = "clocks" /\ tmStage = "runs" /\ inTimer[t] = Idle /\ Cardinality(DOMAIN clockGot) < MaxClocks
  /\ LET v == [clock |-> 1 + Cardinality(DOMAIN clockGot)]
     IN  /\ clockReal' = Extended(clockReal, v, clockOf[o])
         /\ clockList' = Extended(clockList, IF o.kind = "process" THEN v ELSE [real |-> clockOf[o]], o)
         /\ clockGot' = Extended(clockGot, v, o)
  /\ atStop' = Forgotten
  /\ UNCHANGED <<now, armed, tableVars, expired, clockOf, tmStage, tmCkpts>>

(***************************************************************************)
(* Time, and the checkpoint.                                               *)
(***************************************************************************)
Tick ==
  /\ now < MaxNow /\ tmStage \in {"runs"} \union (IF TicksWhileStopped THEN {"stopped"} ELSE {})
  /\ now' = now + 1 /\ atStop' = IF tmStage = "runs" THEN Forgotten ELSE atStop
  /\ armed' = [r \in DOMAIN armed |->
                 [armed[r] EXCEPT !.left = IF @ = 1 THEN armed[r].every ELSE AtOnce(@, 1)]]
  /\ expired' = [v \in DOMAIN expired |->
                   expired[v] + (IF v \in Live /\ armed[timerReal[v]].left = 1 THEN 1 ELSE 0)]
  /\ UNCHANGED <<tableVars, clockVars, tmStage, tmCkpts>>

StopForImage ==
  /\ tmStage = "runs" /\ tmCkpts < MaxTimerCkpt
  /\ \A t \in TimerThreads : inTimer[t] = Idle
  /\ tmStage' = "stopped" /\ tmCkpts' = tmCkpts + 1 /\ atStop' = Left
  /\ UNCHANGED <<now, armed, tableVars, expired, clockVars>>

\* preCheckpoint: ids whose owner has another clock, or none, are taken from the lists.
PreCheckpoint ==
  /\ tmStage = "stopped" /\ tmStage' = "image"
  /\ timerInfo' = [v \in DOMAIN timerInfo |-> [timerInfo[v] EXCEPT !.curr = armed[timerReal[v]]]]
  /\ clockList' = [c \in {d \in DOMAIN clockList : d \notin DOMAIN clockReal
                                                    \/ clockReal[d] = clockOf[clockList[d]]} |-> clockList[c]]
  /\ UNCHANGED <<now, armed, timerReal, timersMade, inTimer, expired, clockOf, clockReal, clockGot, tmCkpts, atStop>>

ResumeTimers ==
  /\ tmStage = "image" /\ tmStage' = "runs" /\ atStop' = Forgotten
  /\ UNCHANGED <<now, armed, tableVars, expired, clockVars, tmCkpts>>

\* A bug the properties must catch: a relative timer starts anew.
SpecOfMutant(v) == timerInfo[v].initial

\* tspec of postRestart
SpecOf(v) == IF timerInfo[v].flags = "absolute" THEN timerInfo[v].initial ELSE timerInfo[v].curr

\* A bug the properties must catch: the clocks keep the ids of the old process.
RefreshedMutant(f) == clockReal

\* The clock ids are looked up by owner.
Refreshed(f) ==
  [c \in DOMAIN clockReal \union DOMAIN clockList |->
     IF c \in DOMAIN clockList THEN f[clockList[c]] ELSE clockReal[c]]

\* What is left of a timer once it is set again; an absolute time that has passed is told at once.
SetAgain(v, at) ==
  IF timerInfo[v].curr.left = 0 THEN Unarmed
  ELSE [SpecOf(v) EXCEPT !.left = IF timerInfo[v].flags = "absolute" THEN AtOnce(@, at) ELSE @]

\* postRestart, some time after the image was written: the signals that became pending after the
\* threads stopped are not raised again.
PostRestart(later, ids, clocks) ==
  /\ tmStage = "image" /\ tmStage' = "runs" /\ now' = now + later
  /\ timerReal' = ids /\ armed' = [r \in {ids[v] : v \in DOMAIN ids} |->
                                     SetAgain(CHOOSE v \in DOMAIN ids : ids[v] = r, now + later)]
  /\ expired' = [v \in DOMAIN expired |->
                   atStop.expired[v] + (IF /\ v \in DOMAIN ids /\ timerInfo[v].flags = "absolute"
                                           /\ timerInfo[v].curr.left > 0 /\ SetAgain(v, now + later).left = 0
                                        THEN 1 ELSE 0)]
  /\ clockOf' = clocks /\ clockReal' = Refreshed(clocks)
  /\ UNCHANGED <<timerInfo, timersMade, inTimer, clockList, clockGot, tmCkpts, atStop>>

RestartTimers ==
  \E later \in 0..(MaxNow - now),
     ids \in [DOMAIN timerReal -> RealTimers], clocks \in Clocks :
    /\ \A v, w \in DOMAIN ids : ids[v] = ids[w] => v = w
    /\ PostRestart(later, ids, clocks)

TimersNext ==
  /\ UNCHANGED about
  /\ \/ \E t \in TimerThreads :
          \/ \E r \in RealTimers : TimerCreate(t, r) \/ OnTimerCreate(t, r)
          \/ \E v \in DOMAIN timerInfo :
               \/ TimerDelete(t, v) \/ OnTimerDelete(t, v)
               \/ \E new \in Settings : TimerSettime(t, v, new)
          \/ \E o \in Owners : GetCpuClockId(t, o)
     \/ Tick \/ StopForImage \/ PreCheckpoint \/ ResumeTimers \/ RestartTimers

TimersSpec == TimersInit /\ [][TimersNext]_timerVars

(***************************************************************************)
(* Properties.                                                             *)
(***************************************************************************)

\* After a restart each timer has the time left that it had when the threads stopped, an absolute
\* one is due at the same time of day, and no expiry is lost or told twice.
TimersKept ==
  (tmStage = "runs" /\ atStop # Forgotten) =>
    \A v \in DOMAIN timerInfo :
      LET was == atStop.timers[v]
          passed == IF timerInfo[v].flags = "absolute" THEN now - atStop.time ELSE 0
          late == was.left > 0 /\ was.left <= passed
      IN  /\ armed[timerReal[v]] =
               (IF was.left = 0 THEN Unarmed
                ELSE [was EXCEPT !.left = AtOnce(@, passed)])
          /\ expired[v] = atStop.expired[v] + (IF late THEN 1 ELSE 0)

\* A clock id measures the process or thread it was given for, before and after a restart.
ClocksTrue == tmStage = "runs" => \A c \in DOMAIN clockGot : clockReal[c] = clockOf[clockGot[c]]

\* The assertion of on_timer_create: the kernel's new id is not in the table.
NewTimerUnknown ==
  \A t \in TimerThreads : inTimer[t].does = "create" =>
    \A v \in DOMAIN timerReal : timerReal[v] # inTimer[t].real

\* Timers have their time left after a restart, clocks are those of their owners, and
\* the id of a new timer is in no table.
TimersTrue == TimersKept /\ ClocksTrue /\ NewTimerUnknown
=============================================================================
