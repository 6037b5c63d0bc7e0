------------------------------ MODULE Signals ------------------------------
(***************************************************************************)
(* The signals of a process under checkpoint control: wrappers keep the    *)
(* checkpoint signal out of the masks a thread sets, but not out of those  *)
(* of handlers and of sigpause (signalwrappers.cpp), and what is pending   *)
(* when the threads are stopped is raised again after a restart            *)
(* (save_sig_state, restore_sig_state of mtcp.c). Several threads may have *)
(* one signal pending that was sent to the process.                        *)
(***************************************************************************)
EXTENDS Naturals, Sequences, FiniteSets, SequencesExt

CONSTANTS
  SigThreads,     \* user threads
  UserSignals,    \* the signals programs use
  StopSignal,     \* the checkpoint signal
  ToProcess,      \* the signals that are sent to the process, the others to a thread
  Masks,          \* the masks that programs set, give their handlers and pause with
  MaxFrames,      \* bound on the handlers and pauses a thread is in
  WhileStopped,   \* whether signals come while the threads are stopped
  MaxSignals,     \* bound on the signals sent
  MaxSigCkpt      \* bound on the checkpoints

ASSUME SignalsAssumption ==
  /\ IsFiniteSet(SigThreads) /\ SigThreads # {}
  /\ StopSignal \notin UserSignals /\ ToProcess \subseteq UserSignals
  /\ Masks \subseteq SUBSET (UserSignals \union {StopSignal}) /\ MaxFrames \in Nat
  /\ WhileStopped \in BOOLEAN /\ MaxSignals \in Nat /\ MaxSigCkpt \in Nat

VARIABLES
  mask,          \* the kernel's mask of each thread
  asked,         \* the mask each thread's program has asked for
  frames,        \* the handlers and pauses each thread is in, with the masks they end with
  handlerMask,   \* the mask of each signal's handler
  misled,        \* the signals of which its last call told something else than what it had asked for
  stopBlocked,   \* checkpointSignalBlockedForProcess, which only the BSD calls assign
  shared,        \* the signals pending for the process
  own,           \* the signals pending for each thread
  sigPlace,      \* whether a thread runs or is stopped in the handler
  savedPending,  \* sigpending of each thread's descriptor
  ckptPending,   \* that of the checkpoint thread's
  ckpts,         \* the checkpoints so far
  sigSent, handled  \* the signals that became pending, and those delivered

heldVars == <<mask, asked, frames>>
maskVars == <<heldVars, handlerMask, misled, stopBlocked>>
pendingVars == <<shared, own>>
savedVars == <<savedPending, ckptPending>>
tallyVars == <<sigSent, handled>>
signalVars == <<maskVars, pendingVars, sigPlace, savedVars, ckpts, tallyVars>>

Signal == UserSignals \union {StopSignal}

\* Masks and pending signals are inherited through exec; what was pending already when the
\* checkpoint thread started is in its descriptor.
SignalsInit ==
  /\ ckptPending \in SUBSET ToProcess /\ shared = ckptPending
  /\ mask = [t \in SigThreads |-> shared] /\ asked = mask
  /\ frames = [t \in SigThreads |-> <<>>] /\ handlerMask = [s \in UserSignals |-> {}]
  /\ misled = [t \in SigThreads |-> {}]
  /\ stopBlocked = FALSE
  /\ own = [t \in SigThreads |-> {}]
  /\ sigPlace = [t \in SigThreads |-> "runs"]
  /\ savedPending = [t \in SigThreads |-> {}]
  /\ ckpts = 0
  /\ sigSent = [s \in UserSignals |-> IF s \in shared THEN 1 ELSE 0]
  /\ handled = [s \in UserSignals |-> 0]

(***************************************************************************)
(* The wrappers of the calls that change a mask.                           *)
(***************************************************************************)
Changed(how, old, set) ==
  CASE how = "BLOCK" -> old \union set [] how = "UNBLOCK" -> old \ set [] OTHER -> set

\* A bug the properties must catch: the set goes to the kernel as it is.
PatchedMutant(set) == set

\* patchPOSIXMask
Patched(set) == set \ {StopSignal}

OldMask(t) == IF stopBlocked THEN mask[t] \union {StopSignal} ELSE mask[t] \ {StopSignal}

Pausing(t) == frames[t] # <<>> /\ Last(frames[t]).pauses

MayCall(t) == sigPlace[t] = "runs" /\ ~Pausing(t)

MaskCall(t, how, set) ==
  /\ MayCall(t)
  /\ mask' = [mask EXCEPT ![t] = Changed(how, @, Patched(set))]
  /\ asked' = [asked EXCEPT ![t] = Changed(how, @, set)]
  /\ UNCHANGED <<frames, handlerMask, pendingVars, sigPlace, savedVars, ckpts, tallyVars>>

Answer(t) ==
  misled' = [misled EXCEPT ![t] = SymDiff(OldMask(t), asked[t])]

\* sigprocmask, pthread_sigmask: patchPOSIXUserMaskWork gets the flag by value, so what it
\* assigns is lost.
SigMask(t, how, set) == MaskCall(t, how, set) /\ Answer(t) /\ UNCHANGED stopBlocked

\* sigblock, sigsetmask, siggetmask (sigblock of nothing).
BsdMask(t, how, set) ==
  /\ how # "UNBLOCK" /\ MaskCall(t, how, set) /\ Answer(t)
  /\ stopBlocked' = IF how = "SETMASK" THEN StopSignal \in set ELSE stopBlocked \/ StopSignal \in set

\* sighold, sigrelse
HoldSignal(t, how, s) ==
  /\ how # "SETMASK" /\ MaskCall(t, how, {s}) /\ UNCHANGED <<misled, stopBlocked>>

(***************************************************************************)
(* Handlers and pauses: masks that a thread has for a while.               *)
(***************************************************************************)
\* sigaction, rt_sigaction, sigvec: the handler's mask goes to the kernel as it is. A handler
\* for the checkpoint signal is not set.
SetAction(t, s, set) ==
  /\ MayCall(t) /\ s # StopSignal
  /\ handlerMask' = [handlerMask EXCEPT ![s] = set]
  /\ UNCHANGED <<heldVars, misled, stopBlocked, pendingVars, sigPlace, savedVars, ckpts, tallyVars>>

\* covers: whether the program gave it a mask with the checkpoint signal.
Frame(t, pauses, covers) ==
  [pauses |-> pauses, mask |-> mask[t], asked |-> asked[t], covers |-> covers]

Pause(t, kernels, programs, covers) ==
  /\ MayCall(t) /\ Len(frames[t]) < MaxFrames
  /\ frames' = [frames EXCEPT ![t] = Append(@, Frame(t, TRUE, covers))]
  /\ mask' = [mask EXCEPT ![t] = kernels] /\ asked' = [asked EXCEPT ![t] = programs]
  /\ UNCHANGED <<handlerMask, misled, stopBlocked, pendingVars, sigPlace, savedVars, ckpts, tallyVars>>

SigSuspend(t, set) == Pause(t, Patched(set), set, FALSE)

\* sigpause of a mask, and __sigpause of one or of a signal to be left out: neither is patched.
SigPause(t, set) == Pause(t, set, set, StopSignal \in set)
SigPauseWithout(t, s) == Pause(t, mask[t] \ {s}, asked[t] \ {s}, FALSE)

Entered(pause, covers) == [pause EXCEPT !.pauses = FALSE, !.covers = @ \/ covers]

\* A handler adds its mask to the one its thread has, and ends with the mask that was before it,
\* or before the pause it interrupts.
EnterHandler(t, s) ==
  LET set == handlerMask[s]
  IN  /\ mask' = [mask EXCEPT ![t] = @ \union set \union {s}]
      /\ asked' = [asked EXCEPT ![t] = @ \union set \union {s}]
      /\ \/ /\ Pausing(t)
            /\ frames' = [frames EXCEPT ![t] = Append(Front(@), Entered(Last(@), StopSignal \in set))]
         \/ /\ ~Pausing(t) /\ Len(frames[t]) < MaxFrames
            /\ frames' = [frames EXCEPT ![t] = Append(@, Frame(t, FALSE, StopSignal \in set))]

LeaveFrame(t) ==
  /\ mask' = [mask EXCEPT ![t] = Last(frames[t]).mask]
  /\ asked' = [asked EXCEPT ![t] = Last(frames[t]).asked]
  /\ frames' = [frames EXCEPT ![t] = Front(@)]

HandlerReturns(t) ==
  /\ MayCall(t) /\ frames[t] # <<>> /\ LeaveFrame(t)
  /\ UNCHANGED <<handlerMask, misled, stopBlocked, pendingVars, sigPlace, savedVars, ckpts, tallyVars>>

(***************************************************************************)
(* Signals come and are delivered; one that is pending already is merged.  *)
(***************************************************************************)
MayCome == WhileStopped \/ \A t \in SigThreads : sigPlace[t] = "runs"

Counted(s) == sigSent' = [sigSent EXCEPT ![s] = @ + 1]

SendToProcess(s) ==
  /\ MayCome /\ s \in ToProcess /\ s \notin shared /\ sigSent[s] < MaxSignals
  /\ shared' = shared \union {s} /\ Counted(s)
  /\ UNCHANGED <<maskVars, own, sigPlace, savedVars, ckpts, handled>>

SendToThread(t, s) ==
  /\ MayCome /\ s \notin ToProcess /\ s \notin own[t] /\ sigSent[s] < MaxSignals
  /\ own' = [own EXCEPT ![t] = @ \union {s}] /\ Counted(s)
  /\ UNCHANGED <<maskVars, shared, sigPlace, savedVars, ckpts, handled>>

\* A thread takes a signal that is pending.
Take(t, s) ==
  /\ \/ s \in own[t] /\ own' = [own EXCEPT ![t] = @ \ {s}] /\ UNCHANGED shared
     \/ s \in shared /\ shared' = shared \ {s} /\ UNCHANGED own
  /\ handled' = [handled EXCEPT ![s] = @ + 1]
  /\ UNCHANGED <<sigPlace, savedVars, ckpts, sigSent>>

Deliver(t, s) ==
  /\ sigPlace[t] = "runs" /\ s \notin mask[t]
  /\ Take(t, s) /\ EnterHandler(t, s) /\ UNCHANGED <<handlerMask, misled, stopBlocked>>

\* sigwait, sigwaitinfo, sigtimedwait of a set with s. The first leaves the checkpoint signal out of
\* the set, the others raise it again when they get it, so it stops the thread as it does elsewhere.
SigWait(t, s) == MayCall(t) /\ Take(t, s) /\ UNCHANGED maskVars

(***************************************************************************)
(* The checkpoint signal: its handler blocks all signals, and ends a pause *)
(* as any handler does.                                                    *)
(***************************************************************************)
StopThread(t) ==
  /\ sigPlace[t] = "runs" /\ StopSignal \notin mask[t] /\ ckpts < MaxSigCkpt
  /\ sigPlace' = [sigPlace EXCEPT ![t] = "stopped"]
  /\ savedPending' = [savedPending EXCEPT ![t] = shared \union own[t]]
  /\ IF Pausing(t) THEN LeaveFrame(t) ELSE UNCHANGED heldVars
  /\ UNCHANGED <<handlerMask, misled, stopBlocked, pendingVars, ckptPending, ckpts, tallyVars>>

AllStopped == \A t \in SigThreads : sigPlace[t] = "stopped"

ResumeThreads ==
  /\ AllStopped /\ ckpts' = ckpts + 1
  /\ sigPlace' = [t \in SigThreads |-> "runs"]
  /\ UNCHANGED <<maskVars, pendingVars, savedVars, tallyVars>>

\* sigpending_global: what is pending for all threads. The checkpoint thread's set is the
\* one it saved when it started.
PendingForAll == {s \in ckptPending : \A t \in SigThreads : s \in savedPending[t]}

\* A bug the properties must catch: a thread raises nothing.
RaisedAgainMutant(t) == {}

\* restore_sig_state: the handler's mask, which was saved, blocks all signals.
RaisedAgain(t) == savedPending[t] \ (PendingForAll \union {StopSignal})

RestartThreads ==
  /\ AllStopped /\ ckpts' = ckpts + 1
  /\ shared' = PendingForAll /\ own' = [t \in SigThreads |-> RaisedAgain(t)]
  /\ sigPlace' = [t \in SigThreads |-> "runs"]
  /\ UNCHANGED <<maskVars, savedVars, tallyVars>>

SignalsNext ==
  \/ \E t \in SigThreads :
       \/ \E how \in {"BLOCK", "UNBLOCK", "SETMASK"}, set \in Masks :
            SigMask(t, how, set) \/ BsdMask(t, how, set)
       \/ \E how \in {"BLOCK", "UNBLOCK"}, s \in Signal : HoldSignal(t, how, s)
       \/ \E set \in Masks :
            SigSuspend(t, set) \/ SigPause(t, set) \/ \E s \in Signal : SetAction(t, s, set)
       \/ \E s \in Signal : SigPauseWithout(t, s)
       \/ \E s \in UserSignals : SendToThread(t, s) \/ Deliver(t, s) \/ SigWait(t, s)
       \/ HandlerReturns(t) \/ StopThread(t)
  \/ \E s \in UserSignals : SendToProcess(s)
  \/ ResumeThreads \/ RestartThreads

SignalsSpec == SignalsInit /\ [][SignalsNext]_signalVars

(***************************************************************************)
(* Properties.                                                             *)
(***************************************************************************)

SigCopies(s) == Cardinality({t \in SigThreads : s \in own[t]}) + (IF s \in shared THEN 1 ELSE 0)

\* A signal that was sent is delivered once, also when a checkpoint and a restart come between:
\* "raise the signals which were pending for the entire process at the time of checkpoint".
SignalsOnce == \A s \in UserSignals : sigSent[s] = handled[s] + SigCopies(s)

\* A thread's mask is the one its program asked for, and the program reads back what it asked for,
\* but for the checkpoint signal; and no thread blocks the checkpoint signal but in a handler or a
\* pause whose mask has it.
MasksPatched ==
  \A t \in SigThreads :
    /\ mask[t] \ {StopSignal} = asked[t] \ {StopSignal}
    /\ misled[t] \subseteq {StopSignal}
    /\ StopSignal \in mask[t] => \E i \in DOMAIN frames[t] : frames[t][i].covers

\* Signals are delivered once and masks are those asked for, through checkpoints and restarts.
SignalsKept == SignalsOnce /\ MasksPatched
=============================================================================
