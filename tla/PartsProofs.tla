---------------------------- MODULE PartsProofs ----------------------------
(***************************************************************************)
(* What follows a process through a checkpoint and a restart: its signals, *)
(* its event descriptors, its timers and clocks, and its environment from  *)
(* launch on.  For each part the inductive invariant, the lemmas that each *)
(* step keeps it, and the theorem; the conditions named Within... are      *)
(* what programs may do, for the wrappers to keep up with them.            *)
(***************************************************************************)
EXTENDS Events, Signals, Timers, Launch, Integers, FiniteSetTheorems, SequenceTheorems, TLAPS

-----------------------------------------------------------------------------
(* Signals. *)

\* The types.
SigTypeOK ==
  /\ misled \in [SigThreads -> SUBSET Signal]
  /\ stopBlocked \in BOOLEAN
  /\ shared \subseteq ToProcess /\ own \in [SigThreads -> SUBSET UserSignals]
  /\ sigPlace \in [SigThreads -> {"runs", "stopped"}]
  /\ savedPending \in [SigThreads -> SUBSET UserSignals] /\ ckptPending \subseteq ToProcess
  /\ ckpts \in Nat
  /\ sigSent \in [UserSignals -> Nat] /\ handled \in [UserSignals -> Nat]

Frames == [pauses : BOOLEAN, mask : SUBSET Signal, asked : SUBSET Signal, covers : BOOLEAN]

\* A mask is the one asked for, and if it has the checkpoint signal, one of the first n frames brought it.
Fits(m, a, fr, n) ==
  /\ m \ {StopSignal} = a \ {StopSignal}
  /\ StopSignal \in m => \E i \in 1..n : fr[i].covers

\* That holds of a thread's mask, and of the mask it had when each of its frames began.
HeldOK(m, a, fr) ==
  /\ m \in SUBSET Signal /\ a \in SUBSET Signal /\ fr \in Seq(Frames)
  /\ Fits(m, a, fr, Len(fr))
  /\ \A i \in 1..Len(fr) : Fits(fr[i].mask, fr[i].asked, fr, i - 1)

HeldInv ==
  /\ mask \in [SigThreads -> SUBSET Signal] /\ asked \in [SigThreads -> SUBSET Signal]
  /\ frames \in [SigThreads -> Seq(Frames)]
  /\ handlerMask \in [UserSignals -> SUBSET Signal]
  /\ \A t \in SigThreads : HeldOK(mask[t], asked[t], frames[t])

MaskInv == SigTypeOK /\ HeldInv /\ \A t \in SigThreads : misled[t] \subseteq {StopSignal}

\* A handler or a pause begins.
LEMMA FramePushed ==
  ASSUME NEW m, NEW a, NEW fr, HeldOK(m, a, fr), NEW pauses \in BOOLEAN, NEW covers \in BOOLEAN,
         NEW m2 \in SUBSET Signal, NEW a2 \in SUBSET Signal,
         m2 \ {StopSignal} = a2 \ {StopSignal}, StopSignal \in m2 => covers \/ StopSignal \in m
  PROVE  HeldOK(m2, a2, Append(fr, [pauses |-> pauses, mask |-> m, asked |-> a, covers |-> covers]))
<1> DEFINE f == [pauses |-> pauses, mask |-> m, asked |-> a, covers |-> covers]
           fr2 == Append(fr, f)
<1>1. /\ f \in Frames /\ f.mask = m /\ f.asked = a /\ f.covers = covers
      /\ fr \in Seq(Frames) /\ Len(fr) \in Nat
  BY DEF HeldOK, Frames
<1> HIDE DEF f
<1>2. /\ fr2 \in Seq(Frames) /\ Len(fr2) = Len(fr) + 1 /\ fr2[Len(fr) + 1] = f
      /\ \A i \in 1..Len(fr) : fr2[i] = fr[i]
  BY <1>1
<1> HIDE DEF fr2
<1>3. \A i \in 1..Len(fr2) : Fits(fr2[i].mask, fr2[i].asked, fr2, i - 1)
  <2> SUFFICES ASSUME NEW i \in 1..Len(fr2)
               PROVE  Fits(fr2[i].mask, fr2[i].asked, fr2, i - 1)
    OBVIOUS
  <2>1. CASE i = Len(fr) + 1
    BY <1>1, <1>2, <2>1 DEF HeldOK, Fits
  <2>2. CASE i \in 1..Len(fr)
    BY <1>1, <1>2, <2>2 DEF HeldOK, Fits
  <2> QED BY <1>1, <1>2, <2>1, <2>2
<1>4. Fits(m2, a2, fr2, Len(fr2))
  <2>1. ASSUME StopSignal \in m2
        PROVE  \E i \in 1..Len(fr2) : fr2[i].covers
    <3>1. CASE covers
      <4>1. fr2[Len(fr) + 1].covers
        BY <1>1, <1>2, <3>1, Zenon
      <4> QED BY <1>1, <1>2, <4>1
    <3>2. CASE StopSignal \in m
      <4>1. PICK i \in 1..Len(fr) : fr[i].covers
        BY <3>2 DEF HeldOK, Fits
      <4> QED BY <1>1, <1>2, <4>1
    <3> QED BY <2>1, <3>1, <3>2
  <2> QED BY <2>1 DEF Fits
<1> QED BY <1>2, <1>3, <1>4 DEF HeldOK, fr2, f

\* The frames below the last.
LEMMA FrontIs ==
  ASSUME NEW fr \in Seq(Frames), Len(fr) # 0
  PROVE  /\ Front(fr) \in Seq(Frames) /\ Len(Front(fr)) = Len(fr) - 1
         /\ \A i \in 1..(Len(fr) - 1) : Front(fr)[i] = fr[i]
<1> DEFINE n == Len(fr) - 1
           front == SubSeq(fr, 1, n)
<1>1. n \in Nat /\ \A i \in 1..n : fr[i] \in Frames
  OBVIOUS
<1> HIDE DEF n
<1>2. /\ front \in Seq(Frames) /\ Len(front) = IF 1 <= n THEN n - 1 + 1 ELSE 0
      /\ \A i \in 1..(n - 1 + 1) : front[i] = fr[i + 1 - 1]
  <2>1. \A i \in 1..(n - 1 + 1) : front[i] = fr[1 + i - 1]
    BY <1>1, SubSeqProperties
  <2> QED BY <1>1, <2>1, SubSeqProperties
<1>3. n - 1 + 1 = n /\ \A i \in 1..n : i + 1 - 1 = i
  BY <1>1
<1>4. Front(fr) = front
  BY DEF Front, n
<1> HIDE DEF front
<1>5. Len(front) = n /\ \A i \in 1..n : front[i] = fr[i]
  BY <1>1, <1>2, <1>3
<1> QED BY <1>2, <1>4, <1>5 DEF n

\* A handler or a pause ends: the thread has the mask of before.
LEMMA FramePopped ==
  ASSUME NEW m, NEW a, NEW fr, HeldOK(m, a, fr), fr # <<>>
  PROVE  HeldOK(Last(fr).mask, Last(fr).asked, Front(fr))
<1> DEFINE fr2 == Front(fr)
<1>1. fr \in Seq(Frames) /\ Len(fr) \in Nat \ {0}
  BY DEF HeldOK
<1>2. /\ fr2 \in Seq(Frames) /\ Len(fr2) = Len(fr) - 1
      /\ \A i \in 1..Len(fr2) : fr2[i] = fr[i]
  BY <1>1, FrontIs
<1>3. Last(fr) = fr[Len(fr)] /\ Last(fr) \in Frames
  BY <1>1 DEF Last
<1> HIDE DEF fr2
<1>4. Fits(Last(fr).mask, Last(fr).asked, fr2, Len(fr2))
  BY <1>1, <1>2, <1>3 DEF HeldOK, Fits
<1>5. \A i \in 1..Len(fr2) : Fits(fr2[i].mask, fr2[i].asked, fr2, i - 1)
  <2> SUFFICES ASSUME NEW i \in 1..Len(fr2)
               PROVE  Fits(fr2[i].mask, fr2[i].asked, fr2, i - 1)
    OBVIOUS
  <2>1. i \in 1..Len(fr) /\ fr2[i] = fr[i] /\ Fits(fr[i].mask, fr[i].asked, fr, i - 1)
    BY <1>1, <1>2 DEF HeldOK
  <2>2. \A j \in 1..(i - 1) : fr2[j] = fr[j]
    BY <1>1, <1>2
  <2> QED BY <2>1, <2>2 DEF Fits
<1> QED BY <1>2, <1>3, <1>4, <1>5 DEF HeldOK, Frames, fr2

\* A handler begins in a pause, which it ends.
LEMMA PauseEnds ==
  ASSUME NEW m, NEW a, NEW fr, HeldOK(m, a, fr), fr # <<>>, NEW covers \in BOOLEAN,
         NEW m2 \in SUBSET Signal, NEW a2 \in SUBSET Signal,
         m2 \ {StopSignal} = a2 \ {StopSignal}, StopSignal \in m2 => covers \/ StopSignal \in m
  PROVE  HeldOK(m2, a2, Append(Front(fr), Entered(Last(fr), covers)))
<1> DEFINE l == Last(fr)
           f == Entered(l, covers)
           fr2 == Append(Front(fr), f)
<1>1. fr \in Seq(Frames) /\ Len(fr) \in Nat \ {0}
  BY DEF HeldOK
<1>2. l = fr[Len(fr)] /\ l \in Frames
  BY <1>1 DEF Last
<1> HIDE DEF l
<1>3. f \in Frames /\ f.mask = l.mask /\ f.asked = l.asked /\ f.covers = (l.covers \/ covers)
  BY <1>2 DEF Frames, Entered
<1> HIDE DEF f
<1>4. /\ Front(fr) \in Seq(Frames) /\ Len(Front(fr)) = Len(fr) - 1
      /\ \A i \in 1..(Len(fr) - 1) : Front(fr)[i] = fr[i]
  BY <1>1, FrontIs
<1>5. /\ fr2 \in Seq(Frames) /\ Len(fr2) = Len(fr) /\ fr2[Len(fr)] = f
      /\ \A i \in 1..(Len(fr) - 1) : fr2[i] = fr[i]
  BY <1>1, <1>3, <1>4
<1> HIDE DEF fr2
<1>6. \A i \in 1..Len(fr) : fr[i].covers => fr2[i].covers
  <2>1. fr[Len(fr)].covers => fr2[Len(fr)].covers
    BY <1>2, <1>3, <1>5, Zenon
  <2>2. \A i \in 1..Len(fr) : i = Len(fr) \/ i \in 1..(Len(fr) - 1)
    BY <1>1
  <2> QED BY <1>5, <2>1, <2>2, Zenon
<1>7. \A i \in 1..Len(fr) : Fits(fr2[i].mask, fr2[i].asked, fr2, i - 1)
  <2> SUFFICES ASSUME NEW i \in 1..Len(fr)
               PROVE  Fits(fr2[i].mask, fr2[i].asked, fr2, i - 1)
    OBVIOUS
  <2>1. fr2[i].mask = fr[i].mask /\ fr2[i].asked = fr[i].asked
    BY <1>1, <1>2, <1>3, <1>5
  <2>2. \A j \in 1..(i - 1) : fr2[j] = fr[j]
    BY <1>1, <1>5
  <2>3. Fits(fr[i].mask, fr[i].asked, fr, i - 1)
    BY DEF HeldOK
  <2> QED BY <2>1, <2>2, <2>3 DEF Fits
<1>8. Fits(m2, a2, fr2, Len(fr))
  <2>1. ASSUME StopSignal \in m2
        PROVE  \E i \in 1..Len(fr) : fr2[i].covers
    <3>1. CASE covers
      <4>1. fr2[Len(fr)].covers
        BY <1>3, <1>5, <3>1, Zenon
      <4> QED BY <1>1, <4>1
    <3>2. CASE StopSignal \in m
      BY <1>6, <3>2 DEF HeldOK, Fits
    <3> QED BY <2>1, <3>1, <3>2
  <2> QED BY <2>1 DEF Fits
<1> QED BY <1>5, <1>7, <1>8 DEF HeldOK, fr2, f, l

\* A thread's mask and frames change together, all other threads' stay.
LEMMA HeldStep ==
  ASSUME HeldInv, NEW t \in SigThreads, NEW m, NEW a, NEW fr, HeldOK(m, a, fr),
         mask' = [mask EXCEPT ![t] = m], asked' = [asked EXCEPT ![t] = a],
         frames' = [frames EXCEPT ![t] = fr], handlerMask' = handlerMask
  PROVE  HeldInv'
<1>1. m \in SUBSET Signal /\ a \in SUBSET Signal /\ fr \in Seq(Frames)
  BY DEF HeldOK
<1>2. /\ mask' \in [SigThreads -> SUBSET Signal] /\ asked' \in [SigThreads -> SUBSET Signal]
      /\ frames' \in [SigThreads -> Seq(Frames)]
  BY <1>1 DEF HeldInv
<1>3. /\ \A u \in SigThreads : u # t => mask'[u] = mask[u] /\ asked'[u] = asked[u] /\ frames'[u] = frames[u]
      /\ mask'[t] = m /\ asked'[t] = a /\ frames'[t] = fr
  BY DEF HeldInv
<1>4. \A u \in SigThreads : HeldOK(mask'[u], asked'[u], frames'[u])
  <2> SUFFICES ASSUME NEW u \in SigThreads
               PROVE  HeldOK(mask'[u], asked'[u], frames'[u])
    OBVIOUS
  <2>1. CASE u = t
    BY <1>3, <2>1
  <2>2. CASE u # t
    BY <1>3, <2>2 DEF HeldInv
  <2> QED BY <2>1, <2>2
<1> QED BY <1>2, <1>4 DEF HeldInv

\* A mask call: the kernel's new mask is what the program asked for, but the checkpoint signal
\* does not come in.
LEMMA MaskCallKeeps ==
  ASSUME HeldInv, NEW t \in SigThreads, NEW how \in {"BLOCK", "UNBLOCK", "SETMASK"},
         NEW set \in SUBSET Signal, MaskCall(t, how, set)
  PROVE  HeldInv'
<1> DEFINE m == Changed(how, mask[t], Patched(set))
           a == Changed(how, asked[t], set)
<1>1. HeldOK(mask[t], asked[t], frames[t]) /\ mask[t] \subseteq Signal /\ asked[t] \subseteq Signal
  BY DEF HeldInv
<1>2. /\ m \subseteq Signal /\ a \subseteq Signal /\ m \ {StopSignal} = a \ {StopSignal}
      /\ StopSignal \in m => StopSignal \in mask[t]
  BY <1>1 DEF Changed, Patched, HeldOK, Fits
<1>3. /\ mask' = [mask EXCEPT ![t] = m] /\ asked' = [asked EXCEPT ![t] = a]
      /\ frames' = frames /\ handlerMask' = handlerMask
  BY DEF MaskCall
<1> HIDE DEF m, a
<1>4. HeldOK(m, a, frames[t])
  BY <1>1, <1>2 DEF HeldOK, Fits
<1>5. frames' = [frames EXCEPT ![t] = frames[t]]
  BY <1>3 DEF HeldInv
<1> QED BY <1>3, <1>4, <1>5, HeldStep

\* sigsuspend and sigpause.
LEMMA PauseKeeps ==
  ASSUME HeldInv, NEW t \in SigThreads, NEW m \in SUBSET Signal, NEW a \in SUBSET Signal,
         NEW covers \in BOOLEAN, m \ {StopSignal} = a \ {StopSignal},
         StopSignal \in m => covers \/ StopSignal \in mask[t], Pause(t, m, a, covers)
  PROVE  HeldInv'
<1> DEFINE fr == Append(frames[t], [pauses |-> TRUE, mask |-> mask[t], asked |-> asked[t], covers |-> covers])
<1>1. HeldOK(mask[t], asked[t], frames[t])
  BY DEF HeldInv
<1>2. HeldOK(m, a, fr)
  BY <1>1, FramePushed
<1>3. /\ mask' = [mask EXCEPT ![t] = m] /\ asked' = [asked EXCEPT ![t] = a]
      /\ frames' = [frames EXCEPT ![t] = fr] /\ handlerMask' = handlerMask
  BY DEF Pause, Frame
<1> HIDE DEF fr
<1> QED BY <1>2, <1>3, HeldStep

\* A handler begins.
LEMMA EnterKeeps ==
  ASSUME HeldInv, NEW t \in SigThreads, NEW s \in UserSignals, EnterHandler(t, s),
         handlerMask' = handlerMask
  PROVE  HeldInv'
<1> DEFINE set == handlerMask[s]
           m == mask[t] \union set \union {s}
           a == asked[t] \union set \union {s}
<1>1. /\ HeldOK(mask[t], asked[t], frames[t]) /\ set \subseteq Signal
      /\ s \in Signal /\ s # StopSignal
  BY SignalsAssumption DEF HeldInv, Signal
<1>2. /\ mask' = [mask EXCEPT ![t] = m] /\ asked' = [asked EXCEPT ![t] = a]
      /\ \/ /\ Pausing(t)
            /\ frames' = [frames EXCEPT ![t] = Append(Front(@), Entered(Last(@), StopSignal \in set))]
         \/ frames' = [frames EXCEPT ![t] = Append(@, Frame(t, FALSE, StopSignal \in set))]
  BY DEF EnterHandler
<1>3. /\ m \in SUBSET Signal /\ a \in SUBSET Signal /\ m \ {StopSignal} = a \ {StopSignal}
      /\ StopSignal \in m => (StopSignal \in set) \/ StopSignal \in mask[t]
  BY <1>1 DEF HeldOK, Fits
<1>4. (StopSignal \in set) \in BOOLEAN
  OBVIOUS
<1> HIDE DEF m, a
<1>5. CASE /\ Pausing(t)
           /\ frames' = [frames EXCEPT ![t] = Append(Front(@), Entered(Last(@), StopSignal \in set))]
  <2> DEFINE fr == Append(Front(frames[t]), Entered(Last(frames[t]), StopSignal \in set))
  <2>1. HeldOK(m, a, fr)
    BY <1>1, <1>3, <1>4, <1>5, PauseEnds DEF Pausing
  <2>2. frames' = [frames EXCEPT ![t] = fr]
    BY <1>5 DEF HeldInv
  <2> HIDE DEF fr
  <2> QED BY <1>2, <2>1, <2>2, HeldStep
<1>6. CASE frames' = [frames EXCEPT ![t] = Append(@, Frame(t, FALSE, StopSignal \in set))]
  <2> DEFINE fr == Append(frames[t], [pauses |-> FALSE, mask |-> mask[t], asked |-> asked[t],
                                      covers |-> StopSignal \in set])
  <2>1. HeldOK(m, a, fr)
    BY <1>1, <1>3, <1>4, FramePushed
  <2>2. frames' = [frames EXCEPT ![t] = fr]
    BY <1>6 DEF HeldInv, Frame
  <2> HIDE DEF fr
  <2> QED BY <1>2, <2>1, <2>2, HeldStep
<1> QED BY <1>2, <1>5, <1>6

\* A handler or a pause ends.
LEMMA LeaveKeeps ==
  ASSUME HeldInv, NEW t \in SigThreads, frames[t] # <<>>, LeaveFrame(t), handlerMask' = handlerMask
  PROVE  HeldInv'
<1>1. HeldOK(mask[t], asked[t], frames[t])
  BY DEF HeldInv
<1> DEFINE m == Last(frames[t]).mask
           a == Last(frames[t]).asked
           fr == Front(frames[t])
<1>2. HeldOK(m, a, fr)
  BY <1>1, FramePopped
<1>3. mask' = [mask EXCEPT ![t] = m] /\ asked' = [asked EXCEPT ![t] = a] /\ frames' = [frames EXCEPT ![t] = fr]
  BY DEF LeaveFrame, HeldInv
<1> HIDE DEF m, a, fr
<1> QED BY <1>2, <1>3, HeldStep

\* What the call answers is the mask the program asked for, but for the checkpoint signal.
LEMMA AnswerTrue ==
  ASSUME MaskInv, NEW t \in SigThreads, Answer(t)
  PROVE  /\ misled' \in [SigThreads -> SUBSET Signal]
         /\ \A u \in SigThreads : misled'[u] \subseteq {StopSignal}
<1>1. /\ mask[t] \subseteq Signal /\ asked[t] \subseteq Signal
      /\ mask[t] \ {StopSignal} = asked[t] \ {StopSignal}
  BY DEF MaskInv, HeldInv, HeldOK, Fits
<1>2. SymDiff(OldMask(t), asked[t]) \subseteq {StopSignal}
  BY <1>1 DEF OldMask, SymDiff
<1>3. misled' = [misled EXCEPT ![t] = SymDiff(OldMask(t), asked[t])] /\ StopSignal \in Signal
  BY DEF Answer, Signal
<1> QED BY <1>2, <1>3 DEF MaskInv, SigTypeOK

\* A process starts with one mask, inherited in its threads.
LEMMA InitMask == SignalsInit => MaskInv
<1> SUFFICES ASSUME SignalsInit
             PROVE  MaskInv
  OBVIOUS
<1>1. ckptPending \subseteq ToProcess /\ shared = ckptPending /\ shared \subseteq Signal
      /\ StopSignal \notin shared
  BY SignalsAssumption DEF SignalsInit, Signal
<1>2. SigTypeOK
  BY <1>1 DEF SignalsInit, SigTypeOK
<1>3. \A t \in SigThreads : HeldOK(mask[t], asked[t], frames[t])
  BY <1>1 DEF SignalsInit, HeldOK, Fits
<1>4. HeldInv
  BY <1>1, <1>3 DEF SignalsInit, HeldInv
<1> QED BY <1>2, <1>4 DEF MaskInv, SignalsInit

\* No step lets a mask cover the checkpoint signal, but the masks of handlers and of sigpause.
LEMMA NextMask == MaskInv /\ [SignalsNext]_signalVars => MaskInv'
<1> SUFFICES ASSUME MaskInv, [SignalsNext]_signalVars
             PROVE  MaskInv'
  OBVIOUS
<1> USE DEF maskVars, heldVars, pendingVars, savedVars, tallyVars
<1>0. HeldInv /\ SigTypeOK /\ \A set \in Masks : set \in SUBSET Signal
  BY SignalsAssumption DEF MaskInv, Signal
<1>h. UNCHANGED <<heldVars, handlerMask>> => HeldInv'
  BY <1>0 DEF HeldInv
<1>1. CASE UNCHANGED signalVars
  BY <1>0, <1>h, <1>1 DEF signalVars, MaskInv, SigTypeOK
<1>m. ASSUME HeldInv', UNCHANGED <<misled, stopBlocked, shared, own, sigPlace, savedPending,
                                   ckptPending, ckpts, sigSent, handled>>
      PROVE  MaskInv'
  BY <1>0, <1>m DEF MaskInv, SigTypeOK
<1>2. ASSUME NEW t \in SigThreads, NEW how \in {"BLOCK", "UNBLOCK", "SETMASK"},
             NEW set \in Masks, SigMask(t, how, set) \/ BsdMask(t, how, set)
      PROVE  MaskInv'
  <2>1. MaskCall(t, how, set) /\ Answer(t) /\ stopBlocked' \in BOOLEAN
    <3>1. CASE SigMask(t, how, set)
      BY <1>0, <3>1 DEF SigMask, SigTypeOK
    <3>2. CASE BsdMask(t, how, set)
      <4>1. stopBlocked = TRUE \/ stopBlocked = FALSE
        BY <1>0 DEF SigTypeOK
      <4>2. \/ stopBlocked' = (StopSignal \in set)
            \/ stopBlocked' = (stopBlocked \/ StopSignal \in set)
        BY <3>2, Zenon DEF BsdMask
      <4>3. stopBlocked' = TRUE \/ stopBlocked' = FALSE
        <5>1. CASE StopSignal \in set
          BY <4>1, <4>2, <5>1
        <5>2. CASE ~(StopSignal \in set)
          BY <4>1, <4>2, <5>2
        <5> QED BY <5>1, <5>2
      <4>4. MaskCall(t, how, set) /\ Answer(t)
        BY <3>2 DEF BsdMask
      <4> QED BY <4>3, <4>4
    <3> QED BY <1>2, <3>1, <3>2
  <2>2. UNCHANGED <<shared, own, sigPlace, savedPending, ckptPending, ckpts, sigSent, handled>>
    BY <2>1 DEF MaskCall
  <2>3. HeldInv'
    BY <1>0, <2>1, MaskCallKeeps
  <2>4. /\ misled' \in [SigThreads -> SUBSET Signal]
        /\ \A u \in SigThreads : misled'[u] \subseteq {StopSignal}
    BY <2>1, AnswerTrue
  <2> QED BY <1>0, <2>1, <2>2, <2>3, <2>4 DEF MaskInv, SigTypeOK
<1>3. ASSUME NEW t \in SigThreads, NEW how \in {"BLOCK", "UNBLOCK"}, NEW s \in Signal,
             HoldSignal(t, how, s)
      PROVE  MaskInv'
  <2>1. MaskCall(t, how, {s}) /\ UNCHANGED <<misled, stopBlocked>> /\ {s} \in SUBSET Signal
    BY <1>3 DEF HoldSignal
  <2>2. UNCHANGED <<shared, own, sigPlace, savedPending, ckptPending, ckpts, sigSent, handled>>
    BY <2>1 DEF MaskCall
  <2>3. HeldInv'
    BY <1>0, <2>1, MaskCallKeeps
  <2> QED BY <1>m, <2>1, <2>2, <2>3
<1>4. ASSUME NEW s \in UserSignals, SendToProcess(s)
      PROVE  MaskInv'
  BY <1>0, <1>h, <1>4 DEF SendToProcess, Counted, MaskInv, SigTypeOK
<1>5. ASSUME NEW t \in SigThreads, NEW s \in UserSignals, SendToThread(t, s)
      PROVE  MaskInv'
  BY <1>0, <1>h, <1>5 DEF SendToThread, Counted, MaskInv, SigTypeOK
<1>6. ASSUME NEW t \in SigThreads, NEW s \in UserSignals, Take(t, s), HeldInv',
             UNCHANGED <<misled, stopBlocked>>
      PROVE  MaskInv'
  <2>1. shared' \subseteq shared /\ (own' = own \/ own' = [own EXCEPT ![t] = @ \ {s}])
    BY <1>6 DEF Take
  <2>2. own' \in [SigThreads -> SUBSET UserSignals]
    BY <1>0, <2>1 DEF SigTypeOK
  <2> QED BY <1>0, <1>6, <2>1, <2>2 DEF Take, MaskInv, SigTypeOK
<1>7. ASSUME NEW t \in SigThreads, NEW s \in UserSignals, Deliver(t, s)
      PROVE  MaskInv'
  <2>1. Take(t, s) /\ EnterHandler(t, s) /\ UNCHANGED <<handlerMask, misled, stopBlocked>>
    BY <1>7 DEF Deliver
  <2>2. HeldInv'
    BY <1>0, <2>1, EnterKeeps
  <2> QED BY <1>6, <2>1, <2>2
<1>8. ASSUME NEW t \in SigThreads, NEW s \in UserSignals, SigWait(t, s)
      PROVE  MaskInv'
  BY <1>h, <1>6, <1>8 DEF SigWait
<1>9. ASSUME NEW t \in SigThreads, NEW set \in Masks, SigSuspend(t, set) \/ SigPause(t, set)
      PROVE  MaskInv'
  <2>1. CASE SigSuspend(t, set)
    <3>1. Pause(t, Patched(set), set, FALSE)
      BY <2>1 DEF SigSuspend
    <3>2. /\ Patched(set) \in SUBSET Signal /\ Patched(set) \ {StopSignal} = set \ {StopSignal}
          /\ StopSignal \notin Patched(set)
      BY <1>0 DEF Patched
    <3>3. HeldInv'
      BY <1>0, <3>1, <3>2, PauseKeeps
    <3> QED BY <1>m, <3>1, <3>3 DEF Pause
  <2>2. CASE SigPause(t, set)
    <3>1. Pause(t, set, set, StopSignal \in set) /\ (StopSignal \in set) \in BOOLEAN
      BY <2>2 DEF SigPause
    <3>2. HeldInv'
      BY <1>0, <3>1, PauseKeeps
    <3> QED BY <1>m, <3>1, <3>2 DEF Pause
  <2> QED BY <1>9, <2>1, <2>2
<1>10. ASSUME NEW t \in SigThreads, NEW s \in Signal, SigPauseWithout(t, s)
       PROVE  MaskInv'
  <2>1. Pause(t, mask[t] \ {s}, asked[t] \ {s}, FALSE)
    BY <1>10 DEF SigPauseWithout
  <2>2. /\ mask[t] \ {s} \in SUBSET Signal /\ asked[t] \ {s} \in SUBSET Signal
        /\ (mask[t] \ {s}) \ {StopSignal} = (asked[t] \ {s}) \ {StopSignal}
        /\ StopSignal \in mask[t] \ {s} => StopSignal \in mask[t]
    BY <1>0 DEF HeldInv, HeldOK, Fits
  <2>3. HeldInv'
    BY <1>0, <2>1, <2>2, PauseKeeps
  <2> QED BY <1>m, <2>1, <2>3 DEF Pause
<1>11. ASSUME NEW t \in SigThreads, NEW s \in Signal, NEW set \in Masks, SetAction(t, s, set)
       PROVE  MaskInv'
  <2>1. /\ s \in UserSignals /\ handlerMask' = [handlerMask EXCEPT ![s] = set]
        /\ UNCHANGED heldVars
    BY <1>11 DEF SetAction, Signal
  <2>2. HeldInv'
    BY <1>0, <2>1 DEF HeldInv
  <2> QED BY <1>m, <1>11, <2>2 DEF SetAction
<1>12. ASSUME NEW t \in SigThreads, HandlerReturns(t)
       PROVE  MaskInv'
  <2>1. HeldInv'
    BY <1>0, <1>12, LeaveKeeps DEF HandlerReturns
  <2> QED BY <1>m, <1>12, <2>1 DEF HandlerReturns
<1>13. ASSUME NEW t \in SigThreads, StopThread(t)
       PROVE  MaskInv'
  <2>1. shared \union own[t] \subseteq UserSignals
    BY <1>0, SignalsAssumption DEF SigTypeOK
  <2>2. HeldInv'
    <3>1. CASE Pausing(t)
      BY <1>0, <1>13, <3>1, LeaveKeeps DEF StopThread, Pausing
    <3>2. CASE ~Pausing(t)
      BY <1>h, <1>13, <3>2 DEF StopThread
    <3> QED BY <3>1, <3>2
  <2> QED BY <1>0, <1>13, <2>1, <2>2 DEF StopThread, MaskInv, SigTypeOK
<1>14. CASE ResumeThreads
  BY <1>0, <1>h, <1>14 DEF ResumeThreads, MaskInv, SigTypeOK
<1>15. CASE RestartThreads
  <2>1. PendingForAll \subseteq ToProcess
    BY <1>0 DEF PendingForAll, SigTypeOK
  <2>2. \A t \in SigThreads : RaisedAgain(t) \subseteq UserSignals
    BY <1>0 DEF RaisedAgain, SigTypeOK
  <2> QED BY <1>0, <1>h, <1>15, <2>1, <2>2 DEF RestartThreads, MaskInv, SigTypeOK
<1> QED BY <1>1, <1>2, <1>3, <1>4, <1>5, <1>7, <1>8, <1>9, <1>10, <1>11, <1>12, <1>13, <1>14, <1>15
        DEF SignalsNext

\* What the invariant says of the masks.
LEMMA MaskInvSays == MaskInv => MasksPatched
<1> SUFFICES ASSUME MaskInv, NEW t \in SigThreads
             PROVE  /\ mask[t] \ {StopSignal} = asked[t] \ {StopSignal}
                    /\ misled[t] \subseteq {StopSignal}
                    /\ StopSignal \in mask[t] => \E i \in DOMAIN frames[t] : frames[t][i].covers
  BY DEF MasksPatched
<1>1. HeldOK(mask[t], asked[t], frames[t])
  BY DEF MaskInv, HeldInv
<1>2. DOMAIN frames[t] = 1..Len(frames[t])
  BY <1>1 DEF HeldOK
<1> QED BY <1>1, <1>2 DEF MaskInv, HeldOK, Fits

\* Whatever masks a program asks for, by whichever of the calls, in handlers and out of them: a
\* thread has the mask that was asked for but for the checkpoint signal, a call answers with it,
\* and only the masks of handlers and of sigpause, while they last, cover the checkpoint signal.
THEOREM MasksArePatched == SignalsSpec => []MasksPatched
BY MaskInvSays, InitMask, NextMask, PTL DEF SignalsSpec

\* Signals are counted: of each kind those that came are delivered or pending. A thread that
\* stops saves what is pending for it, and nothing comes or goes until all go on.
CountedInv ==
  /\ SignalsOnce
  /\ \A t \in SigThreads : sigPlace[t] = "stopped" => savedPending[t] = shared \union own[t]

\* What the checkpoint gives back is what it took: signals are sent to threads only, or the
\* process has one thread and no signal comes while one of its kind is pending.
OneRaises ==
  \/ ToProcess = {}
  \/ (\E t \in SigThreads : SigThreads = {t}) /\ MaxSignals = 1

\* Of a signal of each kind there are a number of copies.
LEMMA CopiesAre ==
  ASSUME NEW s
  PROVE  /\ IsFiniteSet({t \in SigThreads : s \in own[t]})
         /\ Cardinality({t \in SigThreads : s \in own[t]}) \in Nat
         /\ SigCopies(s) \in Nat
<1>1. IsFiniteSet({t \in SigThreads : s \in own[t]})
  BY SignalsAssumption, FS_Subset
<1>2. Cardinality({t \in SigThreads : s \in own[t]}) \in Nat
  BY <1>1, FS_CardinalityType
<1> QED BY <1>1, <1>2 DEF SigCopies

\* A signal becomes pending for one thread, or stops to be.
LEMMA OneMore ==
  ASSUME SigTypeOK, NEW t \in SigThreads, NEW s, shared' = shared,
         \/ s \notin own[t] /\ own' = [own EXCEPT ![t] = @ \union {s}]
         \/ s \in own[t] /\ own' = [own EXCEPT ![t] = @ \ {s}]
  PROVE  /\ SigCopies(s)' = IF s \in own[t] THEN SigCopies(s) - 1 ELSE SigCopies(s) + 1
         /\ \A r : r # s => SigCopies(r)' = SigCopies(r)
<1> DEFINE have == {u \in SigThreads : s \in own[u]}
           having == {u \in SigThreads : s \in own'[u]}
<1>1. IsFiniteSet(have) /\ Cardinality(have) \in Nat /\ (t \in have <=> s \in own[t])
  BY CopiesAre
<1>2. \A u \in SigThreads : u # t => own'[u] = own[u]
  BY DEF SigTypeOK
<1>3. /\ s \in own[t] => s \notin own'[t]
      /\ s \notin own[t] => s \in own'[t]
      /\ \A r : r # s => (r \in own'[t] <=> r \in own[t])
  BY DEF SigTypeOK
<1>4. /\ s \in own[t] => having = have \ {t}
      /\ s \notin own[t] => having = have \union {t}
  BY <1>2, <1>3
<1>5. \A r : r # s => {u \in SigThreads : r \in own'[u]} = {u \in SigThreads : r \in own[u]}
  BY <1>2, <1>3
<1>6. /\ SigCopies(s) = Cardinality(have) + (IF s \in shared THEN 1 ELSE 0)
      /\ SigCopies(s)' = Cardinality(having) + (IF s \in shared THEN 1 ELSE 0)
  BY DEF SigCopies
<1>7. \A r : r # s => SigCopies(r)' = SigCopies(r)
  BY <1>5 DEF SigCopies
<1> HIDE DEF have, having
<1>8. CASE s \in own[t]
  <2>1. Cardinality(having) = Cardinality(have) - 1
    BY <1>1, <1>4, <1>8, FS_RemoveElement
  <2> QED BY <1>1, <1>6, <1>7, <1>8, <2>1
<1>9. CASE s \notin own[t]
  <2>1. Cardinality(having) = Cardinality(have) + 1
    BY <1>1, <1>4, <1>9, FS_AddElement
  <2> QED BY <1>1, <1>6, <1>7, <1>9, <2>1
<1> QED BY <1>8, <1>9

\* No signal is under way at the start.
LEMMA InitCounted == SignalsInit => CountedInv
<1> SUFFICES ASSUME SignalsInit
             PROVE  CountedInv
  OBVIOUS
<1>1. \A s : {t \in SigThreads : s \in own[t]} = {}
  BY DEF SignalsInit
<1>2. \A s : SigCopies(s) = IF s \in shared THEN 1 ELSE 0
  BY <1>1, FS_EmptySet DEF SigCopies
<1> QED BY <1>2 DEF SignalsInit, CountedInv, SignalsOnce

\* After a restart each signal that was pending is pending once.
LEMMA RestartCounts ==
  ASSUME SigTypeOK, CountedInv, OneRaises, \A s \in UserSignals : sigSent[s] <= MaxSignals,
         RestartThreads, NEW s \in UserSignals
  PROVE  SigCopies(s)' = SigCopies(s)
<1> DEFINE mine == {t \in SigThreads : s \in own[t]}
<1>1. /\ shared' = PendingForAll /\ own' = [t \in SigThreads |-> RaisedAgain(t)]
      /\ \A t \in SigThreads : savedPending[t] = shared \union own[t]
      /\ s # StopSignal
  BY SignalsAssumption DEF RestartThreads, AllStopped, CountedInv
<1>2. CASE ToProcess = {}
  <2>1. shared = {} /\ PendingForAll = {}
    BY <1>2 DEF SigTypeOK, PendingForAll
  <2>2. \A t \in SigThreads : own'[t] = own[t]
    BY <1>1, <2>1, SignalsAssumption DEF RaisedAgain, SigTypeOK
  <2>3. {t \in SigThreads : s \in own'[t]} = mine
    BY <2>2
  <2> QED BY <1>1, <2>1, <2>3 DEF SigCopies
<1>3. CASE (\E t \in SigThreads : SigThreads = {t}) /\ MaxSignals = 1
  <2>1. PICK t \in SigThreads : SigThreads = {t}
    BY <1>3
  <2>2. /\ s \in PendingForAll => s \in shared \union own[t]
        /\ s \in RaisedAgain(t) <=> (s \in shared \union own[t] /\ s \notin PendingForAll)
    BY <1>1, <2>1 DEF PendingForAll, RaisedAgain
  <2> DEFINE mineNext == {u \in SigThreads : s \in own'[u]}
  <2>3. /\ s \in own[t] => mine = {t}
        /\ s \notin own[t] => mine = {}
        /\ s \in RaisedAgain(t) => mineNext = {t}
        /\ s \notin RaisedAgain(t) => mineNext = {}
    BY <1>1, <2>1
  <2>4. Cardinality({t}) = 1 /\ Cardinality({}) = 0
    BY FS_Singleton, FS_EmptySet
  <2>5. /\ SigCopies(s) = Cardinality(mine) + (IF s \in shared THEN 1 ELSE 0)
        /\ SigCopies(s)' = Cardinality(mineNext) + (IF s \in PendingForAll THEN 1 ELSE 0)
    BY <1>1 DEF SigCopies
  <2> HIDE DEF mine, mineNext
  <2>6. /\ Cardinality(mine) = IF s \in own[t] THEN 1 ELSE 0
        /\ Cardinality(mineNext) = IF s \in RaisedAgain(t) THEN 1 ELSE 0
    BY <2>3, <2>4
  <2>7. ~(s \in own[t] /\ s \in shared)
    <3>1. sigSent[s] = handled[s] + SigCopies(s) /\ handled[s] \in Nat /\ sigSent[s] <= 1
      BY <1>3 DEF CountedInv, SignalsOnce, SigTypeOK
    <3>2. s \in own[t] /\ s \in shared => SigCopies(s) = 2
      BY <2>5, <2>6
    <3>3. SigCopies(s) \in Nat
      BY CopiesAre
    <3> QED BY <3>1, <3>2, <3>3
  <2>8. CASE s \in shared \union own[t]
    <3>1. SigCopies(s) = 1
      BY <2>5, <2>6, <2>7, <2>8
    <3>2. SigCopies(s)' = 1
      BY <2>2, <2>5, <2>6, <2>8
    <3> QED BY <3>1, <3>2
  <2>9. CASE s \notin shared \union own[t]
    <3>1. SigCopies(s) = 0
      BY <2>5, <2>6, <2>9
    <3>2. SigCopies(s)' = 0
      BY <2>2, <2>5, <2>6, <2>9
    <3> QED BY <3>1, <3>2
  <2> QED BY <2>8, <2>9
<1> QED BY <1>2, <1>3 DEF OneRaises

SignalInv ==
  MaskInv /\ CountedInv /\ \A s \in UserSignals : sigSent[s] <= MaxSignals

\* The invariant holds at the start.
LEMMA InitSignalInv == MaxSignals # 0 /\ SignalsInit => SignalInv
<1> SUFFICES ASSUME MaxSignals # 0, SignalsInit
             PROVE  SignalInv
  OBVIOUS
<1>1. \A s \in UserSignals : sigSent[s] <= 1
  BY DEF SignalsInit
<1>2. \A s \in UserSignals : sigSent[s] <= MaxSignals
  BY <1>1, SignalsAssumption DEF SignalsInit
<1> QED BY <1>2, InitMask, InitCounted DEF SignalInv

\* Every step of the signals keeps the invariant.
LEMMA NextSignalInv ==
  ASSUME ~WhileStopped, OneRaises, MaxSignals # 0
  PROVE  SignalInv /\ [SignalsNext]_signalVars => SignalInv'
<1> SUFFICES ASSUME SignalInv, [SignalsNext]_signalVars
             PROVE  SignalInv'
  OBVIOUS
<1> USE DEF maskVars, heldVars, pendingVars, savedVars, tallyVars
<1>0. MaskInv' /\ SigTypeOK
  BY NextMask DEF SignalInv, MaskInv
<1>c. /\ \A s \in UserSignals : /\ sigSent[s] = handled[s] + SigCopies(s)
                                /\ sigSent[s] \in Nat /\ handled[s] \in Nat /\ SigCopies(s) \in Nat
                                /\ sigSent[s] <= MaxSignals
      /\ \A t \in SigThreads : sigPlace[t] = "stopped" => savedPending[t] = shared \union own[t]
      /\ MaxSignals \in Nat
  BY <1>0, CopiesAre, SignalsAssumption DEF SignalInv, CountedInv, SignalsOnce, SigTypeOK
<1>1. ASSUME UNCHANGED <<shared, own, sigPlace, savedPending, sigSent, handled>>
      PROVE  SignalInv'
  <2>1. \A s : SigCopies(s)' = SigCopies(s)
    BY <1>1 DEF SigCopies
  <2> QED BY <1>0, <1>1, <1>c, <2>1 DEF SignalInv, CountedInv, SignalsOnce
<1>2. ASSUME NEW t \in SigThreads, NEW how, NEW set, MaskCall(t, how, set)
      PROVE  SignalInv'
  BY <1>1, <1>2 DEF MaskCall
<1>3. ASSUME NEW s \in UserSignals, SendToProcess(s)
      PROVE  SignalInv'
  <2>1. /\ s \notin shared /\ shared' = shared \union {s} /\ sigSent[s] < MaxSignals
        /\ sigSent' = [sigSent EXCEPT ![s] = @ + 1]
        /\ \A t \in SigThreads : sigPlace[t] = "runs"
        /\ UNCHANGED <<own, sigPlace, savedPending, handled>>
    BY <1>3 DEF SendToProcess, Counted, MayCome
  <2>2. /\ SigCopies(s)' = SigCopies(s) + 1
        /\ \A r : r # s => SigCopies(r)' = SigCopies(r)
    BY <2>1, CopiesAre DEF SigCopies
  <2>3. \A r \in UserSignals : sigSent'[r] = IF r = s THEN sigSent[s] + 1 ELSE sigSent[r]
    BY <1>0, <2>1 DEF SigTypeOK
  <2>4. SignalsOnce' /\ \A r \in UserSignals : sigSent'[r] <= MaxSignals
    BY <1>c, <2>1, <2>2, <2>3 DEF SignalsOnce
  <2>5. \A u \in SigThreads : sigPlace'[u] # "stopped"
    BY <2>1
  <2> QED BY <1>0, <2>4, <2>5 DEF SignalInv, CountedInv
<1>4. ASSUME NEW t \in SigThreads, NEW s \in UserSignals, SendToThread(t, s)
      PROVE  SignalInv'
  <2>1. /\ s \notin own[t] /\ own' = [own EXCEPT ![t] = @ \union {s}] /\ sigSent[s] < MaxSignals
        /\ sigSent' = [sigSent EXCEPT ![s] = @ + 1]
        /\ \A u \in SigThreads : sigPlace[u] = "runs"
        /\ UNCHANGED <<shared, sigPlace, savedPending, handled>>
    BY <1>4 DEF SendToThread, Counted, MayCome
  <2>2. /\ SigCopies(s)' = SigCopies(s) + 1
        /\ \A r : r # s => SigCopies(r)' = SigCopies(r)
    BY <1>0, <2>1, OneMore
  <2>3. \A r \in UserSignals : sigSent'[r] = IF r = s THEN sigSent[s] + 1 ELSE sigSent[r]
    BY <1>0, <2>1 DEF SigTypeOK
  <2>4. SignalsOnce' /\ \A r \in UserSignals : sigSent'[r] <= MaxSignals
    BY <1>c, <2>1, <2>2, <2>3 DEF SignalsOnce
  <2>5. \A u \in SigThreads : sigPlace'[u] # "stopped"
    BY <2>1
  <2> QED BY <1>0, <2>4, <2>5 DEF SignalInv, CountedInv
<1>5. ASSUME NEW t \in SigThreads, NEW s \in UserSignals, Deliver(t, s) \/ SigWait(t, s)
      PROVE  SignalInv'
  <2>1. /\ sigPlace[t] = "runs" /\ handled' = [handled EXCEPT ![s] = @ + 1]
        /\ UNCHANGED <<sigPlace, savedPending, sigSent>>
        /\ \/ s \in own[t] /\ own' = [own EXCEPT ![t] = @ \ {s}] /\ shared' = shared
           \/ s \in shared /\ shared' = shared \ {s} /\ own' = own
    BY <1>5 DEF Deliver, SigWait, MayCall, Take
  <2>2. /\ SigCopies(s)' = SigCopies(s) - 1
        /\ \A r : r # s => SigCopies(r)' = SigCopies(r)
    <3>1. CASE s \in own[t] /\ own' = [own EXCEPT ![t] = @ \ {s}] /\ shared' = shared
      BY <1>0, <3>1, OneMore
    <3>2. CASE s \in shared /\ shared' = shared \ {s} /\ own' = own
      BY <3>2, CopiesAre DEF SigCopies
    <3> QED BY <2>1, <3>1, <3>2
  <2>3. \A r \in UserSignals : handled'[r] = IF r = s THEN handled[s] + 1 ELSE handled[r]
    BY <1>0, <2>1 DEF SigTypeOK
  <2>4. SignalsOnce' /\ \A r \in UserSignals : sigSent'[r] <= MaxSignals
    BY <1>c, <2>1, <2>2, <2>3 DEF SignalsOnce
  <2>5. ASSUME NEW u \in SigThreads, sigPlace'[u] = "stopped"
        PROVE  savedPending'[u] = shared' \union own'[u]
    <3>1. u # t /\ sigPlace[u] = "stopped" /\ SigThreads # {u}
      BY <2>1, <2>5
    <3>2. ToProcess = {}
      BY <3>1 DEF OneRaises
    <3>3. shared = {} /\ shared' = {} /\ own'[u] = own[u]
      BY <1>0, <2>1, <3>1, <3>2 DEF SigTypeOK
    <3> QED BY <1>c, <2>1, <3>1, <3>3
  <2> QED BY <1>0, <2>4, <2>5 DEF SignalInv, CountedInv
<1>6. ASSUME NEW t \in SigThreads, StopThread(t)
      PROVE  SignalInv'
  <2>1. /\ sigPlace' = [sigPlace EXCEPT ![t] = "stopped"]
        /\ savedPending' = [savedPending EXCEPT ![t] = shared \union own[t]]
        /\ UNCHANGED <<shared, own, sigSent, handled>>
    BY <1>6 DEF StopThread
  <2>2. \A s : SigCopies(s)' = SigCopies(s)
    BY <2>1 DEF SigCopies
  <2>3. \A u \in SigThreads : sigPlace'[u] = "stopped" => savedPending'[u] = shared' \union own'[u]
    BY <1>0, <1>c, <2>1 DEF SigTypeOK
  <2> QED BY <1>0, <1>c, <2>1, <2>2, <2>3 DEF SignalInv, CountedInv, SignalsOnce
<1>7. CASE ResumeThreads
  <2>1. /\ UNCHANGED <<shared, own, sigSent, handled>>
        /\ \A u \in SigThreads : sigPlace'[u] # "stopped"
    BY <1>7 DEF ResumeThreads
  <2>2. \A s : SigCopies(s)' = SigCopies(s)
    BY <2>1 DEF SigCopies
  <2> QED BY <1>0, <1>c, <2>1, <2>2 DEF SignalInv, CountedInv, SignalsOnce
<1>8. CASE RestartThreads
  <2>1. /\ UNCHANGED <<sigSent, handled>>
        /\ \A u \in SigThreads : sigPlace'[u] # "stopped"
    BY <1>8 DEF RestartThreads
  <2>2. \A s \in UserSignals : SigCopies(s)' = SigCopies(s)
    BY <1>0, <1>8, RestartCounts DEF SignalInv
  <2> QED BY <1>0, <1>c, <2>1, <2>2 DEF SignalInv, CountedInv, SignalsOnce
<1>9. CASE UNCHANGED signalVars
  BY <1>1, <1>9 DEF signalVars
<1>10. ASSUME NEW t \in SigThreads, NEW m, NEW a, NEW covers, Pause(t, m, a, covers)
       PROVE  SignalInv'
  BY <1>1, <1>10 DEF Pause
<1>11. ASSUME NEW t \in SigThreads, NEW s, NEW set, SetAction(t, s, set) \/ HandlerReturns(t)
       PROVE  SignalInv'
  BY <1>1, <1>11 DEF SetAction, HandlerReturns
<1> QED BY <1>2, <1>3, <1>4, <1>5, <1>6, <1>7, <1>8, <1>9, <1>10, <1>11
        DEF SignalsNext, SigMask, BsdMask, HoldSignal, SigSuspend, SigPause, SigPauseWithout

\* A signal that came is delivered once, also when it was pending at a checkpoint that the
\* process is restored from, and masks are those asked for: for signals that are sent to
\* threads, any number of both, and for all signals of a process with one thread that gets
\* one of each kind.
THEOREM SignalsAreKept ==
  ASSUME ~WhileStopped, OneRaises, MaxSignals # 0
  PROVE  SignalsSpec => []SignalsKept
<1>1. SignalInv => SignalsKept
  BY MaskInvSays DEF SignalInv, CountedInv, SignalsKept
<1>2. SignalsInit => SignalInv
  BY InitSignalInv
<1>3. SignalInv /\ [SignalsNext]_signalVars => SignalInv'
  BY NextSignalInv
<1> QED BY <1>1, <1>2, <1>3, PTL DEF SignalsSpec

-----------------------------------------------------------------------------
(* Event descriptors. *)

\* What programs do, as far as the library relies on it: they take a descriptor out of the
\* set before they close it, call epoll_create with a size, and the counter of an eventfd
\* fits _initval. Signals and polls may come at any time.
WithinReach ==
  DeletesFirst /\ 0 \notin Sizes /\ MaxCount < IntRange

\* The members that the library has recorded.
Recorded == {[fd |-> f, obj |-> fdObj[f], ev |-> fdToEvent[f]] : f \in DOMAIN fdToEvent}

EventsTypeOK ==
  /\ eventKind \in {"epoll", "eventfd", "signalfd", "poll"}
  /\ evStage \in {"runs", "ordered", "stopped", "drained", "recreated"}
  /\ fdObj \in [Watched -> Nat] /\ opened \in Nat /\ epollSize \in Nat \ {0}
  /\ count \in 0..MaxCount /\ initval \in 0..MaxCount
  /\ pending \subseteq EventSignals /\ fdsi = 0
  /\ pollPlace \in {"out", "polls", "interrupted", "again", "failed"}
  /\ origGen \in Nat /\ generation \in Nat /\ {semaphore, lateCall, signalled, fresh} \subseteq BOOLEAN

\* The kernel's set is what is recorded, of open descriptors, while the descriptor exists.
EpollInv ==
  /\ \A f \in DOMAIN fdToEvent : f \in Watched /\ fdObj[f] # 0
  /\ evStage # "recreated" => interest = Recorded

\* From the stop on the program is at rest, and what the kernel or the connection has of the
\* counter is what it was; drain takes one signal.
CkptInv ==
  /\ evStage # "runs" => ~fresh
  /\ fresh => /\ interest = atCkpt.interest /\ count = atCkpt.count
              /\ pending = atCkpt.pending \ LowestOf(atCkpt.pending)
  /\ eventKind # "eventfd" => count = 0 /\ initval = 0
  /\ eventKind # "signalfd" => pending = {}
  /\ evStage \in {"stopped", "drained", "recreated"} =>
       atCkpt = [interest |-> Recorded, count |-> atCkpt.count, pending |-> atCkpt.pending]
  /\ evStage = "stopped" => pending = atCkpt.pending
  /\ evStage \in {"drained", "recreated"} => pending = atCkpt.pending \ LowestOf(atCkpt.pending)
  /\ evStage = "stopped" => atCkpt.count = count
  /\ evStage = "drained" => atCkpt.count = initval /\ count = 0
  /\ evStage = "recreated" => atCkpt.count = count

\* A poll that waits when the checkpoint signal comes began in an earlier generation, or late.
PollInv ==
  /\ origGen <= generation
  /\ pollPlace = "polls" /\ evStage # "runs" => generation > origGen \/ lateCall
  /\ pollPlace = "interrupted" /\ ~signalled => generation > origGen \/ lateCall
  /\ EarlyPollRestarted

EventsInv == EventsTypeOK /\ EpollInv /\ CkptInv /\ PollInv

\* The invariant holds at the start.
LEMMA InitEventsInv == WithinReach /\ EventsInit => EventsInv
<1> SUFFICES ASSUME WithinReach, EventsInit
             PROVE  EventsInv
  OBVIOUS
<1>1. /\ \A n \in Sizes : n \in Nat \ {0}
      /\ eventKind \in {"epoll", "eventfd", "signalfd", "poll"}
      /\ 0 \in 0..MaxCount
  BY EventsAssumption DEF EventsInit, WithinReach
<1>2. EventsTypeOK
  <2>1. semaphore \in BOOLEAN
    BY DEF EventsInit
  <2>2. epollSize \in Nat \ {0}
    BY <1>1 DEF EventsInit
  <2>3. fdObj \in [Watched -> Nat] /\ {lateCall, signalled, fresh} \subseteq BOOLEAN
    BY DEF EventsInit
  <2>4. /\ opened \in Nat /\ count \in 0..MaxCount /\ initval \in 0..MaxCount
        /\ pending \subseteq EventSignals /\ fdsi = 0 /\ pollPlace = "out" /\ evStage = "runs"
        /\ origGen \in Nat /\ generation \in Nat
    BY <1>1 DEF EventsInit
  <2> QED BY <1>1, <2>1, <2>2, <2>3, <2>4 DEF EventsTypeOK
<1>3. DOMAIN fdToEvent = {} /\ interest = Recorded
  BY DEF EventsInit, Recorded
<1> QED BY <1>2, <1>3 DEF EventsInit, EventsInv, EpollInv, CkptInv, PollInv, EarlyPollRestarted, Held

\* A step that leaves the epoll set alone keeps what is known of it.
LEMMA EpollKept ==
  ASSUME EpollInv, evStage' = evStage, UNCHANGED epollVars
  PROVE  EpollInv' /\ Recorded' = Recorded
<1>1. Recorded' = Recorded
  BY DEF Recorded, epollVars
<1> QED BY <1>1 DEF EpollInv, epollVars

\* The program runs: nothing of the checkpoint's is bound to what it does.
LEMMA RunningCkpt ==
  ASSUME UserRuns, UNCHANGED <<eventKind, evStage>>, ~fresh',
         eventKind # "eventfd" => count' = 0 /\ initval' = 0,
         eventKind # "signalfd" => pending' = {}
  PROVE  CkptInv'
BY DEF CkptInv, UserRuns

\* A step that leaves the poll alone keeps what is known of it.
LEMMA PollKept ==
  ASSUME PollInv, evStage' = evStage, UNCHANGED <<pollVars, generation>>
  PROVE  PollInv'
BY DEF PollInv, EarlyPollRestarted, pollVars

\* The calls of epoll change the kernel's set and the record of it together.
LEMMA EpollKeeps ==
  ASSUME WithinReach, EventsInv, EpollStep
  PROVE  EventsInv'
<1> USE DEF epollVars, counterVars, sigfdVars, pollVars
<1>0. UserRuns /\ eventKind = "epoll" /\ fresh' = FALSE
      /\ UNCHANGED <<eventKind, evStage, generation, counterVars, sigfdVars, pollVars>>
  BY DEF EpollStep, ExecWithEpoll, OpenWatched, CloseWatched, DupWatched, EpollCtl, Program
<1>1. CkptInv' /\ PollInv'
  BY <1>0, RunningCkpt, PollKept DEF EventsInv, CkptInv
<1>2. interest = Recorded /\ \A f \in DOMAIN fdToEvent : f \in Watched /\ fdObj[f] # 0
  BY <1>0 DEF EventsInv, EpollInv, UserRuns
<1>3. /\ fdObj \in [Watched -> Nat] /\ opened \in Nat /\ epollSize \in Nat \ {0}
  BY DEF EventsInv, EventsTypeOK
<1>4. ASSUME /\ fdObj' \in [Watched -> Nat] /\ opened' \in Nat /\ epollSize' \in Nat \ {0}
             /\ interest' = Recorded'
             /\ \A f \in DOMAIN fdToEvent' : f \in Watched /\ fdObj'[f] # 0
      PROVE  EventsInv'
  <2>1. EventsTypeOK'
    BY <1>0, <1>4 DEF EventsInv, EventsTypeOK
  <2>2. EpollInv'
    BY <1>4 DEF EpollInv
  <2> QED BY <1>1, <2>1, <2>2 DEF EventsInv
<1>5. ASSUME \A f \in DOMAIN fdToEvent : fdObj'[f] = fdObj[f], UNCHANGED <<interest, fdToEvent>>
      PROVE  interest' = Recorded' /\ \A f \in DOMAIN fdToEvent' : f \in Watched /\ fdObj'[f] # 0
  BY <1>2, <1>5 DEF Recorded
<1>6. CASE ExecWithEpoll
  <2>1. UNCHANGED <<fdObj, opened, interest, fdToEvent>> /\ epollSize' = 5
    BY <1>6 DEF ExecWithEpoll
  <2> QED BY <1>3, <1>4, <1>5, <2>1
<1>7. ASSUME NEW f \in Watched, OpenWatched(f)
      PROVE  EventsInv'
  <2>1. /\ fdObj[f] = 0 /\ opened' = opened + 1 /\ fdObj' = [fdObj EXCEPT ![f] = opened + 1]
        /\ UNCHANGED <<interest, fdToEvent, epollSize>>
    BY <1>7 DEF OpenWatched
  <2>2. f \notin DOMAIN fdToEvent
    BY <1>2, <2>1
  <2>3. \A g \in DOMAIN fdToEvent : fdObj'[g] = fdObj[g]
    BY <1>2, <1>3, <2>1, <2>2
  <2> QED BY <1>3, <1>4, <1>5, <2>1, <2>3
<1>8. ASSUME NEW f \in Watched, CloseWatched(f)
      PROVE  EventsInv'
  <2>1. /\ f \notin DOMAIN fdToEvent /\ fdObj' = [fdObj EXCEPT ![f] = 0]
        /\ interest' = {m \in interest : \E g \in Watched \ {f} : fdObj[g] = m.obj}
                         \union {m \in interest : m.obj # fdObj[f]}
        /\ UNCHANGED <<opened, fdToEvent, epollSize>>
    BY <1>8 DEF CloseWatched, WithinReach
  <2>2. \A m \in interest : \E g \in Watched \ {f} : fdObj[g] = m.obj
    BY <1>2, <2>1 DEF Recorded
  <2>3. interest' = interest
    BY <2>1, <2>2
  <2>4. \A g \in DOMAIN fdToEvent : fdObj'[g] = fdObj[g]
    BY <1>2, <1>3, <2>1
  <2>5. fdObj' \in [Watched -> Nat]
    BY <1>3, <2>1
  <2> QED BY <1>3, <1>4, <1>5, <2>1, <2>3, <2>4, <2>5
<1>9. ASSUME NEW f \in Watched, NEW g \in Watched, DupWatched(f, g)
      PROVE  EventsInv'
  <2>1. /\ fdObj[g] = 0 /\ fdObj' = [fdObj EXCEPT ![g] = fdObj[f]]
        /\ UNCHANGED <<opened, interest, fdToEvent, epollSize>>
    BY <1>9 DEF DupWatched
  <2>2. \A h \in DOMAIN fdToEvent : fdObj'[h] = fdObj[h]
    BY <1>2, <1>3, <2>1
  <2> QED BY <1>3, <1>4, <1>5, <2>1, <2>2
<1>10. ASSUME NEW op \in {"ADD", "MOD", "DEL"}, NEW f \in Watched, NEW ev, EpollCtl(op, f, ev)
       PROVE  EventsInv'
  <2>1. /\ fdObj[f] # 0 /\ UNCHANGED <<fdObj, opened, epollSize>>
        /\ interest' = (interest \ Member(f)) \union
                         (IF op = "DEL" THEN {} ELSE {[fd |-> f, obj |-> fdObj[f], ev |-> ev]})
        /\ fdToEvent' = IF op = "DEL" THEN OnDelete(f)
                        ELSE [g \in DOMAIN fdToEvent \union {f} |-> IF g = f THEN ev ELSE fdToEvent[g]]
    BY <1>10 DEF EpollCtl
  <2> DEFINE others == {[fd |-> g, obj |-> fdObj[g], ev |-> fdToEvent[g]] :
                          g \in DOMAIN fdToEvent \ {f}}
  <2>2. interest \ Member(f) = others
    BY <1>2 DEF Recorded, Member
  <2>3. CASE op = "DEL"
    <3>1. /\ DOMAIN fdToEvent' = DOMAIN fdToEvent \ {f}
          /\ \A g \in DOMAIN fdToEvent \ {f} : fdToEvent'[g] = fdToEvent[g]
      BY <2>1, <2>3 DEF OnDelete
    <3>2. Recorded' = others
      BY <2>1, <3>1 DEF Recorded
    <3>3. interest' = others
      BY <2>1, <2>2, <2>3
    <3> QED BY <1>2, <1>3, <1>4, <2>1, <3>1, <3>2, <3>3
  <2>4. CASE op # "DEL"
    <3>1. /\ DOMAIN fdToEvent' = DOMAIN fdToEvent \union {f} /\ fdToEvent'[f] = ev
          /\ \A g \in DOMAIN fdToEvent \ {f} : fdToEvent'[g] = fdToEvent[g]
      BY <2>1, <2>4
    <3>2. Recorded' = others \union {[fd |-> f, obj |-> fdObj[f], ev |-> ev]}
      <4>1. Recorded' = {[fd |-> g, obj |-> fdObj[g], ev |-> fdToEvent'[g]] :
                           g \in DOMAIN fdToEvent \union {f}}
        BY <2>1, <3>1 DEF Recorded
      <4>2. {[fd |-> g, obj |-> fdObj[g], ev |-> fdToEvent'[g]] : g \in DOMAIN fdToEvent \ {f}} = others
        BY <3>1
      <4> QED BY <3>1, <4>1, <4>2
    <3>3. interest' = others \union {[fd |-> f, obj |-> fdObj[f], ev |-> ev]}
      BY <2>1, <2>2, <2>4
    <3> QED BY <1>2, <1>3, <1>4, <2>1, <3>1, <3>2, <3>3
  <2> QED BY <2>3, <2>4
<1> QED BY <1>6, <1>7, <1>8, <1>9, <1>10 DEF EpollStep

\* The counter and the signals, while the program runs.
LEMMA DataKeeps ==
  ASSUME WithinReach, EventsInv,
         \/ ReadCounter \/ \E n \in 1..2 : WriteCounter(n)
         \/ \E s \in EventSignals : SignalComes(s) \/ ReadSignal(s)
  PROVE  EventsInv'
<1> USE DEF epollVars, counterVars, sigfdVars, pollVars
<1>1. /\ UserRuns /\ fresh' = FALSE
      /\ UNCHANGED <<eventKind, evStage, generation, epollVars, pollVars, semaphore, initval, fdsi>>
      /\ eventKind # "eventfd" => count' = count
      /\ eventKind # "signalfd" => pending' = pending
  BY DEF ReadCounter, WriteCounter, SignalComes, ReadSignal, Program
<1>2. count' \in 0..MaxCount /\ pending' \subseteq EventSignals
  <2>1. /\ count \in 0..MaxCount /\ pending \subseteq EventSignals /\ MaxCount \in Nat
    BY EventsAssumption DEF EventsInv, EventsTypeOK
  <2>2. CASE ReadCounter
    BY <2>1, <2>2 DEF ReadCounter
  <2>3. ASSUME NEW n \in 1..2, WriteCounter(n)
        PROVE  count' \in 0..MaxCount /\ pending' \subseteq EventSignals
    BY <2>1, <2>3 DEF WriteCounter
  <2>4. ASSUME NEW s \in EventSignals, SignalComes(s) \/ ReadSignal(s)
        PROVE  count' \in 0..MaxCount /\ pending' \subseteq EventSignals
    BY <2>1, <2>4 DEF SignalComes, ReadSignal
  <2> QED BY <2>2, <2>3, <2>4
<1>3. EventsTypeOK'
  BY <1>1, <1>2 DEF EventsInv, EventsTypeOK
<1>4. EpollInv' /\ PollInv'
  BY <1>1, EpollKept, PollKept DEF EventsInv
<1>5. CkptInv'
  BY <1>1, RunningCkpt DEF EventsInv, CkptInv
<1> QED BY <1>3, <1>4, <1>5 DEF EventsInv

\* The steps of the poll wrapper leave it in a place a checkpoint may find it in.
LEMMA PollKeeps ==
  ASSUME WithinReach, EventsInv,
         ReadGeneration \/ PollReturns \/ OwnSignal \/ TestGeneration \/ LeaveFailed
  PROVE  EventsInv'
<1> USE DEF epollVars, counterVars, sigfdVars, pollVars
<1>1. /\ fresh' = FALSE /\ UserRuns
      /\ UNCHANGED <<eventKind, evStage, generation, atCkpt, epollVars, counterVars, sigfdVars>>
  BY DEF ReadGeneration, PollReturns, OwnSignal, TestGeneration, LeaveFailed, InPoll, UserRuns
<1>2. /\ pollPlace' \in {"out", "polls", "interrupted", "again", "failed"}
      /\ origGen' \in Nat /\ signalled' \in BOOLEAN /\ lateCall' \in BOOLEAN
  BY DEF EventsInv, EventsTypeOK, ReadGeneration, PollReturns, OwnSignal, TestGeneration, LeaveFailed, InPoll
<1>3. EventsTypeOK'
  BY <1>1, <1>2 DEF EventsInv, EventsTypeOK
<1>4. EpollInv' /\ CkptInv'
  BY <1>1, EpollKept, RunningCkpt DEF EventsInv, CkptInv
<1>5. PollInv'
  <2>1. origGen \in Nat /\ generation \in Nat
    BY DEF EventsInv, EventsTypeOK
  <2>2. CASE ReadGeneration
    <3>1. /\ evStage' = evStage /\ evStage \in {"runs", "ordered"} /\ lateCall' = (evStage = "ordered")
          /\ pollPlace' = "polls" /\ origGen' = generation /\ generation' = generation
      BY <2>2 DEF ReadGeneration, InPoll, UserRuns
    <3>2. evStage' # "runs" => lateCall'
      BY <3>1
    <3> QED BY <2>1, <3>1, <3>2 DEF PollInv, EarlyPollRestarted
  <2>3. CASE PollReturns \/ LeaveFailed
    <3>1. pollPlace' = "out" /\ UNCHANGED <<origGen, generation>>
      BY <2>3 DEF PollReturns, LeaveFailed, InPoll
    <3> QED BY <3>1 DEF EventsInv, PollInv, EarlyPollRestarted
  <2>4. CASE OwnSignal
    <3>1. pollPlace' = "interrupted" /\ signalled' /\ UNCHANGED <<origGen, generation>>
      BY <2>4 DEF OwnSignal, InPoll
    <3> QED BY <3>1 DEF EventsInv, PollInv, EarlyPollRestarted
  <2>5. CASE TestGeneration
    <3>1. /\ pollPlace = "interrupted" /\ pollPlace' = IF generation > origGen THEN "again" ELSE "failed"
          /\ UNCHANGED <<origGen, generation, lateCall, signalled>>
      BY <2>5 DEF TestGeneration, InPoll, Restarted
    <3> QED BY <2>1, <3>1 DEF EventsInv, PollInv, EarlyPollRestarted
  <2> QED BY <2>2, <2>3, <2>4, <2>5
<1> QED BY <1>3, <1>4, <1>5 DEF EventsInv

\* A counter that fits _initval is kept whole.
LEMMA RemainderIsAll ==
  ASSUME NEW n \in Nat, NEW m \in Nat \ {0}, n < m
  PROVE  n % m = n
OBVIOUS

\* Every step of the events keeps the invariant.
LEMMA NextEventsInv == WithinReach /\ EventsInv /\ [EventsNext]_eventVars => EventsInv'
<1> SUFFICES ASSUME WithinReach, EventsInv, [EventsNext]_eventVars
             PROVE  EventsInv'
  OBVIOUS
<1> USE DEF epollVars, counterVars, sigfdVars, pollVars, kindVars
<1>1. CASE UNCHANGED eventVars
  <2>1. UNCHANGED <<eventKind, evStage, kindVars, generation, fresh, atCkpt>> /\ Recorded' = Recorded
    BY <1>1 DEF eventVars, Recorded
  <2> QED BY <2>1 DEF EventsInv, EventsTypeOK, EpollInv, CkptInv, LowestOf, PollInv, EarlyPollRestarted
<1>2. CASE SuspendOrdered
  <2>1. /\ evStage = "runs" /\ evStage' = "ordered" /\ generation' = generation + 1 /\ ~fresh'
        /\ UNCHANGED <<eventKind, kindVars>> /\ Recorded' = Recorded
        /\ fresh' \in BOOLEAN
    BY <1>2 DEF SuspendOrdered, Recorded
  <2>2. EventsTypeOK' /\ EpollInv'
    BY <2>1 DEF EventsInv, EventsTypeOK, EpollInv
  <2>3. CkptInv'
    BY <2>1 DEF EventsInv, CkptInv
  <2>4. PollInv'
    BY <2>1 DEF EventsInv, EventsTypeOK, PollInv, EarlyPollRestarted
  <2> QED BY <2>2, <2>3, <2>4 DEF EventsInv
<1>3. CASE StopUser
  <2>1. /\ evStage = "ordered" /\ evStage' = "stopped" /\ atCkpt' = Held
        /\ UNCHANGED <<eventKind, epollVars, counterVars, sigfdVars, origGen, lateCall, signalled, generation, fresh>>
        /\ pollPlace' = IF pollPlace = "polls" THEN "interrupted" ELSE pollPlace
        /\ Recorded' = Recorded
    BY <1>3 DEF StopUser, Recorded
  <2>2. EventsTypeOK' /\ EpollInv' /\ interest = Recorded
    BY <2>1 DEF EventsInv, EventsTypeOK, EpollInv
  <2>3. CkptInv'
    BY <2>1, <2>2 DEF EventsInv, CkptInv, Held
  <2>4. PollInv'
    BY <2>1 DEF EventsInv, EventsTypeOK, PollInv, EarlyPollRestarted
  <2> QED BY <2>2, <2>3, <2>4 DEF EventsInv
<1>4. CASE DrainEvents
  <2>1. /\ evStage = "stopped" /\ evStage' = "drained" /\ pending' = pending \ LowestOf(pending)
        /\ UNCHANGED <<eventKind, epollVars, fdsi, pollVars, generation, fresh, atCkpt>>
        /\ Recorded' = Recorded /\ semaphore' = semaphore
        /\ eventKind = "eventfd" => initval' = count % IntRange /\ count' = 0
        /\ eventKind # "eventfd" => initval' = initval /\ count' = count
    BY <1>4 DEF DrainEvents, Recorded, UnitsRead, LowestOf
  <2>2. count \in 0..MaxCount /\ MaxCount \in Nat /\ IntRange \in Nat \ {0} /\ count < IntRange
    BY EventsAssumption DEF EventsInv, EventsTypeOK, WithinReach
  <2>3. count % IntRange = count
    BY <2>2, RemainderIsAll
  <2>4. count' \in 0..MaxCount /\ initval' \in 0..MaxCount
    BY <2>1, <2>2, <2>3 DEF EventsInv, EventsTypeOK
  <2>5. EventsTypeOK' /\ EpollInv'
    BY <2>1, <2>4 DEF EventsInv, EventsTypeOK, EpollInv
  <2>6. CkptInv'
    BY <2>1, <2>3 DEF EventsInv, CkptInv, LowestOf
  <2>7. PollInv'
    BY <2>1 DEF EventsInv, PollInv, EarlyPollRestarted
  <2> QED BY <2>5, <2>6, <2>7 DEF EventsInv
<1>5. CASE RefillOnResume
  <2>1. /\ evStage = "drained" /\ evStage' = "runs" /\ fresh'
        /\ UNCHANGED <<eventKind, epollVars, semaphore, initval, fdsi, pollVars, generation, atCkpt>>
        /\ count' = count + (IF eventKind = "eventfd" THEN initval ELSE 0)
        /\ pending' = pending /\ Recorded' = Recorded
        /\ fresh' \in BOOLEAN
    BY <1>5 DEF RefillOnResume, Raised, Recorded, EventsInv, EventsTypeOK
  <2>2. /\ count = 0 /\ atCkpt = [interest |-> Recorded, count |-> initval, pending |-> atCkpt.pending]
        /\ pending = atCkpt.pending \ LowestOf(atCkpt.pending) /\ interest = Recorded
        /\ initval \in 0..MaxCount /\ MaxCount \in Nat /\ (eventKind # "eventfd" => initval = 0)
    BY <2>1, EventsAssumption DEF EventsInv, EventsTypeOK, EpollInv, CkptInv
  <2>3. count' = initval
    BY <2>1, <2>2
  <2>4. EventsTypeOK' /\ EpollInv'
    BY <2>1, <2>2, <2>3 DEF EventsInv, EventsTypeOK, EpollInv
  <2>5. CkptInv'
    BY <2>1, <2>2, <2>3 DEF EventsInv, CkptInv, LowestOf
  <2>6. PollInv'
    BY <2>1 DEF EventsInv, PollInv, EarlyPollRestarted
  <2> QED BY <2>4, <2>5, <2>6 DEF EventsInv
<1>6. CASE RecreateEvents
  <2>1. /\ evStage = "drained" /\ evStage' = "recreated" /\ interest' = {} /\ count' = initval
        /\ UNCHANGED <<eventKind, fdObj, opened, fdToEvent, epollSize, semaphore, initval, sigfdVars, pollVars,
                       generation, fresh, atCkpt>>
        /\ Recorded' = Recorded
    BY <1>6 DEF RecreateEvents, Recorded, EventsInv, EventsTypeOK
  <2>2. EventsTypeOK' /\ EpollInv'
    BY <2>1 DEF EventsInv, EventsTypeOK, EpollInv
  <2>3. CkptInv'
    BY <2>1 DEF EventsInv, CkptInv, LowestOf
  <2>4. PollInv'
    BY <2>1 DEF EventsInv, PollInv, EarlyPollRestarted
  <2> QED BY <2>2, <2>3, <2>4 DEF EventsInv
<1>7. CASE RefillOnRestart
  <2>1. /\ evStage = "recreated" /\ evStage' = "runs" /\ fresh'
        /\ UNCHANGED <<eventKind, fdObj, opened, fdToEvent, epollSize, counterVars, fdsi, pollVars, generation, atCkpt>>
        /\ interest' = Recorded /\ Recorded' = Recorded /\ pending' = pending
        /\ fresh' \in BOOLEAN
    <3>1. {g \in DOMAIN fdToEvent : fdObj[g] # 0} = DOMAIN fdToEvent /\ fdsi = 0
      BY DEF EventsInv, EpollInv, EventsTypeOK
    <3>2. interest' = Recorded
      BY <1>7, <3>1 DEF RefillOnRestart, Recorded
    <3> QED BY <1>7, <3>1, <3>2 DEF RefillOnRestart, Raised, Recorded
  <2>2. /\ atCkpt = [interest |-> Recorded, count |-> count, pending |-> atCkpt.pending]
        /\ pending = atCkpt.pending \ LowestOf(atCkpt.pending)
    BY <2>1 DEF EventsInv, CkptInv
  <2>3. EventsTypeOK' /\ EpollInv'
    BY <2>1 DEF EventsInv, EventsTypeOK, EpollInv
  <2>4. CkptInv'
    BY <2>1, <2>2 DEF EventsInv, CkptInv, LowestOf
  <2>5. PollInv'
    BY <2>1 DEF EventsInv, PollInv, EarlyPollRestarted
  <2> QED BY <2>3, <2>4, <2>5 DEF EventsInv
<1> QED BY <1>1, <1>2, <1>3, <1>4, <1>5, <1>6, <1>7, EpollKeeps, DataKeeps, PollKeeps DEF EventsNext

\* A program finds its epoll set and its eventfd's counter after a checkpoint and after a
\* restart as they were, of the signals pending for its signalfd all but the one that drain
\* reads, and a poll that was begun before the order to suspend and that a checkpoint
\* interrupts goes on: drain, postRestart and refill of the event connections, and the
\* poll wrapper, for any number of descriptors, signals and checkpoints.
THEOREM EventsAreTrue == WithinReach => (EventsSpec => []EventsTrue)
<1> SUFFICES ASSUME WithinReach
             PROVE  EventsSpec => []EventsTrue
  OBVIOUS
<1>1. EventsInv => EventsTrue
  BY DEF EventsInv, EventsTypeOK, CkptInv, PollInv, EventsTrue, EventsKept
<1>2. EventsInit => EventsInv
  BY InitEventsInv
<1>3. EventsInv /\ [EventsNext]_eventVars => EventsInv'
  BY NextEventsInv
<1> QED BY <1>1, <1>2, <1>3, PTL DEF EventsSpec

-----------------------------------------------------------------------------
(* Timers and clocks. *)

\* What the library keeps up with: one thread makes and deletes timers, no timer expires between
\* the stop and the image, an absolute timer expires once, and the clocks are of processes.
WithinTables ==
  /\ \A t, u \in TimerThreads : t = u
  /\ ~TicksWhileStopped
  /\ \A new \in Settings : new.flags = "absolute" => new.every = 0
  /\ \A o \in Owners : o.kind = "process"

TimerValue == [left : Nat, every : Nat]

TimersTypeOK ==
  /\ now \in Nat /\ tmStage \in {"runs", "stopped", "image"}
  /\ armed \in [DOMAIN armed -> TimerValue]
  /\ timerInfo \in [DOMAIN timerInfo -> [flags : {"relative", "absolute"},
                                        initial : TimerValue, curr : TimerValue]]
  /\ timerReal \in [DOMAIN timerInfo -> RealTimers]
  /\ expired \in [DOMAIN expired -> Nat] /\ DOMAIN timerInfo \subseteq DOMAIN expired
  /\ IsFiniteSet(DOMAIN expired) /\ DOMAIN expired = 1..Cardinality(DOMAIN expired)
  /\ inTimer \in [TimerThreads -> {Idle} \union [does : {"create"}, real : RealTimers]
                                  \union [does : {"delete"}, id : Nat]]

\* The table names the kernel's timers, but one whose deletion is under way; the id that a
\* creation under way has got is in no entry.
TimerTableInv ==
  /\ tmStage # "runs" => \A t \in TimerThreads : inTimer[t] = Idle
  /\ \A v, w \in DOMAIN timerInfo : timerReal[v] = timerReal[w] => v = w
  /\ \A v \in DOMAIN timerInfo :
       \/ timerReal[v] \in DOMAIN armed
       \/ \E t \in TimerThreads : inTimer[t] = [does |-> "delete", id |-> v]
  /\ \A t \in TimerThreads : inTimer[t].does = "create" =>
       /\ inTimer[t].real \in DOMAIN armed
       /\ \A v \in DOMAIN timerInfo : timerReal[v] # inTimer[t].real

\* An absolute timer that is armed is due at the time it was set to.
DueInv ==
  \A v \in DOMAIN timerInfo :
    timerInfo[v].flags = "absolute" /\ timerReal[v] \in DOMAIN armed =>
      /\ armed[timerReal[v]].every = 0 /\ timerInfo[v].initial.every = 0
      /\ armed[timerReal[v]].left > 0 =>
           timerInfo[v].initial.left = armed[timerReal[v]].left + now

\* While the threads are stopped time does not touch the timers; a restart sets them again.
StoppedInv ==
  /\ tmStage \in {"stopped", "image"} =>
       /\ atStop.time = now /\ atStop.expired = expired
       /\ \A v \in DOMAIN timerInfo : atStop.timers[v] = armed[timerReal[v]]
  /\ tmStage = "image" => \A v \in DOMAIN timerInfo : timerInfo[v].curr = armed[timerReal[v]]
  /\ TimersKept

\* Each clock id is in both tables, and it is its owner's clock.
ClockInv ==
  /\ clockList = [c \in DOMAIN clockList |-> clockList[c]]
  /\ DOMAIN clockReal = DOMAIN clockGot /\ DOMAIN clockList = DOMAIN clockGot
  /\ \A c \in DOMAIN clockGot :
       clockList[c] = clockGot[c] /\ clockReal[c] = clockOf[clockGot[c]]

TimersInv == TimersTypeOK /\ TimerTableInv /\ DueInv /\ StoppedInv /\ ClockInv

\* What a table has after an entry is added.
LEMMA ExtendedIs ==
  ASSUME NEW f, NEW x, NEW y
  PROVE  /\ DOMAIN Extended(f, x, y) = DOMAIN f \union {x}
         /\ Extended(f, x, y)[x] = y
         /\ \A z \in DOMAIN f : z # x => Extended(f, x, y)[z] = f[z]
BY DEF Extended

\* What a table has after an entry is taken out.
LEMMA WithoutIs ==
  ASSUME NEW f, NEW x
  PROVE  /\ DOMAIN Without(f, x) = DOMAIN f \ {x}
         /\ \A z \in DOMAIN f \ {x} : Without(f, x)[z] = f[z]
BY DEF Without

\* The time left, at least one unit of it.
LEMMA AtOnceIs ==
  ASSUME NEW a \in Nat, NEW b \in Nat
  PROVE  AtOnce(a, b) \in Nat
BY DEF AtOnce

\* Every entry names a timer of the kernel's, unless a deletion is under way.
LEMMA AllArmed ==
  ASSUME TimersInv, \A t \in TimerThreads : inTimer[t].does # "delete"
  PROVE  \A v \in DOMAIN timerInfo : timerReal[v] \in DOMAIN armed
<1>1. \A v : [does |-> "delete", id |-> v].does = "delete"
  OBVIOUS
<1>2. \A t \in TimerThreads, v \in DOMAIN timerInfo : inTimer[t] # [does |-> "delete", id |-> v]
  BY <1>1
<1> QED BY <1>2, Zenon DEF TimersInv, TimerTableInv

\* With one thread every step is its own.
LEMMA OneThread ==
  ASSUME WithinTables, NEW t \in TimerThreads
  PROVE  \A u \in TimerThreads : u = t
BY DEF WithinTables

\* The invariant holds at the start.
LEMMA InitTimersInv == TimersInit => TimersInv
<1> SUFFICES ASSUME TimersInit
             PROVE  TimersInv
  OBVIOUS
<1>1. DOMAIN armed = {} /\ DOMAIN timerInfo = {} /\ DOMAIN timerReal = {} /\ DOMAIN expired = {}
      /\ DOMAIN clockReal = {} /\ DOMAIN clockList = {} /\ DOMAIN clockGot = {}
  BY DEF TimersInit
<1>2. IsFiniteSet({}) /\ Cardinality({}) = 0 /\ {} = 1..0
  BY FS_EmptySet
<1>3. TimersTypeOK
  BY <1>1, <1>2 DEF TimersInit, TimersTypeOK, Idle
<1>4. TimerTableInv /\ DueInv /\ ClockInv
  BY <1>1 DEF TimersInit, TimerTableInv, DueInv, ClockInv, Idle
<1>5. StoppedInv
  BY DEF TimersInit, StoppedInv, TimersKept
<1> QED BY <1>3, <1>4, <1>5 DEF TimersInv

\* What the wrappers leave alone.
LEMMA WrapsKeep ==
  ASSUME TimersInv, tmStage = "runs", tmStage' = "runs", atStop' = Forgotten
  PROVE  StoppedInv'
BY DEF StoppedInv, TimersKept

\* A step of the timers leaves the clocks as they are.
LEMMA ClocksKeep ==
  ASSUME TimersInv, UNCHANGED clockVars
  PROVE  ClockInv'
BY DEF TimersInv, ClockInv, clockVars

\* timer_create: the kernel's id is new to the table.
LEMMA CreateKeeps ==
  ASSUME WithinTables, TimersInv, NEW t \in TimerThreads, NEW r \in RealTimers, TimerCreate(t, r)
  PROVE  TimersInv'
<1>1. /\ tmStage = "runs" /\ tmStage' = "runs" /\ inTimer[t] = Idle /\ r \notin DOMAIN armed
      /\ inTimer' = [inTimer EXCEPT ![t] = [does |-> "create", real |-> r]]
      /\ atStop' = Forgotten /\ armed' = Extended(armed, r, Unarmed)
      /\ UNCHANGED <<now, clockVars, timerInfo, timerReal, expired>>
  BY DEF TimerCreate, Wraps
<1>2. StoppedInv' /\ ClockInv'
  BY <1>1, WrapsKeep, ClocksKeep
<1>3. /\ DOMAIN armed' = DOMAIN armed \union {r} /\ armed'[r] = Unarmed
      /\ \A z \in DOMAIN armed : armed'[z] = armed[z]
      /\ armed' = [z \in DOMAIN armed' |-> armed'[z]]
  BY <1>1, ExtendedIs DEF Extended
<1>4. \A v \in DOMAIN timerInfo : timerReal[v] \in DOMAIN armed
  BY <1>1, AllArmed, OneThread DEF Idle
<1>5. Unarmed \in TimerValue /\ \A z \in DOMAIN armed : armed[z] \in TimerValue
  BY DEF Unarmed, TimerValue, TimersInv, TimersTypeOK
<1>6. armed' \in [DOMAIN armed' -> TimerValue]
  BY <1>3, <1>5
<1>7. TimersTypeOK'
  BY <1>1, <1>6 DEF TimersInv, TimersTypeOK
<1>8. \A u \in TimerThreads : inTimer'[u] = [does |-> "create", real |-> r]
  BY <1>1 DEF TimersInv, TimersTypeOK, WithinTables
<1>9. TimerTableInv'
  BY <1>1, <1>3, <1>4, <1>8 DEF TimersInv, TimerTableInv
<1>10. DueInv'
  BY <1>1, <1>3, <1>4 DEF TimersInv, DueInv
<1> QED BY <1>2, <1>7, <1>9, <1>10 DEF TimersInv

\* The entry of a new timer has an id of its own.
LEMMA OnCreateKeeps ==
  ASSUME WithinTables, TimersInv, NEW t \in TimerThreads, NEW r \in RealTimers, OnTimerCreate(t, r)
  PROVE  TimersInv'
<1> DEFINE n == Cardinality(DOMAIN expired)
           info == [flags |-> "relative", initial |-> Unarmed, curr |-> Unarmed]
<1>1. /\ tmStage = "runs" /\ tmStage' = "runs" /\ inTimer[t] = [does |-> "create", real |-> r]
      /\ inTimer' = [inTimer EXCEPT ![t] = Idle]
      /\ atStop' = Forgotten
      /\ UNCHANGED <<now, clockVars, armed>>
      /\ timerReal' = Extended(timerReal, 1 + n, r)
      /\ timerInfo' = Extended(timerInfo, 1 + n, info)
      /\ expired' = Extended(expired, 1 + n, 0)
  BY DEF OnTimerCreate, Wraps
<1>2. StoppedInv' /\ ClockInv'
  BY <1>1, WrapsKeep, ClocksKeep
<1>3. /\ IsFiniteSet(DOMAIN expired) /\ DOMAIN expired = 1..n
      /\ DOMAIN timerInfo \subseteq DOMAIN expired /\ DOMAIN timerReal = DOMAIN timerInfo
      /\ r \in DOMAIN armed /\ \A v \in DOMAIN timerInfo : timerReal[v] # r
      /\ armed[r] \in TimerValue
  BY <1>1 DEF TimersInv, TimersTypeOK, TimerTableInv
<1>4. n \in Nat /\ Cardinality(DOMAIN expired) = n
  BY <1>3, FS_CardinalityType
<1> HIDE DEF info, n
<1>5. /\ 1 + n \notin DOMAIN expired /\ DOMAIN expired \union {1 + n} = 1..(1 + n)
  BY <1>3, <1>4
<1>6. IsFiniteSet(DOMAIN expired \union {1 + n}) /\ Cardinality(DOMAIN expired \union {1 + n}) = 1 + n
  <2>1. 1 + n = n + 1
    BY <1>4
  <2> QED BY <1>3, <1>4, <1>5, <2>1, FS_AddElement
<1>7. /\ DOMAIN timerReal' = DOMAIN timerInfo \union {1 + n} /\ timerReal'[1 + n] = r
      /\ \A v \in DOMAIN timerInfo : timerReal'[v] = timerReal[v]
      /\ DOMAIN timerInfo' = DOMAIN timerInfo \union {1 + n} /\ timerInfo'[1 + n] = info
      /\ \A v \in DOMAIN timerInfo : timerInfo'[v] = timerInfo[v]
      /\ DOMAIN expired' = DOMAIN expired \union {1 + n} /\ expired'[1 + n] = 0
      /\ \A v \in DOMAIN expired : expired'[v] = expired[v]
  <2>1. 1 + n \notin DOMAIN timerInfo
    BY <1>3, <1>5
  <2>2. /\ DOMAIN timerReal' = DOMAIN timerInfo \union {1 + n} /\ timerReal'[1 + n] = r
        /\ \A v \in DOMAIN timerInfo : timerReal'[v] = timerReal[v]
    BY <1>1, <1>3, <2>1 DEF Extended
  <2>3. /\ DOMAIN timerInfo' = DOMAIN timerInfo \union {1 + n} /\ timerInfo'[1 + n] = info
        /\ \A v \in DOMAIN timerInfo : timerInfo'[v] = timerInfo[v]
    BY <1>1, <2>1 DEF Extended
  <2>4. /\ DOMAIN expired' = DOMAIN expired \union {1 + n} /\ expired'[1 + n] = 0
        /\ \A v \in DOMAIN expired : expired'[v] = expired[v]
    BY <1>1, <1>5 DEF Extended
  <2> QED BY <2>2, <2>3, <2>4
<1>8. /\ timerReal' = [v \in DOMAIN timerReal' |-> timerReal'[v]]
      /\ timerInfo' = [v \in DOMAIN timerInfo' |-> timerInfo'[v]]
      /\ expired' = [v \in DOMAIN expired' |-> expired'[v]]
  BY <1>1 DEF Extended
<1>9. info \in [flags : {"relative", "absolute"}, initial : TimerValue, curr : TimerValue]
      /\ info.flags = "relative"
  BY DEF info, Unarmed, TimerValue
<1>10. \A u \in TimerThreads : u = t /\ inTimer'[u] = Idle
  BY <1>1 DEF TimersInv, TimersTypeOK, WithinTables
<1>11. TimersTypeOK'
  <2>1. /\ timerInfo' \in [DOMAIN timerInfo' -> [flags : {"relative", "absolute"},
                                               initial : TimerValue, curr : TimerValue]]
    BY <1>7, <1>8, <1>9 DEF TimersInv, TimersTypeOK
  <2>2. timerReal' \in [DOMAIN timerInfo' -> RealTimers]
    BY <1>7, <1>8 DEF TimersInv, TimersTypeOK
  <2>3. /\ expired' \in [DOMAIN expired' -> Nat] /\ DOMAIN timerInfo' \subseteq DOMAIN expired'
    BY <1>3, <1>7, <1>8 DEF TimersInv, TimersTypeOK
  <2>4. IsFiniteSet(DOMAIN expired') /\ DOMAIN expired' = 1..Cardinality(DOMAIN expired')
    BY <1>5, <1>6, <1>7
  <2> QED BY <1>1, <1>10, <2>1, <2>2, <2>3, <2>4 DEF TimersInv, TimersTypeOK
<1>12. \A v \in DOMAIN timerInfo : timerReal[v] \in DOMAIN armed
  BY <1>1, AllArmed, OneThread
<1>13. TimerTableInv'
  BY <1>1, <1>3, <1>7, <1>10, <1>12 DEF TimersInv, TimerTableInv, Idle
<1>14. DueInv'
  BY <1>1, <1>7, <1>9, <1>12 DEF TimersInv, DueInv
<1> QED BY <1>2, <1>11, <1>13, <1>14 DEF TimersInv

\* timer_delete: the entry stays until the kernel's timer is gone.
LEMMA DeleteKeeps ==
  ASSUME WithinTables, TimersInv, NEW t \in TimerThreads, NEW v \in DOMAIN timerInfo, TimerDelete(t, v)
  PROVE  TimersInv'
<1>1. /\ tmStage = "runs" /\ tmStage' = "runs" /\ inTimer[t] = Idle
      /\ inTimer' = [inTimer EXCEPT ![t] = [does |-> "delete", id |-> v]]
      /\ atStop' = Forgotten /\ armed' = Without(armed, timerReal[v])
      /\ UNCHANGED <<now, clockVars, timerInfo, timerReal, expired>>
  BY DEF TimerDelete, Wraps
<1>2. StoppedInv' /\ ClockInv'
  BY <1>1, WrapsKeep, ClocksKeep
<1>3. /\ DOMAIN armed' = DOMAIN armed \ {timerReal[v]}
      /\ \A z \in DOMAIN armed' : armed'[z] = armed[z]
      /\ armed' = [z \in DOMAIN armed' |-> armed'[z]]
  BY <1>1, WithoutIs DEF Without
<1>4. \A w \in DOMAIN timerInfo : timerReal[w] \in DOMAIN armed
  BY <1>1, AllArmed, OneThread DEF Idle
<1>5. v \in Nat
  <2>1. /\ IsFiniteSet(DOMAIN expired) /\ DOMAIN expired = 1..Cardinality(DOMAIN expired)
        /\ v \in DOMAIN expired
    BY DEF TimersInv, TimersTypeOK
  <2>2. Cardinality(DOMAIN expired) \in Nat
    BY <2>1, FS_CardinalityType
  <2> QED BY <2>1, <2>2
<1>6. \A u \in TimerThreads : u = t /\ inTimer'[u] = [does |-> "delete", id |-> v]
  BY <1>1 DEF TimersInv, TimersTypeOK, WithinTables
<1>7. TimersTypeOK'
  <2>1. armed' \in [DOMAIN armed' -> TimerValue]
    BY <1>3 DEF TimersInv, TimersTypeOK
  <2>2. inTimer' \in [TimerThreads -> {Idle} \union [does : {"create"}, real : RealTimers]
                                      \union [does : {"delete"}, id : Nat]]
    BY <1>1, <1>5 DEF TimersInv, TimersTypeOK
  <2> QED BY <1>1, <2>1, <2>2 DEF TimersInv, TimersTypeOK
<1>8. TimerTableInv'
  BY <1>1, <1>3, <1>4, <1>6 DEF TimersInv, TimerTableInv
<1>9. DueInv'
  BY <1>1, <1>3 DEF TimersInv, DueInv
<1> QED BY <1>2, <1>7, <1>8, <1>9 DEF TimersInv

\* The entry of a deleted timer is taken out.
LEMMA OnDeleteKeeps ==
  ASSUME WithinTables, TimersInv, NEW t \in TimerThreads, NEW v \in DOMAIN timerInfo, OnTimerDelete(t, v)
  PROVE  TimersInv'
<1>1. /\ tmStage = "runs" /\ tmStage' = "runs" /\ inTimer[t] = [does |-> "delete", id |-> v]
      /\ inTimer' = [inTimer EXCEPT ![t] = Idle]
      /\ atStop' = Forgotten
      /\ timerReal' = Without(timerReal, v) /\ timerInfo' = Without(timerInfo, v)
      /\ UNCHANGED <<now, clockVars, armed, expired>>
  BY DEF OnTimerDelete, Wraps
<1>2. StoppedInv' /\ ClockInv'
  BY <1>1, WrapsKeep, ClocksKeep
<1>3. DOMAIN timerReal = DOMAIN timerInfo
  BY DEF TimersInv, TimersTypeOK
<1>4. /\ DOMAIN timerReal' = DOMAIN timerInfo \ {v} /\ DOMAIN timerInfo' = DOMAIN timerInfo \ {v}
      /\ \A w \in DOMAIN timerInfo \ {v} : timerReal'[w] = timerReal[w] /\ timerInfo'[w] = timerInfo[w]
      /\ timerReal' = [w \in DOMAIN timerReal' |-> timerReal'[w]]
      /\ timerInfo' = [w \in DOMAIN timerInfo' |-> timerInfo'[w]]
  BY <1>1, <1>3, WithoutIs DEF Without
<1>5. \A u \in TimerThreads : u = t /\ inTimer'[u] = Idle
  BY <1>1 DEF TimersInv, TimersTypeOK, WithinTables
<1>6. \A w \in DOMAIN timerInfo \ {v} : timerReal[w] \in DOMAIN armed
  <2> SUFFICES ASSUME NEW w \in DOMAIN timerInfo \ {v}
               PROVE  timerReal[w] \in DOMAIN armed
    OBVIOUS
  <2>1. \A u \in TimerThreads : inTimer[u].id = v
    BY <1>1, <1>5
  <2>2. \A u \in TimerThreads : inTimer[u] # [does |-> "delete", id |-> w]
    BY <2>1
  <2> QED BY <2>2 DEF TimersInv, TimerTableInv
<1>7. TimersTypeOK'
  <2>1. /\ timerInfo' \in [DOMAIN timerInfo' -> [flags : {"relative", "absolute"},
                                               initial : TimerValue, curr : TimerValue]]
        /\ timerReal' \in [DOMAIN timerInfo' -> RealTimers]
    BY <1>4 DEF TimersInv, TimersTypeOK
  <2> QED BY <1>1, <1>4, <1>5, <2>1 DEF TimersInv, TimersTypeOK
<1>8. TimerTableInv'
  BY <1>1, <1>4, <1>5, <1>6 DEF TimersInv, TimerTableInv, Idle
<1>9. DueInv'
  BY <1>1, <1>4 DEF TimersInv, DueInv
<1> QED BY <1>2, <1>7, <1>8, <1>9 DEF TimersInv

\* timer_settime records what an absolute timer was set to.
LEMMA SettimeKeeps ==
  ASSUME WithinTables, TimersInv, NEW t \in TimerThreads, NEW v \in DOMAIN timerInfo,
         NEW new \in Settings, TimerSettime(t, v, new)
  PROVE  TimersInv'
<1> DEFINE left == IF new.flags = "absolute" THEN AtOnce(new.value, now) ELSE new.value
           value == [left |-> left, every |-> new.every]
           info == [timerInfo[v] EXCEPT !.flags = new.flags,
                                        !.initial = [left |-> new.value, every |-> new.every]]
<1>1. /\ tmStage = "runs" /\ tmStage' = "runs" /\ inTimer[t] = Idle
      /\ inTimer' = [inTimer EXCEPT ![t] = Idle] /\ atStop' = Forgotten
      /\ v \in Live /\ armed' = [armed EXCEPT ![timerReal[v]] = value]
      /\ expired' = [expired EXCEPT ![v] = @ + (IF left = 0 /\ new.value > 0 THEN 1 ELSE 0)]
      /\ UNCHANGED <<now, clockVars, timerReal>>
  BY DEF TimerSettime, Wraps
<1>2. StoppedInv' /\ ClockInv'
  BY <1>1, WrapsKeep, ClocksKeep
<1>3. /\ new.flags \in {"relative", "absolute"} /\ new.value \in Nat /\ new.every \in Nat
      /\ now \in Nat
      /\ new.flags = "absolute" => new.every = 0
  BY TimersAssumption DEF TimersInv, TimersTypeOK, WithinTables
<1>4. left \in Nat
  BY <1>3, AtOnceIs
<1>5. new.flags = "absolute" /\ left > 0 => new.value = left + now
  BY <1>3 DEF AtOnce
<1>6. /\ timerInfo \in [DOMAIN timerInfo -> [flags : {"relative", "absolute"},
                                             initial : TimerValue, curr : TimerValue]]
      /\ timerInfo' = [timerInfo EXCEPT ![v].flags = new.flags,
                                       ![v].initial = [left |-> new.value, every |-> new.every]]
  BY DEF TimersInv, TimersTypeOK, TimerSettime
<1>7. /\ DOMAIN timerInfo' = DOMAIN timerInfo
      /\ \A w \in DOMAIN timerInfo : w # v => timerInfo'[w] = timerInfo[w]
      /\ timerInfo'[v].flags = new.flags
      /\ timerInfo'[v].initial = [left |-> new.value, every |-> new.every]
      /\ timerInfo' \in [DOMAIN timerInfo -> [flags : {"relative", "absolute"},
                                              initial : TimerValue, curr : TimerValue]]
  BY <1>3, <1>6 DEF TimerValue
<1> HIDE DEF left
<1>8. value \in TimerValue /\ value.left = left /\ value.every = new.every
  BY <1>3, <1>4 DEF TimerValue
<1> HIDE DEF value
<1>9. /\ DOMAIN armed' = DOMAIN armed /\ armed'[timerReal[v]] = value
      /\ \A r \in DOMAIN armed : r # timerReal[v] => armed'[r] = armed[r]
      /\ armed' \in [DOMAIN armed -> TimerValue] /\ timerReal[v] \in DOMAIN armed
  BY <1>1, <1>8 DEF TimersInv, TimersTypeOK, Live
<1>10. expired' \in [DOMAIN expired -> Nat]
  <2>1. expired \in [DOMAIN expired -> Nat] /\ v \in DOMAIN expired
    BY DEF TimersInv, TimersTypeOK
  <2>2. expired[v] + (IF left = 0 /\ new.value > 0 THEN 1 ELSE 0) \in Nat
    BY <2>1
  <2> QED BY <1>1, <2>1, <2>2
<1>11. inTimer' = inTimer
  BY <1>1 DEF TimersInv, TimersTypeOK
<1>12. TimersTypeOK'
  BY <1>1, <1>7, <1>9, <1>10, <1>11 DEF TimersInv, TimersTypeOK
<1>13. TimerTableInv'
  BY <1>1, <1>7, <1>9, <1>11 DEF TimersInv, TimerTableInv
<1>14. DueInv'
  <2> SUFFICES ASSUME NEW w \in DOMAIN timerInfo, timerInfo'[w].flags = "absolute",
                      timerReal[w] \in DOMAIN armed
               PROVE  /\ armed'[timerReal[w]].every = 0 /\ timerInfo'[w].initial.every = 0
                      /\ armed'[timerReal[w]].left > 0 =>
                           timerInfo'[w].initial.left = armed'[timerReal[w]].left + now
    BY <1>1, <1>7, <1>9 DEF DueInv
  <2>1. CASE w = v
    BY <1>3, <1>5, <1>7, <1>8, <1>9, <2>1
  <2>2. CASE w # v
    <3>1. timerReal[w] # timerReal[v]
      BY <2>2 DEF TimersInv, TimerTableInv
    <3>2. armed'[timerReal[w]] = armed[timerReal[w]] /\ timerInfo'[w] = timerInfo[w]
      BY <1>7, <1>9, <2>2, <3>1
    <3> QED BY <3>2 DEF TimersInv, DueInv
  <2> QED BY <2>1, <2>2
<1> QED BY <1>2, <1>12, <1>13, <1>14 DEF TimersInv

\* clock_getcpuclockid enters the id in both tables.
LEMMA ClockIdKeeps ==
  ASSUME WithinTables, TimersInv, NEW t \in TimerThreads, NEW o \in Owners, GetCpuClockId(t, o)
  PROVE  TimersInv'
<1> DEFINE v == [clock |-> 1 + Cardinality(DOMAIN clockGot)]
<1>1. /\ tmStage = "runs" /\ tmStage' = "runs" /\ atStop' = Forgotten
      /\ clockReal' = Extended(clockReal, v, clockOf[o])
      /\ clockList' = Extended(clockList, v, o)
      /\ clockGot' = Extended(clockGot, v, o)
      /\ UNCHANGED <<now, armed, tableVars, expired, clockOf>>
  BY DEF GetCpuClockId, WithinTables
<1> HIDE DEF v
<1>2. StoppedInv'
  BY <1>1, WrapsKeep
<1>3. ClockInv'
  <2>1. /\ DOMAIN clockReal' = DOMAIN clockReal \union {v} /\ clockReal'[v] = clockOf[o]
        /\ \A c \in DOMAIN clockReal : c # v => clockReal'[c] = clockReal[c]
    BY <1>1 DEF Extended
  <2>2. /\ DOMAIN clockList' = DOMAIN clockList \union {v} /\ clockList'[v] = o
        /\ \A c \in DOMAIN clockList : c # v => clockList'[c] = clockList[c]
        /\ clockList' = [c \in DOMAIN clockList' |-> clockList'[c]]
    BY <1>1, ExtendedIs DEF Extended
  <2>3. /\ DOMAIN clockGot' = DOMAIN clockGot \union {v} /\ clockGot'[v] = o
        /\ \A c \in DOMAIN clockGot : c # v => clockGot'[c] = clockGot[c]
    BY <1>1 DEF Extended
  <2>4. ClockInv
    BY DEF TimersInv
  <2> QED BY <1>1, <2>1, <2>2, <2>3, <2>4 DEF ClockInv
<1>4. TimersTypeOK' /\ TimerTableInv' /\ DueInv'
  BY <1>1 DEF TimersInv, TimersTypeOK, TimerTableInv, DueInv, tableVars
<1> QED BY <1>2, <1>3, <1>4 DEF TimersInv

\* Time passes for the armed timers while the threads run.
LEMMA TickKeeps ==
  ASSUME WithinTables, TimersInv, Tick
  PROVE  TimersInv'
<1>1. /\ tmStage = "runs" /\ tmStage' = "runs" /\ atStop' = Forgotten /\ now' = now + 1
      /\ armed' = [r \in DOMAIN armed |->
                    [armed[r] EXCEPT !.left = IF @ = 1 THEN armed[r].every ELSE AtOnce(@, 1)]]
      /\ expired' = [v \in DOMAIN expired |->
                      expired[v] + (IF v \in Live /\ armed[timerReal[v]].left = 1 THEN 1 ELSE 0)]
      /\ UNCHANGED <<tableVars, clockVars>>
  BY DEF Tick, WithinTables
<1>2. StoppedInv' /\ ClockInv'
  BY <1>1, WrapsKeep, ClocksKeep
<1>3. \A r \in DOMAIN armed : armed[r] \in [left : Nat, every : Nat]
  BY DEF TimersInv, TimersTypeOK, TimerValue
<1>4. ASSUME NEW r \in DOMAIN armed
      PROVE  /\ armed'[r] \in TimerValue /\ armed'[r].every = armed[r].every
             /\ armed'[r].left = IF armed[r].left = 1 THEN armed[r].every
                                 ELSE IF armed[r].left > 1 THEN armed[r].left - 1 ELSE 0
  <2>1. armed[r].left \in Nat /\ armed[r].every \in Nat
    BY <1>3
  <2>2. (IF armed[r].left = 1 THEN armed[r].every ELSE AtOnce(armed[r].left, 1)) \in Nat
    BY <2>1, AtOnceIs
  <2>3. armed'[r] = [armed[r] EXCEPT !.left = IF armed[r].left = 1 THEN armed[r].every
                                              ELSE AtOnce(armed[r].left, 1)]
    BY <1>1
  <2>4. armed'[r] \in TimerValue /\ armed'[r].every = armed[r].every
    BY <1>3, <2>2, <2>3 DEF TimerValue
  <2> QED BY <1>3, <2>3, <2>4 DEF AtOnce
<1>5. DOMAIN armed' = DOMAIN armed /\ armed' \in [DOMAIN armed -> TimerValue]
  BY <1>1, <1>4
<1>6. expired' \in [DOMAIN expired -> Nat]
  <2>1. \A v \in DOMAIN expired : expired[v] \in Nat
    BY DEF TimersInv, TimersTypeOK
  <2>2. \A v \in DOMAIN expired :
          expired[v] + (IF v \in Live /\ armed[timerReal[v]].left = 1 THEN 1 ELSE 0) \in Nat
    BY <2>1
  <2> QED BY <1>1, <2>2
<1>7. TimersTypeOK'
  <2>1. now' \in Nat /\ DOMAIN expired' = DOMAIN expired
    BY <1>1 DEF TimersInv, TimersTypeOK
  <2> QED BY <1>1, <1>5, <1>6, <2>1 DEF TimersInv, TimersTypeOK, tableVars
<1>8. TimerTableInv'
  BY <1>1, <1>5 DEF TimersInv, TimerTableInv, tableVars
<1>9. DueInv'
  <2> SUFFICES ASSUME NEW v \in DOMAIN timerInfo, timerInfo[v].flags = "absolute",
                      timerReal[v] \in DOMAIN armed
               PROVE  /\ armed'[timerReal[v]].every = 0 /\ timerInfo[v].initial.every = 0
                      /\ armed'[timerReal[v]].left > 0 =>
                           timerInfo[v].initial.left = armed'[timerReal[v]].left + now'
    BY <1>1, <1>5 DEF DueInv, tableVars
  <2>1. /\ armed[timerReal[v]].every = 0 /\ timerInfo[v].initial.every = 0
        /\ armed[timerReal[v]].left > 0 => timerInfo[v].initial.left = armed[timerReal[v]].left + now
        /\ armed[timerReal[v]].left \in Nat /\ now \in Nat
    BY <1>3 DEF TimersInv, TimersTypeOK, DueInv
  <2>2. armed'[timerReal[v]].every = 0
    BY <1>4, <2>1
  <2>3. armed[timerReal[v]].left <= 1 => armed'[timerReal[v]].left = 0
    BY <1>4, <2>1
  <2>4. armed[timerReal[v]].left > 1 => armed'[timerReal[v]].left = armed[timerReal[v]].left - 1
    BY <1>4, <2>1
  <2>5. now' = now + 1
    BY <1>1
  <2>6. CASE armed[timerReal[v]].left <= 1
    <3>1. ~(armed'[timerReal[v]].left > 0)
      BY <2>3, <2>6
    <3> QED BY <2>1, <2>2, <3>1
  <2>7. CASE armed[timerReal[v]].left > 1
    <3>1. timerInfo[v].initial.left = armed'[timerReal[v]].left + now'
      BY <2>1, <2>4, <2>5, <2>7
    <3> QED BY <2>1, <2>2, <3>1
  <2> QED BY <2>1, <2>6, <2>7
<1> QED BY <1>2, <1>7, <1>8, <1>9 DEF TimersInv

\* The stop remembers each timer, the checkpoint records its time left, and on resume it goes on.
LEMMA CheckpointKeeps ==
  ASSUME WithinTables, TimersInv, StopForImage \/ PreCheckpoint \/ ResumeTimers
  PROVE  TimersInv'
<1>1. CASE StopForImage
  <2>1. /\ tmStage' = "stopped" /\ atStop' = Left /\ \A t \in TimerThreads : inTimer[t] = Idle
        /\ UNCHANGED <<now, armed, tableVars, expired, clockVars>>
    BY <1>1 DEF StopForImage
  <2>2. \A v \in DOMAIN timerInfo : timerReal[v] \in DOMAIN armed
    BY <2>1, AllArmed DEF Idle
  <2>3. Live = DOMAIN timerInfo
    BY <2>2 DEF Live
  <2>4. StoppedInv'
    BY <2>1, <2>3 DEF StoppedInv, TimersKept, Left, tableVars
  <2>5. TimersTypeOK' /\ TimerTableInv' /\ DueInv' /\ ClockInv'
    BY <2>1 DEF TimersInv, TimersTypeOK, TimerTableInv, DueInv, ClockInv, tableVars, clockVars
  <2> QED BY <2>4, <2>5 DEF TimersInv
<1>2. CASE PreCheckpoint
  <2>1. /\ tmStage = "stopped" /\ tmStage' = "image"
        /\ timerInfo' = [v \in DOMAIN timerInfo |-> [timerInfo[v] EXCEPT !.curr = armed[timerReal[v]]]]
        /\ UNCHANGED <<now, armed, timerReal, inTimer, expired, clockOf, clockReal, clockGot, atStop>>
        /\ \A t \in TimerThreads : inTimer[t] = Idle
    BY <1>2 DEF PreCheckpoint, TimersInv, TimerTableInv
  <2>2. \A v \in DOMAIN timerInfo : timerReal[v] \in DOMAIN armed /\ armed[timerReal[v]] \in TimerValue
    <3>1. \A v \in DOMAIN timerInfo : timerReal[v] \in DOMAIN armed
      BY <2>1, AllArmed DEF Idle
    <3> QED BY <3>1 DEF TimersInv, TimersTypeOK
  <2>3. timerInfo \in [DOMAIN timerInfo -> [flags : {"relative", "absolute"},
                                           initial : TimerValue, curr : TimerValue]]
    BY DEF TimersInv, TimersTypeOK
  <2>4. /\ DOMAIN timerInfo' = DOMAIN timerInfo
        /\ \A v \in DOMAIN timerInfo :
             /\ timerInfo'[v].flags = timerInfo[v].flags /\ timerInfo'[v].initial = timerInfo[v].initial
             /\ timerInfo'[v].curr = armed[timerReal[v]]
        /\ timerInfo' \in [DOMAIN timerInfo -> [flags : {"relative", "absolute"},
                                                initial : TimerValue, curr : TimerValue]]
    BY <2>1, <2>2, <2>3
  <2>5. clockList' = clockList
    <3>1. {d \in DOMAIN clockList : d \notin DOMAIN clockReal \/ clockReal[d] = clockOf[clockList[d]]}
            = DOMAIN clockList
      BY DEF TimersInv, ClockInv
    <3>2. clockList = [c \in DOMAIN clockList |-> clockList[c]]
      BY DEF TimersInv, ClockInv
    <3> QED BY <1>2, <3>1, <3>2 DEF PreCheckpoint
  <2>6. TimersTypeOK' /\ TimerTableInv' /\ DueInv'
    <3>1. TimersTypeOK'
      BY <2>1, <2>4 DEF TimersInv, TimersTypeOK
    <3>2. TimerTableInv'
      BY <2>1, <2>4 DEF TimersInv, TimerTableInv
    <3>3. DueInv'
      BY <2>1, <2>4 DEF TimersInv, DueInv
    <3> QED BY <3>1, <3>2, <3>3
  <2>7. StoppedInv'
    BY <2>1, <2>4 DEF TimersInv, StoppedInv, TimersKept
  <2>8. ClockInv'
    BY <2>1, <2>5 DEF TimersInv, ClockInv
  <2> QED BY <2>6, <2>7, <2>8 DEF TimersInv
<1>3. CASE ResumeTimers
  <2>1. tmStage' = "runs" /\ atStop' = Forgotten /\ UNCHANGED <<now, armed, tableVars, expired, clockVars>>
    BY <1>3 DEF ResumeTimers
  <2>2. StoppedInv'
    BY <2>1 DEF StoppedInv, TimersKept
  <2>3. TimersTypeOK' /\ TimerTableInv' /\ DueInv' /\ ClockInv'
    BY <2>1 DEF TimersInv, TimersTypeOK, TimerTableInv, DueInv, ClockInv, tableVars, clockVars
  <2> QED BY <2>2, <2>3 DEF TimersInv
<1> QED BY <1>1, <1>2, <1>3

\* A timer that is set again has the time left that it had, an absolute one what is left of it.
LEMMA SetAgainIs ==
  ASSUME TimersInv, tmStage = "image", NEW v \in DOMAIN timerInfo, NEW later \in Nat,
         NEW was, was = timerInfo[v].curr, NEW passed,
         passed = IF timerInfo[v].flags = "absolute" THEN later ELSE 0
  PROVE  /\ SetAgain(v, now + later) \in TimerValue
         /\ SetAgain(v, now + later) = IF was.left = 0 THEN Unarmed
                                      ELSE [was EXCEPT !.left = AtOnce(@, passed)]
         /\ was.left > 0 => (was.left <= passed
                               <=> timerInfo[v].flags = "absolute" /\ SetAgain(v, now + later).left = 0)
         /\ timerInfo[v].flags = "absolute" =>
              /\ SetAgain(v, now + later).every = 0 /\ timerInfo[v].initial.every = 0
              /\ SetAgain(v, now + later).left > 0 =>
                   timerInfo[v].initial.left = SetAgain(v, now + later).left + (now + later)
<1> DEFINE first == timerInfo[v].initial
<1>1. /\ was \in [left : Nat, every : Nat] /\ first \in [left : Nat, every : Nat] /\ now \in Nat
      /\ timerInfo[v].flags \in {"relative", "absolute"}
  BY DEF TimersInv, TimersTypeOK, TimerValue
<1>2. timerReal[v] \in DOMAIN armed
  <2>1. \A t \in TimerThreads : inTimer[t].does # "delete"
    BY DEF TimersInv, TimerTableInv, Idle
  <2> QED BY <2>1, AllArmed
<1>3. timerInfo[v].flags = "absolute" =>
        /\ was.every = 0 /\ first.every = 0
        /\ was.left > 0 => first.left = was.left + now
  BY <1>2 DEF TimersInv, TimerTableInv, StoppedInv, DueInv
<1>4. was = [left |-> was.left, every |-> was.every] /\ first = [left |-> first.left, every |-> first.every]
      /\ {was.left, was.every, first.left, first.every} \subseteq Nat
  BY <1>1
<1>5. CASE was.left = 0
  <2>1. SetAgain(v, now + later) = Unarmed
    BY <1>5 DEF SetAgain
  <2> QED BY <1>3, <1>5, <2>1 DEF Unarmed, TimerValue
<1>6. CASE was.left # 0 /\ timerInfo[v].flags = "absolute"
  <2>1. SetAgain(v, now + later) = [left |-> AtOnce(first.left, now + later), every |-> first.every]
    BY <1>4, <1>6 DEF SetAgain, SpecOf
  <2>2. [was EXCEPT !.left = AtOnce(@, passed)] = [left |-> AtOnce(was.left, later), every |-> was.every]
    BY <1>4, <1>6
  <2>3. first.left = was.left + now /\ first.every = 0 /\ was.every = 0
    BY <1>3, <1>4, <1>6
  <2>4. AtOnce(first.left, now + later) = AtOnce(was.left, later) /\ AtOnce(was.left, later) \in Nat
    BY <1>1, <1>4, <2>3 DEF AtOnce
  <2>5. AtOnce(was.left, later) = 0 <=> was.left <= later
    BY <1>4 DEF AtOnce
  <2>6. AtOnce(was.left, later) > 0 => first.left = AtOnce(was.left, later) + (now + later)
    BY <1>1, <1>4, <2>3 DEF AtOnce
  <2> QED BY <1>6, <2>1, <2>2, <2>3, <2>4, <2>5, <2>6 DEF TimerValue
<1>7. CASE was.left # 0 /\ timerInfo[v].flags # "absolute"
  <2>1. SetAgain(v, now + later) = was
    BY <1>4, <1>7 DEF SetAgain, SpecOf
  <2>2. AtOnce(was.left, passed) = was.left /\ passed = 0
    BY <1>4, <1>7 DEF AtOnce
  <2>3. [was EXCEPT !.left = AtOnce(@, passed)] = was
    BY <1>4, <2>2
  <2> QED BY <1>1, <1>4, <1>7, <2>1, <2>2, <2>3 DEF TimerValue
<1> QED BY <1>5, <1>6, <1>7

\* postRestart makes each timer again with its time left.
LEMMA RestartKeeps ==
  ASSUME WithinTables, TimersInv, NEW later \in 0..(MaxNow - now),
         NEW ids \in [DOMAIN timerReal -> RealTimers], NEW clocks,
         \A v, w \in DOMAIN ids : ids[v] = ids[w] => v = w, PostRestart(later, ids, clocks)
  PROVE  TimersInv'
<1>1. /\ tmStage = "image" /\ tmStage' = "runs" /\ now' = now + later /\ timerReal' = ids
      /\ armed' = [r \in {ids[v] : v \in DOMAIN ids} |->
                     SetAgain(CHOOSE v \in DOMAIN ids : ids[v] = r, now + later)]
      /\ expired' = [v \in DOMAIN expired |->
                       atStop.expired[v] + (IF /\ v \in DOMAIN ids /\ timerInfo[v].flags = "absolute"
                                               /\ timerInfo[v].curr.left > 0
                                               /\ SetAgain(v, now + later).left = 0
                                            THEN 1 ELSE 0)]
      /\ clockOf' = clocks /\ clockReal' = Refreshed(clocks)
      /\ UNCHANGED <<timerInfo, inTimer, clockList, clockGot, atStop>>
  BY DEF PostRestart
<1>2. /\ DOMAIN ids = DOMAIN timerInfo /\ now \in Nat /\ later \in Nat /\ now' \in Nat
      /\ DOMAIN timerInfo \subseteq DOMAIN expired /\ expired \in [DOMAIN expired -> Nat]
      /\ atStop.expired = expired /\ atStop.time = now
      /\ \A v \in DOMAIN timerInfo : atStop.timers[v] = timerInfo[v].curr
      /\ \A t \in TimerThreads : inTimer[t] = Idle
  BY <1>1, TimersAssumption DEF TimersInv, TimersTypeOK, TimerTableInv, StoppedInv
<1>3. \A v \in DOMAIN timerInfo : ids[v] \in DOMAIN armed' /\ armed'[ids[v]] = SetAgain(v, now + later)
  <2> SUFFICES ASSUME NEW v \in DOMAIN timerInfo
               PROVE  ids[v] \in DOMAIN armed' /\ armed'[ids[v]] = SetAgain(v, now + later)
    OBVIOUS
  <2>1. (CHOOSE w \in DOMAIN ids : ids[w] = ids[v]) = v
    BY <1>2
  <2> QED BY <1>1, <1>2, <2>1
<1>4. \A v \in DOMAIN timerInfo : SetAgain(v, now + later) \in TimerValue
  BY <1>1, <1>2, SetAgainIs
<1>5. armed' \in [DOMAIN armed' -> TimerValue]
  <2>1. DOMAIN armed' = {ids[v] : v \in DOMAIN ids} /\ armed' = [r \in DOMAIN armed' |-> armed'[r]]
    BY <1>1
  <2>2. \A r \in DOMAIN armed' : armed'[r] \in TimerValue
    BY <1>2, <1>3, <1>4, <2>1
  <2> QED BY <2>1, <2>2
<1>6. expired' \in [DOMAIN expired -> Nat]
  <2>1. \A v \in DOMAIN expired : expired'[v] \in Nat
    BY <1>1, <1>2
  <2> QED BY <1>1, <2>1
<1>7. TimersTypeOK'
  <2>1. DOMAIN expired' = DOMAIN expired
    BY <1>1
  <2> QED BY <1>1, <1>2, <1>5, <1>6, <2>1 DEF TimersInv, TimersTypeOK
<1>8. TimerTableInv'
  BY <1>1, <1>2, <1>3 DEF TimersInv, TimerTableInv, Idle
<1>9. DueInv'
  <2>1. \A v \in DOMAIN timerInfo : timerInfo[v].flags = "absolute" =>
          /\ SetAgain(v, now + later).every = 0 /\ timerInfo[v].initial.every = 0
          /\ SetAgain(v, now + later).left > 0 =>
               timerInfo[v].initial.left = SetAgain(v, now + later).left + (now + later)
    BY <1>1, <1>2, SetAgainIs
  <2> QED BY <1>1, <1>2, <1>3, <2>1 DEF DueInv
<1>10. StoppedInv'
  <2> SUFFICES TimersKept'
    BY <1>1 DEF StoppedInv
  <2> SUFFICES ASSUME NEW v \in DOMAIN timerInfo
               PROVE  LET was == atStop.timers[v]
                          passed == IF timerInfo[v].flags = "absolute" THEN now - atStop.time ELSE 0
                          late == was.left > 0 /\ was.left <= passed
                      IN  (/\ armed[timerReal[v]] =
                               (IF was.left = 0 THEN Unarmed
                                ELSE [was EXCEPT !.left = AtOnce(@, passed)])
                           /\ expired[v] = atStop.expired[v] + (IF late THEN 1 ELSE 0))'
    BY <1>1, Zenon DEF TimersKept
  <2> DEFINE was == timerInfo[v].curr
             passed == IF timerInfo[v].flags = "absolute" THEN later ELSE 0
  <2>1. /\ atStop.timers[v] = was
        /\ passed = IF timerInfo[v].flags = "absolute" THEN now' - atStop.time ELSE 0
    BY <1>1, <1>2
  <2>2. /\ armed'[timerReal'[v]] = SetAgain(v, now + later)
        /\ expired'[v] = atStop.expired[v] + (IF /\ timerInfo[v].flags = "absolute" /\ was.left > 0
                                                 /\ SetAgain(v, now + later).left = 0
                                              THEN 1 ELSE 0)
    BY <1>1, <1>2, <1>3
  <2>3. /\ SetAgain(v, now + later) = IF was.left = 0 THEN Unarmed
                                      ELSE [was EXCEPT !.left = AtOnce(@, passed)]
        /\ was.left > 0 => (was.left <= passed
                               <=> timerInfo[v].flags = "absolute" /\ SetAgain(v, now + later).left = 0)
    BY <1>1, <1>2, SetAgainIs
  <2> HIDE DEF was, passed
  <2>4. atStop' = atStop /\ timerInfo' = timerInfo
    BY <1>1
  <2> QED BY <2>1, <2>2, <2>3, <2>4
<1>11. ClockInv'
  BY <1>1 DEF TimersInv, ClockInv, Refreshed
<1> QED BY <1>7, <1>8, <1>9, <1>10, <1>11 DEF TimersInv

\* Every step of the timers keeps the invariant.
LEMMA NextTimersInv == WithinTables /\ TimersInv /\ [TimersNext]_timerVars => TimersInv'
<1> SUFFICES ASSUME WithinTables, TimersInv, [TimersNext]_timerVars
             PROVE  TimersInv'
  OBVIOUS
<1>1. CASE UNCHANGED timerVars
  BY <1>1 DEF timerVars, tableVars, clockVars, stageVars, TimersInv, TimersTypeOK, TimerTableInv, DueInv,
              StoppedInv, TimersKept, ClockInv
<1>2. CASE RestartTimers
  BY <1>2, RestartKeeps DEF RestartTimers
<1> QED BY <1>1, <1>2, CreateKeeps, OnCreateKeeps, DeleteKeeps, OnDeleteKeeps, SettimeKeeps, ClockIdKeeps,
           TickKeeps, CheckpointKeeps DEF TimersNext

\* After a restart each timer has the time left it had when the threads stopped and no expiry is
\* lost or told twice, a clock id measures the process it was given for, and the id of a
\* new timer is in no entry: the wrappers and postRestart of the timer plugin, for one
\* thread that makes any number of timers and any number of clocks.
THEOREM TimersAreTrue == WithinTables => (TimersSpec => []TimersTrue)
<1> SUFFICES ASSUME WithinTables
             PROVE  TimersSpec => []TimersTrue
  OBVIOUS
<1>1. TimersInv => TimersTrue
  BY DEF TimersInv, TimersTypeOK, TimerTableInv, StoppedInv, ClockInv, TimersTrue, ClocksTrue, NewTimerUnknown
<1>2. TimersInit => TimersInv
  BY InitTimersInv
<1>3. TimersInv /\ [TimersNext]_timerVars => TimersInv'
  BY NextTimersInv
<1> QED BY <1>1, <1>2, <1>3, PTL DEF TimersSpec

-----------------------------------------------------------------------------
(* Programs under control. *)

\* What programs do, as far as the wrappers keep up with it: they leave the environment in place
\* and repeat it in the environments they make, with a LD_PRELOAD of their own in those; their
\* LD_PRELOAD names no library of DMTCP's; no copied setuid program fails to be executed, no
\* static program forks, ssh is given a command and no ptrace, and errno is clear.
WithinControl ==
  /\ ~ClearsEnv /\ ~SetuidFails /\ ~StaticForks /\ ~StaleErrno /\ FALSE \notin Copies
  /\ "login" \notin Executed /\ ("ssh" \in Executed => "ptrace" \notin LaunchOptions)
  /\ <<>> \notin OwnPreloads
  /\ \A user \in UserPreloads \cup OwnPreloads : "dmtcp" \notin ToSet(user)

\* What LD_PRELOAD may hold.
Library == {"plugin", "ptrace", "ipc", "dmtcp", "pid"}
             \cup UNION {ToSet(user) : user \in UserPreloads \cup OwnPreloads}

Environment ==
  [names : SUBSET (ENV_VARS_ALL \cup {"MTCP_SIGCKPT"}), hijack : Seq(Library), preload : Seq(Library),
   vpid : {<<>>} \cup (Nat \X Nat), serial : {<<>>} \cup (Nat \X Nat)]

LaunchTypeOK ==
  /\ env \in Environment
  /\ launchStage \in {"start", "remote", "loading", "runs", "shell", "static", "free", "gone"}
  /\ who \in Nat \X Nat /\ identity \in Nat /\ pids \in Nat /\ tries \in Nat
  /\ wanted \subseteq LaunchOptions /\ meant \in Seq(Library)

\* The environment has what was asked for, and what passes it on.
Carries(e) ==
  /\ wanted \cap OptionVars \subseteq e.names /\ "utility" \in e.names
  /\ "signal" \in wanted => "MTCP_SIGCKPT" \in e.names
  /\ wanted \cap {"plugin", "ptrace"} \subseteq ToSet(e.hijack) /\ "dmtcp" \in ToSet(e.hijack)

\* From the launch on the environment carries the settings; only ssh's has but the options.
CarriedInv ==
  /\ launchStage \in {"loading", "static", "runs", "shell"} => Carries(env)
  /\ launchStage = "remote" => wanted \cap OptionVars \subseteq env.names /\ "ptrace" \notin wanted

\* LD_PRELOAD is the program's own, with the libraries before it while a program is executed.
HiddenInv ==
  /\ "dmtcp" \notin ToSet(meant)
  /\ launchStage \in {"loading", "static"} => env.preload = env.hijack \o meant
  /\ launchStage \in {"runs", "shell", "free"} => env.preload = meant

\* A table file that is named is there, and it names the process.
IdentityInv ==
  /\ launchStage \in {"start", "remote", "free"} => env.serial = <<>>
  /\ launchStage \in {"loading", "static"} /\ env.serial # <<>> =>
       env.serial \in tables /\ env.serial[1] = who[1]
  /\ launchStage \in {"loading", "static", "runs", "shell"} => env.vpid \in {who, <<>>}
  /\ launchStage \in {"runs", "shell"} => identity = who[1]

\* The program that runs was loaded with the settings and one signal.
LoadedInv ==
  launchStage = "runs" =>
    /\ Carries(loaded.with) /\ "dmtcp" \in ToSet(loaded.with.preload)
    /\ loaded.dmtcp = loaded.mtcp /\ ("signal" \in wanted => loaded.mtcp = "chosen")

LaunchInv == LaunchTypeOK /\ CarriedInv /\ HiddenInv /\ IdentityInv /\ LoadedInv

\* The members of a sequence.
LEMMA ToSetIs ==
  ASSUME NEW q \in Seq(Library)
  PROVE  ToSet(q) = {q[i] : i \in 1..Len(q)}
BY LenProperties DEF ToSet

\* The members of two sequences in a row.
LEMMA ToSetOfConcat ==
  ASSUME NEW q \in Seq(Library), NEW r \in Seq(Library)
  PROVE  ToSet(q) \subseteq ToSet(q \o r) /\ q \o r \in Seq(Library)
<1>1. /\ q \o r \in Seq(Library) /\ Len(q \o r) = Len(q) + Len(r)
      /\ \A i \in 1..Len(q) + Len(r) : (q \o r)[i] = IF i <= Len(q) THEN q[i] ELSE r[i - Len(q)]
      /\ Len(q) \in Nat /\ Len(r) \in Nat
  BY ConcatProperties, LenProperties
<1>2. \A i \in 1..Len(q) : i \in 1..Len(q \o r) /\ (q \o r)[i] = q[i]
  BY <1>1
<1>3. ToSet(q) = {q[i] : i \in 1..Len(q)} /\ ToSet(q \o r) = {(q \o r)[i] : i \in 1..Len(q \o r)}
  BY <1>1, ToSetIs
<1> QED BY <1>1, <1>2, <1>3

\* Libraries before a LD_PRELOAD are taken off again.
LEMMA PrefixOff ==
  ASSUME NEW q \in Seq(Library), NEW r \in Seq(Library)
  PROVE  IsPrefix(q, q \o r) /\ SubSeq(q \o r, Len(q) + 1, Len(q \o r)) = r
<1>1. /\ q \o r \in Seq(Library) /\ Len(q \o r) = Len(q) + Len(r)
      /\ \A i \in 1..Len(q) + Len(r) : (q \o r)[i] = IF i <= Len(q) THEN q[i] ELSE r[i - Len(q)]
      /\ Len(q) \in Nat /\ Len(r) \in Nat
  BY ConcatProperties, LenProperties
<1>2. /\ \A i \in 1..Len(q) : q[i] \in Library /\ (q \o r)[i] \in Library
      /\ \A i \in Len(q) + 1..Len(q) + Len(r) : (q \o r)[i] \in Library
  BY <1>1, ElementOfSeq
<1>3. SubSeq(q, 1, Len(q)) = SubSeq(q \o r, 1, Len(q))
  <2> DEFINE a == SubSeq(q, 1, Len(q))
             b == SubSeq(q \o r, 1, Len(q))
  <2>1. /\ a \in Seq(Library) /\ Len(a) = Len(q) /\ \A i \in 1..Len(q) : a[i] = q[i]
    BY <1>1, <1>2, SubSeqProperties
  <2>2. /\ b \in Seq(Library) /\ Len(b) = Len(q) /\ \A i \in 1..Len(q) : b[i] = (q \o r)[i]
    BY <1>1, <1>2, SubSeqProperties
  <2> HIDE DEF a, b
  <2>3. \A i \in 1..Len(a) : a[i] = b[i]
    BY <1>1, <2>1, <2>2
  <2>4. a = b
    BY <2>1, <2>2, <2>3, SeqEqual
  <2> QED BY <2>4 DEF a, b
<1>4. SubSeq(q \o r, Len(q) + 1, Len(q \o r)) = r
  <2> DEFINE b == SubSeq(q \o r, Len(q) + 1, Len(q \o r))
  <2>1. /\ b \in Seq(Library) /\ Len(b) = Len(r) /\ \A i \in 1..Len(r) : b[i] = (q \o r)[Len(q) + i]
    <3>1. \A i \in Len(q) + 1..Len(q \o r) : (q \o r)[i] \in Library
      BY <1>1, <1>2
    <3>2. /\ b \in Seq(Library)
          /\ Len(b) = IF Len(q) + 1 <= Len(q \o r) THEN Len(q \o r) - (Len(q) + 1) + 1 ELSE 0
          /\ \A i \in 1..Len(q \o r) - (Len(q) + 1) + 1 : b[i] = (q \o r)[Len(q) + 1 + i - 1]
      BY <1>1, <3>1, SubSeqProperties
    <3> HIDE DEF b
    <3>3. Len(q \o r) - (Len(q) + 1) + 1 = Len(r)
      BY <1>1
    <3>4. Len(b) = Len(r)
      BY <1>1, <3>2
    <3>5. \A i \in 1..Len(r) : Len(q) + 1 + i - 1 = Len(q) + i
      BY <1>1
    <3> QED BY <3>2, <3>3, <3>4, <3>5
  <2> HIDE DEF b
  <2>2. \A i \in 1..Len(b) : b[i] = r[i]
    BY <1>1, <2>1
  <2>3. b = r
    BY <2>1, <2>2, SeqEqual
  <2> QED BY <2>3 DEF b
<1> QED BY <1>1, <1>3, <1>4 DEF IsPrefix

\* A LD_PRELOAD without the library does not begin with the libraries.
LEMMA NoPrefix ==
  ASSUME NEW q \in Seq(Library), NEW r \in Seq(Library), "dmtcp" \in ToSet(q), "dmtcp" \notin ToSet(r)
  PROVE  ~IsPrefix(q, r)
<1> SUFFICES ASSUME IsPrefix(q, r)
             PROVE  FALSE
  OBVIOUS
<1>1. Len(q) \in Nat /\ Len(r) \in Nat /\ Len(q) <= Len(r)
      /\ SubSeq(q, 1, Len(q)) = SubSeq(r, 1, Len(q))
  BY LenProperties DEF IsPrefix
<1>2. (\A i \in 1..Len(q) : q[i] \in Library) /\ (\A i \in 1..Len(q) : r[i] \in Library)
  BY <1>1, ElementOfSeq
<1>3. \A i \in 1..Len(q) : SubSeq(q, 1, Len(q))[i] = q[i]
  BY <1>1, <1>2, SubSeqProperties
<1>4. \A i \in 1..Len(q) : SubSeq(r, 1, Len(q))[i] = r[i]
  BY <1>1, <1>2, SubSeqProperties
<1>5. \A i \in 1..Len(q) : q[i] = r[i] /\ i \in 1..Len(r)
  BY <1>1, <1>3, <1>4
<1> QED BY <1>5, ToSetIs

\* What PreloadLibs gives has the plugins that were asked for.
LEMMA LibsAre ==
  ASSUME NEW names, NEW options
  PROVE  /\ PreloadLibs(names, options) \in Seq(Library)
         /\ "dmtcp" \in ToSet(PreloadLibs(names, options))
         /\ "plugin" \in names => "plugin" \in ToSet(PreloadLibs(names, options))
         /\ "ptrace" \in options => "ptrace" \in ToSet(PreloadLibs(names, options))
<1> DEFINE a == IF "plugin" \in names THEN <<"plugin">> ELSE <<>>
           b == IF "ptrace" \in options THEN <<"ptrace">> ELSE <<>>
           c == <<"ipc", "dmtcp", "pid">>
<1>1. /\ a \in Seq(Library) /\ b \in Seq(Library) /\ c \in Seq(Library)
      /\ Len(a) \in Nat /\ Len(b) \in Nat /\ Len(c) = 3 /\ c[2] = "dmtcp"
      /\ "plugin" \in names => Len(a) = 1 /\ a[1] = "plugin"
      /\ "ptrace" \in options => Len(b) = 1 /\ b[1] = "ptrace"
  <2>1. {"plugin", "ptrace", "ipc", "dmtcp", "pid"} \subseteq Library
    BY DEF Library
  <2>2. c \in Seq(Library) /\ Len(c) = 3 /\ c[2] = "dmtcp"
    BY <2>1
  <2>3. <<>> \in Seq(Library) /\ Len(<<>>) = 0
    OBVIOUS
  <2>4. /\ <<"plugin">> \in Seq(Library) /\ Len(<<"plugin">>) = 1 /\ <<"plugin">>[1] = "plugin"
        /\ <<"ptrace">> \in Seq(Library) /\ Len(<<"ptrace">>) = 1 /\ <<"ptrace">>[1] = "ptrace"
    BY <2>1
  <2>5. a = <<>> \/ a = <<"plugin">>
    OBVIOUS
  <2>6. b = <<>> \/ b = <<"ptrace">>
    OBVIOUS
  <2>7. ("plugin" \in names => a = <<"plugin">>) /\ ("ptrace" \in options => b = <<"ptrace">>)
    OBVIOUS
  <2> HIDE DEF a, b, c
  <2> QED BY <2>2, <2>3, <2>4, <2>5, <2>6, <2>7
<1>2. PreloadLibs(names, options) = (a \o b) \o c
  BY DEF PreloadLibs
<1> DEFINE ab == a \o b
           libs == ab \o c
           n == Len(a)
           m == Len(b)
<1> HIDE DEF a, b, c
<1>3. /\ ab \in Seq(Library) /\ Len(ab) = n + m /\ n \in Nat /\ m \in Nat
      /\ \A i \in 1..n + m : ab[i] = IF i <= n THEN a[i] ELSE b[i - n]
  BY <1>1, ConcatProperties
<1> HIDE DEF ab
<1>4. /\ libs \in Seq(Library) /\ Len(libs) = n + m + 3
      /\ \A i \in 1..n + m + 3 : libs[i] = IF i <= n + m THEN ab[i] ELSE c[i - (n + m)]
  <2>1. /\ libs \in Seq(Library) /\ Len(libs) = Len(ab) + Len(c)
        /\ \A i \in 1..Len(ab) + Len(c) : libs[i] = IF i <= Len(ab) THEN ab[i] ELSE c[i - Len(ab)]
    <3>1. ab \in Seq(Library) /\ c \in Seq(Library)
      BY <1>1, <1>3
    <3> HIDE DEF n, m
    <3> QED BY <3>1, ConcatProperties
  <2>2. Len(ab) = n + m /\ Len(c) = 3
    BY <1>1, <1>3
  <2> QED BY <2>1, <2>2
<1>l. ToSet(libs) = {libs[i] : i \in 1..n + m + 3}
  BY <1>4, ToSetIs
<1> HIDE DEF libs
<1>5. "dmtcp" \in ToSet(libs)
  <2>1. n + m + 2 \in 1..n + m + 3 /\ ~(n + m + 2 <= n + m) /\ n + m + 2 - (n + m) = 2
    BY <1>3
  <2>2. libs[n + m + 2] = "dmtcp"
    BY <1>1, <1>4, <2>1
  <2> QED BY <1>l, <2>1, <2>2
<1>6. ASSUME "plugin" \in names
      PROVE  "plugin" \in ToSet(libs)
  <2>1. n = 1 /\ a[1] = "plugin"
    BY <1>1, <1>6
  <2>2. 1 \in 1..n + m + 3 /\ 1 \in 1..n + m /\ 1 <= n /\ 1 <= n + m
    BY <1>3, <2>1
  <2>3. libs[1] = "plugin"
    BY <1>3, <1>4, <2>1, <2>2
  <2> QED BY <1>l, <2>2, <2>3
<1>7. ASSUME "ptrace" \in options
      PROVE  "ptrace" \in ToSet(libs)
  <2>1. m = 1 /\ b[1] = "ptrace"
    BY <1>1, <1>7
  <2>2. /\ n + 1 \in 1..n + m + 3 /\ n + 1 \in 1..n + m
        /\ ~(n + 1 <= n) /\ n + 1 <= n + m /\ (n + 1) - n = 1
    BY <1>3, <2>1
  <2>3. libs[n + 1] = "ptrace"
    BY <1>3, <1>4, <2>1, <2>2
  <2> QED BY <1>l, <2>2, <2>3
<1> QED BY <1>2, <1>4, <1>5, <1>6, <1>7 DEF libs, ab

\* The values that LD_PRELOAD is given are sequences of libraries.
LEMMA PreloadsAre ==
  \A user \in UserPreloads \cup OwnPreloads : user \in Seq(Library)
<1> SUFFICES ASSUME NEW user \in UserPreloads \cup OwnPreloads
             PROVE  user \in Seq(Library)
  OBVIOUS
<1>1. user \in Seq(ToSet(user))
  BY LaunchAssumption
<1>2. ToSet(user) \subseteq Library
  BY DEF Library
<1> QED BY <1>1, <1>2, SeqMonotonic

\* restoreUserLDPRELOAD takes the libraries off, and leaves what has none as it is.
LEMMA UserPreloadIs ==
  ASSUME NEW e \in Environment
  PROVE  /\ \A u \in Seq(Library) : e.preload = e.hijack \o u => UserPreload(e) = [e EXCEPT !.preload = u]
         /\ "dmtcp" \in ToSet(e.hijack) /\ "dmtcp" \notin ToSet(e.preload) => UserPreload(e) = e
<1>1. e.hijack \in Seq(Library) /\ e.preload \in Seq(Library)
  BY DEF Environment
<1>2. ASSUME NEW u \in Seq(Library), e.preload = e.hijack \o u
      PROVE  UserPreload(e) = [e EXCEPT !.preload = u]
  BY <1>1, <1>2, PrefixOff DEF UserPreload
<1>3. ASSUME "dmtcp" \in ToSet(e.hijack), "dmtcp" \notin ToSet(e.preload)
      PROVE  UserPreload(e) = e
  BY <1>1, <1>3, NoPrefix DEF UserPreload
<1> QED BY <1>2, <1>3

\* The invariant holds before the launch.
LEMMA InitLaunchInv == LaunchInit => LaunchInv
<1> SUFFICES ASSUME LaunchInit
             PROVE  LaunchInv
  OBVIOUS
<1>1. <<>> \in Seq(Library) /\ ToSet(<<>>) = {}
  BY DEF ToSet
<1>2. env \in Environment /\ meant \in Seq(Library)
  BY <1>1 DEF LaunchInit, NoEnvironment, Environment
<1>3. LaunchTypeOK
  BY <1>2 DEF LaunchInit, LaunchTypeOK
<1> QED BY <1>1, <1>3 DEF LaunchInit, LaunchInv, CarriedInv, HiddenInv, IdentityInv, LoadedInv, NoEnvironment

\* dmtcp_checkpoint, with the options of the command line or those ssh was given.
LEMMA LaunchKeeps ==
  ASSUME WithinControl, LaunchInv, NEW options, NEW user \in Seq(Library), "dmtcp" \notin ToSet(user),
         env.serial = <<>>, Launch(options, user), wanted' \subseteq LaunchOptions,
         wanted' \cap OptionVars \subseteq options, "ptrace" \in wanted' => "ptrace" \in options
  PROVE  LaunchInv'
<1> DEFINE names == Chosen(env, options)
           libs == PreloadLibs(names, options)
<1>1. /\ env' = [env EXCEPT !.names = names, !.hijack = libs, !.preload = libs \o user,
                           !.vpid = <<pids + 1, who[2]>>]
      /\ launchStage' = "loading" /\ who' = <<pids + 1, who[2]>> /\ meant' = user
      /\ pids' = pids + 1 /\ UNCHANGED <<identity, tables, loaded, tries>>
  BY DEF Launch, LaunchEnvironment
<1>2. /\ env \in Environment /\ who \in Nat \X Nat /\ pids \in Nat /\ identity \in Nat /\ tries \in Nat
  BY DEF LaunchInv, LaunchTypeOK
<1>3. names \subseteq ENV_VARS_ALL \cup {"MTCP_SIGCKPT"}
  BY <1>2 DEF Chosen, Named, Environment, ENV_VARS_ALL, OptionVars
<1>4. wanted' \cap OptionVars \subseteq names /\ "utility" \in names /\ ("signal" \in wanted' => "MTCP_SIGCKPT" \in names)
  BY DEF Chosen, Named, OptionVars
<1>5. wanted' \cap {"plugin", "ptrace"} \subseteq ToSet(libs) /\ "dmtcp" \in ToSet(libs) /\ libs \in Seq(Library)
  <2>1. "plugin" \in wanted' => "plugin" \in names
    BY <1>4 DEF OptionVars
  <2> HIDE DEF names
  <2> QED BY <2>1, LibsAre
<1> HIDE DEF names, libs
<1>6. libs \o user \in Seq(Library)
  BY <1>5, ToSetOfConcat
<1>7. /\ env'.names = names /\ env'.hijack = libs /\ env'.preload = libs \o user
      /\ env'.vpid = who' /\ env'.serial = <<>> /\ env' \in Environment /\ who' \in Nat \X Nat
  <2>1. <<pids + 1, who[2]>> \in Nat \X Nat
    BY <1>2
  <2>2. env' = [names |-> names, hijack |-> libs, preload |-> libs \o user,
                vpid |-> <<pids + 1, who[2]>>, serial |-> <<>>]
    BY <1>1, <1>2 DEF Environment
  <2> QED BY <1>1, <1>3, <1>5, <1>6, <2>1, <2>2 DEF Environment
<1>8. LaunchTypeOK'
  BY <1>1, <1>2, <1>7 DEF LaunchTypeOK
<1>9. CarriedInv' /\ HiddenInv' /\ IdentityInv' /\ LoadedInv'
  BY <1>1, <1>4, <1>5, <1>7 DEF CarriedInv, Carries, HiddenInv, IdentityInv, LoadedInv
<1> QED BY <1>8, <1>9 DEF LaunchInv

\* dmtcp_checkpoint puts the options in the environment.
LEMMA LaunchesKeep ==
  ASSUME WithinControl, LaunchInv,
         \/ \E options \in SUBSET LaunchOptions, user \in UserPreloads : LaunchHere(options, user)
         \/ LaunchRemote(env.names)
  PROVE  LaunchInv'
<1>1. ASSUME NEW options \in SUBSET LaunchOptions, NEW user \in UserPreloads, LaunchHere(options, user)
      PROVE  LaunchInv'
  <2>1. /\ launchStage \in {"start", "free"} /\ Launch(options, user) /\ wanted' = options
    BY <1>1 DEF LaunchHere
  <2>2. user \in Seq(Library) /\ "dmtcp" \notin ToSet(user)
    BY PreloadsAre DEF WithinControl
  <2>3. env.serial = <<>>
    BY <2>1 DEF LaunchInv, IdentityInv
  <2> QED BY <2>1, <2>2, <2>3, LaunchKeeps
<1>2. CASE LaunchRemote(env.names)
  <2>1. launchStage = "remote" /\ Launch(env.names, <<>>) /\ wanted' = wanted
    BY <1>2 DEF LaunchRemote
  <2>2. <<>> \in Seq(Library) /\ "dmtcp" \notin ToSet(<<>>)
    BY DEF ToSet
  <2>3. /\ env.serial = <<>> /\ wanted' \subseteq LaunchOptions
        /\ wanted' \cap OptionVars \subseteq env.names /\ "ptrace" \notin wanted'
    BY <2>1 DEF LaunchInv, LaunchTypeOK, CarriedInv, IdentityInv
  <2> QED BY <2>1, <2>2, <2>3, LaunchKeeps
<1> QED BY <1>1, <1>2

\* The constructor finds the table file, if there is one, and so the process's identity.
LEMMA TableRead ==
  ASSUME LaunchInv, NEW next, ReadTable(next)
  PROVE  /\ launchStage = "loading" /\ launchStage' = next /\ identity' = who[1] /\ identity' \in Nat
         /\ env.preload = env.hijack \o meant /\ Carries(env) /\ env.vpid \in {who, <<>>}
         /\ env \in Environment /\ meant \in Seq(Library) /\ "dmtcp" \notin ToSet(meant)
<1>1. /\ launchStage = "loading" /\ launchStage' = IF Unreadable THEN "aborted" ELSE next
      /\ identity' = IF env.serial = <<>> THEN who[1] ELSE env.serial[1]
  BY DEF ReadTable
<1>2. env.serial # <<>> => env.serial \in tables /\ env.serial[1] = who[1]
  BY <1>1 DEF LaunchInv, IdentityInv
<1>3. ~Unreadable
  BY <1>2 DEF Unreadable
<1>4. identity' = who[1] /\ who[1] \in Nat
  BY <1>1, <1>2 DEF LaunchInv, LaunchTypeOK
<1> QED BY <1>1, <1>3, <1>4 DEF LaunchInv, LaunchTypeOK, CarriedInv, HiddenInv, IdentityInv

\* The program is loaded with its own LD_PRELOAD, and the environment carries on.
LEMMA LoadedEnv ==
  ASSUME LaunchInv, NEW next, ReadTable(next)
  PROVE  LET e == UserPreload(WithoutTable)
         IN  /\ e \in Environment /\ e.preload = meant /\ e.serial = <<>> /\ e.vpid = env.vpid
             /\ Carries(e)
<1>1. /\ env.preload = env.hijack \o meant /\ env \in Environment /\ meant \in Seq(Library) /\ Carries(env)
  BY TableRead
<1> DEFINE kept == IF env.serial = <<>> THEN env.names \ {"root"} ELSE env.names
<1>2. WithoutTable = [names |-> kept, hijack |-> env.hijack, preload |-> env.preload,
                      vpid |-> env.vpid, serial |-> <<>>]
  <2>1. WithoutTable = [env EXCEPT !.serial = <<>>, !.names = kept]
    <3>1. env = [names |-> env.names, hijack |-> env.hijack, preload |-> env.preload,
                 vpid |-> env.vpid, serial |-> env.serial]
      BY <1>1 DEF Environment
    <3>2. [env EXCEPT !.serial = <<>>].names = env.names
      BY <3>1
    <3> QED BY <3>1, <3>2 DEF WithoutTable
  <2> HIDE DEF kept
  <2> QED BY <1>1, <2>1 DEF Environment
<1>3. kept \subseteq env.names /\ env.names \ {"root"} \subseteq kept
  OBVIOUS
<1> HIDE DEF kept
<1>4. WithoutTable \in Environment /\ WithoutTable.preload = WithoutTable.hijack \o meant
  BY <1>1, <1>2, <1>3 DEF Environment
<1>5. UserPreload(WithoutTable) = [WithoutTable EXCEPT !.preload = meant]
  BY <1>1, <1>4, UserPreloadIs
<1>6. UserPreload(WithoutTable) = [names |-> kept, hijack |-> env.hijack, preload |-> meant,
                                   vpid |-> env.vpid, serial |-> <<>>]
  BY <1>2, <1>5
<1>7. UserPreload(WithoutTable) \in Environment
  BY <1>1, <1>3, <1>6 DEF Environment
<1>8. Carries(UserPreload(WithoutTable))
  BY <1>1, <1>3, <1>6 DEF Carries, OptionVars
<1> QED BY <1>6, <1>7, <1>8

\* The constructor of libdmtcp takes its libraries out of LD_PRELOAD.
LEMMA LoadsKeep ==
  ASSUME WithinControl, LaunchInv,
         \/ \E errno \in {FALSE, StaleErrno} : Load(errno)
         \/ LoadCommand \/ \E command \in {"ssh", "login"} : LoadSsh(command)
  PROVE  LaunchInv'
<1> DEFINE e == UserPreload(WithoutTable)
<1>1. ASSUME NEW errno \in {FALSE, StaleErrno}, Load(errno)
      PROVE  LaunchInv'
  <2>1. /\ ReadTable("runs") /\ env' = e
        /\ loaded' = [with |-> env, mtcp |-> MtcpSignal(env), dmtcp |-> DmtcpSignal(env, errno)]
        /\ UNCHANGED <<who, wanted, meant, launches, tries, pids>>
    BY <1>1 DEF Load
  <2>2. ~errno
    BY DEF WithinControl
  <2>3. /\ launchStage' = "runs" /\ identity' = who[1] /\ identity' \in Nat
        /\ env.preload = env.hijack \o meant /\ Carries(env) /\ env.vpid \in {who, <<>>}
        /\ env \in Environment /\ meant \in Seq(Library) /\ "dmtcp" \notin ToSet(meant)
    BY <2>1, TableRead
  <2>4. e \in Environment /\ e.preload = meant /\ e.serial = <<>> /\ e.vpid = env.vpid /\ Carries(e)
    BY <2>1, LoadedEnv
  <2> HIDE DEF e
  <2>5. "dmtcp" \in ToSet(env.preload)
    <3>1. env.hijack \in Seq(Library) /\ "dmtcp" \in ToSet(env.hijack)
      BY <2>3 DEF Environment, Carries
    <3> QED BY <2>3, <3>1, ToSetOfConcat
  <2>6. LoadedInv'
    <3>1. loaded'.dmtcp = loaded'.mtcp /\ ("signal" \in wanted => loaded'.mtcp = "chosen")
      BY <2>1, <2>2, <2>3 DEF MtcpSignal, DmtcpSignal, Carries
    <3>2. loaded'.with = env
      BY <2>1
    <3> QED BY <2>1, <2>3, <2>5, <3>1, <3>2 DEF LoadedInv, Carries
  <2>7. LaunchTypeOK'
    BY <2>1, <2>3, <2>4 DEF LaunchInv, LaunchTypeOK
  <2>8. CarriedInv' /\ HiddenInv' /\ IdentityInv'
    BY <2>1, <2>3, <2>4 DEF CarriedInv, Carries, HiddenInv, IdentityInv
  <2> QED BY <2>6, <2>7, <2>8 DEF LaunchInv
<1>2. CASE LoadCommand
  <2>1. ReadTable("free") /\ env' = e /\ UNCHANGED <<who, loaded, wanted, meant, launches, tries, pids>>
    BY <1>2 DEF LoadCommand
  <2>2. /\ launchStage' = "free" /\ identity' \in Nat
        /\ meant \in Seq(Library) /\ "dmtcp" \notin ToSet(meant)
    BY <2>1, TableRead
  <2>3. e \in Environment /\ e.preload = meant /\ e.serial = <<>>
    BY <2>1, LoadedEnv
  <2> HIDE DEF e
  <2>4. LaunchTypeOK'
    BY <2>1, <2>2, <2>3 DEF LaunchInv, LaunchTypeOK
  <2>5. CarriedInv' /\ HiddenInv' /\ IdentityInv' /\ LoadedInv'
    BY <2>1, <2>2, <2>3 DEF CarriedInv, HiddenInv, IdentityInv, LoadedInv
  <2> QED BY <2>4, <2>5 DEF LaunchInv
<1>3. ASSUME NEW command \in {"ssh", "login"}, LoadSsh(command)
      PROVE  LaunchInv'
  <2>1. command = "ssh" /\ "ssh" \in Executed
    BY <1>3 DEF LoadSsh, WithinControl
  <2>2. /\ ReadTable("remote") /\ env' = [NoEnvironment EXCEPT !.names = DmtcpArgs(env)]
        /\ meant' = <<>> /\ UNCHANGED <<who, loaded, wanted, launches, tries, pids>>
    BY <1>3, <2>1 DEF LoadSsh
  <2>3. /\ launchStage' = "remote" /\ identity' \in Nat /\ Carries(env) /\ env \in Environment
    BY <2>2, TableRead
  <2>4. <<>> \in Seq(Library) /\ ToSet(<<>>) = {}
    BY DEF ToSet
  <2>5. env' = [names |-> DmtcpArgs(env), hijack |-> <<>>, preload |-> <<>>, vpid |-> <<>>, serial |-> <<>>]
    BY <2>2 DEF NoEnvironment
  <2>6. /\ env' \in Environment /\ env'.serial = <<>> /\ wanted \cap OptionVars \subseteq env'.names
    BY <2>3, <2>4, <2>5 DEF Environment, DmtcpArgs, Carries, OptionVars, ENV_VARS_ALL
  <2>7. "ptrace" \notin wanted
    BY <2>1 DEF WithinControl, LaunchInv, LaunchTypeOK
  <2>8. LaunchTypeOK'
    BY <2>2, <2>3, <2>4, <2>6 DEF LaunchInv, LaunchTypeOK
  <2>9. CarriedInv' /\ HiddenInv' /\ IdentityInv' /\ LoadedInv'
    BY <2>2, <2>3, <2>4, <2>6, <2>7 DEF CarriedInv, HiddenInv, IdentityInv, LoadedInv
  <2> QED BY <2>8, <2>9 DEF LaunchInv
<1> QED BY <1>1, <1>2, <1>3

\* A static program is run with the environment as it is.
LEMMA StaticKeeps ==
  ASSUME WithinControl, LaunchInv, LoadStatic \/ StaticExec
  PROVE  LaunchInv'
<1>1. /\ launchStage \in {"loading", "static"} /\ launchStage' \in {"loading", "static"}
      /\ UNCHANGED <<env, who, identity, tables, loaded, wanted, meant, tries, pids>>
  BY DEF LoadStatic, StaticExec, WithinControl
<1> QED BY <1>1 DEF LaunchInv, LaunchTypeOK, CarriedInv, Carries, HiddenInv, IdentityInv, LoadedInv

\* What an exec wrapper leaves in the caller's environment.
LEMMA PreparedIs ==
  ASSUME LaunchInv, launchStage \in {"runs", "shell"}
  PROVE  /\ Prepared(env) \in Environment
         /\ env.names \subseteq Prepared(env).names
         /\ Prepared(env).hijack = env.hijack /\ Prepared(env).preload = env.preload
         /\ Prepared(env).vpid = who /\ Prepared(env).serial = <<identity, tries + 1>>
<1>1. /\ env \in Environment /\ who \in Nat \X Nat /\ identity \in Nat /\ tries \in Nat
  BY DEF LaunchInv, LaunchTypeOK
<1> DEFINE e == WithPids(env, who[1], who[2])
<1>2. e = [names |-> env.names, hijack |-> env.hijack, preload |-> env.preload,
           vpid |-> who, serial |-> env.serial]
  BY <1>1 DEF WithPids, Environment
<1>e. Prepared(env) = [e EXCEPT !.names = @ \cup {"dlsym"}, !.serial = <<identity, tries + 1>>]
  BY DEF Prepared
<1> HIDE DEF e
<1>3. Prepared(env) = [names |-> env.names \cup {"dlsym"}, hijack |-> env.hijack, preload |-> env.preload,
                       vpid |-> who, serial |-> <<identity, tries + 1>>]
  <2>1. e.names = env.names
    BY <1>2
  <2> QED BY <1>2, <1>e, <2>1
<1>4. /\ env.names \cup {"dlsym"} \subseteq ENV_VARS_ALL \cup {"MTCP_SIGCKPT"}
      /\ <<identity, tries + 1>> \in Nat \X Nat
  BY <1>1 DEF Environment, ENV_VARS_ALL
<1>5. Prepared(env) \in Environment
  BY <1>1, <1>3, <1>4 DEF Environment
<1> QED BY <1>3, <1>5

\* The LD_PRELOAD of the new program: the libraries, and its own one or the caller's.
LEMMA UpdatedIs ==
  ASSUME NEW e \in Environment, NEW given \in Seq(Library)
  PROVE  /\ UpdatedPreload(e, given) = e.hijack \o (IF given # <<>> THEN given ELSE e.preload)
         /\ UpdatedPreload(e, given) \in Seq(Library)
<1>1. e.hijack \in Seq(Library) /\ (IF given # <<>> THEN given ELSE e.preload) \in Seq(Library)
  BY DEF Environment
<1> QED BY <1>1, ToSetOfConcat DEF UpdatedPreload

\* The environment of the new program: the libraries, the LD_PRELOAD meant, every variable, the pids.
LEMMA NewEnvIs ==
  ASSUME WithinControl, LaunchInv, launchStage \in {"runs", "shell"}, NEW given \in Environments
  PROVE  /\ NewEnv(given) \in Environment
         /\ env.names \subseteq NewEnv(given).names
         /\ NewEnv(given).hijack = env.hijack /\ NewEnv(given).preload = env.hijack \o given.preload
         /\ NewEnv(given).vpid = who /\ NewEnv(given).serial = <<identity, tries + 1>>
         /\ given.preload \in Seq(Library) /\ "dmtcp" \notin ToSet(given.preload)
<1> DEFINE p == Prepared(env)
<1>1. /\ p \in Environment /\ env.names \subseteq p.names /\ p.hijack = env.hijack
      /\ p.preload = env.preload /\ p.vpid = who /\ p.serial = <<identity, tries + 1>>
  BY PreparedIs
<1>2. /\ env \in Environment /\ env.preload = meant /\ meant \in Seq(Library) /\ "dmtcp" \notin ToSet(meant)
  BY DEF LaunchInv, LaunchTypeOK, HiddenInv
<1>3. \/ given.of \in {"own", "environ"} /\ given.copies = TRUE /\ given.preload = env.preload
      \/ given.of = "given" /\ given.copies = TRUE /\ given.preload \in OwnPreloads
  <2>1. \A b \in Copies : b = TRUE
    BY LaunchAssumption DEF WithinControl
  <2> QED BY <2>1 DEF Environments, ExecCall
<1>4. given.preload \in Seq(Library) /\ "dmtcp" \notin ToSet(given.preload)
  BY <1>2, <1>3, PreloadsAre DEF WithinControl
<1>t. /\ p.names \subseteq ENV_VARS_ALL \cup {"MTCP_SIGCKPT"} /\ p.hijack \in Seq(Library)
      /\ p.vpid \in {<<>>} \cup (Nat \X Nat) /\ p.serial \in {<<>>} \cup (Nat \X Nat)
  BY <1>1 DEF Environment
<1>5. CASE given.of = "own"
  <2> DEFINE libs == UpdatedPreload(env, <<>>)
  <2>1. libs = env.hijack \o env.preload /\ libs \in Seq(Library)
    BY <1>2, UpdatedIs, EmptySeq
  <2>2. OwnEnv(env) = [p EXCEPT !.preload = libs]
    BY DEF OwnEnv
  <2> HIDE DEF p, libs
  <2>3. OwnEnv(env) = [names |-> p.names, hijack |-> p.hijack, preload |-> libs,
                       vpid |-> p.vpid, serial |-> p.serial]
    BY <1>1, <2>2 DEF Environment
  <2>4. OwnEnv(env) \in Environment
    BY <1>t, <2>1, <2>3 DEF Environment
  <2>5. NewEnv(given) = OwnEnv(env) /\ given.preload = env.preload
    BY <1>3, <1>5 DEF NewEnv
  <2>6. /\ OwnEnv(env).names = p.names /\ OwnEnv(env).hijack = p.hijack
        /\ OwnEnv(env).preload = libs
        /\ OwnEnv(env).vpid = p.vpid /\ OwnEnv(env).serial = p.serial
    BY <2>3
  <2>7. libs = env.hijack \o given.preload
    BY <2>1, <2>5
  <2> QED BY <1>1, <1>4, <2>4, <2>5, <2>6, <2>7
<1>6. CASE given.of # "own"
  <2> DEFINE names == UserEnv(env, TRUE) \cup (p.names \cap ENV_VARS_ALL)
             libs == UpdatedPreload(env, given.preload)
  <2>1. libs = env.hijack \o given.preload /\ libs \in Seq(Library)
    <3>1. given.preload = <<>> => given.preload = env.preload
      BY <1>3 DEF WithinControl
    <3> QED BY <1>2, <1>4, <3>1, UpdatedIs
  <2>2. env.names \subseteq names /\ names \subseteq ENV_VARS_ALL \cup {"MTCP_SIGCKPT"}
    BY <1>1, <1>2 DEF UserEnv, Environment
  <2>3. NewEnv(given) = [p EXCEPT !.names = names, !.preload = libs]
    BY <1>3, <1>6 DEF NewEnv, PatchedEnv
  <2> HIDE DEF p, names, libs
  <2>4. NewEnv(given) = [names |-> names, hijack |-> p.hijack, preload |-> libs,
                         vpid |-> p.vpid, serial |-> p.serial]
    BY <1>1, <2>3 DEF Environment
  <2>5. NewEnv(given) \in Environment
    BY <1>t, <2>1, <2>2, <2>4 DEF Environment
  <2>6. /\ NewEnv(given).names = names /\ NewEnv(given).hijack = p.hijack /\ NewEnv(given).preload = libs
        /\ NewEnv(given).vpid = p.vpid /\ NewEnv(given).serial = p.serial
    BY <2>4
  <2> QED BY <1>1, <1>4, <2>1, <2>2, <2>5, <2>6
<1> QED BY <1>5, <1>6

\* A failed exec leaves everything but the table file and the dlsym offset.
LEMMA FailedIs ==
  ASSUME WithinControl, LaunchInv, launchStage \in {"runs", "shell"}, NEW given \in Environments
  PROVE  /\ FailedExec(env, given) \in Environment
         /\ env.names \ {"dlsym"} \subseteq FailedExec(env, given).names
         /\ FailedExec(env, given).hijack = env.hijack /\ FailedExec(env, given).preload = env.preload
         /\ FailedExec(env, given).vpid = who
<1> DEFINE after == IF given.of = "own" THEN OwnEnv(env) ELSE Prepared(env)
           e == UserPreload(after)
<1>1. /\ Prepared(env) \in Environment /\ env.names \subseteq Prepared(env).names
      /\ Prepared(env).hijack = env.hijack /\ Prepared(env).preload = env.preload /\ Prepared(env).vpid = who
  BY PreparedIs
<1>2. /\ env.preload = meant /\ meant \in Seq(Library) /\ "dmtcp" \notin ToSet(meant)
      /\ "dmtcp" \in ToSet(env.hijack)
  BY DEF LaunchInv, LaunchTypeOK, HiddenInv, CarriedInv, Carries
<1>3. /\ e \in Environment /\ env.names \subseteq e.names /\ e.hijack = env.hijack
      /\ e.preload = env.preload /\ e.vpid = who
  <2>1. CASE given.of = "own"
    <3>1. NewEnv(given) = OwnEnv(env) /\ after = OwnEnv(env) /\ given.preload = env.preload
      BY <2>1 DEF NewEnv, Environments, ExecCall
    <3>2. /\ after \in Environment /\ env.names \subseteq after.names /\ after.hijack = env.hijack
          /\ after.preload = env.hijack \o env.preload /\ after.vpid = who
      BY <3>1, NewEnvIs
    <3> HIDE DEF after
    <3>3. e = [after EXCEPT !.preload = env.preload]
      BY <1>2, <3>2, UserPreloadIs
    <3>4. e = [names |-> after.names, hijack |-> after.hijack, preload |-> env.preload,
               vpid |-> after.vpid, serial |-> after.serial]
      BY <3>2, <3>3 DEF Environment
    <3>5. e \in Environment
      BY <1>2, <3>2, <3>4 DEF Environment
    <3> QED BY <3>2, <3>4, <3>5
  <2>2. CASE given.of # "own"
    <3>1. after = Prepared(env)
      BY <2>2
    <3>2. e = Prepared(env)
      BY <1>1, <1>2, <3>1, UserPreloadIs
    <3> QED BY <1>1, <3>2
  <2> QED BY <2>1, <2>2
<1>4. FailedExec(env, given) = [e EXCEPT !.names = @ \ {"dlsym"}]
  BY DEF FailedExec
<1> HIDE DEF e
<1>5. FailedExec(env, given) = [names |-> e.names \ {"dlsym"}, hijack |-> e.hijack, preload |-> e.preload,
                                vpid |-> e.vpid, serial |-> e.serial]
  BY <1>3, <1>4 DEF Environment
<1>6. FailedExec(env, given) \in Environment
  BY <1>3, <1>5 DEF Environment
<1> QED BY <1>3, <1>5, <1>6

\* The exec wrappers fill the environment and put it back when the exec fails.
LEMMA ExecsKeep ==
  ASSUME WithinControl, LaunchInv,
         \/ \E path \in Paths, given \in Environments : Exec(path, given) \/ ExecFails(path, given)
         \/ ExecShortLived
  PROVE  LaunchInv'
<1>0. /\ env \in Environment /\ who \in Nat \X Nat /\ identity \in Nat /\ tries \in Nat
  BY DEF LaunchInv, LaunchTypeOK
<1>1. ASSUME NEW path \in Paths, NEW given \in Environments, Exec(path, given)
      PROVE  LaunchInv'
  <2>1. /\ launchStage \in {"runs", "shell"} /\ tries' = tries + 1
        /\ tables' = tables \cup {<<identity, tries + 1>>}
        /\ env' = NewEnv(given) /\ meant' = given.preload
        /\ launchStage' = IF env.hijack = <<>> THEN "aborted" ELSE "loading"
        /\ UNCHANGED <<who, identity, loaded, wanted, launches, pids>>
    BY <1>1 DEF Exec, MayExec
  <2>2. Carries(env) /\ identity = who[1]
    BY <2>1 DEF LaunchInv, CarriedInv, IdentityInv
  <2>3. env.hijack # <<>>
    <3>1. ToSet(<<>>) = {}
      BY DEF ToSet
    <3> QED BY <2>2, <3>1 DEF Carries
  <2>4. /\ env' \in Environment /\ env.names \subseteq env'.names
        /\ env'.hijack = env.hijack /\ env'.preload = env.hijack \o given.preload
        /\ env'.vpid = who /\ env'.serial = <<identity, tries + 1>>
        /\ given.preload \in Seq(Library) /\ "dmtcp" \notin ToSet(given.preload)
    BY <2>1, NewEnvIs
  <2>5. LaunchTypeOK'
    BY <1>0, <2>1, <2>3, <2>4 DEF LaunchInv, LaunchTypeOK
  <2>6. CarriedInv'
    BY <2>1, <2>2, <2>3, <2>4 DEF CarriedInv, Carries
  <2>7. HiddenInv' /\ LoadedInv'
    BY <2>1, <2>3, <2>4 DEF HiddenInv, LoadedInv
  <2>8. IdentityInv'
    <3>1. env'.serial[1] = who'[1] /\ env'.serial \in tables' /\ launchStage' = "loading" /\ env'.vpid = who'
      BY <2>1, <2>2, <2>3, <2>4
    <3> QED BY <3>1 DEF IdentityInv
  <2> QED BY <2>5, <2>6, <2>7, <2>8 DEF LaunchInv
<1>2. ASSUME NEW path \in Paths, NEW given \in Environments, ExecFails(path, given)
      PROVE  LaunchInv'
  <2>1. /\ launchStage \in {"runs", "shell"} /\ tries' = tries + 1 /\ env' = FailedExec(env, given)
        /\ launchStage' = "gone" \/ (launchStage' = "runs" /\ launchStage = "runs")
        /\ UNCHANGED <<who, identity, loaded, wanted, meant, launches, pids>>
    BY <1>2 DEF ExecFails, MayExec, WithinControl
  <2>2. /\ env' \in Environment /\ env.names \ {"dlsym"} \subseteq env'.names
        /\ env'.hijack = env.hijack /\ env'.preload = env.preload /\ env'.vpid = who
    BY <2>1, FailedIs
  <2>3. LaunchTypeOK'
    BY <1>0, <2>1, <2>2 DEF LaunchInv, LaunchTypeOK
  <2>4. CarriedInv'
    BY <2>1, <2>2 DEF LaunchInv, CarriedInv, Carries, OptionVars
  <2>5. HiddenInv' /\ IdentityInv'
    BY <2>1, <2>2 DEF LaunchInv, HiddenInv, IdentityInv
  <2>6. LoadedInv'
    BY <2>1 DEF LaunchInv, LoadedInv, Carries
  <2> QED BY <2>3, <2>4, <2>5, <2>6 DEF LaunchInv
<1>3. CASE ExecShortLived
  <2>1. /\ env' = [env EXCEPT !.preload = <<>>] /\ launchStage' = "gone" /\ tries' = tries + 1
        /\ UNCHANGED <<who, identity, tables, loaded, wanted, meant, launches, pids>>
    BY <1>3 DEF ExecShortLived, MayExec
  <2>2. env' \in Environment
    BY <1>0, <2>1, EmptySeq DEF Environment
  <2>3. LaunchTypeOK'
    BY <1>0, <2>1, <2>2 DEF LaunchInv, LaunchTypeOK
  <2> QED BY <2>1, <2>3 DEF LaunchInv, CarriedInv, HiddenInv, IdentityInv, LoadedInv
<1> QED BY <1>1, <1>2, <1>3

\* A fork and a shell leave the environment to the child.
LEMMA ForksKeep ==
  ASSUME WithinControl, LaunchInv, (\E child \in BOOLEAN : ForkIn(child)) \/ Shell
  PROVE  LaunchInv'
<1>0. /\ env \in Environment /\ who \in Nat \X Nat /\ identity \in Nat /\ pids \in Nat
  BY DEF LaunchInv, LaunchTypeOK
<1>1. PICK child \in BOOLEAN :
        /\ launchStage = "runs" /\ Fork(child) /\ pids' = pids + 1 /\ launchStage' \in {"runs", "shell"}
        /\ UNCHANGED <<tables, loaded, wanted, meant, tries>>
  BY DEF ForkIn, Shell
<1>2. Carries(env) /\ env.preload = meant /\ identity = who[1] /\ "dmtcp" \notin ToSet(meant) /\ LoadedInv
  BY <1>1 DEF LaunchInv, CarriedInv, HiddenInv, IdentityInv
<1>3. /\ env' = [env EXCEPT !.vpid = who'] /\ who' \in Nat \X Nat /\ identity' = who'[1]
  BY <1>0, <1>1, <1>2 DEF Fork, WithPids
<1>4. /\ env' \in Environment /\ env'.names = env.names /\ env'.hijack = env.hijack
      /\ env'.preload = env.preload /\ env'.vpid = who'
  BY <1>0, <1>3 DEF Environment
<1>5. LaunchTypeOK'
  BY <1>0, <1>1, <1>3, <1>4 DEF LaunchInv, LaunchTypeOK
<1>6. CarriedInv' /\ HiddenInv' /\ IdentityInv' /\ LoadedInv'
  BY <1>1, <1>2, <1>3, <1>4 DEF CarriedInv, Carries, HiddenInv, IdentityInv, LoadedInv
<1> QED BY <1>5, <1>6 DEF LaunchInv

\* A program that changes its environment changes its own part.
LEMMA SetEnvKeeps ==
  ASSUME WithinControl, LaunchInv, SetEnv
  PROVE  LaunchInv'
<1>0. env \in Environment
  BY DEF LaunchInv, LaunchTypeOK
<1>1. PICK user \in UserPreloads :
        /\ launchStage = "runs" /\ env' = [env EXCEPT !.preload = user] /\ meant' = user
        /\ UNCHANGED <<launchStage, who, identity, tables, loaded, wanted, launches, tries, pids>>
  <2>1. PICK user \in UserPreloads, clears \in {FALSE, ClearsEnv} :
          /\ env' = [(IF clears THEN NoEnvironment ELSE env) EXCEPT !.preload = user]
          /\ meant' = user
    BY DEF SetEnv
  <2>2. ~clears
    BY DEF WithinControl
  <2>3. env' = [env EXCEPT !.preload = user]
    BY <2>1, <2>2
  <2> QED BY <2>1, <2>3 DEF SetEnv
<1>2. user \in Seq(Library) /\ "dmtcp" \notin ToSet(user)
  BY PreloadsAre DEF WithinControl
<1>3. /\ env' \in Environment /\ env'.names = env.names /\ env'.hijack = env.hijack
      /\ env'.preload = user /\ env'.vpid = env.vpid
  BY <1>0, <1>1, <1>2 DEF Environment
<1>4. LaunchTypeOK'
  BY <1>1, <1>2, <1>3 DEF LaunchInv, LaunchTypeOK
<1>5. CarriedInv' /\ HiddenInv' /\ IdentityInv' /\ LoadedInv'
  BY <1>1, <1>2, <1>3 DEF LaunchInv, CarriedInv, Carries, HiddenInv, IdentityInv, LoadedInv
<1> QED BY <1>4, <1>5 DEF LaunchInv

\* Every step of the launch keeps the invariant.
LEMMA NextLaunchInv == WithinControl /\ LaunchInv /\ [LaunchNext]_launchVars => LaunchInv'
<1> SUFFICES ASSUME WithinControl, LaunchInv, [LaunchNext]_launchVars
             PROVE  LaunchInv'
  OBVIOUS
<1>1. CASE UNCHANGED launchVars
  BY <1>1 DEF launchVars, LaunchInv, LaunchTypeOK, CarriedInv, Carries, HiddenInv, IdentityInv, LoadedInv
<1> QED BY <1>1, LaunchesKeep, LoadsKeep, StaticKeeps, ExecsKeep, ForksKeep, SetEnvKeeps DEF LaunchNext

\* Every program that comes under control was loaded with the options given at launch and what
\* passes them on, sees the LD_PRELOAD it was executed with, is known by its own pids and has one
\* checkpoint signal, through any number of launches, execs, failed execs, forks and shells:
\* dmtcp_checkpoint, the constructor of libdmtcp and the exec wrappers.
THEOREM ControlIsKept == WithinControl => (LaunchSpec => []ControlKept)
<1> SUFFICES ASSUME WithinControl
             PROVE  LaunchSpec => []ControlKept
  OBVIOUS
<1>1. LaunchInv => ControlKept
  BY DEF LaunchInv, LaunchTypeOK, HiddenInv, IdentityInv, LoadedInv, Carries, ControlKept, SettingsKept, PreloadKept,
         OwnIdentity, OneSignal
<1>2. LaunchInit => LaunchInv
  BY InitLaunchInv
<1>3. LaunchInv /\ [LaunchNext]_launchVars => LaunchInv'
  BY NextLaunchInv
<1> QED BY <1>1, <1>2, <1>3, PTL DEF LaunchSpec
=============================================================================
