------------------------ MODULE ChannelDeliveryProofs ------------------------
(***************************************************************************)
(* Theorems about ChannelDelivery, for every number of senders, channels   *)
(* and packets and every value of the times.                               *)
(***************************************************************************)
EXTENDS ChannelDelivery, TLAPS

(* What the event loop must grant: a timer is late by no more than the     *)
(* slack that the cutoff of the prune adds to the window.                  *)
LoopOnTime == MaxLag <= PruneSlack

-----------------------------------------------------------------------------
(* Every value stays in its type: in particular a call past its first      *)
(* segment has a channel, and an attempt between 1 and max_attempts.       *)
LEMMA InitType == Init => TypeOK
<1> USE DeliveryAssumption
<1> SUFFICES ASSUME Init PROVE TypeOK
  OBVIOUS
<1>1. NoTags \in Tags
  BY DEF NoTags, Tags, Hashes, Names
<1>2. NoTag \in Names
  BY DEF Names
<1> QED
  BY <1>1, <1>2 DEF Init, TypeOK, Places

LEMMA ListenType ==
  ASSUME TypeOK, NEW s \in Senders, NEW g \in Tags, Listen(s, g)
  PROVE  /\ pc' \in [Senders -> Places]
         /\ began' \in [Senders -> Nat]
         /\ tag' \in [Senders -> Tags]
  BY DEF TypeOK, Listen, Goto, Places

LEMMA TransmitType ==
  ASSUME TypeOK, NEW s \in Senders, NEW n \in 1 .. MaxAttempts, Transmit(s, n)
  PROVE  /\ pc' \in [Senders -> Places]
         /\ attempt' \in [Senders -> 0 .. MaxAttempts]
         /\ began' \in [Senders -> Nat]
         /\ aired' \subseteq Senders \X (1 .. MaxAttempts)
         /\ \A r \in Senders : r # s => pc'[r] = pc[r] /\ attempt'[r] = attempt[r]
         /\ attempt'[s] = n
<1> USE DeliveryAssumption
<1>1. <<s, n>> \in Senders \X (1 .. MaxAttempts)
  OBVIOUS
<1>2. 1 .. MaxAttempts \subseteq 0 .. MaxAttempts
  OBVIOUS
<1> QED
  BY <1>1, <1>2 DEF TypeOK, Transmit, Goto, Places

LEMMA ReturnType ==
  ASSUME TypeOK, NEW s \in Senders, NEW v \in {"delivered", "failed"}, Return(s, v)
  PROVE  /\ pc' \in [Senders -> Places]
         /\ began' \in [Senders -> Nat]
         /\ tag' \in [Senders -> Tags]
         /\ sent' \in [Senders -> Nat]
         /\ \A r \in Senders : r # s => pc'[r] = pc[r]
<1>1. NoTags \in Tags
  BY DEF NoTags, Tags, Hashes, Names
<1> QED
  BY <1>1 DEF TypeOK, Return, Goto, Places

LEMMA PruneSubset == ASSUME NEW log, NEW t PROVE Prune(log, t) \subseteq log
  BY DEF Prune

LEMMA StepType == TypeOK /\ [Next]_vars => TypeOK'
<1> USE DeliveryAssumption, RxLogAssumption
<1> SUFFICES ASSUME TypeOK, [Next]_vars PROVE TypeOK'
  OBVIOUS
<1>0. NoTags \in Tags /\ NoTag \in Names /\ NoTag \in Hashes
  BY DEF NoTags, Tags, Hashes, Names
<1>1. ASSUME NEW s \in Senders, Call(s) PROVE TypeOK'
  <2>1. PICK c \in Channels : chan' = [chan EXCEPT ![s] = c]
    BY <1>1 DEF Call
  <2>2. 1 \in 0 .. MaxAttempts
    OBVIOUS
  <2> QED
    BY <1>1, <2>1, <2>2 DEF Call, Goto, TypeOK, Places
<1>2. ASSUME NEW s \in Senders, Issue(s) PROVE TypeOK'
  <2>1. attempt[s] \in 1 .. MaxAttempts
    BY <1>2 DEF Issue, TypeOK
  <2>2. Transmit(s, attempt[s])
    BY <1>2 DEF Issue
  <2> QED
    BY <1>2, <2>1, <2>2, TransmitType DEF Issue, TypeOK
<1>3. ASSUME NEW s \in Senders, SendOk(s) PROVE TypeOK'
  <2>0. chan[s] \in Channels
    BY <1>3 DEF SendOk, TypeOK
  <2>1. PICK h \in {NoTag, HashOf[chan[s]]} :
          IF chanNames[chan[s]] # NoTag
          THEN Listen(s, [hash |-> h, name |-> chanNames[chan[s]]])
          ELSE /\ Goto(s, "fetching")
               /\ began' = [began EXCEPT ![s] = now]
               /\ tag' = [tag EXCEPT ![s] = [hash |-> h, name |-> NoTag]]
    BY <1>3 DEF SendOk
  <2>2. h \in Hashes
    BY <2>0 DEF Hashes
  <2>3. [hash |-> h, name |-> chanNames[chan[s]]] \in Tags
        /\ [hash |-> h, name |-> NoTag] \in Tags
    BY <1>0, <2>0, <2>2 DEF Tags, TypeOK
  <2>4. /\ pc' \in [Senders -> Places]
        /\ began' \in [Senders -> Nat]
        /\ tag' \in [Senders -> Tags]
        /\ \A r \in Senders : pc'[r] # "idle" => pc[r] # "idle"
    <3>1. CASE chanNames[chan[s]] # NoTag
      BY <1>3, <2>1, <2>3, <3>1, ListenType DEF SendOk, Listen, Goto, TypeOK
    <3>2. CASE chanNames[chan[s]] = NoTag
      BY <1>3, <2>1, <2>3, <3>2 DEF SendOk, Goto, TypeOK, Places
    <3> QED
      BY <3>1, <3>2
  <2> QED
    BY <1>3, <2>4 DEF SendOk, TypeOK
<1>4. ASSUME NEW s \in Senders, SendError(s) PROVE TypeOK'
  BY <1>4, ReturnType DEF SendError, TypeOK
<1>5. ASSUME NEW s \in Senders, Fetched(s) PROVE TypeOK'
  <2>1. chanNames' \in [Channels -> Names]
    <3>1. PICK t \in Tables :
            chanNames' = [c \in Channels |-> IF t[c] # NoTag THEN t[c] ELSE chanNames[c]]
      BY <1>5 DEF Fetched
    <3>2. \A c \in Channels : t[c] \in Names
      BY DEF Names
    <3> QED
      BY <3>1, <3>2 DEF TypeOK
  <2>2. chan[s] \in Channels
    BY <1>5 DEF Fetched, TypeOK
  <2>3. [tag[s] EXCEPT !.name = chanNames'[chan[s]]] \in Tags
    BY <2>1, <2>2 DEF TypeOK, Tags
  <2>4. Listen(s, [tag[s] EXCEPT !.name = chanNames'[chan[s]]])
    BY <1>5 DEF Fetched
  <2> QED
    BY <1>5, <2>1, <2>3, <2>4, ListenType DEF Fetched, TypeOK, Listen, Goto
<1>6. ASSUME NEW s \in Senders, FetchRaised(s) PROVE TypeOK'
  <2>1. [tag[s] EXCEPT !.name = NoTag] \in Tags
    BY <1>0 DEF TypeOK, Tags
  <2> QED
    BY <1>6, <2>1, ListenType DEF FetchRaised, TypeOK, Listen, Goto
<1>7. ASSUME NEW s \in Senders, Confirm(s) PROVE TypeOK'
  BY <1>7, ReturnType, PruneSubset DEF Confirm, Slept, TypeOK
<1>8. ASSUME NEW s \in Senders, Retry(s) PROVE TypeOK'
  <2>1. attempt[s] + 1 \in 1 .. MaxAttempts
    BY <1>8 DEF Retry, TypeOK
  <2>2. Transmit(s, attempt[s] + 1)
    BY <1>8 DEF Retry
  <2>3. tag' \in [Senders -> Tags] /\ sent' \in [Senders -> Nat]
    BY <1>8, <1>0 DEF Retry, TypeOK
  <2>4. pc[s] # "idle"
    BY <1>8 DEF Retry, Slept
  <2> QED
    BY <1>8, <2>1, <2>2, <2>3, <2>4, TransmitType, PruneSubset DEF Retry, TypeOK
<1>9. ASSUME NEW s \in Senders, GiveUp(s) PROVE TypeOK'
  BY <1>9, ReturnType, PruneSubset DEF GiveUp, Slept, TypeOK
<1>10. CASE Hear
  <2>1. PICK p \in OnAir, w \in Shapes, t \in Tables : Register(Event(p, w, t[p.chan]))
    BY <1>10 DEF Hear
  <2>2. Event(p, w, t[p.chan]).ts = now
    BY DEF Event
  <2> QED
    BY <1>10, <2>1, <2>2, PruneSubset DEF Hear, Register, TypeOK
<1>11. CASE Tick
  BY <1>11 DEF Tick, TypeOK
<1>12. CASE UNCHANGED vars
  BY <1>12 DEF vars, TypeOK
<1> QED
  BY <1>1, <1>2, <1>3, <1>4, <1>5, <1>6, <1>7, <1>8, <1>9, <1>10, <1>11, <1>12
     DEF Next, Step, Answer, Judge, Horizon

(* Type correctness of every behaviour.                                    *)
THEOREM TypeCorrect == Spec => []TypeOK
  BY InitType, StepType, PTL DEF Spec

-----------------------------------------------------------------------------
(* Why the window is kept.  A prune only ever drops what is below its      *)
(* cutoff, and the cutoff rises with the clock: so everything at or above  *)
(* the cutoff of this moment is still logged, whoever pruned before        *)
(* (Recent).  A listening send is never later than its deadline (OnTime),  *)
(* so its window lies above the cutoff.                                    *)
Recent == \A e \in heard : e.ts >= now - RxWait - PruneSlack => e \in rxLog

Logged == rxLog \subseteq heard

OnTime == \A s \in Senders : pc[s] = "listening" => now <= began[s] + RxWait + MaxLag

WindowInv == TypeOK /\ Logged /\ Recent /\ OnTime

LEMMA InitWindow == Init => WindowInv
  BY InitType DEF Init, WindowInv, Logged, Recent, OnTime

(* The actions that leave the log alone, and those that only prune it.     *)
LEMMA LogKept ==
  ASSUME WindowInv, UNCHANGED <<now, rxLog, heard>> PROVE Logged' /\ Recent'
  BY DEF WindowInv, Logged, Recent

LEMMA LogPruned ==
  ASSUME WindowInv, rxLog' = Prune(rxLog, now), UNCHANGED <<now, heard>>
  PROVE  Logged' /\ Recent'
  BY DEF WindowInv, Logged, Recent, Prune

LEMMA ListenOnTime ==
  ASSUME WindowInv, NEW s \in Senders, NEW g, Listen(s, g), now' = now
  PROVE  OnTime'
<1> USE RxLogAssumption, DeliveryAssumption
<1> QED
  BY DEF WindowInv, TypeOK, Listen, Goto, OnTime

(* A send that leaves the listening state, or was not in it.               *)
LEMMA ElsewhereOnTime ==
  ASSUME WindowInv, NEW s \in Senders, now' = now,
         NEW place, place # "listening", Goto(s, place),
         \A r \in Senders \ {s} : began'[r] = began[r]
  PROVE  OnTime'
  BY DEF WindowInv, TypeOK, Goto, OnTime

LEMMA StepWindow == WindowInv /\ [Next]_vars => WindowInv'
<1> USE RxLogAssumption, DeliveryAssumption
<1> SUFFICES ASSUME WindowInv, [Next]_vars PROVE Logged' /\ Recent' /\ OnTime'
  BY StepType DEF WindowInv
<1>1. ASSUME NEW s \in Senders, Call(s) PROVE Logged' /\ Recent' /\ OnTime'
  BY <1>1, LogKept, ElsewhereOnTime DEF Call, WindowInv, TypeOK
<1>2. ASSUME NEW s \in Senders, Issue(s) PROVE Logged' /\ Recent' /\ OnTime'
  BY <1>2, LogKept, ElsewhereOnTime DEF Issue, Transmit, WindowInv, TypeOK
<1>3. ASSUME NEW s \in Senders, SendOk(s) PROVE Logged' /\ Recent' /\ OnTime'
  <2>1. Logged' /\ Recent' /\ now' = now
    BY <1>3, LogKept DEF SendOk
  <2>2. CASE chanNames[chan[s]] # NoTag
    BY <1>3, <2>1, <2>2, ListenOnTime DEF SendOk
  <2>3. CASE chanNames[chan[s]] = NoTag
    BY <1>3, <2>1, <2>3, ElsewhereOnTime DEF SendOk, WindowInv, TypeOK
  <2> QED
    BY <2>1, <2>2, <2>3
<1>4. ASSUME NEW s \in Senders, SendError(s) PROVE Logged' /\ Recent' /\ OnTime'
  BY <1>4, LogKept, ElsewhereOnTime DEF SendError, Return, WindowInv, TypeOK
<1>5. ASSUME NEW s \in Senders, Fetched(s) PROVE Logged' /\ Recent' /\ OnTime'
  BY <1>5, LogKept, ListenOnTime DEF Fetched
<1>6. ASSUME NEW s \in Senders, FetchRaised(s) PROVE Logged' /\ Recent' /\ OnTime'
  BY <1>6, LogKept, ListenOnTime DEF FetchRaised
<1>7. ASSUME NEW s \in Senders, Confirm(s) PROVE Logged' /\ Recent' /\ OnTime'
  BY <1>7, LogPruned, ElsewhereOnTime DEF Confirm, Return, WindowInv, TypeOK
<1>8. ASSUME NEW s \in Senders, Retry(s) PROVE Logged' /\ Recent' /\ OnTime'
  BY <1>8, LogPruned, ElsewhereOnTime DEF Retry, Transmit, WindowInv, TypeOK
<1>9. ASSUME NEW s \in Senders, GiveUp(s) PROVE Logged' /\ Recent' /\ OnTime'
  BY <1>9, LogPruned, ElsewhereOnTime DEF GiveUp, Return, WindowInv, TypeOK
<1>10. ASSUME Hear PROVE Logged' /\ Recent' /\ OnTime'
  <2>1. PICK e : Register(e)
    BY <1>10 DEF Hear
  <2>2. now' = now
    BY <1>10 DEF Hear
  <2>3. Logged' /\ Recent'
    BY <2>1, <2>2 DEF Register, Prune, WindowInv, Logged, Recent
  <2>4. OnTime'
    BY <1>10 DEF Hear, WindowInv, OnTime
  <2> QED
    BY <2>3, <2>4
<1>11. ASSUME Tick PROVE Logged' /\ Recent' /\ OnTime'
  <2>1. Logged' /\ Recent'
    BY <1>11 DEF Tick, WindowInv, TypeOK, Logged, Recent
  <2>2. ASSUME NEW s \in Senders, pc[s] = "listening"
        PROVE now + 1 <= began[s] + RxWait + MaxLag
    BY <1>11, <2>2 DEF Tick, Deadline, WindowInv, TypeOK
  <2> QED
    BY <1>11, <2>1, <2>2 DEF Tick, OnTime
<1>12. CASE UNCHANGED vars
  BY <1>12 DEF vars, WindowInv, Logged, Recent, OnTime
<1> QED
  BY <1>1, <1>2, <1>3, <1>4, <1>5, <1>6, <1>7, <1>8, <1>9, <1>10, <1>11, <1>12
     DEF Next, Step, Answer, Judge, Horizon

LEMMA WindowInvKeepsWindow == ASSUME LoopOnTime PROVE WindowInv => WindowKept
<1> USE RxLogAssumption, DeliveryAssumption
<1> SUFFICES ASSUME WindowInv, NEW s \in Senders, pc[s] = "listening",
                    NEW e \in heard, e.ts >= began[s]
             PROVE  e \in rxLog
  BY DEF WindowKept
<1>1. now <= began[s] + RxWait + MaxLag
  BY DEF WindowInv, OnTime
<1>2. e.ts >= now - RxWait - PruneSlack
  BY <1>1 DEF LoopOnTime, WindowInv, TypeOK
<1> QED
  BY <1>2 DEF WindowInv, Recent

LEMMA WindowInvariant == Spec => []WindowInv
  BY InitWindow, StepWindow, PTL DEF Spec

(* No packet a listening send may still count is ever dropped from the log *)
(* that all sends share, on a loop that is on time.                        *)
THEOREM WindowIsKept == ASSUME LoopOnTime PROVE Spec => []WindowKept
  BY WindowInvariant, WindowInvKeepsWindow, PTL

-----------------------------------------------------------------------------
(* What a listening send counts in the pruned log is what it would count   *)
(* in the whole history: the prune is invisible.                           *)
LEMMA CountIsComplete ==
  ASSUME WindowInv, LoopOnTime, NEW s \in Senders, pc[s] = "listening"
  PROVE  HeardKeys(Prune(rxLog, now), chan[s], tag[s], began[s])
           = HeardKeys(heard, chan[s], tag[s], began[s])
<1> USE RxLogAssumption, DeliveryAssumption
<1>1. {e \in heard : e.ts >= began[s]} \subseteq rxLog
  BY WindowInvKeepsWindow DEF WindowKept
<1>2. now <= began[s] + RxWait + MaxLag
  BY DEF WindowInv, OnTime
<1>3. \A e \in heard : e.ts >= began[s] => e.ts >= now - RxWait - PruneSlack
  BY <1>2 DEF LoopOnTime, WindowInv, TypeOK
<1>4. {e \in Prune(rxLog, now) : e.ts >= began[s] /\ Matches(e, chan[s], tag[s])}
        = {e \in heard : e.ts >= began[s] /\ Matches(e, chan[s], tag[s])}
  BY <1>1, <1>3 DEF Prune, WindowInv, Logged
<1> QED
  BY <1>4 DEF HeardKeys

(* The mapped variables of HeardDelivery.                                  *)
PhaseOf == [s \in Senders |->
              IF pc[s] \in {"delay", "sending", "fetching"} THEN "sending" ELSE pc[s]]
OpenedOf == [s \in Senders |-> IF pc[s] = "listening" THEN began[s] ELSE 0]
TagOf == [s \in Senders |-> IF pc[s] = "listening" THEN tag[s] ELSE NoTags]

LEMMA InitPromise == Init => Promise!Init
  BY DEF Init, Promise!Init, NoIdx, Promise!NoIdx, NoTags, Promise!NoTags,
         NoTag, Promise!NoTag

(* A segment between two awaits of one attempt is invisible.               *)
LEMMA SegmentStutters ==
  ASSUME WindowInv, NEW s \in Senders,
         NEW place \in {"sending", "fetching"}, Goto(s, place),
         pc[s] \in {"delay", "sending", "fetching"},
         \A r \in Senders \ {s} : began'[r] = began[r] /\ tag'[r] = tag[r],
         UNCHANGED <<now, chan, attempt, heard>>
  PROVE  UNCHANGED Promise!vars
<1>1. PhaseOf' = PhaseOf
  BY DEF PhaseOf, Goto, WindowInv, TypeOK
<1>2. OpenedOf' = OpenedOf /\ TagOf' = TagOf
  BY DEF OpenedOf, TagOf, Goto, WindowInv, TypeOK
<1> QED
  BY <1>1, <1>2 DEF PhaseOf, OpenedOf, TagOf, Promise!vars

LEMMA ListenOpens ==
  ASSUME WindowInv, NEW s \in Senders, NEW g \in Tags, Listen(s, g),
         pc[s] \in {"sending", "fetching"}, UNCHANGED <<now, chan, attempt, heard>>
  PROVE  Promise!Open(s)
<1>1. PhaseOf' = [PhaseOf EXCEPT ![s] = "listening"]
  BY DEF PhaseOf, Listen, Goto, WindowInv, TypeOK
<1>2. OpenedOf' = [OpenedOf EXCEPT ![s] = now]
  BY DEF OpenedOf, Listen, Goto, WindowInv, TypeOK
<1>3. TagOf' = [TagOf EXCEPT ![s] = g]
  BY DEF TagOf, Listen, Goto, WindowInv, TypeOK
<1>4. PhaseOf[s] = "sending"
  BY DEF PhaseOf
<1> QED
  BY <1>1, <1>2, <1>3, <1>4 DEF PhaseOf, OpenedOf, TagOf, Promise!Open

(* The end of a window, whatever the verdict.                              *)
LEMMA WindowCloses ==
  ASSUME WindowInv, NEW s \in Senders, pc[s] = "listening",
         NEW place \in {"delivered", "failed", "sending"}, Goto(s, place),
         \A r \in Senders \ {s} : began'[r] = began[r] /\ tag'[r] = tag[r]
  PROVE  /\ PhaseOf' = [PhaseOf EXCEPT ![s] = place]
         /\ OpenedOf' = [OpenedOf EXCEPT ![s] = 0]
         /\ TagOf' = [TagOf EXCEPT ![s] = NoTags]
  BY DEF PhaseOf, OpenedOf, TagOf, Goto, WindowInv, TypeOK

LEMMA VerdictAgrees ==
  ASSUME WindowInv, LoopOnTime, NEW s \in Senders, pc[s] = "listening"
  PROVE  Promise!Confirmed(s) <=> Enough(s)
<1>1. OpenedOf[s] = began[s] /\ TagOf[s] = tag[s]
  BY DEF OpenedOf, TagOf
<1>2. Promise!HeardKeys(heard, chan[s], TagOf[s], OpenedOf[s])
        = HeardKeys(Prune(rxLog, now), chan[s], tag[s], began[s])
  <2>1. \A h, c, g, t : Promise!HeardKeys(h, c, g, t) = HeardKeys(h, c, g, t)
    BY DEF HeardKeys, Promise!HeardKeys, Matches, Promise!Matches, NoTag, Promise!NoTag
  <2> QED
    BY <1>1, <2>1, CountIsComplete
<1>3. \A S : Promise!Cardinality(S) = Cardinality(S)
  BY DEF Cardinality, Promise!Cardinality, IsFiniteSet, Promise!IsFiniteSet
<1> QED
  BY <1>2, <1>3 DEF Promise!Confirmed, Enough, OpenedOf, TagOf

LEMMA StepPromise ==
  ASSUME WindowInv, LoopOnTime, [Next]_vars
  PROVE  [Promise!Next]_(Promise!vars)
<1> USE RxLogAssumption, DeliveryAssumption
<1>1. ASSUME NEW s \in Senders, Call(s) PROVE Promise!Begin(s)
  <2>1. PhaseOf' = [PhaseOf EXCEPT ![s] = "sending"] /\ PhaseOf[s] = "idle"
    BY <1>1 DEF Call, Goto, PhaseOf, WindowInv, TypeOK
  <2>2. OpenedOf' = OpenedOf /\ TagOf' = TagOf
    BY <1>1 DEF Call, Goto, OpenedOf, TagOf, WindowInv, TypeOK
  <2> QED
    BY <1>1, <2>1, <2>2 DEF Call, PhaseOf, OpenedOf, TagOf, Promise!Begin
<1>2. ASSUME NEW s \in Senders, Issue(s) PROVE UNCHANGED Promise!vars
  <2>1. attempt' = attempt
    BY <1>2 DEF Issue, Transmit, WindowInv, TypeOK
  <2> QED
    BY <1>2, <2>1, SegmentStutters DEF Issue, Transmit, WindowInv, TypeOK
<1>3. ASSUME NEW s \in Senders, SendOk(s)
      PROVE  Promise!Open(s) \/ UNCHANGED Promise!vars
  <2>1. CASE chanNames[chan[s]] # NoTag
    <3>1. PICK h \in {NoTag, HashOf[chan[s]]} :
            Listen(s, [hash |-> h, name |-> chanNames[chan[s]]])
      BY <1>3, <2>1 DEF SendOk
    <3>2. [hash |-> h, name |-> chanNames[chan[s]]] \in Tags
      BY <1>3 DEF SendOk, WindowInv, TypeOK, Tags, Hashes
    <3> QED
      BY <1>3, <3>1, <3>2, ListenOpens DEF SendOk
  <2>2. CASE chanNames[chan[s]] = NoTag
    BY <1>3, <2>2, SegmentStutters DEF SendOk, WindowInv, TypeOK
  <2> QED
    BY <2>1, <2>2
<1>4. ASSUME NEW s \in Senders, SendError(s) PROVE Promise!Abort(s)
  <2>1. PhaseOf' = [PhaseOf EXCEPT ![s] = "failed"] /\ PhaseOf[s] = "sending"
    BY <1>4 DEF SendError, Return, Goto, PhaseOf, WindowInv, TypeOK
  <2>2. OpenedOf' = OpenedOf /\ TagOf' = TagOf
    BY <1>4 DEF SendError, Return, Goto, OpenedOf, TagOf, WindowInv, TypeOK
  <2> QED
    BY <1>4, <2>1, <2>2 DEF SendError, PhaseOf, OpenedOf, TagOf, Promise!Abort
<1>5. ASSUME NEW s \in Senders, Fetched(s) PROVE Promise!Open(s)
  <2>1. chanNames'[chan[s]] \in Names
    BY <1>5, StepType DEF Fetched, WindowInv, TypeOK
  <2>2. [tag[s] EXCEPT !.name = chanNames'[chan[s]]] \in Tags
    BY <2>1 DEF WindowInv, TypeOK, Tags
  <2> QED
    BY <1>5, <2>2, ListenOpens DEF Fetched
<1>6. ASSUME NEW s \in Senders, FetchRaised(s) PROVE Promise!Open(s)
  <2>1. [tag[s] EXCEPT !.name = NoTag] \in Tags
    BY DEF WindowInv, TypeOK, Tags, Names
  <2> QED
    BY <1>6, <2>1, ListenOpens DEF FetchRaised
<1>7. ASSUME NEW s \in Senders, Confirm(s) PROVE Promise!Judge(s)
  <2>1. Slept(s) /\ Return(s, "delivered") /\ Promise!Confirmed(s)
    BY <1>7, VerdictAgrees DEF Confirm, Slept
  <2>2. /\ PhaseOf' = [PhaseOf EXCEPT ![s] = "delivered"]
        /\ OpenedOf' = [OpenedOf EXCEPT ![s] = 0]
        /\ TagOf' = [TagOf EXCEPT ![s] = NoTags]
    BY <2>1, WindowCloses DEF Slept, Return, WindowInv, TypeOK
  <2>3. PhaseOf[s] = "listening" /\ now >= OpenedOf[s] + RxWait
    BY <2>1 DEF Slept, PhaseOf, OpenedOf
  <2> QED
    BY <1>7, <2>1, <2>2, <2>3 DEF Confirm, PhaseOf, OpenedOf, TagOf,
       Promise!Judge, NoTags, Promise!NoTags, NoTag, Promise!NoTag
<1>8. ASSUME NEW s \in Senders, Retry(s) PROVE Promise!Judge(s)
  <2>1. /\ Slept(s) /\ Transmit(s, attempt[s] + 1) /\ ~ Promise!Confirmed(s)
        /\ tag' = [tag EXCEPT ![s] = NoTags]
    BY <1>8, VerdictAgrees DEF Retry, Slept
  <2>2. /\ PhaseOf' = [PhaseOf EXCEPT ![s] = "sending"]
        /\ OpenedOf' = [OpenedOf EXCEPT ![s] = 0]
        /\ TagOf' = [TagOf EXCEPT ![s] = NoTags]
    BY <2>1, WindowCloses DEF Slept, Transmit, WindowInv, TypeOK
  <2>3. PhaseOf[s] = "listening" /\ now >= OpenedOf[s] + RxWait
    BY <2>1 DEF Slept, PhaseOf, OpenedOf
  <2> QED
    BY <1>8, <2>1, <2>2, <2>3 DEF Retry, Transmit, PhaseOf, OpenedOf, TagOf,
       Promise!Judge, NoTags, Promise!NoTags, NoTag, Promise!NoTag
<1>9. ASSUME NEW s \in Senders, GiveUp(s) PROVE Promise!Judge(s)
  <2>1. Slept(s) /\ Return(s, "failed") /\ ~ Promise!Confirmed(s)
    BY <1>9, VerdictAgrees DEF GiveUp, Slept
  <2>2. /\ PhaseOf' = [PhaseOf EXCEPT ![s] = "failed"]
        /\ OpenedOf' = [OpenedOf EXCEPT ![s] = 0]
        /\ TagOf' = [TagOf EXCEPT ![s] = NoTags]
    BY <2>1, WindowCloses DEF Slept, Return, WindowInv, TypeOK
  <2>3. PhaseOf[s] = "listening" /\ now >= OpenedOf[s] + RxWait
    BY <2>1 DEF Slept, PhaseOf, OpenedOf
  <2> QED
    BY <1>9, <2>1, <2>2, <2>3 DEF GiveUp, PhaseOf, OpenedOf, TagOf,
       Promise!Judge, NoTags, Promise!NoTags, NoTag, Promise!NoTag
<1>10. ASSUME Hear PROVE Promise!Hear
  <2>1. PICK p \in OnAir, w \in Shapes, t \in Tables : Register(Event(p, w, t[p.chan]))
    BY <1>10 DEF Hear
  <2>2. Event(p, w, t[p.chan]).ts = now
    BY DEF Event
  <2>3. Event(p, w, t[p.chan]) \in heard' /\ heard' = heard \cup {Event(p, w, t[p.chan])}
    BY <2>1 DEF Register
  <2> QED
    BY <1>10, <2>2, <2>3 DEF Hear, Promise!Hear
<1>11. ASSUME Tick PROVE Promise!Tick
  BY <1>11 DEF Tick, Promise!Tick
<1>12. CASE UNCHANGED vars
  BY <1>12 DEF vars, Promise!vars
<1> QED
  BY <1>1, <1>2, <1>3, <1>4, <1>5, <1>6, <1>7, <1>8, <1>9, <1>10, <1>11, <1>12
     DEF Next, Step, Answer, Judge, Horizon, Promise!Next

(* Every call's verdict is the one a log that forgets nothing and a count  *)
(* undisturbed by other tasks would give, on a loop that is on time: the   *)
(* prune, the shared log and the name cache are invisible in the outcome.  *)
THEOREM VerdictsArePromised == ASSUME LoopOnTime PROVE Spec => PromiseSpec
<1>1. Init => Promise!Init
  BY InitPromise
<1>2. WindowInv /\ [Next]_vars => [Promise!Next]_(Promise!vars)
  BY StepPromise
<1> QED
  BY <1>1, <1>2, WindowInvariant, PTL DEF Spec, PromiseSpec, Promise!Spec
=============================================================================
