--------------------------- MODULE MessagePollProofs ---------------------------
(***************************************************************************)
(* Theorems about MessagePoll, for any settings, any longest calls and any *)
(* number of messages.                                                     *)
(***************************************************************************)
EXTENDS MessagePoll, TLAPS

Nap == Longer(NapIdle, Longer(NapError, NapRaise))

(* No await is longer than its longest; the last probe began as long ago   *)
(* as its await, and later as long ago as last_keepalive_wall tells.       *)
Timed ==
    /\ spent <= Longest
    /\ msgAge <= quietAge
    /\ place = "probe" => probeAge = spent
    /\ place \in {"head", "get", "nap"} => keepAge = probeAge

PollInv == TypeOK /\ Timed

(* The code's idle time is started again by the watchdog, too.  Either no  *)
(* watchdog has done it since the last message, or there has been a probe  *)
(* shortly before; and a probe is never put off for more than one await.   *)
AfterGet == Keepalive + ProbeMax + Timeout

NotPutOff ==
    /\ msgAge = quietAge \/ probeAge < AfterGet + msgAge
    /\ place = "get" => msgAge < KeepIdle + spent \/ probeAge < Keepalive + ProbeMax + spent
    /\ place = "nap" => msgAge <= KeepIdle + Timeout + spent \/ probeAge < AfterGet + spent
    /\ place = "head" => msgAge <= KeepIdle + Timeout + Nap \/ probeAge < AfterGet + Nap

(* message_poll.py:149 starts the idle time again 90 s after a message, so *)
(* the threshold must be reached before, as it is with the defaults.       *)
ShortIdle == KeepIdle + Timeout <= Watch

-----------------------------------------------------------------------------
LEMMA Lengths ==
    /\ Nap \in Nat /\ NapIdle <= Nap /\ NapError <= Nap /\ NapRaise <= Nap
    /\ Round = ProbeMax + Timeout + Nap
    /\ Cap \in Nat /\ Cap > Round /\ Cap > LatestProbe
  BY PollAssumption DEF PollAssumption, Nap, Round, Longer, LatestProbe

(* What TypeOK says, variable by variable.                                 *)
LEMMA Typed ==
    TypeOK <=>
      /\ place \in {"head", "probe", "get", "nap", "ended"}
      /\ spent \in Age /\ nap \in {0, NapIdle, NapError, NapRaise}
      /\ msgAge \in Age /\ linkAge \in Age /\ keepAge \in Age
      /\ quietAge \in Age /\ probeAge \in Age /\ silentAge \in Age
      /\ shutdown \in BOOLEAN /\ alive \in BOOLEAN /\ warned \in BOOLEAN
      /\ arrived \in 0 .. MaxArrivals /\ pulled \in 0 .. arrived
  BY DEF TypeOK

(* An age that grows stays an age, and grows by a unit at most.            *)
LEMMA Grown ==
    \A a \in Age : /\ Grow(a) \in Age /\ a <= Grow(a) /\ Grow(a) <= a + 1
                   /\ a < Cap => Grow(a) = a + 1
                   /\ \A b \in Age : a <= b => Grow(a) <= Grow(b)
  BY Lengths DEF Grow, Age

LEMMA LongestIsShort == TypeOK => Longest \in Nat /\ Longest <= Round
  BY Lengths, Typed, PollAssumption DEF PollAssumption, Longest

LEMMA InitTyped == Init => PollInv
<1> SUFFICES ASSUME Init PROVE PollInv
  OBVIOUS
<1>1. 0 \in Age /\ Age \subseteq Nat
  BY Lengths DEF Age
<1>2. TypeOK
  <2>1. 0 \in 0 .. MaxArrivals /\ 0 \in 0 .. 0
    BY PollAssumption DEF PollAssumption
  <2> QED
    BY <1>1, <2>1, Typed DEF Init
<1>3. Timed
  BY <1>1 DEF Init, Timed, Longest
<1> QED
  BY <1>2, <1>3 DEF PollInv

-----------------------------------------------------------------------------
(* Each step keeps PollInv.                                                *)
LEMMA TickTyped == PollInv /\ Tick => PollInv'
<1> SUFFICES ASSUME PollInv, Tick PROVE PollInv'
  OBVIOUS
<1>1. /\ Age \subseteq Nat
      /\ spent \in Age /\ msgAge \in Age /\ linkAge \in Age /\ keepAge \in Age
      /\ quietAge \in Age /\ probeAge \in Age /\ silentAge \in Age
  BY Typed, Lengths DEF PollInv, Age
<1>2. spent + 1 \in Age /\ spent < Cap /\ spent + 1 <= Longest
  BY <1>1, Lengths, LongestIsShort DEF PollInv, Tick, Age
<1>3. TypeOK'
  <2>1. /\ msgAge' \in Age /\ linkAge' \in Age /\ keepAge' \in Age
        /\ quietAge' \in Age /\ probeAge' \in Age /\ silentAge' \in Age
    BY <1>1, Grown DEF Tick
  <2> QED
    BY <1>2, <2>1, Typed DEF PollInv, Tick, TypeOK
<1>4. Timed'
  <2>1. Longest' = Longest
    BY DEF Longest, Tick
  <2>2. msgAge' <= quietAge'
    BY <1>1, Grown DEF PollInv, Timed, Tick
  <2>3. place' = "probe" => probeAge' = spent'
    BY <1>1, <1>2, Grown DEF PollInv, Timed, Tick
  <2>4. place' \in {"head", "get", "nap"} => keepAge' = probeAge'
    BY DEF PollInv, Timed, Tick
  <2> QED
    BY <1>2, <2>1, <2>2, <2>3, <2>4 DEF Timed, Tick
<1> QED
  BY <1>3, <1>4 DEF PollInv

(* The other steps of the loop begin an await.                             *)
LEMMA LoopTyped ==
    ASSUME PollInv, Loop, ~ Tick
    PROVE  PollInv'
<1>1. /\ Age \subseteq Nat /\ 0 \in Age
      /\ ProbeMax \in Nat /\ Timeout \in Nat
      /\ NapIdle \in Nat /\ NapError \in Nat /\ NapRaise \in Nat
  BY Lengths, PollAssumption DEF Age, PollAssumption
<1>2. /\ place \in {"head", "probe", "get", "nap", "ended"}
      /\ spent \in Age /\ nap \in {0, NapIdle, NapError, NapRaise}
      /\ msgAge \in Age /\ linkAge \in Age /\ keepAge \in Age
      /\ quietAge \in Age /\ probeAge \in Age /\ silentAge \in Age
      /\ shutdown \in BOOLEAN /\ alive \in BOOLEAN /\ warned \in BOOLEAN
      /\ arrived \in 0 .. MaxArrivals /\ pulled \in 0 .. arrived
      /\ msgAge <= quietAge
      /\ place = "probe" => probeAge = spent
      /\ place \in {"head", "get", "nap"} => keepAge = probeAge
  BY Typed DEF PollInv, Timed
<1>3. SUFFICES TypeOK' /\ Timed'
  BY DEF PollInv
<1>4. CASE Leave \/ Probe \/ Get \/ Woken
  <2>1. TypeOK'
    BY <1>1, <1>2, <1>4, Typed DEF Leave, Probe, Get, Woken, Enter, TypeOK, ages
  <2>2. Timed'
    BY <1>1, <1>2, <1>4 DEF Leave, Probe, Get, Woken, Enter, Timed, Longest, ages
  <2> QED
    BY <2>1, <2>2
<1>5. CASE Probed
  <2>1. TypeOK'
    BY <1>1, <1>2, <1>5 DEF Probed, Enter, Answered, TypeOK
  <2>2. Timed'
    BY <1>1, <1>2, <1>5 DEF Probed, Enter, Answered, Timed, Longest
  <2> QED
    BY <2>1, <2>2
<1>6. CASE GotMessage
  <2>1. pulled' \in 0 .. arrived'
    BY <1>2, <1>6, PollAssumption DEF GotMessage, PollAssumption
  <2>2. TypeOK'
    BY <1>1, <1>2, <1>6, <2>1 DEF GotMessage, Sleep, Enter, Answered, TypeOK
  <2>3. Timed'
    BY <1>1, <1>2, <1>6 DEF GotMessage, Sleep, Enter, Answered, Timed, Longest
  <2> QED
    BY <2>2, <2>3
<1>7. CASE GotNothing
  <2>1. TypeOK'
    <3>1. warned' \in BOOLEAN /\ msgAge' \in Age
      BY <1>1, <1>2, <1>7, Zenon DEF GotNothing
    <3> QED
      BY <1>1, <1>2, <1>7, <3>1 DEF GotNothing, Sleep, Enter, Answered, TypeOK
  <2>2. Timed'
    <3>1. msgAge' <= quietAge'
      BY <1>1, <1>2, <1>7 DEF GotNothing
    <3> QED
      BY <1>1, <1>2, <1>7, <3>1 DEF GotNothing, Sleep, Enter, Answered, Timed, Longest
  <2> QED
    BY <2>1, <2>2
<1>8. CASE GotTimeout
  <2>1. TypeOK'
    <3>1. warned' \in BOOLEAN
      BY <1>2, <1>8, Zenon DEF GotTimeout
    <3> QED
      BY <1>1, <1>2, <1>8, <3>1 DEF GotTimeout, Sleep, Enter, TypeOK
  <2>2. Timed'
    BY <1>1, <1>2, <1>8 DEF GotTimeout, Sleep, Enter, Timed, Longest
  <2> QED
    BY <2>1, <2>2
<1>9. CASE GotError \/ GetRaised
  <2>1. TypeOK'
    BY <1>1, <1>2, <1>9 DEF GotError, GetRaised, Sleep, Enter, Answered, TypeOK
  <2>2. Timed'
    BY <1>1, <1>2, <1>9 DEF GotError, GetRaised, Sleep, Enter, Answered, Timed, Longest
  <2> QED
    BY <2>1, <2>2
<1> QED
  BY <1>4, <1>5, <1>6, <1>7, <1>8, <1>9 DEF Loop, GetReturns

(* What the environment does keeps it too.                                 *)
LEMMA OthersTyped ==
    ASSUME PollInv, Arrive \/ LinkLost \/ Shutdown \/ Cancel \/ UNCHANGED vars
    PROVE  PollInv'
<1>1. CASE Arrive
  <2>1. arrived' \in 0 .. MaxArrivals /\ pulled' \in 0 .. arrived'
    BY <1>1, Typed, PollAssumption DEF PollInv, Arrive, PollAssumption
  <2>2. TypeOK'
    BY <1>1, <2>1 DEF PollInv, TypeOK, Arrive, vars, ages
  <2>3. Timed'
    BY <1>1 DEF PollInv, Timed, Longest, Arrive, ages
  <2> QED
    BY <2>2, <2>3 DEF PollInv
<1>2. CASE Cancel
  <2>1. 0 \in Age
    BY Lengths DEF Age
  <2>2. TypeOK'
    BY <1>2, <2>1 DEF PollInv, TypeOK, Cancel, Enter, ages
  <2>3. Timed'
    BY <1>2 DEF PollInv, Timed, Longest, Cancel, Enter, ages
  <2> QED
    BY <2>2, <2>3 DEF PollInv
<1>3. CASE LinkLost \/ Shutdown \/ UNCHANGED vars
  BY <1>3 DEF PollInv, TypeOK, Timed, Longest, LinkLost, Shutdown, vars, ages
<1> QED
  BY <1>1, <1>2, <1>3

LEMMA StepTyped == PollInv /\ [Next]_vars => PollInv'
  BY TickTyped, LoopTyped, OthersTyped DEF Next, Ended

LEMMA AlwaysTyped == Spec => []PollInv
  BY InitTyped, StepTyped, PTL DEF Spec

(* The program's variables keep their types, and the poll never returns    *)
(* more messages than the companion has received.                          *)
THEOREM TypeCorrect == Spec => []TypeOK
<1>1. PollInv => TypeOK
  BY DEF PollInv
<1> QED
  BY <1>1, AlwaysTyped, PTL

-----------------------------------------------------------------------------
(* However the probes end, message_poll.py:98 dates the keepalive from     *)
(* before the probe: a companion is never probed more often than every     *)
(* keepalive_sec, nor within keepalive_only_when_idle_sec of a message.    *)
THEOREM ProbesStaySpaced == Spec => ProbesAreSpaced
<1>1. PollInv /\ [Next]_vars => [Probe => quietAge >= KeepIdle /\ probeAge >= Keepalive]_vars
  <2> SUFFICES ASSUME PollInv, Probe
               PROVE  quietAge >= KeepIdle /\ probeAge >= Keepalive
    OBVIOUS
  <2>1. msgAge \in Nat /\ quietAge \in Nat /\ msgAge <= quietAge
    BY Typed, Lengths DEF PollInv, Timed, Age
  <2>2. keepAge = probeAge
    BY DEF PollInv, Timed, Probe
  <2> QED
    BY <2>1, <2>2, PollAssumption DEF Probe, ProbeDue, PollAssumption
<1> QED
  BY <1>1, AlwaysTyped, PTL DEF Spec, ProbesAreSpaced

-----------------------------------------------------------------------------
LEMMA Numbers ==
    /\ Keepalive \in Nat /\ KeepIdle \in Nat /\ Watch \in Nat
    /\ Timeout \in Nat /\ ProbeMax \in Nat /\ Nap \in Nat
    /\ AfterGet = Keepalive + ProbeMax + Timeout
    /\ LatestProbe = Keepalive + KeepIdle + ProbeMax + Timeout + Timeout + Nap
  BY Lengths, PollAssumption DEF PollAssumption, AfterGet, LatestProbe

(* What the proofs of NotPutOff use of PollInv.                            *)
LEMMA Ages ==
    PollInv =>
      /\ spent \in Nat /\ msgAge \in Nat /\ quietAge \in Nat /\ probeAge \in Nat
      /\ msgAge <= quietAge /\ quietAge <= Cap /\ probeAge <= Cap
      /\ place = "probe" => probeAge = spent /\ spent <= ProbeMax
      /\ place = "get" => spent <= Timeout
      /\ place = "nap" => spent <= Nap
      /\ place \in {"head", "get", "nap"} => keepAge = probeAge
<1> SUFFICES ASSUME PollInv
             PROVE  /\ spent \in Nat /\ msgAge \in Nat /\ quietAge \in Nat /\ probeAge \in Nat
                    /\ msgAge <= quietAge /\ quietAge <= Cap /\ probeAge <= Cap
                    /\ place = "probe" => probeAge = spent /\ spent <= ProbeMax
                    /\ place = "get" => spent <= Timeout
                    /\ place = "nap" => spent <= Nap
                    /\ place \in {"head", "get", "nap"} => keepAge = probeAge
  OBVIOUS
<1>1. nap <= Nap
  BY Lengths, Typed DEF PollInv
<1> QED
  BY <1>1, Typed, Lengths, PollAssumption DEF PollInv, Timed, Age, Longest, PollAssumption

LEMMA TickNotPutOff ==
    ASSUME Keepalive > 0, PollInv, NotPutOff, Tick
    PROVE  NotPutOff'
<1>1. /\ spent' = spent + 1 /\ place' = place
      /\ msgAge' <= msgAge + 1 /\ msgAge' \in Nat
      /\ probeAge' <= probeAge + 1 /\ probeAge' \in Nat
  BY Grown, Typed, Lengths DEF Tick, PollInv, Age
<1>2. msgAge = quietAge => msgAge' = quietAge'
  BY DEF Tick
<1>3. msgAge # quietAge => msgAge' = msgAge + 1
  <2> HAVE msgAge # quietAge
  <2>1. msgAge < Cap
    BY Ages, Lengths
  <2> QED
    BY <2>1, Grown, Typed DEF Tick, PollInv
<1>4. msgAge' = quietAge' \/ probeAge' < AfterGet + msgAge'
  <2>1. CASE msgAge = quietAge
    BY <2>1, <1>2
  <2>2. CASE msgAge # quietAge
    BY <2>2, <1>1, <1>3, Ages, Numbers DEF NotPutOff
  <2> QED
    BY <2>1, <2>2
<1>5. (place = "get" =>
         msgAge < KeepIdle + spent \/ probeAge < Keepalive + ProbeMax + spent)'
  BY <1>1, Ages, Numbers DEF NotPutOff
<1>6. (place = "nap" =>
         msgAge <= KeepIdle + Timeout + spent \/ probeAge < AfterGet + spent)'
  BY <1>1, Ages, Numbers DEF NotPutOff
<1>7. place' # "head"
  BY <1>1, Lengths, Typed DEF Tick, Longest, PollInv, Age
<1> QED
  BY <1>4, <1>5, <1>6, <1>7 DEF NotPutOff

(* A step of the loop that is not the clock's: what the head decided holds *)
(* until get_msg returns.                                                  *)
LEMMA LoopNotPutOff ==
    ASSUME ShortIdle, Keepalive > 0, PollInv, NotPutOff, Loop, ~ Tick
    PROVE  NotPutOff'
<1>1. CASE Leave
  BY <1>1 DEF Leave, Enter, ages, NotPutOff
<1>2. CASE Probe
  BY <1>2, Ages, Numbers DEF Probe, Enter, NotPutOff
<1>3. CASE Get
  BY <1>3, Ages, Numbers DEF Get, ProbeDue, Enter, ages, NotPutOff
<1>4. CASE Probed
  BY <1>4, Ages, Numbers DEF Probed, Enter, NotPutOff
<1>5. CASE GotMessage
  BY <1>5, Ages, Numbers DEF GotMessage, Sleep, Enter, NotPutOff
<1>6. CASE GotNothing
  <2>1. /\ place = "get" /\ place' = "nap" /\ spent' = 0
        /\ probeAge' = probeAge /\ quietAge' = quietAge
    BY <1>6 DEF GotNothing, Sleep, Enter
  <2>2. CASE msgAge > Watch
    <3>1. msgAge' = 0
      BY <1>6, <2>2 DEF GotNothing
    <3>2. probeAge < AfterGet
      BY <2>1, <2>2, Ages, Numbers DEF NotPutOff, ShortIdle
    <3> QED
      BY <2>1, <3>1, <3>2, Ages, Numbers DEF NotPutOff
  <2>3. CASE ~ (msgAge > Watch)
    <3>1. msgAge' = msgAge
      BY <1>6, <2>3 DEF GotNothing
    <3> QED
      BY <2>1, <3>1, Ages, Numbers DEF NotPutOff
  <2> QED
    BY <2>2, <2>3
<1>7. CASE GotTimeout \/ GotError \/ GetRaised
  <2>1. /\ place = "get" /\ place' = "nap" /\ spent' = 0
        /\ probeAge' = probeAge /\ quietAge' = quietAge /\ msgAge' = msgAge
    BY <1>7 DEF GotTimeout, GotError, GetRaised, Sleep, Enter
  <2> QED
    BY <2>1, Ages, Numbers DEF NotPutOff
<1>8. CASE Woken
  <2>1. /\ place = "nap" /\ place' = "head"
        /\ probeAge' = probeAge /\ quietAge' = quietAge /\ msgAge' = msgAge
    BY <1>8 DEF Woken, Enter, ages
  <2> QED
    BY <2>1, Ages, Numbers DEF NotPutOff
<1> QED
  BY <1>1, <1>2, <1>3, <1>4, <1>5, <1>6, <1>7, <1>8 DEF Loop, GetReturns

LEMMA StepNotPutOff ==
    ASSUME ShortIdle, Keepalive > 0, PollInv, NotPutOff, [Next]_vars
    PROVE  NotPutOff'
<1>1. CASE Loop
  BY <1>1, TickNotPutOff, LoopNotPutOff
<1>2. CASE Cancel
  BY <1>2 DEF Cancel, Enter, ages, NotPutOff
<1>3. CASE Arrive \/ LinkLost \/ Shutdown \/ UNCHANGED vars
  BY <1>3 DEF Arrive, LinkLost, Shutdown, vars, ages, NotPutOff
<1> QED
  BY <1>1, <1>2, <1>3 DEF Next, Ended

(* While no message comes a probe of the link is never later than the two  *)
(* settings, a round and one more get_msg allow: message_poll.py:149 may   *)
(* start the idle time again, but only shortly after a probe, when the     *)
(* threshold is below the 90 s.                                            *)
THEOREM ProbesComeInTime ==
    ASSUME ShortIdle
    PROVE  Spec => []IdleIsProbed
<1>1. Init /\ Keepalive > 0 => NotPutOff
  BY Numbers DEF Init, NotPutOff
<1>2. PollInv /\ (Keepalive > 0 => NotPutOff) /\ [Next]_vars => (Keepalive > 0 => NotPutOff)'
  BY StepNotPutOff
<1>3. PollInv /\ (Keepalive > 0 => NotPutOff) => IdleIsProbed
  <2> SUFFICES ASSUME PollInv, NotPutOff, Keepalive > 0, place # "ended"
               PROVE  probeAge <= LatestProbe \/ quietAge <= LatestProbe
    BY DEF IdleIsProbed
  <2>1. place \in {"head", "probe", "get", "nap"}
    BY Typed DEF PollInv
  <2>2. CASE place = "probe"
    BY <2>2, Ages, Numbers
  <2>3. CASE place = "get"
    BY <2>3, Ages, Numbers DEF NotPutOff
  <2>4. CASE place = "nap"
    BY <2>4, Ages, Numbers DEF NotPutOff
  <2>5. CASE place = "head"
    BY <2>5, Ages, Numbers DEF NotPutOff
  <2> QED
    BY <2>1, <2>2, <2>3, <2>4, <2>5
<1> QED
  BY <1>1, <1>2, <1>3, AlwaysTyped, PTL DEF Spec
=============================================================================
