----------------------------- MODULE MessagePoll -----------------------------
(***************************************************************************)
(* run_serial_message_poll: the loop that pulls received messages out of   *)
(* the companion, probes an idle link, and watches for a dead one.  Every  *)
(* await is a place: probe (send_device_query), get (get_msg), nap (sleep).*)
(* The code keeps the times of three past events and only ever subtracts   *)
(* them from now, so the model keeps the ages themselves, which stop       *)
(* growing at Cap, beyond every threshold.                                 *)
(***************************************************************************)
EXTENDS Integers

CONSTANTS
    Keepalive,    \* keepalive_sec; 0: off
    KeepIdle,     \* keepalive_only_when_idle_sec
    Watch,        \* the 90 s of the two watchdogs
    Timeout,      \* the longest get_msg
    ProbeMax,     \* the longest send_device_query
    NapIdle,      \* poll idle
    NapError,     \* 1.0 s after an error
    NapRaise,     \* 2.0 s after an exception
    Cap,          \* bound: ages saturate here
    MaxArrivals   \* bound: messages received over the radio in a run

Longer(a, b) == IF a > b THEN a ELSE b

(* The longest a round of the loop can take.                               *)
Round == ProbeMax + Timeout + Longer(NapIdle, Longer(NapError, NapRaise))

ASSUME PollAssumption ==
    /\ {Keepalive, KeepIdle, Watch, Timeout, ProbeMax, NapIdle, NapError, NapRaise} \subseteq Nat
    /\ MaxArrivals \in Nat
    /\ Cap \in Nat
    /\ Cap > Watch + Round
    /\ Cap > Keepalive + KeepIdle + Timeout + Round

VARIABLES
    place,      \* where the loop is
    spent,      \* time in the current await
    nap,        \* length of the current sleep
    msgAge,     \* now - last_msg_wall
    linkAge,    \* now - last_link_wall
    keepAge,    \* now - last_keepalive_wall
    shutdown,   \* the event
    arrived,    \* messages the companion has received
    pulled,     \* messages get_msg has returned
    alive,      \* environment: the companion answers
    warned,     \* history: the warning of a dead link was logged
    quietAge,   \* history: time since a message was last returned
    probeAge,   \* history: time since a probe last began
    silentAge   \* history: how long there have been only timeouts

ages == <<msgAge, linkAge, keepAge, quietAge, probeAge, silentAge>>
vars == <<place, spent, nap, shutdown, arrived, pulled, alive, warned, ages>>

Age == 0 .. Cap

Init ==
    /\ place = "head" /\ spent = 0 /\ nap = 0
    /\ msgAge = 0 /\ linkAge = 0
    /\ keepAge \in Age       \* last_keepalive_wall = 0.0: the uptime
    /\ probeAge = keepAge /\ quietAge = 0 /\ silentAge = 0
    /\ shutdown = FALSE /\ warned = FALSE
    /\ arrived = 0 /\ pulled = 0
    /\ alive = TRUE

Enter(p) == place' = p /\ spent' = 0

(* Something other than a timeout came back.                               *)
Answered == silentAge' = 0

-----------------------------------------------------------------------------
(* The head of the loop: the end, a probe, or get_msg.                     *)
ProbeDue ==
    /\ Keepalive > 0
    /\ msgAge >= KeepIdle
    /\ keepAge >= Keepalive

Leave ==
    /\ place = "head"
    /\ shutdown
    /\ Enter("ended")
    /\ UNCHANGED <<nap, shutdown, arrived, pulled, alive, warned, ages>>

Probe ==
    /\ place = "head"
    /\ ~ shutdown
    /\ ProbeDue
    /\ Enter("probe")
    /\ probeAge' = 0
    /\ UNCHANGED <<nap, shutdown, arrived, pulled, alive, warned,
                   msgAge, linkAge, keepAge, quietAge, silentAge>>

(* Fault: in a shutdown the pulling goes on.                               *)
GetAlways ==
    /\ place = "head"
    /\ shutdown \/ ~ ProbeDue
    /\ Enter("get")
    /\ UNCHANGED <<nap, shutdown, arrived, pulled, alive, warned, ages>>

Get ==
    /\ place = "head"
    /\ ~ shutdown
    /\ ~ ProbeDue
    /\ Enter("get")
    /\ UNCHANGED <<nap, shutdown, arrived, pulled, alive, warned, ages>>

(* Fault: only a probe that was answered dates the keepalive.              *)
ProbedIfAnswered ==
    /\ place = "probe"
    /\ \/ alive /\ linkAge' = 0 /\ Answered /\ keepAge' = spent
       \/ UNCHANGED <<linkAge, silentAge, keepAge>>
    /\ Enter("get")
    /\ UNCHANGED <<nap, shutdown, arrived, pulled, alive, warned,
                   msgAge, quietAge, probeAge>>

(* send_device_query answered, failed or raised: only an answer refreshes  *)
(* the link, any of them dates the keepalive from before the probe.        *)
Probed ==
    /\ place = "probe"
    /\ \/ alive /\ linkAge' = 0 /\ Answered
       \/ UNCHANGED <<linkAge, silentAge>>
    /\ keepAge' = spent
    /\ Enter("get")
    /\ UNCHANGED <<nap, shutdown, arrived, pulled, alive, warned,
                   msgAge, quietAge, probeAge>>

-----------------------------------------------------------------------------
(* get_msg returned.  Whatever it returned refreshes last_link_wall first. *)
Sleep(n) == Enter("nap") /\ nap' = n

(* Fault: a duplicate of the last message counts as a new one.             *)
GotMessageAgain ==
    /\ place = "get"
    /\ alive /\ arrived > 0
    /\ pulled' = pulled + 1
    /\ linkAge' = 0 /\ msgAge' = 0 /\ quietAge' = 0 /\ Answered
    /\ Sleep(0)
    /\ UNCHANGED <<shutdown, arrived, alive, warned, keepAge, probeAge>>

GotMessage ==
    /\ place = "get"
    /\ alive /\ pulled < arrived
    /\ pulled' = pulled + 1
    /\ linkAge' = 0 /\ msgAge' = 0 /\ quietAge' = 0 /\ Answered
    /\ Sleep(0)
    /\ UNCHANGED <<shutdown, arrived, alive, warned, keepAge, probeAge>>

(* Faults: every empty answer counts as traffic, or ends the loop.         *)
GotNothingAsTraffic ==
    /\ place = "get"
    /\ alive /\ pulled = arrived
    /\ linkAge' = 0 /\ msgAge' = 0 /\ Answered
    /\ Sleep(NapIdle)
    /\ UNCHANGED <<shutdown, arrived, pulled, alive, warned, keepAge, quietAge, probeAge>>

GotNothingIsTheEnd ==
    /\ place = "get"
    /\ alive /\ pulled = arrived
    /\ Enter("ended")
    /\ UNCHANGED <<nap, shutdown, arrived, pulled, alive, warned, ages>>

(* NO_MORE_MSGS: after 90 s a notice, a warning if the link is silent too, *)
(* and in both cases the idle time starts again.                           *)
GotNothing ==
    /\ place = "get"
    /\ alive /\ pulled = arrived
    /\ linkAge' = 0 /\ Answered
    /\ IF msgAge > Watch
       THEN /\ msgAge' = 0
            /\ warned' = (warned \/ linkAge' > Watch)
       ELSE UNCHANGED <<msgAge, warned>>
    /\ Sleep(NapIdle)
    /\ UNCHANGED <<shutdown, arrived, pulled, alive, keepAge, quietAge, probeAge>>

(* ERROR with reason timeout or no_event_received: the age was just reset, *)
(* so the test that follows compares zero with the 90 s.                   *)
GotTimeout ==
    /\ place = "get"
    /\ spent = Timeout
    /\ linkAge' = 0
    /\ warned' = (warned \/ linkAge' > Watch)
    /\ Sleep(NapIdle)
    /\ UNCHANGED <<shutdown, arrived, pulled, alive,
                   msgAge, keepAge, quietAge, probeAge, silentAge>>

(* Any other ERROR is an answer of the companion.                          *)
GotError ==
    /\ place = "get"
    /\ alive
    /\ linkAge' = 0 /\ Answered
    /\ Sleep(NapError)
    /\ UNCHANGED <<shutdown, arrived, pulled, alive, warned,
                   msgAge, keepAge, quietAge, probeAge>>

GetRaised ==
    /\ place = "get"
    /\ Sleep(NapRaise)
    /\ Answered
    /\ UNCHANGED <<shutdown, arrived, pulled, alive, warned,
                   msgAge, linkAge, keepAge, quietAge, probeAge>>

Woken ==
    /\ place = "nap"
    /\ spent = nap
    /\ Enter("head")
    /\ UNCHANGED <<nap, shutdown, arrived, pulled, alive, warned, ages>>

-----------------------------------------------------------------------------
(* The environment.                                                        *)
Arrive ==
    /\ alive
    /\ arrived < MaxArrivals
    /\ arrived' = arrived + 1
    /\ UNCHANGED <<place, spent, nap, shutdown, pulled, alive, warned, ages>>

(* The USB link is lost, or another process takes the serial port.         *)
LinkLost ==
    /\ alive
    /\ alive' = FALSE
    /\ UNCHANGED <<place, spent, nap, shutdown, arrived, pulled, warned, ages>>

(* A stop command was carried out.                                         *)
Shutdown ==
    /\ ~ shutdown
    /\ shutdown' = TRUE
    /\ UNCHANGED <<place, spent, nap, arrived, pulled, alive, warned, ages>>

(* async_main cancels the task while it awaits, once shutdown is set.      *)
Cancel ==
    /\ shutdown
    /\ place \in {"probe", "get", "nap"}
    /\ Enter("ended")
    /\ UNCHANGED <<nap, shutdown, arrived, pulled, alive, warned, ages>>

Longest == CASE place = "probe" -> ProbeMax
             [] place = "get"   -> Timeout
             [] place = "nap"   -> nap
             [] OTHER           -> 0

Grow(a) == IF a < Cap THEN a + 1 ELSE Cap

Tick ==
    /\ spent < Longest
    /\ spent' = spent + 1
    /\ msgAge' = Grow(msgAge)
    /\ linkAge' = Grow(linkAge)
    /\ keepAge' = Grow(keepAge)
    /\ quietAge' = Grow(quietAge)
    /\ probeAge' = Grow(probeAge)
    /\ silentAge' = Grow(silentAge)
    /\ UNCHANGED <<place, nap, shutdown, arrived, pulled, alive, warned>>

Ended == place = "ended" /\ UNCHANGED vars

GetReturns == GotMessage \/ GotNothing \/ GotTimeout \/ GotError

Loop == Leave \/ Probe \/ Get \/ Probed \/ GetReturns \/ GetRaised \/ Woken \/ Tick

Next == Loop \/ Arrive \/ LinkLost \/ Shutdown \/ Cancel \/ Ended

Spec == Init /\ [][Next]_vars

(* The loop is scheduled and time passes; a get_msg that is made again and *)
(* again with a message waiting returns it once: errors do not last.       *)
FairSpec == Spec /\ WF_vars(Loop) /\ SF_vars(GotMessage)

-----------------------------------------------------------------------------
TypeOK ==
    /\ place \in {"head", "probe", "get", "nap", "ended"}
    /\ spent \in Age /\ nap \in {0, NapIdle, NapError, NapRaise}
    /\ {msgAge, linkAge, keepAge, quietAge, probeAge, silentAge} \subseteq Age
    /\ {shutdown, alive, warned} \subseteq BOOLEAN
    /\ arrived \in 0 .. MaxArrivals /\ pulled \in 0 .. arrived

(* message_poll.py:1-7: every message the companion received is pulled,    *)
(* however long the queue was empty before, while the link is up: the loop *)
(* neither stops at an empty queue nor at an error.                        *)
EveryMessageIsPulled ==
    \A n \in 1 .. MaxArrivals : arrived >= n ~> pulled >= n \/ ~ alive \/ shutdown

(* The loop sees the shutdown within a round even if nobody cancels it.    *)
PollStops == shutdown ~> place = "ended"

(* README.md:126,146-152: an idle link is kept awake.  While no message    *)
(* comes, a probe is never later than the two settings, a round and one    *)
(* more get_msg allow, the notice after 90 s notwithstanding.              *)
LatestProbe == Keepalive + KeepIdle + Timeout + Round

IdleIsProbed ==
    Keepalive > 0 /\ place # "ended" =>
        probeAge <= LatestProbe \/ quietAge <= LatestProbe

(* A companion is not probed more often than every keepalive_sec, whether  *)
(* the probes succeed or fail, and not within keepalive_only_when_idle_sec *)
(* of a message (config.example.yaml:64).                                  *)
ProbesAreSpaced ==
    [][Probe => quietAge >= KeepIdle /\ probeAge >= Keepalive]_vars

(* message_poll.py:157-161: when get_msg has brought only timeouts for 90 s *)
(* a warning says so.                                                      *)
SilenceIsReported == silentAge > Watch + Round => warned
=============================================================================
