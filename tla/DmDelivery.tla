----------------------------- MODULE DmDelivery -----------------------------
(***************************************************************************)
(* BotService._send_dm, and the loop that sends a long reply in parts.     *)
(* Each sender is a handler task with one reply; its parts go one after    *)
(* another, and each is sent until its acknowledgement is heard or the     *)
(* attempts are used up.  The mesh may lose, delay, duplicate and reorder  *)
(* messages and acknowledgements.  An acknowledgement names the message by *)
(* its content: recipient, text, time in seconds and attempt.  The bot     *)
(* hears it only while wait_for_event is waiting for that very code.       *)
(***************************************************************************)
EXTENDS Integers, FiniteSets

CONSTANTS
    Senders,      \* handler tasks
    PeerOf,       \* whom each task replies to
    TextOf,       \* the parts of each reply
    MaxAttempts,  \* dm_delivery.max_attempts
    WaitAck,      \* dm_delivery.wait_sec > 0
    MaxClock      \* bound: the horizon of the wall clock

ASSUME DmAssumption ==
    /\ DOMAIN PeerOf = Senders /\ DOMAIN TextOf = Senders
    /\ \A s \in Senders :
         /\ 1 \in DOMAIN TextOf[s] /\ DOMAIN TextOf[s] \subseteq Nat \ {0}
         /\ \A p \in DOMAIN TextOf[s] : 1 .. p \subseteq DOMAIN TextOf[s]
    /\ MaxAttempts \in Nat \ {0}
    /\ WaitAck \in BOOLEAN

VARIABLES
    clock,     \* int(time.time())
    pc,        \* where each task is
    part,      \* the part being sent
    attempt,   \* its attempt, from 0
    stamp,     \* ts, taken once for all attempts of a part
    mesh,      \* every message handed to the companion
    inbox,     \* those a contact has received
    outcome    \* how each part ended

vars == <<clock, pc, part, attempt, stamp, mesh, inbox, outcome>>

PartsOf(s) == DOMAIN TextOf[s]
Last(s) == \A p \in PartsOf(s) : p <= part[s]

CodeOf(m) == [to |-> m.to, text |-> m.text, ts |-> m.ts, attempt |-> m.attempt]

(* expected_ack of the attempt a task is at.                               *)
Expected(s) ==
    [to |-> PeerOf[s], text |-> TextOf[s][part[s]], ts |-> stamp[s], attempt |-> attempt[s]]

Init ==
    /\ clock = 0
    /\ pc = [s \in Senders |-> "delay"]
    /\ part = [s \in Senders |-> 1]
    /\ attempt = [s \in Senders |-> 0]
    /\ stamp = [s \in Senders |-> 0]
    /\ mesh = {} /\ inbox = {}
    /\ outcome = [s \in Senders |-> [p \in PartsOf(s) |-> "none"]]

Goto(s, place) == pc' = [pc EXCEPT ![s] = place]

-----------------------------------------------------------------------------
(* send_msg(dst, msg, timestamp=ts, attempt=n).                            *)
Transmit(s, t, n) ==
    /\ Goto(s, "sending")
    /\ attempt' = [attempt EXCEPT ![s] = n]
    /\ mesh' = mesh \cup {[by |-> <<s, part[s]>>, to |-> PeerOf[s],
                           text |-> TextOf[s][part[s]], ts |-> t, attempt |-> n]}

(* The delay before a part is over: the reply delay, or the gap between    *)
(* parts.  The time of the message is taken now, the first attempt made.   *)
Start(s) ==
    /\ pc[s] = "delay"
    /\ stamp' = [stamp EXCEPT ![s] = clock]
    /\ Transmit(s, clock, 0)
    /\ UNCHANGED <<clock, part, inbox, outcome>>

(* _send_dm returns, which tells its caller nothing: the next part, if any, *)
(* goes out whatever became of this one.                                   *)
Finish(s, how) ==
    /\ outcome' = [outcome EXCEPT ![s][part[s]] = how]
    /\ IF Last(s)
       THEN Goto(s, "done") /\ UNCHANGED part
       ELSE Goto(s, "delay") /\ part' = [part EXCEPT ![s] = @ + 1]

(* send_msg returned ERROR, or it or the wait raised.                      *)
SendError(s) ==
    /\ pc[s] \in {"sending", "waiting"}
    /\ Finish(s, "error")
    /\ UNCHANGED <<clock, attempt, stamp, mesh, inbox>>

(* MSG_SENT without expected_ack, or the wait is turned off.               *)
SendBlind(s) ==
    /\ pc[s] = "sending"
    /\ Finish(s, "blind")
    /\ UNCHANGED <<clock, attempt, stamp, mesh, inbox>>

(* MSG_SENT with expected_ack: only from now on is its ACK listened for.   *)
SendOk(s) ==
    /\ pc[s] = "sending"
    /\ WaitAck
    /\ Goto(s, "waiting")
    /\ UNCHANGED <<clock, part, attempt, stamp, mesh, inbox, outcome>>

(* Fault: the loop over the attempts goes on after the ACK.                *)
AckedGoesOn(s) ==
    /\ pc[s] = "acked"
    /\ Goto(s, "waiting")
    /\ outcome' = [outcome EXCEPT ![s][part[s]] = "acked"]
    /\ UNCHANGED <<clock, part, attempt, stamp, mesh, inbox>>

Acked(s) ==
    /\ pc[s] = "acked"
    /\ Finish(s, "acked")
    /\ UNCHANGED <<clock, attempt, stamp, mesh, inbox>>

(* Faults: one attempt too many, always the same attempt, a new time, or   *)
(* no end to the attempts.                                                 *)
ResendOnceMore(s) ==
    /\ pc[s] = "waiting"
    /\ attempt[s] < MaxAttempts
    /\ Transmit(s, stamp[s], attempt[s] + 1)
    /\ UNCHANGED <<clock, part, stamp, inbox, outcome>>

ResendSame(s) ==
    /\ pc[s] = "waiting"
    /\ Transmit(s, stamp[s], attempt[s])
    /\ UNCHANGED <<clock, part, stamp, inbox, outcome>>

ResendAnew(s) ==
    /\ pc[s] = "waiting"
    /\ attempt[s] + 1 < MaxAttempts
    /\ Transmit(s, clock, attempt[s] + 1)
    /\ UNCHANGED <<clock, part, stamp, inbox, outcome>>

(* wait_for_event timed out: the next attempt, or no more.                 *)
Resend(s) ==
    /\ pc[s] = "waiting"
    /\ attempt[s] + 1 < MaxAttempts
    /\ Transmit(s, stamp[s], attempt[s] + 1)
    /\ UNCHANGED <<clock, part, stamp, inbox, outcome>>

(* Fault: one attempt too few.                                             *)
GiveUpEarly(s) ==
    /\ pc[s] = "waiting"
    /\ attempt[s] + 2 >= MaxAttempts
    /\ Finish(s, "lost")
    /\ UNCHANGED <<clock, attempt, stamp, mesh, inbox>>

GiveUp(s) ==
    /\ pc[s] = "waiting"
    /\ attempt[s] + 1 >= MaxAttempts
    /\ Finish(s, "lost")
    /\ UNCHANGED <<clock, attempt, stamp, mesh, inbox>>

-----------------------------------------------------------------------------
(* The mesh.  A contact receives a message and acknowledges it.  What the  *)
(* bot's radio hears of that is any acknowledgement made so far: late, out *)
(* of order, again, or never.                                              *)
Receive ==
    /\ \E m \in mesh : inbox' = inbox \cup {m}
    /\ UNCHANGED <<clock, pc, part, attempt, stamp, mesh, outcome>>

Acks == {CodeOf(m) : m \in inbox}

(* Fault: any acknowledgement ends the wait.                               *)
HearAnyAck ==
    /\ \E c \in Acks :
         pc' = [s \in Senders |-> IF pc[s] = "waiting" THEN "acked" ELSE pc[s]]
    /\ UNCHANGED <<clock, part, attempt, stamp, mesh, inbox, outcome>>

(* Every task that waits for this code is woken; nobody else hears it.     *)
HearAck ==
    /\ \E c \in Acks :
         pc' = [s \in Senders |->
                  IF pc[s] = "waiting" /\ Expected(s) = c THEN "acked" ELSE pc[s]]
    /\ UNCHANGED <<clock, part, attempt, stamp, mesh, inbox, outcome>>

Tick ==
    /\ clock < MaxClock
    /\ clock' = clock + 1
    /\ UNCHANGED <<pc, part, attempt, stamp, mesh, inbox, outcome>>

Step(s) == Start(s) \/ SendError(s) \/ SendBlind(s) \/ SendOk(s)
             \/ Acked(s) \/ Resend(s) \/ GiveUp(s)

Next == (\E s \in Senders : Step(s)) \/ Receive \/ HearAck \/ Tick

Spec == Init /\ [][Next]_vars

(* Every await of the task ends: the companion answers, timers expire.     *)
FairSpec == Spec /\ \A s \in Senders : WF_vars(Step(s))

-----------------------------------------------------------------------------
TypeOK ==
    /\ clock \in Nat
    /\ pc \in [Senders -> {"delay", "sending", "waiting", "acked", "done"}]
    /\ \A s \in Senders : part[s] \in PartsOf(s)
    /\ \A s \in Senders : attempt[s] \in 0 .. MaxAttempts - 1
    /\ stamp \in [Senders -> Nat]
    /\ inbox \subseteq mesh
    /\ \A m \in mesh : m.ts \in Nat /\ m.attempt \in 0 .. MaxAttempts - 1

(* README.md:112: the reply counts as delivered only on the ACK with the   *)
(* expected code.  So the contact has it: an ACK for another reply, to     *)
(* another contact or for another part, never ends the wait.               *)
AckedWasReceived ==
    \A s \in Senders : \A p \in PartsOf(s) : outcome[s][p] = "acked" =>
        \E m \in inbox : m.to = PeerOf[s] /\ m.text = TextOf[s][p]

(* README.md:112: a repeat carries the time of the original, by which the  *)
(* contact recognises it: no part is shown twice to its reader.            *)
ShownOnce ==
    \A m1, m2 \in mesh : m1.by = m2.by => m1.ts = m2.ts

(* Each attempt has a code of its own, so that a late ACK of one attempt   *)
(* is not taken for the ACK of another.                                    *)
AttemptsAreDistinct ==
    [][\A s \in Senders : Start(s) \/ Resend(s) =>
         \A m \in mesh : m.by = <<s, part[s]>> => CodeOf(m) # Expected(s)']_vars

(* The parts of a reply go out in order, each after the one before it is   *)
(* finished, and none is sent again after its ACK.                         *)
PartsInOrder ==
    \A m \in mesh : \A p \in PartsOf(m.by[1]) :
        p < m.by[2] => outcome[m.by[1]][p] # "none"

NotResentAfterAck ==
    [][\A m \in mesh' \ mesh : outcome[m.by[1]][m.by[2]] = "none"]_vars

(* All this together, and that a part is given up only after all attempts: *)
(* service.py:1058-1138 and 1479 do what ReplyDelivery promises, where a   *)
(* message is what all its attempts have in common.                        *)
Trying == {"sending", "waiting", "acked"}
Letter(m) == [by |-> m.by, to |-> m.to, text |-> m.text, at |-> m.ts]
Phase(place) ==
    CASE place = "delay" -> "idle" [] place \in Trying -> "trying" [] place = "done" -> "over"
Tries(place, n) == IF place \in Trying THEN n + 1 ELSE 0

Promise ==
    INSTANCE ReplyDelivery WITH
        phase <- [s \in Senders |-> Phase(pc[s])],
        tries <- [s \in Senders |-> Tries(pc[s], attempt[s])],
        offered <- {Letter(m) : m \in mesh},
        shown <- {Letter(m) : m \in inbox}

ReplySpec == Promise!Spec

(* Every reply comes to an end: a contact that never answers holds up its  *)
(* handler for a bounded number of attempts.                               *)
EveryReplyEnds == \A s \in Senders : <>(pc[s] = "done")
=============================================================================
