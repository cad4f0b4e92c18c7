---------------------------- MODULE HeardDelivery ----------------------------
(***************************************************************************)
(* What a channel send promises, with nothing forgotten: every attempt     *)
(* opens a listening window, and when the window is over the verdict is    *)
(* taken on EVERYTHING heard since it opened.  Enough distinct packets:    *)
(* delivered.  Too few: another attempt, or failure after the last one.    *)
(* A send may also fail while it is talking to the companion.              *)
(***************************************************************************)
EXTENDS RxLog, FiniteSets

CONSTANTS Senders, Channels, Tags, MaxAttempts, MinRepeats

VARIABLES now, phase, chan, tries, opened, tag, heard

vars == <<now, phase, chan, tries, opened, tag, heard>>

Init ==
    /\ now = 0
    /\ phase = [s \in Senders |-> "idle"]
    /\ chan = [s \in Senders |-> NoIdx]
    /\ tries = [s \in Senders |-> 0]
    /\ opened = [s \in Senders |-> 0]
    /\ tag = [s \in Senders |-> NoTags]
    /\ heard = {}

Begin(s) ==
    /\ phase[s] = "idle"
    /\ \E c \in Channels : chan' = [chan EXCEPT ![s] = c]
    /\ phase' = [phase EXCEPT ![s] = "sending"]
    /\ tries' = [tries EXCEPT ![s] = 1]
    /\ UNCHANGED <<now, opened, tag, heard>>

Open(s) ==
    /\ phase[s] = "sending"
    /\ phase' = [phase EXCEPT ![s] = "listening"]
    /\ opened' = [opened EXCEPT ![s] = now]
    /\ \E g \in Tags : tag' = [tag EXCEPT ![s] = g]
    /\ UNCHANGED <<now, chan, tries, heard>>

Abort(s) ==
    /\ phase[s] = "sending"
    /\ phase' = [phase EXCEPT ![s] = "failed"]
    /\ UNCHANGED <<now, chan, tries, opened, tag, heard>>

(* Enough was heard in the window, counted over the whole history.         *)
Confirmed(s) ==
    Cardinality(HeardKeys(heard, chan[s], tag[s], opened[s])) >= MinRepeats

Judge(s) ==
    /\ phase[s] = "listening"
    /\ now >= opened[s] + RxWait
    /\ \/ /\ Confirmed(s)
          /\ phase' = [phase EXCEPT ![s] = "delivered"]
          /\ UNCHANGED tries
       \/ /\ ~ Confirmed(s)
          /\ tries[s] < MaxAttempts
          /\ phase' = [phase EXCEPT ![s] = "sending"]
          /\ tries' = [tries EXCEPT ![s] = @ + 1]
       \/ /\ ~ Confirmed(s)
          /\ tries[s] >= MaxAttempts
          /\ phase' = [phase EXCEPT ![s] = "failed"]
          /\ UNCHANGED tries
    /\ opened' = [opened EXCEPT ![s] = 0]
    /\ tag' = [tag EXCEPT ![s] = NoTags]
    /\ UNCHANGED <<now, chan, heard>>

Hear ==
    /\ \E e \in heard' : e.ts = now /\ heard' = heard \cup {e}
    /\ UNCHANGED <<now, phase, chan, tries, opened, tag>>

Tick ==
    /\ now' = now + 1
    /\ UNCHANGED <<phase, chan, tries, opened, tag, heard>>

Next ==
    \/ \E s \in Senders : Begin(s) \/ Open(s) \/ Abort(s) \/ Judge(s)
    \/ Hear
    \/ Tick

Spec == Init /\ [][Next]_vars
=============================================================================
