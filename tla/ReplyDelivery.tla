---------------------------- MODULE ReplyDelivery ----------------------------
(***************************************************************************)
(* What a direct reply promises, with no clock, no acknowledgement and no  *)
(* code in it.  The parts of a reply go out one after another.  A part is  *)
(* one letter, however often it is offered to the mesh, and its reader     *)
(* sees it once.  It counts as acknowledged only if the contact has been   *)
(* shown it, and as lost only after it was offered as often as is allowed. *)
(***************************************************************************)
EXTENDS Integers

CONSTANTS Senders, PeerOf, TextOf, MaxAttempts, WaitAck

VARIABLES
    phase,     \* of each task: idle, trying or over
    part,      \* the part it is at
    tries,     \* how often that was offered
    offered,   \* letters on the mesh: [by, to, text, at]
    shown,     \* those their readers have seen
    outcome    \* how each part ended

vars == <<phase, part, tries, offered, shown, outcome>>

Init ==
    /\ phase = [s \in Senders |-> "idle"]
    /\ part = [s \in Senders |-> 1]
    /\ tries = [s \in Senders |-> 0]
    /\ offered = {} /\ shown = {}
    /\ outcome = [s \in Senders |-> [p \in DOMAIN TextOf[s] |-> "none"]]

(* The first offer makes the letter, which no part has more than one of.   *)
Begin(s) ==
    /\ phase[s] = "idle"
    /\ phase' = [phase EXCEPT ![s] = "trying"]
    /\ tries' = [tries EXCEPT ![s] = 1]
    /\ \A l \in offered : l.by # <<s, part[s]>>
    /\ \E l \in offered' :
         /\ l.by = <<s, part[s]>> /\ l.to = PeerOf[s] /\ l.text = TextOf[s][part[s]]
         /\ offered' = offered \cup {l}
    /\ UNCHANGED <<part, shown, outcome>>

(* A further offer is of the same letter.                                  *)
Again(s) ==
    /\ phase[s] = "trying"
    /\ tries[s] < MaxAttempts
    /\ tries' = [tries EXCEPT ![s] = @ + 1]
    /\ UNCHANGED <<phase, part, offered, shown, outcome>>

Show ==
    /\ \E l \in offered : shown' = shown \cup {l}
    /\ UNCHANGED <<phase, part, tries, offered, outcome>>

(* The contact has this text.  Two tasks that tell one contact the same in *)
(* the same second are told apart by nobody.                               *)
Arrived(s) == \E l \in shown : l.to = PeerOf[s] /\ l.text = TextOf[s][part[s]]

Allowed(s, how) ==
    CASE how = "acked"             -> WaitAck /\ Arrived(s)
      [] how = "lost"              -> WaitAck /\ tries[s] = MaxAttempts
      [] how \in {"blind", "error"} -> TRUE

End(s, how) ==
    /\ phase[s] = "trying"
    /\ Allowed(s, how)
    /\ outcome' = [outcome EXCEPT ![s][part[s]] = how]
    /\ tries' = [tries EXCEPT ![s] = 0]
    /\ \/ /\ part[s] + 1 \in DOMAIN TextOf[s]
          /\ phase' = [phase EXCEPT ![s] = "idle"]
          /\ part' = [part EXCEPT ![s] = @ + 1]
       \/ /\ part[s] + 1 \notin DOMAIN TextOf[s]
          /\ phase' = [phase EXCEPT ![s] = "over"]
          /\ UNCHANGED part
    /\ UNCHANGED <<offered, shown>>

Next ==
    \/ \E s \in Senders :
         Begin(s) \/ Again(s) \/ \E how \in {"acked", "lost", "blind", "error"} : End(s, how)
    \/ Show

Spec == Init /\ [][Next]_vars
=============================================================================
