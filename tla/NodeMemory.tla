----------------------------- MODULE NodeMemory -----------------------------
(***************************************************************************)
(* What the node store promises: it answers as if it never forgot.  Every  *)
(* report since the start is remembered, and an answer has the newest of   *)
(* the nodes that have not expired, as many as there is room for.  After a *)
(* restart what is remembered is the answer that was saved last, or        *)
(* nothing if that save was broken off.  Nothing is purged here, and no    *)
(* file is emptied before it is written.                                   *)
(***************************************************************************)
EXTENDS Integers, FiniteSets

CONSTANTS Nodes, Retention, MaxStored

VARIABLES
    clock,      \* the wall clock
    steady,     \* it was never set back
    up,         \* the process is running
    reported,   \* when each node was last reported
    answer,     \* the nodes that are told, with those times
    saved,      \* what a restart begins with
    unsure      \* whether the last save was completed is open

vars == <<clock, steady, up, reported, answer, saved, unsure>>

Never == -1
Nothing == [k \in {} |-> 0]
NoReports == [k \in Nodes |-> Never]

Init ==
    /\ clock = 0 /\ steady = TRUE
    /\ up = FALSE /\ unsure = FALSE
    /\ reported = NoReports
    /\ answer = Nothing /\ saved = Nothing

Alive(k, reports, t) ==
    reports[k] # Never /\ (Retention = 0 \/ reports[k] >= t - Retention)

(* Only nodes that are alive are told, with the time of their last report. *)
Sound(told, reports, t) ==
    /\ Cardinality(DOMAIN told) <= MaxStored
    /\ DOMAIN told \subseteq {k \in Nodes : Alive(k, reports, t)}
    /\ \A k \in DOMAIN told : told[k] = reports[k]

(* And one that is not told is no newer than any of a full answer.         *)
Newest(told, reports, t) ==
    \A k \in Nodes \ DOMAIN told : Alive(k, reports, t) =>
        /\ Cardinality(DOMAIN told) = MaxStored
        /\ \A j \in DOMAIN told : told[j] >= reports[k]

Answered ==
    /\ Sound(answer', reported', clock)
    /\ steady => Newest(answer', reported', clock)
    /\ UNCHANGED <<clock, steady>>

Start ==
    /\ ~ up
    /\ up' = TRUE
    /\ reported' = [k \in Nodes |-> IF k \in DOMAIN saved THEN saved[k] ELSE Never]
    /\ Answered
    /\ UNCHANGED <<saved, unsure>>

Report(K) ==
    /\ up /\ ~ unsure
    /\ reported' = [k \in Nodes |-> IF k \in K THEN clock ELSE reported[k]]
    /\ Answered
    /\ \/ saved' = answer' /\ unsure' = TRUE
       \/ UNCHANGED <<saved, unsure>>
    /\ UNCHANGED up

Ask ==
    /\ up /\ ~ unsure
    /\ Answered
    /\ UNCHANGED <<up, reported, saved, unsure>>

(* The save is completed, or what was saved is lost.                       *)
Settle ==
    /\ unsure
    /\ unsure' = FALSE
    /\ saved' \in {saved, Nothing}
    /\ UNCHANGED <<clock, steady, up, reported, answer>>

Crash ==
    /\ up
    /\ up' = FALSE /\ unsure' = FALSE
    /\ reported' = NoReports /\ answer' = Nothing
    /\ saved' = IF unsure THEN Nothing ELSE saved
    /\ UNCHANGED <<clock, steady>>

Time ==
    /\ steady' = (steady /\ clock' >= clock)
    /\ UNCHANGED <<up, reported, answer, saved, unsure>>

Next == Start \/ (\E K \in SUBSET Nodes : Report(K)) \/ Ask \/ Settle \/ Crash \/ Time

Spec == Init /\ [][Next]_vars
=============================================================================
