------------------------------- MODULE RxLog -------------------------------
(***************************************************************************)
(* The log of channel packets heard on the radio (service.py,              *)
(* _rx_log_grp_events) and the two things done with it: drop what is too   *)
(* old, and count the distinct packets that match a transmission.  The log *)
(* is a list in the code; its order and repetitions never matter to either *)
(* operation, so it is a set of records here.  Time is monotonic, in       *)
(* milliseconds.                                                           *)
(***************************************************************************)
EXTENDS Integers

CONSTANTS
    RxWait,      \* channel_delivery.rx_wait_sec, after config and `or 10.0`
    PruneSlack   \* the 2.0 s added to it when the log is pruned

ASSUME RxLogAssumption == RxWait \in Nat \ {0} /\ PruneSlack \in Nat

NoIdx == -1      \* the slot index of a packet that could not be decoded
NoTag == ""      \* a missing channel hash or channel name
NoTags == [hash |-> NoTag, name |-> NoTag]

(* Fault: the cutoff without the slack.                                    *)
PruneAtOnce(log, t) == {e \in log : e.ts >= t - RxWait}

Prune(log, t) == {e \in log : e.ts >= t - RxWait - PruneSlack}

(* One logged packet against the slot, hash and name of a transmission.    *)
Matches(e, c, tag) ==
    \/ tag.hash # NoTag /\ e.hash = tag.hash
    \/ tag.name # NoTag /\ e.name = tag.name
    \/ e.idx >= 0 /\ e.idx = c

HeardKeys(log, c, tag, since) ==
    {e.key : e \in {x \in log : x.ts >= since /\ Matches(x, c, tag)}}
=============================================================================
