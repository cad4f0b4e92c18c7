---------------------------- MODULE ChannelTable ----------------------------
(* fetch_channel_table: the names of the channel slots of the companion.    *)
(* Every query may fail.                                                    *)
EXTENDS Integers, FiniteSetsExt

CONSTANTS
    Probe,   \* _FALLBACK_CHANNEL_PROBE
    Cap      \* _MAX_CHANNEL_PROBE_CAP

Unknown == -1

(* How many slots are asked for, the number the companion tells and the     *)
(* enabled channels considered.                                             *)
Slots(enabled, max) ==
    Min({Max({IF max = Unknown THEN Probe ELSE max, 1} \cup {i + 1 : i \in enabled}), Cap})

(* Fault: no channel is asked for a second time.                            *)
FetchedInOneRound(enabled, device) ==
    (0 .. Slots(enabled, device.max) - 1) \cap device.answers

(* The slots that have a name in the table: those of the first round that   *)
(* answered, and the enabled ones that answered when asked again.           *)
Fetched(enabled, device) ==
    LET first == (0 .. Slots(enabled, device.max) - 1) \cap device.answers
    IN  first \cup ((enabled \ first) \cap device.answersAgain)
=============================================================================
