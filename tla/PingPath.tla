------------------------------ MODULE PingPath ------------------------------
(***************************************************************************)
(* What the answer to a ping tells of the packet, and the latest signal,   *)
(* hash width, route and path information of any packet, which BotService  *)
(* keeps for messages that come without their own.                         *)
(*                                                                         *)
(* A packet is a record: len (hops), width (of a hash, in bytes), route    *)
(* (bytes), snr, each None if the event has no such field; text, whether   *)
(* it is a text message; and frame, what the flood layout of the raw frame *)
(* would give for len, route and the width of the tail.                    *)
(***************************************************************************)
EXTENDS Integers, Sequences, FiniteSetsExt

CONSTANTS
    MaxHops,   \* _MAX_PLAUSIBLE_PATH_LEN
    None

Or(a, b) == IF a # None THEN a ELSE b

(* _is_plausible_path_len.                                                 *)
Plausible(len) == len # None /\ len \in 0 .. MaxHops

NoPath == [len |-> None, width |-> None, route |-> <<>>, snr |-> None]

EmptyCache == [snr |-> None, width |-> None, route |-> None, path |-> NoPath]

-----------------------------------------------------------------------------
(* The width that is shown if none is known.                               *)
GuessWidth(len, route) ==
    IF route # None THEN Min({3, Len(route)}) ELSE Max({1, Min({3, len})})

(* The bytes of a route in groups of the width, an incomplete one left out. *)
Groups(route, width) ==
    LET w == Max({1, Min({3, width})})
    IN  [i \in 1 .. Len(route) \div w |-> SubSeq(route, (i - 1) * w + 1, i * w)]

(* _format_pathinfo, and the signal, which is told of direct packets only. *)
FormatPath(len, route, width, snr) ==
    IF len = 0 THEN [len |-> 0, width |-> width, route |-> <<>>, snr |-> snr]
    ELSE LET w == Or(width, GuessWidth(len, route))
         IN  [len |-> len, width |-> w, snr |-> None,
              route |-> IF route = None THEN <<>> ELSE Groups(route, w)]

(* _pathinfo_from_message_payload; width and route are what to take if the *)
(* message has none.  Its handlers always pass the signal of the message.  *)
MessagePath(p, width, route) ==
    IF Plausible(p.len)
    THEN FormatPath(p.len, Or(p.route, route), Or(p.width, width), p.snr)
    ELSE NoPath

-----------------------------------------------------------------------------
(* _parse_rx_log_data: the structured fields if they tell enough, or else  *)
(* the flood layout, which a text message does not have.                   *)
NoFrame == [len |-> None, route |-> None, tail |-> None]

ParseRxLog(p) ==
    CASE Plausible(p.len) /\ (p.len = 0 \/ p.route # None \/ p.text) ->
           [len |-> p.len, route |-> p.route, tail |-> None]
      [] p.len = None /\ p.text -> NoFrame
      [] OTHER -> p.frame

(* Every packet updates what it tells; what it does not tell stays.        *)
Latest(cache, p) ==
    [cache EXCEPT !.snr = Or(p.snr, @), !.width = Or(p.width, @), !.route = Or(p.route, @)]

(* _on_rx_log_data, before it turns to the channel messages.               *)
OnRxLog(cache, p) ==
    LET parsed == ParseRxLog(p)
        latest == Latest(cache, p)
        kept   == [latest EXCEPT !.route = Or(@, parsed.route), !.width = Or(@, parsed.tail)]
        len    == Or(p.len, parsed.len)
    IN  IF Plausible(len)
        THEN [kept EXCEPT !.path = FormatPath(len, kept.route, Or(p.width, kept.width), kept.snr)]
        ELSE kept

(* Of a message on an enabled channel, whatever it says.                   *)
ChannelPath(cache, p) ==
    LET latest == Latest(cache, p) IN MessagePath(p, latest.width, latest.route)

OnChannelPacket(cache, p) ==
    LET path == ChannelPath(cache, p)
    IN  [Latest(cache, p) EXCEPT !.path = IF path # NoPath THEN path ELSE @]

(* Of a ping in a direct message: only the signal is remembered.           *)
OnContactPing(cache, p) == [cache EXCEPT !.snr = Or(p.snr, @)]

-----------------------------------------------------------------------------
(* The answers.  A channel message without a path is answered with the     *)
(* latest one.                                                             *)
ChannelPong(cache, p) ==
    LET path == ChannelPath(cache, p)
    IN  CASE path # NoPath                        -> path
          [] path = NoPath /\ cache.path # NoPath -> cache.path
          [] OTHER                                -> [NoPath EXCEPT !.snr = p.snr]

(* Fault: a direct message is answered like one on a channel.              *)
ContactPongCached(cache, p) == ChannelPong(cache, p)

ContactPong(cache, p) ==
    LET path == MessagePath(p, None, None)
    IN  IF path # NoPath THEN path ELSE [NoPath EXCEPT !.snr = p.snr]
=============================================================================
