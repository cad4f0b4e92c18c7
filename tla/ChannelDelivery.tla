--------------------------- MODULE ChannelDelivery ---------------------------
(***************************************************************************)
(* BotService._send_chan and what it shares with the rest of the process:  *)
(* the log of channel packets heard on the radio and the cache of channel  *)
(* names.  Every command handler is a task of its own, so several sends    *)
(* run at once; each is a sender here and makes one call of _send_chan.    *)
(* A task runs without interruption from one await to the next, and each   *)
(* such segment is one action:                                             *)
(*                                                                         *)
(*   idle -Call-> delay -Issue-> sending -SendOk-> fetching -Fetched->     *)
(*   listening -Judge-> delivered | failed | sending (the next attempt)    *)
(*                                                                         *)
(* SendOk goes straight to listening when the channel's name is cached:    *)
(* a cache hit does not yield to the loop.  The companion and the radio    *)
(* are the environment: what it answers, and which packets it hears when.  *)
(***************************************************************************)
EXTENDS RxLog, FiniteSets

CONSTANTS
    Senders,       \* the tasks that call _send_chan
    Channels,      \* channel slots of the companion
    HashOf,        \* the one-byte hash of each channel's key
    Tables,        \* name tables the companion may answer; NoTag: no answer
    Foreign,       \* packets of other users of the mesh
    ForeignChan,   \* and the channel each of them is on
    Shapes,        \* which fields an RX_LOG_DATA event carries
    MinRepeats,    \* channel_delivery.min_rx_repeats, at least 1 by `or 1`
    MaxAttempts,   \* channel_delivery.max_attempts
    ReplyDelay,    \* reply_delay_sec
    MaxRtt,        \* longest answer of the companion to one await
    MaxLag,        \* longest delay of the event loop after a timer expires
    LastCall,      \* bound: no call starts later than this
    MaxHeard,      \* bound: packets logged in a run
    MaxTime        \* bound: the horizon

ASSUME DeliveryAssumption ==
    /\ Channels \subseteq Nat
    /\ DOMAIN HashOf = Channels
    /\ NoTag \notin {HashOf[c] : c \in Channels}
    /\ \A t \in Tables : DOMAIN t = Channels
    /\ ForeignChan \in [Foreign -> Channels]
    /\ Shapes \subseteq [hash : BOOLEAN, name : BOOLEAN, idx : BOOLEAN, key : BOOLEAN]
    /\ MinRepeats \in Nat \ {0}
    /\ MaxAttempts \in Nat \ {0}
    /\ ReplyDelay \in Nat /\ MaxRtt \in Nat /\ MaxLag \in Nat

VARIABLES
    now,        \* time.monotonic()
    rxLog,      \* _rx_log_grp_events
    chanNames,  \* _channel_name_cache; NoTag: the slot is not in it
    pc,         \* where each call is
    chan,       \* its channel_idx
    attempt,    \* its attempt, counted from 1
    began,      \* when its current await began; since_ts while listening
    tag,        \* sent_chan_hash and sent_chan_name
    aired,      \* packets sent by the bot, <<sender, attempt>>
    sent,       \* history: when send_chan_msg last returned
    heard       \* history: every packet ever logged

vars == <<now, rxLog, chanNames, pc, chan, attempt, began, tag, aired, sent, heard>>

Hashes == {HashOf[c] : c \in Channels} \cup {NoTag}
Names == {NoTag} \cup {t[c] : t \in Tables, c \in Channels}
Tags == [hash : Hashes, name : Names]
Places == {"idle", "delay", "sending", "fetching", "listening", "delivered", "failed"}

Init ==
    /\ now = 0
    /\ rxLog = {}
    /\ chanNames = [c \in Channels |-> NoTag]
    /\ pc = [s \in Senders |-> "idle"]
    /\ chan = [s \in Senders |-> NoIdx]
    /\ attempt = [s \in Senders |-> 0]
    /\ began = [s \in Senders |-> 0]
    /\ tag = [s \in Senders |-> NoTags]
    /\ aired = {}
    /\ sent = [s \in Senders |-> 0]
    /\ heard = {}

Goto(s, place) == pc' = [pc EXCEPT ![s] = place]

-----------------------------------------------------------------------------
(* The segments of _send_chan.                                             *)

(* A handler calls _send_chan and sleeps reply_delay_sec.                  *)
Call(s) ==
    /\ pc[s] = "idle"
    /\ now <= LastCall
    /\ Goto(s, "delay")
    /\ \E c \in Channels : chan' = [chan EXCEPT ![s] = c]
    /\ attempt' = [attempt EXCEPT ![s] = 1]
    /\ began' = [began EXCEPT ![s] = now]
    /\ UNCHANGED <<now, rxLog, chanNames, tag, aired, sent, heard>>

(* send_chan_msg is handed to the companion, which may put it on the air.  *)
Transmit(s, n) ==
    /\ Goto(s, "sending")
    /\ attempt' = [attempt EXCEPT ![s] = n]
    /\ began' = [began EXCEPT ![s] = now]
    /\ aired' = aired \cup {<<s, n>>}

Issue(s) ==
    /\ pc[s] = "delay"
    /\ now >= began[s] + ReplyDelay
    /\ Transmit(s, attempt[s])
    /\ UNCHANGED <<now, rxLog, chanNames, chan, tag, sent, heard>>

(* since_ts = time.monotonic(), then the sleep of rx_wait_sec.             *)
Listen(s, g) ==
    /\ Goto(s, "listening")
    /\ began' = [began EXCEPT ![s] = now]
    /\ tag' = [tag EXCEPT ![s] = g]

(* send_chan_msg returned without error; _resolve_channel_name follows.    *)
SendOk(s) ==
    /\ pc[s] = "sending"
    /\ sent' = [sent EXCEPT ![s] = now]
    /\ \E h \in {NoTag, HashOf[chan[s]]} :
         IF chanNames[chan[s]] # NoTag
         THEN Listen(s, [hash |-> h, name |-> chanNames[chan[s]]])
         ELSE /\ Goto(s, "fetching")
              /\ began' = [began EXCEPT ![s] = now]
              /\ tag' = [tag EXCEPT ![s] = [hash |-> h, name |-> NoTag]]
    /\ UNCHANGED <<now, rxLog, chanNames, chan, attempt, aired, heard>>

(* The call returns True or False, and its local variables are gone.       *)
Return(s, verdict) ==
    /\ Goto(s, verdict)
    /\ began' = [began EXCEPT ![s] = 0]
    /\ tag' = [tag EXCEPT ![s] = NoTags]
    /\ sent' = [sent EXCEPT ![s] = 0]

(* send_chan_msg returned ERROR or raised: the call returns False.         *)
SendError(s) ==
    /\ pc[s] = "sending"
    /\ Return(s, "failed")
    /\ UNCHANGED <<now, rxLog, chanNames, chan, attempt, aired, heard>>

(* fetch_channel_table answered for some of the slots: the cache takes all *)
(* of them, whatever another task put there during the await.              *)
Fetched(s) ==
    /\ pc[s] = "fetching"
    /\ \E t \in Tables :
         chanNames' = [c \in Channels |-> IF t[c] # NoTag THEN t[c] ELSE chanNames[c]]
    /\ Listen(s, [tag[s] EXCEPT !.name = chanNames'[chan[s]]])
    /\ UNCHANGED <<now, rxLog, chan, attempt, aired, sent, heard>>

(* fetch_channel_table raised: the empty name, and the cache as it was.    *)
FetchRaised(s) ==
    /\ pc[s] = "fetching"
    /\ Listen(s, [tag[s] EXCEPT !.name = NoTag])
    /\ UNCHANGED <<now, rxLog, chanNames, chan, attempt, aired, sent, heard>>

(* Faults: count what was heard before the window, or events, not packets. *)
EnoughEver(s) == Cardinality(HeardKeys(rxLog, chan[s], tag[s], 0)) >= MinRepeats

EnoughEvents(s) ==
    Cardinality({e \in rxLog : e.ts >= began[s] /\ Matches(e, chan[s], tag[s])}) >= MinRepeats

(* _count_heard_repeats_since, after the prune it starts with.             *)
Enough(s) ==
    Cardinality(HeardKeys(Prune(rxLog, now), chan[s], tag[s], began[s])) >= MinRepeats

Slept(s) == pc[s] = "listening" /\ now >= began[s] + RxWait

Confirm(s) ==
    /\ Slept(s)
    /\ Enough(s)
    /\ Return(s, "delivered")
    /\ rxLog' = Prune(rxLog, now)
    /\ UNCHANGED <<now, chanNames, chan, attempt, aired, heard>>

(* Faults: one attempt too many, or an attempt that is not counted.        *)
RetryOnceMore(s) ==
    /\ Slept(s)
    /\ ~ Enough(s)
    /\ Transmit(s, attempt[s] + 1)
    /\ rxLog' = Prune(rxLog, now)
    /\ tag' = [tag EXCEPT ![s] = NoTags]
    /\ sent' = [sent EXCEPT ![s] = 0]
    /\ UNCHANGED <<now, chanNames, chan, heard>>

RetryUncounted(s) ==
    /\ Slept(s)
    /\ ~ Enough(s)
    /\ Transmit(s, attempt[s])
    /\ rxLog' = Prune(rxLog, now)
    /\ tag' = [tag EXCEPT ![s] = NoTags]
    /\ sent' = [sent EXCEPT ![s] = 0]
    /\ UNCHANGED <<now, chanNames, chan, heard>>

Retry(s) ==
    /\ Slept(s)
    /\ ~ Enough(s)
    /\ attempt[s] < MaxAttempts
    /\ Transmit(s, attempt[s] + 1)
    /\ rxLog' = Prune(rxLog, now)
    /\ tag' = [tag EXCEPT ![s] = NoTags]
    /\ sent' = [sent EXCEPT ![s] = 0]
    /\ UNCHANGED <<now, chanNames, chan, heard>>

GiveUp(s) ==
    /\ Slept(s)
    /\ ~ Enough(s)
    /\ attempt[s] >= MaxAttempts
    /\ Return(s, "failed")
    /\ rxLog' = Prune(rxLog, now)
    /\ UNCHANGED <<now, chanNames, chan, attempt, aired, heard>>

-----------------------------------------------------------------------------
(* _on_rx_log_data for a GRP_TXT packet.                                   *)

(* The packets on the air: the bot's own attempts, repeated by the mesh,   *)
(* and those of others.  A repeat has the pkt_hash of the packet repeated. *)
OnAir == {[id |-> p, chan |-> chan[p[1]]] : p \in aired}
           \cup {[id |-> <<f, 0>>, chan |-> ForeignChan[f]] : f \in Foreign}

(* What the event of packet p says of it, in shape w; n is the name the    *)
(* companion has for its channel.  Without a pkt_hash the key is the time. *)
Event(p, w, n) ==
    [ts   |-> now,
     idx  |-> IF w.idx THEN p.chan ELSE NoIdx,
     hash |-> IF w.hash THEN HashOf[p.chan] ELSE NoTag,
     name |-> IF w.name THEN n ELSE NoTag,
     key  |-> IF w.key THEN p.id ELSE <<"t", now>>]

(* An event without hash, name and slot says nothing and is not logged.    *)
Register(e) ==
    /\ e.idx # NoIdx \/ e.hash # NoTag \/ e.name # NoTag
    /\ rxLog' = Prune(rxLog, now) \cup {e}
    /\ heard' = heard \cup {e}

Hear ==
    /\ Cardinality(heard) < MaxHeard
    /\ \E p \in OnAir, w \in Shapes, t \in Tables : Register(Event(p, w, t[p.chan]))
    /\ UNCHANGED <<now, chanNames, pc, chan, attempt, began, tag, aired, sent>>

-----------------------------------------------------------------------------
(* Time passes while every task waits: a timer fires at most MaxLag late   *)
(* and an answer of the companion takes at most MaxRtt.                    *)
Deadline(s) ==
    CASE pc[s] = "delay" -> began[s] + ReplyDelay + MaxLag
      [] pc[s] \in {"sending", "fetching"} -> began[s] + MaxRtt
      [] pc[s] = "listening" -> began[s] + RxWait + MaxLag
      [] OTHER -> now + 1

Tick ==
    /\ now < MaxTime
    /\ \A s \in Senders : now < Deadline(s)
    /\ now' = now + 1
    /\ UNCHANGED <<rxLog, chanNames, pc, chan, attempt, began, tag, aired, sent, heard>>

(* The horizon of a bounded run. *)
Horizon == now = MaxTime /\ UNCHANGED vars

Answer(s) == SendOk(s) \/ SendError(s) \/ Fetched(s) \/ FetchRaised(s)

Judge(s) == Confirm(s) \/ Retry(s) \/ GiveUp(s)

Step(s) == Issue(s) \/ Answer(s) \/ Judge(s)

Next ==
    \/ \E s \in Senders : Call(s) \/ Step(s)
    \/ Hear
    \/ Tick
    \/ Horizon

Spec == Init /\ [][Next]_vars

(* The loop runs every task that is ready, the companion answers every     *)
(* command (meshcore turns silence into an ERROR), and time passes.        *)
FairSpec == Spec /\ WF_vars(Tick) /\ \A s \in Senders : WF_vars(Step(s))

-----------------------------------------------------------------------------
TypeOK ==
    /\ now \in Nat
    /\ \A e \in rxLog \cup heard : e.ts \in Nat
    /\ chanNames \in [Channels -> Names]
    /\ pc \in [Senders -> Places]
    /\ chan \in [Senders -> Channels \cup {NoIdx}]
    /\ \A s \in Senders : pc[s] # "idle" => chan[s] \in Channels /\ attempt[s] >= 1
    /\ attempt \in [Senders -> 0 .. MaxAttempts]
    /\ began \in [Senders -> Nat]
    /\ tag \in [Senders -> Tags]
    /\ aired \subseteq Senders \X (1 .. MaxAttempts)
    /\ sent \in [Senders -> Nat]

(* No packet a listening send may still count is dropped from the shared   *)
(* log, whoever prunes it meanwhile: the prune keeps the window of every   *)
(* send, as long as the loop is no later than the slack of the cutoff.     *)
WindowKept ==
    \A s \in Senders : pc[s] = "listening" =>
        {e \in heard : e.ts >= began[s]} \subseteq rxLog

(* The verdict of every call is the one that a log that is never pruned    *)
(* and a count made without the other tasks would give.                    *)
Promise ==
    INSTANCE HeardDelivery WITH
        phase <- [s \in Senders |->
                    IF pc[s] \in {"delay", "sending", "fetching"} THEN "sending" ELSE pc[s]],
        tries <- attempt,
        opened <- [s \in Senders |-> IF pc[s] = "listening" THEN began[s] ELSE 0],
        tag <- [s \in Senders |-> IF pc[s] = "listening" THEN tag[s] ELSE NoTags]

PromiseSpec == Promise!Spec

(* Every call of _send_chan returns, so no handler waits for ever: neither *)
(* a companion that fails nor a mesh that never repeats can hold it.       *)
EveryCallReturns ==
    \A s \in Senders : pc[s] = "delay" ~> pc[s] \in {"delivered", "failed"}

(* README.md:113,118: after send_chan_msg the bot waits for repeats of what *)
(* it has sent, and sends again only if fewer than min_rx_repeats of them  *)
(* were heard since that call returned.                                    *)
Repeats(s) == {e \in heard : \E n \in 1 .. attempt[s] : e.key = <<s, n>>}

HeardIsNotResent ==
    [][\A s \in Senders : Retry(s) =>
         Cardinality(HeardKeys(Repeats(s), chan[s], tag[s], sent[s] + 1)) < MinRepeats]_vars
=============================================================================
