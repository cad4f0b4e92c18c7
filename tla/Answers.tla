------------------------------- MODULE Answers -------------------------------
(***************************************************************************)
(* What the bot answers.  It reads its configuration, and then takes one   *)
(* event after another: a packet the radio has logged, or a message.  What *)
(* a handler does before its first await is one step, and all that is      *)
(* modelled of it: the parts it sends later are composed in it too.  The   *)
(* awaits, and who may give which command, are the matter of Bot.          *)
(***************************************************************************)
EXTENDS ChannelTable, PingPath, Router, TextUtil, Config, Integers, Sequences

CONSTANTS
    RawConfigs,   \* configuration files
    Channels,     \* slots that messages come on
    DM,           \* the way of a direct message
    Packets,      \* those the radio logs
    Messages,     \* [via, text, packet, mention, means]; means is what its
                  \* sender wants, and not known to the code
    HexPrefixes,  \* words that the node command takes
    NodeLines,    \* what the node store may have for one: lists of lines
    NotFound,     \* the line for none
    Devices,      \* companions: [max, answers, answersAgain]
    MaxBytes      \* NODE_REPLY_MAX_BYTES

ASSUME AnswersAssumption ==
    /\ DM \notin Channels
    /\ MaxHops \in Nat /\ MaxBytes \in Nat /\ Probe \in Nat \ {0} /\ Cap \in Nat \ {0}
    /\ NoCommand.kind \notin DOMAIN Names
    /\ Odd \cap Int = {} /\ NotANumber \notin {Absent, Junk}
    /\ {Endless, MinusEndless} \cap {Absent, Junk, NotANumber} = {} /\ Endless # MinusEndless
    /\ \A file \in RawConfigs, s \in Settings : file.numbers[s] \in Int \cup Odd
    /\ \A file \in RawConfigs :
         file.enabled # {} => \E last \in file.enabled : \A c \in file.enabled : c \in Int /\ c <= last
    /\ \A device \in Devices : device.max \in Int
    /\ NodeLines \subseteq Seq(Seq(Nat)) /\ NotFound \in Seq(Nat)
    /\ \A m \in Messages : m.mention \in Seq(Nat)

VARIABLES
    phase,     \* what the process is at
    raw,       \* its configuration file
    numbers,   \* the settings that are numbers, until they are used
    lists,     \* enabled, admins and allowed channels
    cache,     \* _latest_*
    event,     \* history: what is being handled
    reply,     \* history: and how it is answered
    lastLen    \* history: the length of the latest path any event told

vars == <<phase, raw, numbers, lists, cache, event, reply, lastLen>>

NoReply == [kind |-> "none", arg |-> <<>>, detail |-> None]
Reply(kind, arg, detail) == [kind |-> kind, arg |-> arg, detail |-> detail]

Init ==
    /\ phase = "start"
    /\ raw \in RawConfigs
    /\ numbers = None /\ lists = None
    /\ cache = EmptyCache
    /\ event = None /\ reply = NoReply /\ lastLen = None

-----------------------------------------------------------------------------
LoadConfig ==
    /\ phase = "start"
    /\ IF Loads(raw)
       THEN LET config == FromDict(raw) IN
            /\ phase' = "loaded"
            /\ numbers' = config.numbers
            /\ lists' = [enabled |-> config.enabled, admins |-> config.admins,
                         allowed |-> config.allowed]
       ELSE phase' = "refused" /\ UNCHANGED <<numbers, lists>>
    /\ UNCHANGED <<raw, cache, event, reply, lastLen>>

(* The tasks are started with the numbers, which are constants of the other *)
(* modules, and are dropped here.                                          *)
Serve ==
    /\ phase = "loaded"
    /\ phase' = "serving"
    /\ raw' = None /\ numbers' = None
    /\ UNCHANGED <<lists, cache, event, reply, lastLen>>

Handled(e, answer) ==
    /\ event' = e
    /\ reply' = answer
    /\ UNCHANGED <<phase, raw, numbers, lists>>

(* The path length that the event tells, as the handlers find it.          *)
Told(len) == lastLen' = IF Plausible(len) THEN len ELSE lastLen

OnRxLogData ==
    \E p \in Packets :
        /\ cache' = OnRxLog(cache, p)
        /\ Told(Or(p.len, ParseRxLog(p).len))
        /\ Handled([packet |-> p], NoReply)

-----------------------------------------------------------------------------
(* _node_query_lines: more than one line are numbered, in three bytes each. *)
NodeQueryLines(rows) ==
    CASE rows = <<>>    -> <<NotFound>>
      [] Len(rows) = 1  -> rows
      [] OTHER          -> [i \in DOMAIN rows |-> <<1, 1, 1>> \o rows[i]]

ValidPrefix(arg) == \E w \in HexPrefixes : arg = <<w>>

AnswerNode(m, arg, rows) ==
    IF ValidPrefix(arg)
    THEN Reply("node", arg, NodeParts(m.mention, NodeQueryLines(rows), MaxBytes))
    ELSE Reply("node", arg, None)

CommandAllowed(kind, channel) ==
    lists.allowed[kind] = {} \/ channel \in lists.allowed[kind]

OnChannelKinds == {"weather", "time", "ping", "help", "stop", "node"}

ChannelAccepts(kind, channel) ==
    /\ kind \in OnChannelKinds
    /\ CommandAllowed(kind, channel)
    /\ kind = "stop" => channel \in lists.admins

(* _on_channel_msg.  The caches take every message of an enabled channel.  *)
AnswerOnChannel(m, parsed, rows) ==
    CASE ~ ChannelAccepts(parsed.kind, m.via) -> NoReply
      [] ChannelAccepts(parsed.kind, m.via) /\ parsed.kind = "ping" ->
           Reply("ping", <<>>, ChannelPong(cache, m.packet))
      [] ChannelAccepts(parsed.kind, m.via) /\ parsed.kind = "node" ->
           AnswerNode(m, parsed.arg, rows)
      [] OTHER -> Reply(parsed.kind, parsed.arg, None)

RowsFor(parsed) == IF parsed.kind = "node" THEN NodeLines ELSE {<<>>}

OnChannelMsg ==
    \E m \in Messages :
        LET parsed == ParseIncoming(m.text) IN
        /\ m.via # DM
        /\ \/ /\ m.via \in lists.enabled
              /\ cache' = OnChannelPacket(cache, m.packet)
              /\ Told(m.packet.len)
              /\ \E rows \in RowsFor(parsed) :
                   Handled([message |-> m, rows |-> rows], AnswerOnChannel(m, parsed, rows))
           \/ /\ m.via \notin lists.enabled
              /\ UNCHANGED <<cache, lastLen>>
              /\ Handled([message |-> m], NoReply)

(* _on_contact_msg, of a sender that may give any command.                 *)
AnswerContact(m, parsed, rows, device) ==
    CASE parsed.kind = "none"     -> NoReply
      [] parsed.kind = "ping"     -> Reply("ping", <<>>, ContactPong(cache, m.packet))
      [] parsed.kind = "node"     -> AnswerNode(m, parsed.arg, rows)
      [] parsed.kind = "channels" -> Reply("channels", <<>>, lists.enabled \cap Fetched(lists.enabled, device))
      [] OTHER                    -> Reply(parsed.kind, parsed.arg, None)

DevicesFor(parsed) ==
    IF parsed.kind = "channels" THEN Devices ELSE {[max |-> Unknown, answers |-> {}, answersAgain |-> {}]}

OnContactMsg ==
    \E m \in Messages :
        LET parsed == ParseIncoming(m.text) IN
        /\ m.via = DM
        /\ cache' = IF parsed.kind = "ping" THEN OnContactPing(cache, m.packet) ELSE cache
        /\ UNCHANGED lastLen
        /\ \E rows \in RowsFor(parsed), device \in DevicesFor(parsed) :
             Handled([message |-> m, rows |-> rows, device |-> device],
                     AnswerContact(m, parsed, rows, device))

Refused == phase = "refused" /\ UNCHANGED vars

(* What the handler does after its first await changes nothing here.       *)
Done ==
    /\ event # None
    /\ event' = None /\ reply' = NoReply
    /\ UNCHANGED <<phase, raw, numbers, lists, cache, lastLen>>

Handle == phase = "serving" /\ event = None /\ (OnRxLogData \/ OnChannelMsg \/ OnContactMsg)

Next == LoadConfig \/ Serve \/ Handle \/ Done \/ Refused

Spec == Init /\ [][Next]_vars

-----------------------------------------------------------------------------
InLimits(s, n) == n \in Rules[s].low .. Rules[s].high

(* What becomes of a number within the limits: `or` takes a 0 for nothing.  *)
Kept(s, n) == IF n = 0 /\ Rules[s].kind # "plain" THEN Rules[s].default ELSE n

(* config.py:97-221: whatever stands in a file that is not refused, the    *)
(* whole numbers and the reply delay are those that DmDelivery,            *)
(* ChannelDelivery, NodeStore and Bot take for granted.  The others are    *)
(* within their limits too, unless the file says .nan, which passes both   *)
(* comparisons.  A number inside the limits is left alone, and a 0 becomes *)
(* the default: README.md:112,120 and config.example.yaml:47 give the 0 of *)
(* wait_sec and of the sync interval a meaning that the code does not know. *)
SettingsAreUsable ==
    phase = "loaded" =>
        /\ numbers.dm_delivery_max_attempts \in 1 .. 50
        /\ numbers.channel_delivery_max_attempts \in 1 .. 50
        /\ numbers.channel_delivery_min_rx_repeats \in Nat
        /\ numbers.node_advert_max_stored \in Nat \ {0}
        /\ numbers.node_key_preview_bytes \in 1 .. 4
        /\ numbers.reply_delay_sec \in Nat
        /\ \A s \in Settings :
             \/ InLimits(s, numbers[s])
             \/ numbers[s] = NotANumber /\ raw.numbers[s] = NotANumber
        /\ \A s \in Settings :
             InLimits(s, raw.numbers[s]) => numbers[s] = Kept(s, raw.numbers[s])
        /\ lists.admins \subseteq lists.enabled
        /\ \A c \in Commands : lists.allowed[c] \subseteq lists.enabled

(* channel_info.py:16: the answer to `channels` has the name of every      *)
(* enabled channel that the companion tells, were it above the number of   *)
(* slots, or unanswered at first: below the cap at either time of asking,  *)
(* above it at the second; and of no channel that it does not tell.        *)
EnabledChannelsAreNamed ==
    reply.kind = "channels" =>
        LET told == event.device.answersAgain \cup (event.device.answers \cap 0 .. Cap - 1)
        IN  /\ lists.enabled \cap told \subseteq reply.detail
            /\ reply.detail \subseteq event.device.answers \cup event.device.answersAgain

(* README.md:88: the command is what the sender of a message wants, with   *)
(* the name of the sender before it on a channel, and in any of the forms  *)
(* parse_incoming is for; other messages are not taken for a command.  A   *)
(* sender whose nickname is itself a command writes no Messages here: of   *)
(* him router.py:126 takes the nickname for the command, against the line. *)
Accepted(m) == IF m.via = DM THEN m.means.kind # "none"
               ELSE m.via \in lists.enabled /\ ChannelAccepts(m.means.kind, m.via)

CommandAfterColon ==
    event # None /\ "message" \in DOMAIN event =>
        LET m == event.message IN
        IF Accepted(m) THEN [kind |-> reply.kind, arg |-> reply.arg] = m.means
        ELSE reply = NoReply

(* How people write: a text is looked at without what cannot be seen and   *)
(* with single spaces.  A command is a name, maybe colons, and after a     *)
(* space what is asked; a word of two commands is the first of them.  On a *)
(* channel the sender's nickname and a colon stand before the line; the    *)
(* nickname has no colon and does not begin with the name of a command.    *)
Tidy(text) ==
    /\ text \in Seq(Range(text)) /\ text # <<>>
    /\ ~ IsSpace(text[1]) /\ ~ IsSpace(text[Len(text)])
    /\ \A i \in 2 .. Len(text) : ~ (IsSpace(text[i - 1]) /\ IsSpace(text[i]))

NameFree(line) == \A i \in DOMAIN Order : line[1] \notin Names[Order[i]]

GivesCommand(line, means) ==
    \E i \in DOMAIN Order, n \in DOMAIN line :
        /\ line[1] \in Names[Order[i]] /\ \A j \in 1 .. i - 1 : line[1] \notin Names[Order[j]]
        /\ \A c \in 2 .. n : IsColon(line[c])
        /\ n < Len(line) => IsSpace(line[n + 1])
        /\ means = [kind |-> Order[i],
                    arg |-> IF Order[i] \in WithArg THEN SubSeq(line, n + 2, Len(line)) ELSE <<>>]

LineMeans(line, means) == GivesCommand(line, means) \/ (NameFree(line) /\ means = NoCommand)

SaidAfterNick(text, means) ==
    /\ NameFree(text)
    /\ \E c \in 2 .. Len(text) - 1 :
         /\ IsColon(text[c]) /\ \A i \in 1 .. c - 1 : ~ IsColon(text[i])
         /\ LET first == IF IsSpace(text[c + 1]) THEN c + 2 ELSE c + 1
            IN  LineMeans(SubSeq(text, first, Len(text)), means)

SaidDirectly(text, means) ==
    \/ GivesCommand(text, means)
    \/ /\ NameFree(text) /\ means = NoCommand
       /\ \A i \in DOMAIN text : ~ IsColon(text[i])

PeopleMeanWhatTheyWrite ==
    \A m \in Messages :
        LET text == Normalize(m.text) IN
        /\ Tidy(text)
        /\ IF m.via = DM THEN SaidDirectly(text, m.means) ELSE SaidAfterNick(text, m.means)

(* service.py:1191,1421: what the packet of a ping tells of its own path   *)
(* is what the answer tells.  The latest packets of others fill in only    *)
(* what it leaves open, and never in a direct message.  On a channel they  *)
(* fill in the route too, which README.md:94 shows only if the event has   *)
(* one: the code disagrees, and nothing is said here of that route.        *)
PingTellsItsPacket ==
    reply.kind = "ping" =>
        LET m    == event.message
            p    == m.packet
            path == reply.detail
        IN  /\ path.len = IF Plausible(p.len) THEN p.len
                         ELSE IF m.via = DM THEN None ELSE lastLen
            /\ Plausible(p.len) =>
                 /\ p.width # None => path.width = p.width
                 /\ p.len = 0 => path.snr = p.snr
                 /\ p.len > 0 /\ p.route # None => path.route = Groups(p.route, path.width)
            /\ m.via = DM =>
                 /\ path.snr \in {None, p.snr}
                 /\ p.route = None => path.route = <<>>
                 /\ p.width = None /\ p.len = 0 => path.width = None

(* README.md:99: every part of an answer to the node command fits into a   *)
(* message with the mention before it; lines are told whole and in their   *)
(* order if they fit, and no two parts would have fitted into one.         *)
NodePartsArrive ==
    reply.kind = "node" /\ reply.detail # None =>
        LET mention == event.message.mention
            lines   == NodeQueryLines(event.rows)
            parts   == reply.detail
            budget  == MaxBytes - Bytes(mention)
            bodies  == [i \in DOMAIN parts |->
                          SubSeq(parts[i], Len(mention) + 1, Len(parts[i]))]
        IN  /\ parts # <<>>
            /\ \A i \in DOMAIN parts : Bytes(parts[i]) <= MaxBytes
            /\ \A i \in DOMAIN parts : SubSeq(parts[i], 1, Len(mention)) = mention
            /\ (\A i \in DOMAIN lines : Bytes(lines[i]) <= budget) =>
                 /\ Join(bodies) = Join(lines)
                 /\ \A i \in DOMAIN parts \ {1} : Bytes(bodies[i - 1]) + 1 + Bytes(bodies[i]) > budget
=============================================================================
