------------------------------ MODULE MCAnswers ------------------------------
(* Files with one setting out of the ordinary, and those with channel lists *)
(* of all sorts; packets with some of their fields; every form in which a  *)
(* user may write a command.                                               *)
EXTENDS Answers, TLC

CONSTANTS alice, smith, moscow, ab12, hello

MCNames ==
    [weather |-> {"weather", "wz"}, time |-> {"time"}, ping |-> {"ping"}, help |-> {"help"},
     stop |-> {"stop"}, channels |-> {"channels"}, msg |-> {"msg"}, node |-> {"node"}]

MCOrder == <<"weather", "time", "ping", "help", "stop", "channels", "msg", "node">>

-----------------------------------------------------------------------------
Slots014 == {0, 1, 4}

File ==
    [enabled  |-> {0, 4}, admins |-> {0},
     channels |-> [c \in Commands |-> IF c = "stop" THEN {0} ELSE Absent],
     numbers  |-> [s \in Settings |-> Absent]]

Values(s) == {Junk, NotANumber, Endless, MinusEndless, -1, 0, 1, Rules[s].high, Rules[s].high + 1}

MCRawConfigs ==
    {File, [File EXCEPT !.enabled = {}], [File EXCEPT !.admins = {0, 1}],
     [File EXCEPT !.channels["node"] = {1}], [File EXCEPT !.channels["node"] = {4}]}
    \cup UNION {{[File EXCEPT !.numbers[s] = v] : v \in Values(s)} : s \in Settings}

MCDevices ==
    [max : {Unknown, 1, 40}, answers : {{0, 1}, {1, 4}}, answersAgain : {{}, {0, 4}}]

-----------------------------------------------------------------------------
OneByte == <<"a">>
TwoBytes == <<"b", "c">>

Frames == [len |-> 1, route |-> OneByte, tail |-> 3]

Packet(len, width, route, snr) ==
    [len |-> len, width |-> width, route |-> route, snr |-> snr, text |-> TRUE, frame |-> NoFrame]

Bare == Packet(None, None, None, None)

MCPackets ==
    {Bare, Packet(0, 2, None, 7), Packet(2, 1, TwoBytes, None), Packet(255, None, None, 5),
     [Packet(1, None, None, None) EXCEPT !.text = FALSE, !.frame = Frames],
     [Bare EXCEPT !.text = FALSE, !.frame = Frames]}

PingPackets ==
    {Bare, Packet(0, None, None, None), Packet(0, 1, None, 5), Packet(1, None, None, 5),
     Packet(2, None, TwoBytes, None), Packet(2, 2, TwoBytes, 7), Packet(255, 1, OneByte, None)}

-----------------------------------------------------------------------------
Says(kind, name, arg) == [kind |-> kind, name |-> name, arg |-> arg]

Rest(arg) == IF arg = <<>> THEN <<>> ELSE <<Space>> \o arg

(* The forms of a command; other lines do not have the name of a command   *)
(* after a colon, which is what makes one of a line.                       *)
Written(s) ==
    {<<s.name>> \o Rest(s.arg), <<Hidden, s.name>> \o Rest(s.arg),
     <<Space, Hidden, Space, s.name, Space>> \o Rest(s.arg) \o <<Space>>}
    \cup IF s.kind = "none" THEN {} ELSE {<<s.name, Colon>> \o Rest(s.arg)}

Nicks == {<<alice>>, <<alice, Space, smith>>, <<Hidden, alice>>}

Texts(via, written) ==
    IF via = DM THEN {written}
    ELSE {nick \o colon \o written : nick \in Nicks, colon \in {<<Colon>>, <<Space, Colon, Space>>}}

Means(s) ==
    [kind |-> s.kind, arg |-> IF s.kind \in WithArg THEN s.arg ELSE <<>>]

Message(via, text, means, packet, mention) ==
    [via |-> via, text |-> text, means |-> means, packet |-> packet, mention |-> mention]

Said ==
    {Says("weather", "weather", <<moscow>>), Says("weather", "wz", <<>>), Says("time", "time", <<moscow, Colon>>),
     Says("help", "help", <<moscow>>), Says("stop", "stop", <<>>),
     Says("none", hello, <<"ping">>), Says("node", "node", <<hello>>)}

Commanded ==
    UNION {UNION {{Message(via, t, Means(s), Bare, <<2>>) : t \in Texts(via, w)} :
                     via \in {0, 1, DM}, w \in Written(s)} : s \in Said}

Pings ==
    {Message(via, IF via = DM THEN <<"ping">> ELSE <<alice, Colon, "ping">>,
             [kind |-> "ping", arg |-> <<>>], p, <<2>>) : via \in {0, DM}, p \in PingPackets}

NodeQueries ==
    {Message(via, IF via = DM THEN <<"node", Space, ab12>> ELSE <<alice, Colon, "node", Space, ab12>>,
             [kind |-> "node", arg |-> <<ab12>>], Bare, mention) :
       via \in {0, 4, DM}, mention \in {<<2, 2>>, <<1, 2, 3>>}}

ChannelQueries ==
    {Message(DM, <<"channels">>, [kind |-> "channels", arg |-> <<>>], Bare, <<2>>)}

MCMessages == Commanded \cup Pings \cup NodeQueries \cup ChannelQueries

(* All these forms are among those of the theorem about commands.          *)
ASSUME FormsArePeoples == PeopleMeanWhatTheyWrite

Ab12 == {ab12}
Short == <<1>>
Medium == <<2, 1>>
Long == <<3, 2, 3, 2, 3>>
MCNodeLines ==
    {<<>>, <<Short>>, <<Long>>, <<Short, Medium, Short>>, <<Medium, Medium>>,
     <<Short, Long, Medium>>, <<Medium, Short, Short, Medium>>}
MCNotFound == <<1, 2, 2>>
=============================================================================
