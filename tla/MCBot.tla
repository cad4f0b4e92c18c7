-------------------------------- MODULE MCBot --------------------------------
(* A small instance of Bot: alice is an admin, bob a user, mallory is on    *)
(* the blacklist.  Channel 0 is an admin channel, 1 is not, 2 is not        *)
(* enabled; stop is allowed on 0 only.  Two messages come at any time: two  *)
(* stop commands, or a stop command and another.                            *)
EXTENDS Bot, TLC

CONSTANTS alice, bob, mallory

MCPeople == {alice, bob, mallory}
MCAdmins == {alice}
Mallory == {mallory}
Channels012 == {0, 1, 2}
Channels01 == {0, 1}
AdminChannel == {0}
BothTasks == {"advert", "sync"}
StopOnZero == [k \in Kinds |-> IF k = "stop" THEN {0} ELSE {}]

Message(via, from, kind, target) ==
    [via |-> via, from |-> from, kind |-> kind, target |-> target]

TwoMessages == 1 .. 2

(* Who may stop the process, and where.                                    *)
AdminStop == Message(DM, alice, "stop", NoChannel)

Stops ==
    {AdminStop, Message(DM, bob, "stop", NoChannel),
     Message(0, bob, "stop", NoChannel), Message(1, alice, "stop", NoChannel)}

(* Who may speak through the bot, and on which channel.                    *)
Relays ==
    {Message(DM, alice, "msg", 1), Message(DM, alice, "msg", 2),
     Message(DM, bob, "msg", 1)}

(* A user's request that takes two awaits, a blocked sender, a stranger.   *)
Others ==
    {Message(0, bob, "weather", NoChannel),
     Message(2, bob, "help", NoChannel),
     Message(DM, mallory, "help", NoChannel),
     Message(DM, Nobody, "help", NoChannel)}

MCTraffic == (Stops \X Stops) \cup ({AdminStop} \X (Relays \cup Others))
=============================================================================
