--------------------------------- MODULE Bot ---------------------------------
(***************************************************************************)
(* The process: async_main, the tasks it starts (the poll, the periodic    *)
(* advert and the periodic contact sync), and the handlers of BotService,  *)
(* one task per message received.  A step of a task runs from one await to *)
(* the next.  A send is one await here, its attempts and confirmations are *)
(* the matter of ChannelDelivery and DmDelivery, and the rounds of the     *)
(* poll are that of MessagePoll.  What a contact sync does to the node     *)
(* store is the matter of NodeStore; here it refreshes the contacts that   *)
(* the library knows, by which the sender of a direct message is found.    *)
(***************************************************************************)
EXTENDS Integers

CONSTANTS
    Messages,       \* those that users of the mesh send to the bot in a run
    Traffic,        \* what these may be: [Messages -> Contents]
    Channels,
    DM,             \* the way of a direct message
    Nobody,         \* the sender of one without a prefix
    NoChannel,      \* the target of a msg command that is malformed
    People,         \* senders with a key
    Enabled,        \* channels.enabled_indices
    AdminChannels,  \* admins.channel_indices
    AllowedOn,      \* commands.<name>.channel_indices; {}: everywhere
    AdminKeys,      \* admins.public_keys
    BlockedKeys,    \* blacklist entries that need the full key to match
    BlockedPrefixes,\* and those of the 6 bytes that come with a message
    DmEnabled,      \* dm.enabled
    Periodic        \* the periodic tasks the configuration asks for

Kinds == {"none", "help", "node", "weather", "stop", "channels", "msg"}
AdminKinds == {"stop", "channels", "msg"}
Tasks == {"advert", "sync", "poll"}

Contents ==
    [via : Channels \cup {DM}, from : People \cup {Nobody},
     kind : Kinds, target : Channels \cup {NoChannel}]

ASSUME BotAssumption ==
    /\ Nobody \notin People
    /\ DM \notin Channels /\ NoChannel \notin Channels
    /\ Enabled \subseteq Channels
    /\ Traffic \subseteq [Messages -> Contents]
    /\ DOMAIN AllowedOn = Kinds
    /\ AdminChannels \subseteq Enabled
    /\ DmEnabled \in BOOLEAN
    /\ Periodic \subseteq {"advert", "sync"}

VARIABLES
    main,        \* where async_main is
    link,        \* the serial connection is open
    subscribed,  \* attach() was called
    shutdown,    \* the event
    task,        \* the state of each background task
    msg,         \* what the users send
    at,          \* where each message, then its handler, is
    known,       \* people whose contact the library has
    said         \* history: what was sent on account of each message

vars == <<main, link, subscribed, shutdown, task, msg, at, known, said>>

Handling == {"lookup", "relay", "reply", "stopping"}
Gone == {"failed", "exited", "interrupted"}

Init ==
    /\ main = "start"
    /\ link = FALSE /\ subscribed = FALSE /\ shutdown = FALSE
    /\ task = [t \in Tasks |-> "off"]
    /\ msg \in Traffic
    /\ at = [m \in Messages |-> "radio"]
    /\ known = {}
    /\ said = {}

-----------------------------------------------------------------------------
(* async_main.                                                             *)
Connect ==
    /\ main = "start"
    /\ \/ main' = "contacts" /\ link' = TRUE
       \/ main' = "failed" /\ UNCHANGED link
    /\ UNCHANGED <<msg, subscribed, shutdown, task, at, known, said>>

(* Whatever get_contacts brought, or nothing.                              *)
Learn == known' \in {K \in SUBSET People : known \subseteq K}

GotContacts ==
    /\ main = "contacts"
    /\ main' = "refresh"
    /\ Learn
    /\ UNCHANGED <<msg, link, subscribed, shutdown, task, at, said>>

(* Fault: the poll is started, and the handlers subscribed only later.     *)
AttachLate ==
    /\ main = "refresh"
    /\ main' = "table"
    /\ Learn
    /\ task' = [t \in Tasks |-> IF t \in Periodic \cup {"poll"} THEN "waiting" ELSE "off"]
    /\ UNCHANGED <<msg, link, subscribed, shutdown, at>>
    /\ UNCHANGED said

(* The first contact sync is over: handlers are subscribed and the tasks   *)
(* created before the next await, that of the channel table.               *)
Attach ==
    /\ main = "refresh"
    /\ main' = "table"
    /\ Learn
    /\ subscribed' = TRUE
    /\ task' = [t \in Tasks |-> IF t \in Periodic \cup {"poll"} THEN "waiting" ELSE "off"]
    /\ UNCHANGED <<msg, link, shutdown, at, said>>

Serve ==
    /\ main = "table"
    /\ main' = "serving"
    /\ UNCHANGED <<msg, link, subscribed, shutdown, task, at, known, said>>

Active(t) == task[t] \in {"waiting", "busy", "cancelled"}

(* Cancel the first of these tasks that has not ended and wait for it, or  *)
(* go on to disconnect.                                                    *)
Order == [advert |-> 1, sync |-> 2, poll |-> 3]

StopNext(ts) ==
    \/ /\ \E t \in ts :
            /\ Active(t) /\ \A u \in ts : Active(u) => Order[t] <= Order[u]
            /\ main' = t
            /\ task' = [task EXCEPT ![t] = "cancelled"]
    \/ /\ \A t \in ts : ~ Active(t)
       /\ main' = "disconnecting"
       /\ UNCHANGED task

BeginStop ==
    /\ main = "serving"
    /\ shutdown
    /\ StopNext(Tasks)
    /\ UNCHANGED <<msg, link, subscribed, shutdown, at, known, said>>

(* Fault: a task is cancelled, and its end is not waited for.              *)
JoinedAtOnce ==
    /\ main \in Tasks
    /\ StopNext({t \in Tasks : Order[t] > Order[main]})
    /\ UNCHANGED <<msg, link, subscribed, shutdown, at, known, said>>

Joined ==
    /\ main \in Tasks
    /\ ~ Active(main)
    /\ StopNext({t \in Tasks : Order[t] > Order[main]})
    /\ UNCHANGED <<msg, link, subscribed, shutdown, at, known, said>>

(* async_main is over and asyncio.run cancels what still runs.             *)
Finish(how) ==
    /\ main' = how
    /\ task' = [t \in Tasks |-> IF Active(t) THEN "ended" ELSE task[t]]
    /\ at' = [m \in Messages |-> IF at[m] \in Handling \cup {"event"} THEN "cut" ELSE at[m]]

Disconnect ==
    /\ main = "disconnecting"
    /\ link' = FALSE
    /\ Finish("exited")
    /\ UNCHANGED <<msg, subscribed, shutdown, known, said>>

(* Ctrl-C cancels async_main at whatever it awaits: it does not disconnect. *)
(* While it waits for a task to end the first Ctrl-C is swallowed with the *)
(* end of that task (a stuttering step); the second ends the process.      *)
Interrupt ==
    /\ main \notin Gone \cup {"start"}
    /\ Finish("interrupted")
    /\ UNCHANGED <<msg, link, subscribed, shutdown, known, said>>

-----------------------------------------------------------------------------
(* The background tasks: while not shutdown, wait, then one command.       *)
Begin(t) ==
    /\ task[t] = "waiting"
    /\ ~ shutdown
    /\ task' = [task EXCEPT ![t] = "busy"]
    /\ UNCHANGED <<msg, main, link, subscribed, shutdown, at, known, said>>

Leave(t) ==
    /\ task[t] = "waiting"
    /\ shutdown
    /\ task' = [task EXCEPT ![t] = "ended"]
    /\ UNCHANGED <<msg, main, link, subscribed, shutdown, at, known, said>>

(* Fault: the task comes to rest without looking at shutdown.              *)
LoopOut(t) == task' = [task EXCEPT ![t] = IF shutdown THEN "over" ELSE "waiting"]

Loop(t) == task' = [task EXCEPT ![t] = IF shutdown THEN "ended" ELSE "waiting"]

(* The command was answered, failed or raised.                             *)
Returned(t) ==
    /\ task[t] = "busy"
    /\ Loop(t)
    /\ IF t = "sync" THEN Learn ELSE UNCHANGED known
    /\ UNCHANGED <<msg, main, link, subscribed, shutdown, at, said>>

Cancelled(t) ==
    /\ task[t] = "cancelled"
    /\ task' = [task EXCEPT ![t] = "ended"]
    /\ UNCHANGED <<msg, main, link, subscribed, shutdown, at, known, said>>

(* get_msg returned a message; the library hands it to its subscribers.    *)
Pull(m) ==
    /\ task["poll"] = "busy"
    /\ at[m] = "queued"
    /\ at' = [at EXCEPT ![m] = IF ~ subscribed THEN "lost"
                               ELSE IF msg[m].via = DM /\ ~ DmEnabled THEN "ignored"
                               ELSE "event"]
    /\ Loop("poll")
    /\ UNCHANGED <<msg, main, link, subscribed, shutdown, known, said>>

-----------------------------------------------------------------------------
(* The handlers.  The first step decides what becomes of the message.      *)
(* Fault: every known sender is an admin.                                  *)
IsAdminOrUser(m) == msg[m].from \in known

IsAdmin(m) == msg[m].from \in known /\ msg[m].from \in AdminKeys

(* Fault: the prefix is not looked up.                                     *)
IsBlockedByKey(m) == msg[m].from \in known /\ msg[m].from \in BlockedKeys

IsBlocked(m) ==
    \/ msg[m].from \in BlockedPrefixes
    \/ msg[m].from \in known /\ msg[m].from \in BlockedKeys

CommandAllowed(m) == AllowedOn[msg[m].kind] = {} \/ msg[m].via \in AllowedOn[msg[m].kind]

ChannelAccepts(m) ==
    /\ msg[m].via \in Enabled
    /\ msg[m].kind \in {"help", "node", "weather", "stop"}
    /\ CommandAllowed(m)
    /\ msg[m].kind = "stop" => msg[m].via \in AdminChannels

ContactAccepts(m) ==
    /\ ~ IsBlocked(m)
    /\ msg[m].kind # "none"
    /\ msg[m].from # Nobody
    /\ msg[m].kind \in AdminKinds => IsAdmin(m)

(* The first await of an accepted command: weather of no city and a msg    *)
(* that is malformed or names a channel that is not enabled are answered   *)
(* with an error at once.                                                  *)
FirstAwaits(m) ==
    CASE msg[m].kind = "stop"                -> {"stopping"}
      [] msg[m].kind = "weather"             -> {"lookup", "reply"}
      [] msg[m].kind = "channels"            -> {"lookup", "reply"}
      [] msg[m].kind = "msg" /\ msg[m].target \in Enabled -> {"relay"}
      [] OTHER                           -> {"reply"}

Handle(m, accepted) ==
    /\ at[m] = "event"
    /\ at' \in {[at EXCEPT ![m] = p] : p \in IF accepted THEN FirstAwaits(m) ELSE {"ignored"}}
    /\ UNCHANGED <<msg, main, link, subscribed, shutdown, task, known, said>>

OnChannelMsg(m) == msg[m].via # DM /\ Handle(m, ChannelAccepts(m))

OnContactMsg(m) == msg[m].via = DM /\ Handle(m, ContactAccepts(m))

(* The weather, or the table of channels; an error that escapes ends the   *)
(* handler without a reply.                                                *)
LookedUp(m) ==
    /\ at[m] = "lookup"
    /\ at' \in {[at EXCEPT ![m] = p] : p \in {"reply", "raised"}}
    /\ UNCHANGED <<msg, main, link, subscribed, shutdown, task, known, said>>

(* A send returned; the packet may or may not have gone out.               *)
Sent(m, where) == said' \in {said, said \cup {<<m, where>>}}

Relayed(m) ==
    /\ at[m] = "relay"
    /\ Sent(m, msg[m].target)
    /\ at' = [at EXCEPT ![m] = "reply"]
    /\ UNCHANGED <<msg, main, link, subscribed, shutdown, task, known>>

Replied(m) ==
    /\ at[m] = "reply"
    /\ Sent(m, msg[m].via)
    /\ at' = [at EXCEPT ![m] = "done"]
    /\ UNCHANGED <<msg, main, link, subscribed, shutdown, task, known>>

(* Fault: the process is shut down only after a reply that was sent.       *)
StopRepliedIfSent(m) ==
    /\ at[m] = "stopping"
    /\ Sent(m, msg[m].via)
    /\ at' = [at EXCEPT ![m] = "done"]
    /\ shutdown' = (shutdown \/ <<m, msg[m].via>> \in said')
    /\ UNCHANGED <<msg, main, link, subscribed, task, known>>

(* The reply to stop was sent or failed: now the process is shut down.     *)
StopReplied(m) ==
    /\ at[m] = "stopping"
    /\ Sent(m, msg[m].via)
    /\ at' = [at EXCEPT ![m] = "done"]
    /\ shutdown' = TRUE
    /\ UNCHANGED <<msg, main, link, subscribed, task, known>>

-----------------------------------------------------------------------------
(* The environment: the companion queues a message, also while the bot is  *)
(* not running; the library takes new contacts over by itself.             *)
Receive(m) ==
    /\ at[m] = "radio"
    /\ at' = [at EXCEPT ![m] = "queued"]
    /\ UNCHANGED <<msg, main, link, subscribed, shutdown, task, known, said>>

ContactsUpdated ==
    /\ link
    /\ main \notin Gone
    /\ Learn
    /\ UNCHANGED <<msg, main, link, subscribed, shutdown, task, at, said>>

Over == main \in Gone /\ UNCHANGED vars

MainStep == Connect \/ GotContacts \/ Attach \/ Serve \/ BeginStop \/ Joined \/ Disconnect

TaskStep(t) == Begin(t) \/ Leave(t) \/ Returned(t) \/ Cancelled(t)

HandlerStep(m) ==
    OnChannelMsg(m) \/ OnContactMsg(m) \/ LookedUp(m) \/ Relayed(m) \/ Replied(m) \/ StopReplied(m)

Next ==
    \/ MainStep \/ Interrupt
    \/ \E t \in Tasks : TaskStep(t)
    \/ \E m \in Messages : Pull(m) \/ HandlerStep(m) \/ Receive(m)
    \/ ContactsUpdated
    \/ Over

Spec == Init /\ [][Next]_vars

(* Every await ends (EveryCallReturns, EveryReplyEnds and PollStops are    *)
(* the reasons), and the loop runs whoever is ready.                       *)
FairSpec ==
    /\ Spec
    /\ WF_vars(MainStep)
    /\ \A t \in Tasks : WF_vars(Leave(t) \/ Returned(t) \/ Cancelled(t))
    /\ \A m \in Messages : WF_vars(HandlerStep(m))

-----------------------------------------------------------------------------
TypeOK ==
    /\ main \in {"start", "contacts", "refresh", "table", "serving", "disconnecting"}
                  \cup Tasks \cup Gone
    /\ link \in BOOLEAN /\ subscribed \in BOOLEAN /\ shutdown \in BOOLEAN
    /\ task \in [Tasks -> {"off", "waiting", "busy", "cancelled", "ended"}]
    /\ msg \in Traffic
    /\ at \in [Messages -> Handling \cup
                 {"radio", "queued", "event", "ignored", "lost", "done", "raised", "cut"}]
    /\ known \subseteq People

(* README.md:96: the process stops only for a stop command of an admin in  *)
(* a direct message, or on an admin channel, where the command is allowed; *)
(* and not before the reply to it was sent or had failed.                  *)
MayStop(m) ==
    /\ msg[m].kind = "stop"
    /\ \/ msg[m].via = DM /\ msg[m].from \in AdminKeys /\ DmEnabled
       \/ msg[m].via \in AdminChannels /\ CommandAllowed(m)

OnlyAuthorisedStop == shutdown => \E m \in Messages : at[m] = "done" /\ MayStop(m)

(* README.md:96-98, blacklist.py:42: what the bot says goes the way the     *)
(* message came, to a sender of a direct message that has a key and is not *)
(* on the blacklist, or on an enabled channel where the command is allowed; *)
(* and what it says elsewhere is the msg command of an admin, on an enabled *)
(* channel.  This is said of blacklist entries of 6 bytes: a full key does *)
(* nothing while the library has no contact of the sender.                 *)
Answerable(m) ==
    IF msg[m].via = DM
    THEN /\ DmEnabled
         /\ msg[m].from \notin BlockedPrefixes \cup {Nobody}
         /\ msg[m].kind \in AdminKinds => msg[m].from \in AdminKeys
    ELSE /\ msg[m].via \in Enabled
         /\ CommandAllowed(m)
         /\ msg[m].kind = "stop" => msg[m].via \in AdminChannels

SaidIsPermitted ==
    \A m \in Messages, where \in Channels \cup {DM} : <<m, where>> \in said =>
        /\ Answerable(m)
        /\ \/ where = msg[m].via
           \/ msg[m].via = DM /\ msg[m].kind = "msg" /\ where \in Enabled

(* main.py:63: handlers are subscribed before the first message is pulled: *)
(* none that the poll takes off the companion's queue is lost.             *)
NothingLost == \A m \in Messages : at[m] # "lost"

(* main.py:121-140: no background task has a command under way while the   *)
(* companion is being disconnected: async_main has seen the end of each.   *)
TasksEndFirst == main \in {"disconnecting", "exited"} => \A t \in Tasks : ~ Active(t)

(* README.md:57: after a stop command the process exits with code 0, even  *)
(* if the reply cannot be sent and whatever the other handlers do.         *)
StopTakesEffect ==
    \A m \in Messages : at[m] = "stopping" ~> main \in {"exited", "interrupted"}
=============================================================================
