------------------------------- MODULE BotProofs -------------------------------
(***************************************************************************)
(* Theorems about Bot, for any messages, channels, people, configuration   *)
(* and periodic tasks.                                                     *)
(***************************************************************************)
EXTENDS Bot, TLAPS

Mains ==
    {"start", "contacts", "refresh", "table", "serving", "disconnecting"} \cup Tasks \cup Gone
TaskStates == {"off", "waiting", "busy", "cancelled", "ended"}
Places == Handling \cup {"radio", "queued", "event", "ignored", "lost", "done", "raised", "cut"}

(* No task was started before the handlers were subscribed.                *)
SubscribedFirst == \A t \in Tasks : task[t] # "off" => subscribed

(* async_main waits for the end of the tasks one after another, and no     *)
(* task that has ended begins again.                                       *)
EndedInTurn ==
    /\ main \in Tasks => \A t \in Tasks : Order[t] < Order[main] => ~ Active(t)
    /\ main \in {"disconnecting", "exited"} => \A t \in Tasks : ~ Active(t)

(* What the first step of a handler found still holds at its later ones.   *)
Decided(m) ==
    /\ at[m] \in Handling => Answerable(m)
    /\ at[m] = "event" /\ msg[m].via = DM => DmEnabled
    /\ at[m] = "stopping" => MayStop(m)
    /\ at[m] = "relay" => msg[m].via = DM /\ msg[m].kind = "msg" /\ msg[m].target \in Enabled

BotInv ==
    /\ TypeOK /\ SubscribedFirst /\ NothingLost /\ EndedInTurn
    /\ \A m \in Messages : Decided(m)
    /\ OnlyAuthorisedStop /\ SaidIsPermitted

-----------------------------------------------------------------------------
(* Who may do what depends on the messages and the configuration alone.    *)
LEMMA PermissionsStay ==
    ASSUME msg' = msg, NEW m \in Messages
    PROVE  /\ MayStop(m)' <=> MayStop(m)
           /\ Answerable(m)' <=> Answerable(m)
  BY DEF MayStop, Answerable, CommandAllowed

(* A message that a handler passes on without an await keeps what was      *)
(* decided of the others.                                                  *)
LEMMA DecidedStays ==
    ASSUME msg' = msg, NEW m \in Messages, Decided(m),
           at'[m] = at[m] \/ at'[m] \notin Handling \cup {"event"}
    PROVE  Decided(m)'
  BY PermissionsStay DEF Decided, Handling

LEMMA StopStays ==
    ASSUME msg' = msg, OnlyAuthorisedStop, shutdown' = shutdown,
           \A m \in Messages : at[m] = "done" => at'[m] = "done"
    PROVE  OnlyAuthorisedStop'
  BY PermissionsStay DEF OnlyAuthorisedStop

LEMMA SaidStays ==
    ASSUME msg' = msg, SaidIsPermitted, said' = said
    PROVE  SaidIsPermitted'
  BY PermissionsStay DEF SaidIsPermitted

LEMMA InitHolds == Init => BotInv
<1> SUFFICES ASSUME Init PROVE BotInv
  OBVIOUS
<1>1. TypeOK
  BY DEF Init, TypeOK
<1>2. SubscribedFirst /\ NothingLost /\ EndedInTurn
  BY DEF Init, SubscribedFirst, NothingLost, EndedInTurn, Tasks
<1>3. \A m \in Messages : Decided(m)
  BY DEF Init, Decided, Handling
<1>4. OnlyAuthorisedStop /\ SaidIsPermitted
  BY DEF Init, OnlyAuthorisedStop, SaidIsPermitted
<1> QED
  BY <1>1, <1>2, <1>3, <1>4 DEF BotInv

-----------------------------------------------------------------------------
(* What neither handles a message nor starts a task: the steps of the      *)
(* tasks, of the environment, and the first and last ones of async_main.   *)
LEMMA HandlersLeft ==
    ASSUME BotInv, msg' = msg, at' = at, shutdown' = shutdown, said' = said
    PROVE  /\ \A m \in Messages : Decided(m)'
           /\ NothingLost' /\ OnlyAuthorisedStop' /\ SaidIsPermitted'
<1>1. \A m \in Messages : Decided(m)'
  BY DecidedStays DEF BotInv
<1>2. NothingLost'
  BY DEF BotInv, NothingLost
<1> QED
  BY <1>1, <1>2, StopStays, SaidStays DEF BotInv

LEMMA TasksLeft ==
    ASSUME BotInv, task' = task, subscribed' = subscribed,
           main' = main \/ main' \notin Tasks \cup {"disconnecting", "exited"}
    PROVE  SubscribedFirst' /\ EndedInTurn'
  BY DEF BotInv, SubscribedFirst, EndedInTurn, Active

(* A task that is no more active than before.                              *)
LEMMA TaskSteps ==
    ASSUME BotInv, NEW t \in Tasks, task[t] # "off", Active(t),
           main' = main, subscribed' = subscribed,
           \A u \in Tasks \ {t} : task'[u] = task[u]
    PROVE  SubscribedFirst' /\ EndedInTurn'
  BY DEF BotInv, SubscribedFirst, EndedInTurn, Active

(* The tasks outside ts have ended, and the first that has not is next.    *)
LEMMA StopsInTurn ==
    ASSUME BotInv, NEW ts \in SUBSET Tasks, StopNext(ts), subscribed' = subscribed,
           \A t \in Tasks : t \in ts \/ ~ Active(t)
    PROVE  /\ SubscribedFirst' /\ EndedInTurn'
           /\ main' \in Mains /\ task' \in [Tasks -> TaskStates]
<1>0. task \in [Tasks -> TaskStates]
  BY DEF BotInv, TypeOK, TaskStates
<1>1. CASE \A t \in ts : ~ Active(t)
  BY <1>0, <1>1 DEF StopNext, BotInv, SubscribedFirst, EndedInTurn, Active, Mains, Tasks
<1>2. CASE \E t \in ts : Active(t)
  <2>1. PICK t \in ts : /\ Active(t) /\ \A u \in ts : Active(u) => Order[t] <= Order[u]
                        /\ main' = t /\ task' = [task EXCEPT ![t] = "cancelled"]
    BY <1>2 DEF StopNext
  <2>2. \A u \in Tasks : Order[u] < Order[t] => ~ Active(u)
    <3>1. \A u \in Tasks : Order[u] \in Nat
      BY DEF Order, Tasks
    <3> QED
      BY <2>1, <3>1
  <2>3. \A u \in Tasks : Order[u] < Order[t] => task'[u] = task[u]
    BY <1>0, <2>1 DEF Order, Tasks
  <2>4. EndedInTurn'
    BY <2>1, <2>2, <2>3 DEF EndedInTurn, Active, Tasks
  <2>5. SubscribedFirst'
    BY <1>0, <2>1 DEF BotInv, SubscribedFirst, Active
  <2> QED
    BY <1>0, <2>1, <2>4, <2>5 DEF Mains, TaskStates
<1> QED
  BY <1>1, <1>2

LEMMA MainHolds ==
    ASSUME BotInv, MainStep \/ Interrupt
    PROVE  BotInv'
<1> SUFFICES /\ TypeOK' /\ SubscribedFirst' /\ NothingLost' /\ EndedInTurn'
             /\ \A m \in Messages : Decided(m)'
             /\ OnlyAuthorisedStop' /\ SaidIsPermitted'
  BY DEF BotInv
<1>1. CASE Connect \/ GotContacts \/ Serve
  <2>1. TypeOK'
    BY <1>1 DEF BotInv, TypeOK, Connect, GotContacts, Serve, Learn, Gone, Tasks
  <2>2. main' \notin Tasks \cup {"disconnecting", "exited"}
    BY <1>1 DEF Connect, GotContacts, Serve, Tasks
  <2> QED
    BY <1>1, <2>1, <2>2, HandlersLeft, TasksLeft DEF Connect, GotContacts, Serve
<1>2. CASE Attach
  <2>1. TypeOK'
    BY <1>2 DEF BotInv, TypeOK, Attach, Learn
  <2>2. SubscribedFirst' /\ EndedInTurn'
    BY <1>2 DEF Attach, SubscribedFirst, EndedInTurn, Tasks
  <2> QED
    BY <1>2, <2>1, <2>2, HandlersLeft DEF Attach
<1>3. CASE BeginStop \/ Joined
  <2>1. PICK ts \in SUBSET Tasks :
           StopNext(ts) /\ \A t \in Tasks : t \in ts \/ ~ Active(t)
    <3>1. CASE BeginStop
      BY <3>1 DEF BeginStop
    <3>2. CASE Joined
      <4> DEFINE after == {t \in Tasks : Order[t] > Order[main]}
      <4>1. \A t \in Tasks : t \in after \/ ~ Active(t)
        BY <3>2 DEF Joined, BotInv, EndedInTurn, Order, Tasks
      <4> QED
        BY <3>2, <4>1 DEF Joined
    <3> QED
      BY <1>3, <3>1, <3>2
  <2>2. subscribed' = subscribed
    BY <1>3 DEF BeginStop, Joined
  <2>3. /\ SubscribedFirst' /\ EndedInTurn'
        /\ main' \in Mains /\ task' \in [Tasks -> TaskStates]
    BY <2>1, <2>2, StopsInTurn
  <2>4. TypeOK'
    BY <1>3, <2>3 DEF BotInv, TypeOK, BeginStop, Joined, Mains, TaskStates
  <2> QED
    BY <1>3, <2>3, <2>4, HandlersLeft DEF BeginStop, Joined
<1>4. CASE Disconnect \/ Interrupt
  <2>1. PICK how \in {"exited", "interrupted"} : Finish(how)
    BY <1>4 DEF Disconnect, Interrupt
  <2>2. /\ msg' = msg /\ subscribed' = subscribed /\ shutdown' = shutdown
        /\ known' = known /\ said' = said /\ link' \in BOOLEAN
    BY <1>4 DEF Disconnect, Interrupt, BotInv, TypeOK
  <2>3. \A t \in Tasks : task[t] = "off" => task'[t] = "off"
    BY <2>1 DEF Finish, Active
  <2>4. \A t \in Tasks : ~ Active(t)'
    BY <2>1 DEF Finish, Active
  <2>5. \A m \in Messages :
           IF at[m] \in Handling \cup {"event"} THEN at'[m] = "cut" ELSE at'[m] = at[m]
    BY <2>1 DEF Finish
  <2>6. TypeOK'
    <3>1. task' \in [Tasks -> TaskStates]
      BY <2>1 DEF Finish, BotInv, TypeOK, TaskStates
    <3>2. at' \in [Messages -> Places]
      BY <2>1 DEF Finish, BotInv, TypeOK, Places
    <3>3. main' \in Gone
      BY <2>1 DEF Finish, Gone
    <3> QED
      BY <2>2, <3>1, <3>2, <3>3 DEF BotInv, TypeOK, TaskStates, Places
  <2>7. SubscribedFirst' /\ EndedInTurn'
    <3>1. SubscribedFirst'
      BY <2>2, <2>3 DEF BotInv, SubscribedFirst
    <3>2. EndedInTurn'
      BY <2>4 DEF EndedInTurn
    <3> QED
      BY <3>1, <3>2
  <2>8. \A m \in Messages : Decided(m)'
    BY <2>2, <2>5, DecidedStays DEF BotInv, Handling
  <2>9. OnlyAuthorisedStop'
    BY <2>2, <2>5, StopStays DEF BotInv, Handling
  <2>10. NothingLost'
    BY <2>5 DEF BotInv, NothingLost
  <2> QED
    BY <2>2, <2>6, <2>7, <2>8, <2>9, <2>10, SaidStays DEF BotInv
<1> QED
  BY <1>1, <1>2, <1>3, <1>4 DEF MainStep
-----------------------------------------------------------------------------
LEMMA BackgroundHolds ==
    ASSUME BotInv, NEW t \in Tasks, TaskStep(t)
    PROVE  BotInv'
<1>1. task \in [Tasks -> TaskStates]
  BY DEF BotInv, TypeOK, TaskStates
<1>2. /\ task[t] # "off" /\ Active(t)
      /\ \A u \in Tasks \ {t} : task'[u] = task[u]
      /\ task' \in [Tasks -> TaskStates]
  BY <1>1 DEF TaskStep, Begin, Leave, Returned, Cancelled, Loop, Active, TaskStates
<1>3. /\ msg' = msg /\ main' = main /\ link' = link /\ subscribed' = subscribed
      /\ shutdown' = shutdown /\ at' = at /\ said' = said
  BY DEF TaskStep, Begin, Leave, Returned, Cancelled
<1>4. known' \subseteq People
  BY DEF BotInv, TypeOK, TaskStep, Begin, Leave, Returned, Cancelled, Learn
<1>5. TypeOK'
  BY <1>2, <1>3, <1>4 DEF BotInv, TypeOK, TaskStates
<1> QED
  BY <1>2, <1>3, <1>5, HandlersLeft, TaskSteps DEF BotInv

LEMMA PullHolds ==
    ASSUME BotInv, NEW m \in Messages, Pull(m)
    PROVE  BotInv'
<1>1. /\ task \in [Tasks -> TaskStates] /\ at \in [Messages -> Places]
      /\ "poll" \in Tasks
  BY DEF BotInv, TypeOK, TaskStates, Places, Tasks
<1>2. /\ msg' = msg /\ main' = main /\ link' = link /\ subscribed' = subscribed
      /\ shutdown' = shutdown /\ known' = known /\ said' = said
  BY DEF Pull
<1>3. /\ task["poll"] # "off" /\ Active("poll")
      /\ \A u \in Tasks \ {"poll"} : task'[u] = task[u]
      /\ task' \in [Tasks -> TaskStates]
  BY <1>1 DEF Pull, Loop, Active, TaskStates
<1>4. subscribed
  BY <1>1, <1>3 DEF BotInv, SubscribedFirst
<1>5. /\ at[m] = "queued"
      /\ at' = [at EXCEPT ![m] = IF msg[m].via = DM /\ ~ DmEnabled THEN "ignored" ELSE "event"]
  BY <1>4 DEF Pull
<1>6. TypeOK'
  BY <1>1, <1>2, <1>3, <1>5 DEF BotInv, TypeOK, TaskStates, Places
<1>7. \A n \in Messages : Decided(n)'
  <2>1. TAKE n \in Messages
  <2>2. CASE n = m
    BY <1>1, <1>2, <1>5, <2>2 DEF Decided, Handling
  <2>3. CASE n # m
    BY <1>1, <1>2, <1>5, <2>3, DecidedStays DEF BotInv
  <2> QED
    BY <2>2, <2>3
<1>8. NothingLost'
  BY <1>1, <1>5 DEF BotInv, NothingLost
<1>9. OnlyAuthorisedStop'
  BY <1>1, <1>2, <1>5, StopStays DEF BotInv
<1> QED
  BY <1>1, <1>2, <1>3, <1>6, <1>7, <1>8, <1>9, TaskSteps, SaidStays DEF BotInv

-----------------------------------------------------------------------------
(* A step of one message, which starts no task.                            *)
LEMMA MessageStep ==
    ASSUME BotInv, NEW m \in Messages, NEW p \in Places \ {"lost"},
           at' = [at EXCEPT ![m] = p], at[m] # "done", Decided(m)',
           UNCHANGED <<msg, main, link, subscribed, task, known>>
    PROVE  /\ TypeOK' <=> shutdown' \in BOOLEAN
           /\ SubscribedFirst' /\ EndedInTurn' /\ NothingLost'
           /\ \A n \in Messages : Decided(n)'
           /\ \A n \in Messages : at[n] = "done" => at'[n] = "done"
<1>1. at \in [Messages -> Places]
  BY DEF BotInv, TypeOK, Places
<1>2. TypeOK' <=> shutdown' \in BOOLEAN
  BY <1>1 DEF BotInv, TypeOK, Places
<1>3. SubscribedFirst' /\ EndedInTurn'
  BY TasksLeft
<1>4. NothingLost'
  BY <1>1 DEF BotInv, NothingLost
<1>5. \A n \in Messages : Decided(n)'
  <2>1. TAKE n \in Messages
  <2>2. n # m => Decided(n)'
    BY <1>1, DecidedStays DEF BotInv
  <2> QED
    BY <2>2
<1> QED
  BY <1>1, <1>2, <1>3, <1>4, <1>5

(* The first step of a handler: what it lets through is permitted.         *)
LEMMA HandleHolds ==
    ASSUME BotInv, NEW m \in Messages, OnChannelMsg(m) \/ OnContactMsg(m)
    PROVE  BotInv'
<1>1. at \in [Messages -> Places] /\ at[m] = "event"
  BY DEF BotInv, TypeOK, Places, OnChannelMsg, OnContactMsg, Handle
<1>2. PICK p \in Places \ {"lost"} :
         /\ at' = [at EXCEPT ![m] = p]
         /\ p # "ignored" => /\ p \in FirstAwaits(m)
                             /\ msg[m].via # DM => ChannelAccepts(m)
                             /\ msg[m].via = DM => ContactAccepts(m)
  <2>1. PICK accepted \in BOOLEAN :
           /\ Handle(m, accepted)
           /\ accepted => /\ msg[m].via # DM => ChannelAccepts(m)
                          /\ msg[m].via = DM => ContactAccepts(m)
    BY DEF OnChannelMsg, OnContactMsg, ChannelAccepts, ContactAccepts
  <2>2. PICK p : /\ at' = [at EXCEPT ![m] = p]
                 /\ p \in IF accepted THEN FirstAwaits(m) ELSE {"ignored"}
    BY <2>1 DEF Handle
  <2>3. p \in Places \ {"lost"}
    BY <2>2 DEF FirstAwaits, Places, Handling
  <2> QED
    BY <2>1, <2>2, <2>3
<1>3. /\ UNCHANGED <<msg, main, link, subscribed, task, known>>
      /\ shutdown' = shutdown /\ said' = said
  BY DEF OnChannelMsg, OnContactMsg, Handle
<1>4. msg[m].via = DM => DmEnabled
  BY <1>1 DEF BotInv, Decided
<1>5. p # "ignored" => Answerable(m)
  BY <1>2, <1>4 DEF ChannelAccepts, ContactAccepts, Answerable, IsAdmin, IsBlocked
<1>6. p = "stopping" => MayStop(m)
  BY <1>2, <1>4 DEF FirstAwaits, ChannelAccepts, ContactAccepts, MayStop, IsAdmin, AdminKinds
<1>7. p = "relay" => msg[m].via = DM /\ msg[m].kind = "msg" /\ msg[m].target \in Enabled
  BY <1>2 DEF FirstAwaits, ChannelAccepts
<1>8. p \in Handling \cup {"ignored"}
  BY <1>2 DEF FirstAwaits, Handling
<1>9. Decided(m)'
  BY <1>1, <1>2, <1>3, <1>5, <1>6, <1>7, <1>8, PermissionsStay DEF Decided, Handling
<1> QED
  BY <1>1, <1>2, <1>3, <1>9, MessageStep, StopStays, SaidStays DEF BotInv, TypeOK

(* The send of a relayed message or of a reply has returned.               *)
LEMMA SentIsPermitted ==
    ASSUME BotInv, NEW m \in Messages, msg' = msg, at[m] \in Handling,
           NEW where, Sent(m, where),
           \/ where = msg[m].via
           \/ at[m] = "relay" /\ where = msg[m].target
    PROVE  SaidIsPermitted'
  BY PermissionsStay DEF BotInv, Decided, Sent, SaidIsPermitted

LEMMA HandlerHolds ==
    ASSUME BotInv, NEW m \in Messages,
           LookedUp(m) \/ Relayed(m) \/ Replied(m) \/ StopReplied(m) \/ Receive(m)
    PROVE  BotInv'
<1>1. at \in [Messages -> Places] /\ Decided(m)
  BY DEF BotInv, TypeOK, Places
<1>2. UNCHANGED <<msg, main, link, subscribed, task, known>>
  BY DEF LookedUp, Relayed, Replied, StopReplied, Receive
<1>3. PICK p \in {"reply", "raised", "done", "queued"} :
         at' = [at EXCEPT ![m] = p] /\ (p = "reply" => at[m] \in {"lookup", "relay"})
  BY DEF LookedUp, Relayed, Replied, StopReplied, Receive
<1>4. p \in Places \ {"lost"} /\ at[m] # "done" /\ at'[m] = p
  BY <1>1, <1>3 DEF Places, Handling, LookedUp, Relayed, Replied, StopReplied, Receive
<1>5. Decided(m)'
  BY <1>1, <1>2, <1>3, <1>4, PermissionsStay DEF Decided, Handling
<1>6. /\ TypeOK' <=> shutdown' \in BOOLEAN
      /\ SubscribedFirst' /\ EndedInTurn' /\ NothingLost'
      /\ \A n \in Messages : Decided(n)'
      /\ \A n \in Messages : at[n] = "done" => at'[n] = "done"
  BY <1>2, <1>3, <1>4, <1>5, MessageStep
<1>7. OnlyAuthorisedStop' /\ shutdown' \in BOOLEAN
  <2>1. CASE StopReplied(m)
    <3>1. at'[m] = "done" /\ MayStop(m)'
      BY <1>1, <1>2, <2>1, PermissionsStay DEF StopReplied, Decided
    <3> QED
      BY <2>1, <3>1 DEF StopReplied, OnlyAuthorisedStop
  <2>2. CASE ~ StopReplied(m)
    <3>1. shutdown' = shutdown
      BY <2>2 DEF LookedUp, Relayed, Replied, Receive
    <3> QED
      BY <1>2, <1>6, <3>1, StopStays DEF BotInv, TypeOK
  <2> QED
    BY <2>1, <2>2
<1>8. SaidIsPermitted'
  <2>1. CASE LookedUp(m) \/ Receive(m)
    BY <1>2, <2>1, SaidStays DEF LookedUp, Receive, BotInv
  <2>2. CASE Relayed(m)
    BY <1>2, <2>2, SentIsPermitted DEF Relayed, Handling
  <2>3. CASE Replied(m) \/ StopReplied(m)
    BY <1>2, <2>3, SentIsPermitted DEF Replied, StopReplied, Handling
  <2> QED
    BY <2>1, <2>2, <2>3
<1> QED
  BY <1>6, <1>7, <1>8 DEF BotInv

-----------------------------------------------------------------------------
LEMMA StepHolds == BotInv /\ [Next]_vars => BotInv'
<1> SUFFICES ASSUME BotInv, [Next]_vars PROVE BotInv'
  OBVIOUS
<1>1. CASE MainStep \/ Interrupt
  BY <1>1, MainHolds
<1>2. CASE \E t \in Tasks : TaskStep(t)
  BY <1>2, BackgroundHolds
<1>3. CASE \E m \in Messages : Pull(m) \/ HandlerStep(m) \/ Receive(m)
  BY <1>3, PullHolds, HandleHolds, HandlerHolds DEF HandlerStep
<1>4. CASE ContactsUpdated
  <2>1. UNCHANGED <<msg, main, link, subscribed, shutdown, task, at, said>>
        /\ known' \subseteq People
    BY <1>4 DEF ContactsUpdated, Learn
  <2>2. TypeOK'
    BY <2>1 DEF BotInv, TypeOK
  <2> QED
    BY <2>1, <2>2, HandlersLeft, TasksLeft DEF BotInv
<1>5. CASE UNCHANGED vars
  <2>1. UNCHANGED <<main, link, subscribed, shutdown, task, msg, at, known, said>>
    BY <1>5 DEF vars
  <2>2. TypeOK'
    BY <2>1 DEF BotInv, TypeOK
  <2> QED
    BY <2>1, <2>2, HandlersLeft, TasksLeft DEF BotInv
<1> QED
  BY <1>1, <1>2, <1>3, <1>4, <1>5 DEF Next, Over

LEMMA AlwaysHolds == Spec => []BotInv
  BY InitHolds, StepHolds, PTL DEF Spec

(* async_main, the tasks and the handlers are always at one of their       *)
(* awaits.                                                                 *)
THEOREM TypeCorrect == Spec => []TypeOK
<1>1. BotInv => TypeOK
  BY DEF BotInv
<1> QED
  BY <1>1, AlwaysHolds, PTL

(* main.py:63: attach() comes before the poll is started, so no message is *)
(* taken off the companion's queue without a handler for it.               *)
THEOREM NoMessageIsLost == Spec => []NothingLost
<1>1. BotInv => NothingLost
  BY DEF BotInv
<1> QED
  BY <1>1, AlwaysHolds, PTL

(* main.py:121-140: the link is closed only after async_main has seen the  *)
(* end of every background task, whichever the configuration asks for.     *)
THEOREM TasksHaveEnded == Spec => []TasksEndFirst
<1>1. BotInv => TasksEndFirst
  BY DEF BotInv, EndedInTurn, TasksEndFirst
<1> QED
  BY <1>1, AlwaysHolds, PTL

(* README.md:96: whoever writes what and when, the process is shut down    *)
(* only on account of a stop command of an admin, or of one on an admin    *)
(* channel where it is allowed.                                            *)
THEOREM StopIsAuthorised == Spec => []OnlyAuthorisedStop
<1>1. BotInv => OnlyAuthorisedStop
  BY DEF BotInv
<1> QED
  BY <1>1, AlwaysHolds, PTL

(* README.md:96-98, blacklist.py:42: what the bot sends, it may send: to   *)
(* the sender of the message, if this may be answered, and elsewhere only  *)
(* for the msg command of an admin, on an enabled channel.                 *)
THEOREM OnlyPermittedIsSaid == Spec => []SaidIsPermitted
<1>1. BotInv => SaidIsPermitted
  BY DEF BotInv
<1> QED
  BY <1>1, AlwaysHolds, PTL
=============================================================================
