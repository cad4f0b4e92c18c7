# A verification of meshcore_bot in TLA+

`meshcore_bot` is a Python bot for a MeshCore companion radio on a serial link.
It answers commands on mesh channels and in direct messages, keeps a store of
the nodes it has heard of, and asks weather services on the web. It is one
asyncio process: what is hard about it is what happens between two awaits.

The modules here model its concurrent core, and the algorithms its handlers
are built from. TLC checks them on small instances, and TLAPS proves the most
important results for every instance.
Line numbers refer to the files of `meshcore_bot/`.

## 1. Inventory

| Component | Code | State | Operations | What makes it correct |
|---|---|---|---|---|
| Channel delivery | `service.py` `_send_chan`, `_register_rx_log_group_event`, `_count_heard_repeats_since`, `_resolve_channel_name` | the log of heard packets, the cache of channel names, the locals of each call | send, wait, count, retry; log a packet; prune | the verdict is that of the whole window, whoever pruned the log meanwhile; a heard message is not sent again; every call returns |
| Direct message delivery | `_send_dm`, `_send_node_parts_dm`, the loop of `channels` | attempt, time stamp, expected code | send, wait for the ACK, resend, next part | an ACK ends the wait of the right reply only; repeats are recognisable; parts keep their order; every reply ends |
| Message poll | `message_poll.py` | three time stamps | `get_msg`, keepalive, watchdogs, pause | every message is pulled; an idle link is probed, and not too often; silence is reported; the loop stops |
| Node store | `node_advert_store.py` and three callers in `service.py` | nodes with the time they were last seen, and a JSON file | load, upsert, purge, trim, save | size, file and memory agree, the newest nodes are kept |
| Lifecycle | `main.py`, `advert_task.py`, `node_sync_task.py` | the serial link, the shutdown event, three tasks | connect, sync, subscribe, start, cancel, join, disconnect | no message is lost at the start; tasks end before the link; a stop takes effect |
| Command handlers, authorisation | `service.py` `_on_channel_msg`, `_on_contact_msg`, `auth.py`, `blacklist.py` | one task per message | accept or ignore, look up, relay, reply, stop | only an authorised stop stops; only admins speak through the bot; the blocked get no answer |
| Weather | `commands/weather_cmd.py` | a cache shared by all tasks | providers, fallback, cache | answers are recent, the fallback is tried, every request ends |
| Meteostat station database | `weather_cmd.py:526-637` | a path, a lock, a file | validate, copy, download with retries | one download at a time, a torn file only after a copy that was broken off |
| Path information of ping | `service.py` `_latest_*` | the latest signal, hash width and path | written by one event, read for another | the answer describes the packet it answers, as far as that says anything |
| Command parser | `commands/router.py` | none | parse a line | the command after the first `:` is found |
| Configuration | `config.py` | none | defaults and limits | every number in the file gives a setting within its limits, every channel named in a list is enabled |
| Channel table | `channel_info.py` | none | query the slots | enabled slots first |
| Companion contacts | `companion_contacts.py` | settings of the companion | read, change, read again | automatic contacts are on |
| Text helpers | `textutil.py` | none | clip and pack UTF-8 | parts fit their limit, no character is cut, nothing is lost that fits |
| Geography, locales, diagnose | `geo.py`, `i18n.py`, `diagnose.py` | none | distances, wording, a report | |

How they interact. The poll takes a message off the companion's queue. The
`meshcore` library dispatches it, one new task per subscriber, to a handler of
`BotService`. The handler decides, may ask the weather or the channel table,
and answers through `_send_dm` or `_send_chan`. Heard packets (`RX_LOG_DATA`)
arrive through the same dispatcher and go into the log that all channel sends
share. A stop command sets the event that `main`, the poll and the periodic
tasks watch. The contact sync and direct messages write the node store, the
`node` command reads it.

Hard behaviours, each listed at its line in `PROJECT.json` under `hazards`:
several sends share one pruned log; state is read after an await that somebody
else used; acknowledgements and repeats are lost, late, or come twice; a crash
falls between emptying and writing the file; a time stamp is refreshed just
before the test that is to find it old; a slow fetch overwrites a quick one;
shutdown races with start, handlers and Ctrl-C.

## 2. Modules

Every action is one segment of a task from one await to the next, with all the
state changes of that segment. The environment (companion, mesh, clock, HTTP
services) has actions of its own.

| Module | Models | Extends or uses |
|---|---|---|
| `RxLog` | `Prune`, `Matches`, `HeardKeys`: the log of heard packets and the two operations on it | |
| `HeardDelivery` | the abstract promise of a channel send: windows, and verdicts on everything heard in them; it has no prune, no cache and no other task | `RxLog` |
| `ChannelDelivery` | `_send_chan` in detail; `PromiseSpec` says that it implements `HeardDelivery` | `RxLog`, `INSTANCE HeardDelivery` |
| `ChannelDeliveryProofs` | its theorems | `ChannelDelivery` |
| `ReplyDelivery` | the abstract promise of a direct reply: parts in order, one letter for each; it has no clock, no code and no acknowledgement | |
| `DmDelivery`, `DmDeliveryProofs` | `_send_dm` and replies in parts, over an unreliable mesh; `ReplySpec` says that it implements `ReplyDelivery`; its theorems | `INSTANCE ReplyDelivery` |
| `MessagePoll`, `MessagePollProofs` | `run_serial_message_poll`; its theorems | |
| `NodeMemory` | the abstract promise of the node store: it remembers every report, and answers with the newest | |
| `NodeStore`, `NodeStoreProofs` | the store, its file, crashes; `MemorySpec` says that it implements `NodeMemory`; its theorems | `INSTANCE NodeMemory` |
| `Bot`, `BotProofs` | `async_main`, the background tasks, the handlers and who may do what; its theorems | |
| `WeatherProviders` | the five providers as functions of the HTTP answers | |
| `Weather`, `WeatherProofs` | `fetch_weather_payload` and the shared cache; its theorems | `WeatherProviders` |
| `StationsDb` | `_meteostat_ensure_stations_db`: the lock, the file, crashes and the clock | |
| `StationsDbProofs` | its theorems | `StationsDb` |
| `Router` | `parse_incoming` | |
| `Config` | `BotConfig.from_dict`: numbers with defaults and limits, channel lists | |
| `ChannelTable` | `fetch_channel_table` | |
| `TextUtil` | clipping and packing of texts, and the parts of a node answer | |
| `PingPath` | the four caches of the latest packet, and the path a ping is answered with | |
| `Answers`, `AnswersProofs` | the configuration is read, then one event after another is handled; its theorems | the five before |
| `MC...` | the constants of the runs | |

Definitions whose comment begins with *Fault* are altered forms of the
definition after them. No specification uses them. They are the plausible
bugs against which each property has been tried (`mutants` in `PROJECT.json`).

### Correspondence

**ChannelDelivery.** A call goes `idle`, `delay` (`reply_delay_sec`), `sending`
(the await of `send_chan_msg`), `fetching` (`fetch_channel_table`, only when
the name is not cached), `listening` (the sleep of `rx_wait_sec`), then a
verdict: `Confirm`, `Retry` or `GiveUp`. `rxLog` is `_rx_log_grp_events`;
it is a list in the code, but neither its order nor repetitions matter to
prune and count, so it is a set. An event carries some of hash, name and slot
(`Shapes`); without a `pkt_hash` its key is the time. `Hear` prunes, then logs.
`heard` and `sent` are history.

**DmDelivery.** `delay`, `sending`, `waiting`, `acked`. A message's ACK code is
its recipient, text, time in seconds and attempt. The bot may hear any ACK made
so far, at any time, more than once or never, which covers loss, delay,
duplication and reordering. It notices one only while `wait_for_event` waits
for exactly that code. `_send_dm` returns nothing that its callers look at, so
the next part follows whatever became of this one. Seen as `ReplyDelivery`, a
letter is what all attempts of a part have in common, its time included, and
the three places of a part that is being sent are one.

**MessagePoll.** The places are the awaits `probe`, `get` and `nap`. The code
only ever subtracts its three time stamps from now, so the model keeps ages,
which stop growing at `Cap`, beyond every threshold. `quietAge`, `probeAge` and
`silentAge` are histories that the code's own variables are measured against.

**NodeStore.** `items` and `file` map a key to the time last seen. Nothing in the
store awaits, so an operation is one step, except that `save` empties the file
before it writes it, where the process may die. A file that is absent, empty
or torn is loaded as no nodes. `steady` remembers whether the clock was ever
set back. Seen as `NodeMemory`, a save takes effect when the file is emptied: that
it may still fail, or the process die, is what is unsure until it is written.

**Bot.** Two messages of `Traffic`, a set of pairs, come at any time. `main` runs through connect, `contacts`, `refresh` (the first contact
sync), `table`, `serving`, then cancels and joins each task and disconnects. A
message goes `radio`, `queued`, `event`, then through its handler's awaits. A
send is one await here, its detail is in the two delivery modules. `ping` and
`time` take the same awaits as `help` and `weather` and have no kind of their
own. While `main` joins a task, the first Ctrl-C is swallowed with the
`CancelledError` of that task (Python 3.12), which is a stuttering step.

**Weather.** The lock around the cache is never held over an await, so a look-up
or a store belongs to the segment it is in. `asOf` is the earliest moment the
stored weather can be of. `WeatherProviders` maps HTTP answers to `ok`, one of
three errors, or `raised` when an exception escapes the provider's handlers. `Http` is the set of
answers the services give. The runs leave out `odd`, a word where a temperature
is read: with it, an exception escapes from every provider but the bulk data of Meteostat.

**StationsDb.** `queue` is the asyncio lock: its head holds it, the others wait
in their order. A request is `waiting`, `copying`, `downloading`, `done` or
`failed`. `copy2` is synchronous, so nothing else runs while somebody is
`copying` (`Copying`), but the process may die there. Of a file only what the
code can tell apart is kept: `unusable` (absent, too small, or the test query
fails), `torn` (a part that passes the test), `empty` (no station: the test of
the file finds that, the test of a download does not) or `whole`. `Crash` starts
the process again with the files it left, `Clock` sets the wall clock to
anything, which also is how a file grows old. `given` is a history of what the
path that was handed out stood for.

**Answers.** The process goes `start`, `loaded`, `serving`, or `refused` if
`from_dict` raises. What a number in the file may be includes what YAML and `float()` make
of it besides numbers: `NotANumber` (`.nan`), which is neither below nor above a
limit, and the two infinities. Then it takes one event after another: a packet of the
radio log, a channel message or a direct one. What a handler does before its
first await is one step. Nothing later in it writes the caches, and the parts
of an answer are composed from what is known then. `event` and `reply` are
histories of that step. A message has a field `means`, what its sender wants,
which the code does not see and the properties compare the answer with. The
numbers are dropped in `Serve`: from there on they are the constants of the
other modules. A line is a sequence of words, colons, spaces and invisible
characters. A text, where its size matters, is the sequence of the sizes of its
characters. In `PingPath` `cache` is `_latest_snr`, `_latest_hash_width`,
`_latest_route` and `_latest_pathinfo`.

## 3. Runs

| Run | Shows | Bounds, and why they are enough |
|---|---|---|
| `channel_shared` | `WindowKept`, `PromiseSpec`: two sends and a foreign packet on one channel, neither prunes what the other counts | `MaxLag = PruneSlack`, the worst case that is promised; `LastCall` 0 and `MaxTime` 6 let the windows of both overlap and a second attempt begin; two packets suffice for one inside and one outside a window |
| `channel_retries` | `PromiseSpec`, `EveryCallReturns`: two repeats needed, packets without `pkt_hash`, an empty name table | one sender, whose two attempts end before `MaxTime` 12 |
| `channel_early_repeat` | *violated:* `HeardIsNotResent` | one sender; an answer of the companion takes up to 2 units (`MaxRtt`), so that a repeat may be heard strictly after `send_chan_msg` has returned and strictly before the window begins |
| `dm_replies` | `AckedWasReceived`, `AttemptsAreDistinct`, `ShownOnce`, `NotResentAfterAck`, `ReplySpec`, `EveryReplyEnds` | two contacts, the same text, one reply of two parts; `MaxClock` 1 lets sends fall in one second or in two |
| `poll_live_link` | `EveryMessageIsPulled`, `IdleIsProbed`, `ProbesAreSpaced`, `PollStops` | time in units of 15 s, in the proportions of the defaults: keepalive 4 (60 s), idle 2 (30 s), watchdog 6 (90 s); `Cap` 14 is one more than the latest probe that is allowed |
| `poll_silence` | *violated:* `SilenceIsReported` | as `poll_live_link` |
| `store` | `MemoryIsOnDisk`, `FreshestStay`, `MemorySpec` | three nodes for two places, so that one makes room; retention 2 below the horizon 4 |
| `bot` | `NothingLost`, `TasksEndFirst`, `OnlyAuthorisedStop`, `SaidIsPermitted`, `StopTakesEffect` | two messages: any two stops (by an admin or a user, in a direct message, on an admin channel or an ordinary one), or an admin's stop with a relay (by an admin or a user, to an enabled channel or not), a weather request, or a message of somebody blocked or unknown, or on a channel that is off; both periodic tasks, Ctrl-C, contacts that become known at any moment |
| `weather_shared_cache` | `AnswersAreRecent`, `FallbackIsTried`, `EveryRequestEnds` | three requests: two fetch at once, the third reads what the slower one stored |
| `weather_escaped_error` | *violated:* `FallbackIsTried` | one request |
| `stations` | `HandedOutIsComplete`, `FetchedOnce`, `EveryLookupEnds` | three requests (one holds the lock, one waits, one comes late), 2 attempts, times 0 to 2 with a refresh of 1, one restart: a copy broken off in the first life is found in the second |
| `answers` | `SettingsAreUsable`, `EnabledChannelsAreNamed`, `CommandAfterColon`, `PingTellsItsPacket`, `NodePartsArrive` | files with one setting out of the ordinary (-1, 0, 1, the limit, one more, a word, `.nan`, `.inf`, `-.inf`) or an odd channel list; each command in each form a user may write it, from three nicknames, on both kinds of channel and direct; 6 packets and 7 ping packets, whose caches meet in every order; an `ASSUME` of `MCAnswers` has TLC check that all these messages satisfy the hypothesis of the theorem about commands; `MaxBytes` 16 for 140, `Probe` 2 for 16 and `Cap` 4 for 32 keep lists of up to four lines on either side of the limits |

Type invariants are checked in one run of each module. Symmetry is used in
safety runs only. Deadlock is checked everywhere; where a run ends
(`Horizon`, `Over`, `Ended`) the step that stutters there is written out.

**Fairness.** Each await of a handler is weakly fair: the library turns a silent
companion into an ERROR after a timeout, `wait_for_event` and `sleep` have
timers, every HTTP client has a timeout, an asyncio lock is handed on in the
order of waiting, and asyncio runs ready tasks in order. Time itself is fair where a task sleeps (`Tick`). The poll needs strong
fairness of `GotMessage`: a `get_msg` that is made again and again while a
message waits returns it once. New messages, repeats, acknowledgements, contacts
and the periodic commands are never assumed to come.

## 4. Theorems

All are proved for any number of tasks, packets, nodes and any settings
allowed by the named assumptions, by an inductive invariant that TLC's runs
agree with.

* `TypeCorrect` in each of these modules but `AnswersProofs`: `Spec => []TypeOK`.
* `ChannelDeliveryProofs!WindowIsKept`: `Spec => []WindowKept`, assuming
  `LoopOnTime` (`MaxLag <= PruneSlack`). `WindowKept` is not inductive, as it
  does not say why a prune by another task is harmless. The invariant
  `WindowInv` adds `Logged` (the log holds only heard packets), `Recent`
  (everything above the cutoff of this moment is still logged, whoever pruned)
  and `OnTime` (a listening send is not past its deadline). Recent and OnTime
  together put the window above the cutoff.
* `ChannelDeliveryProofs!VerdictsArePromised`: under the same assumption
  `Spec => PromiseSpec`, the refinement of `HeardDelivery`. Every segment maps
  to a step or a stutter; the verdicts agree because the count over the pruned
  log equals that over everything heard (`CountIsComplete`).
* `NodeStoreProofs!SizeIsBounded`, `MemoryStaysOnDisk`: from `StoreInv`, the
  conjunction of the two and the types, whatever the clock does. No run checks
  `SizeBounded` by itself, as `MemorySpec` contains it for what is in memory.
* `NodeStoreProofs!FreshestAreKept`: `Spec => []FreshestStay`. As long as the
  clock was steady, no time lies in the future (`NoFuture`), and a stored time
  is the last reported one (`InStep`), so what purge and trim drop is either
  expired or no newer than what stays.
* `NodeStoreProofs!NothingIsForgotten`: `Spec => MemorySpec`, the refinement of
  `NodeMemory`. That only live nodes are told, with the time of their last report
  (`AnswerIsSound`), holds whatever the clock did, so `InStep` is shown again without
  a steady clock (`OperationsAnswer`); that they are the newest is `FreshInv`. `Emptied` says
  that the file under a save in progress is empty and its process alive, so that
  a save that fails or is broken off loses what the abstract store was unsure of,
  and nothing else.
* `StationsDbProofs!CompleteIsHandedOut`, `FetchedOnceOnly`: from
  `StationsInv`, which adds to the types and `HandedOutIsComplete` that whoever
  copies or downloads is the head of the queue and knows no path (`LockHeld`), so
  it is alone, and that a part of a database exists only while somebody copies
  or after a copy was broken off (`FilesSound`).

* `DmDeliveryProofs!AckedIsReceived`, `EachIsShownOnce`, `PartsKeepOrder`,
  `AttemptsDiffer`, `NotResent`: from one invariant, `DmInv`. None of the five says
  where a task is. `Ordered` ties the ending of every part to the place of its task,
  `MeshSound` says that the messages of the current part carry its time and
  attempts made already, and `WokenByOwn` that a task that was woken was woken by
  the acknowledgement of its own part. That two parts of one reply differ
  is an assumption (`DmAssumption`): the bot numbers them.
* `DmDeliveryProofs!RepliesAreAsPromised`: `Spec => ReplySpec`, the refinement of
  `ReplyDelivery`, from `PromiseInv`, which adds two facts to `DmInv`: the letter of a part
  that is being sent is on the mesh (`OnMesh`), so that a further attempt adds no
  letter, and only a task that waits for acknowledgements is ever at `waiting` or
  `acked` (`Awaited`). Waiting, waking and the clock are stutters (`OthersStutter`), and
  each of the four endings is allowed (`EndingsAllowed`). `PartsInOrder` follows from
  the abstract step, so no run checks it by itself.
* `WeatherProofs!AnswersStayRecent`: `CacheSound` bounds how long after the moment
  it is of a stored line expires, and `AskedInTurn` how long a provider has been
  asked, whichever of two fetches ends last.
* `WeatherProofs!BothAreAsked`: `Spec => []FallbackIsTried`, assuming `QuietFirst`:
  there is one provider only, or the first lets no exception escape. That none
  escapes from Open-Meteo, RapidAPI and wttr.in is proved too (`QuietProviders`), over the
  six kinds of HTTP answers in which every number is one (`NumbersAreNumbers`, a part of
  `QuietFirst`). Without the hypothesis it is false, as `weather_escaped_error` shows.
* `MessagePollProofs!ProbesStaySpaced`: in every place but the probe itself
  `last_keepalive_wall` is when the last probe began, whatever became of it, and the
  idle time of the code is never more than the time since a message.
* `MessagePollProofs!ProbesComeInTime`: `Spec => []IdleIsProbed`, assuming
  `ShortIdle` (idle threshold and one `get_msg` within the 90 s; with the defaults
  30 s and 4 s). The invariant `NotPutOff` says for each place how the head of the
  loop has decided: either the idle time was still short then, or the last probe
  was not long ago; and that the watchdog has restarted the idle time only when
  the second held. Without `ShortIdle` it is false, see `message_poll.py:149` below.
  The proof showed that a `get_msg` begun just before the idle time is over delays
  a probe by its whole length, on top of the round: the bound counts it.
* `BotProofs!NoMessageIsLost`, `TasksHaveEnded`, `StopIsAuthorised`,
  `OnlyPermittedIsSaid`: from `BotInv`. A task that was ever started implies that
  the handlers are subscribed (`SubscribedFirst`); while `async_main` joins a
  task the ones before it have ended (`EndedInTurn`); and what the first step of
  a handler found out about its message still holds at its later awaits
  (`Decided`), though contacts become known, tasks end and Ctrl-C comes between.
* `AnswersProofs!FilesGiveUsableSettings`: for every file, by the limits of the 14
  settings and what `Clamp` makes of a number, an infinity and what is no number
  (`Clamped`). It does not say that every setting is within its limits, which is
  false: eight of them keep a `.nan`, those that are floats but for the reply
  delay (`NumberIsInLimits`).
* `AnswersProofs!ChannelsAreNamed`: for any companion, number of slots and cap.
  `EnabledAreAsked` says that the first round reaches every enabled channel below the
  cap, which rests on there being a last enabled channel (`AnswersAssumption`).
* `AnswersProofs!PingTellsOfItsPacket`: for any packets and messages in any order.
  `CacheSound` says that the latest path is the one the last event with a
  plausible path told; `OwnPath` that what is told of a packet is its own.
* `AnswersProofs!NodePartsAlwaysArrive`: `Spec => []NodePartsArrive`, assuming
  `MentionsAreShort` (the mention leaves room for a character). For any number of
  lines of any texts. Packing is a loop over the lines, so the argument is an
  induction: `NatSetInduction` puts it as a fact about sets of naturals, which
  the well-founded library gives without an operator as a parameter, and
  `RecursionExists` says that the recursive functions of `TextUtil` are defined.
  One line keeps two invariants of the loop: `PackFits` (`current_len` is the size of the
  joined current lines, and every chunk fits) and `PackKeeps` (joined, the chunks
  and the current lines are the lines so far, and no chunk has room for what
  follows it).

* `AnswersProofs!CommandsAreUnderstood`: `Spec => []CommandAfterColon`, assuming
  `PeopleMeanWhatTheyWrite`: with single spaces and without what cannot be seen, a
  line is a name with colons after it and what is asked after a space, or begins with
  no name; on a channel a nickname without a colon that begins with no name
  stands before it, and a direct message that is no command has no colon. The grammar
  is a definition of `Answers` that mentions none of the functions that parse. That the first
  colon is the right one is `BodyAfterNick`, that the whole line is tried first does
  no harm is `OtherIsParsed`. What `Normalize` does with spaces and invisible characters
  is left to the hypothesis, which applies it.

Every hypothesis of a theorem is named. `LoopOnTime` is a fact about the machine
and not about the code: the 2 s of slack must cover the longest delay of the event
loop. Synchronous calls (the station database, writing the node store) are what
could exceed it. `QuietFirst` and `ShortIdle` are facts about the configuration,
true of the defaults, the first together with one about the services
(`NumbersAreNumbers`). The assumptions of the other modules take for granted that settings
are numbers: a file with `.nan` is outside them. `MentionsAreShort` is one about senders: a MeshCore name has at most
32 bytes, and a part 140. With a longer one, every part is cut to the mention.
`PeopleMeanWhatTheyWrite` is one about senders too: it excludes the nicknames
of the finding at `router.py:126`.

Only model-checked: every liveness property (`EveryCallReturns`, `EveryReplyEnds`,
`PollStops`, `EveryMessageIsPulled`, `EveryRequestEnds`, `EveryLookupEnds`,
`StopTakesEffect`), as the prover handles neither fairness nor ENABLED; and what
`Normalize` makes of a line, as it has no theory of `SelectSeq`. Every
invariant and action property of a passing run is a theorem.

## 5. Findings

* `service.py:1016`. The window begins after the channel names were fetched. A
  repeat heard before that is in the log and is not counted, so the message is
  sent again (`channel_early_repeat`). The names are fetched once, but for a slot that
  answers ERROR, or when the fetch raises: then again with every attempt.
* `message_poll.py:103`. The link time is refreshed by timeouts too, just before
  it is compared with 90 s, so the warning is never logged (`poll_silence`).
* `weather_cmd.py:1341`. An OpenWeatherMap answer without `main` raises out of
  the handler: no fallback, no reply (`weather_escaped_error`). At lines 946, 1157,
  1275 and 1357 a temperature that is no number would do the same.

Three more disagreements with the documents of the repository have no run: each shows
in the lines themselves, and the properties say what the code does there.

* `config.py:147` and 138. A configured 0 becomes the default (`get(...) or default`),
  though `README.md:112` says that `wait_sec: 0` turns the wait for the ACK off, and
  line 120 and `config.example.yaml:47` that a sync interval of 0 means at the start
  only. A negative number, or a 0 in quotes, does what 0 should.
  `SettingsAreUsable` says that a 0 becomes the default, and no other number within
  the limits does.
* `service.py:1196`. A ping on a channel whose event has no route is answered with the
  route of the latest packet of anybody, where `README.md:94` shows a route only if the
  event has one. `PingTellsItsPacket` says that a packet with a route is answered with
  its own, and nothing of the route that a channel ping without one gets.
* `router.py:126`. A sender whose name is a command word ("ping: weather") is taken to
  give that command, where `README.md:88` takes the one after the first colon.
  `CommandAfterColon` is about all other names.

Seen, and left without a run: the documents of the repository are silent on
these, as far as they were found.

* `service.py:683`. Two channels with the same one-byte hash confirm each other's
  sends.
* `blacklist.py:45`. An entry that is a full key does not match while the library
  has no contact of the sender. `SaidIsPermitted` counts only entries that the
  code can match at that moment.
* `message_poll.py:149`. The watchdog resets the time of the last message, which is
  also the idle time: with an idle threshold above 90 s no keepalive is sent. This
  is why `ProbesComeInTime` needs `ShortIdle`.
* `config.py:150`. A `.nan` passes both comparisons that keep a float setting within its
  limits. `reply_delay_sec` (line 101) is the exception: it becomes 0.
* `config.py`. `.inf` for a whole number is an `OverflowError` that refuses the file.
* `service.py:1193,1229,1425,1430`. The latest signal is kept, but never used for a
  message, as `_extract_signal_quality` returns a text in any case.
* `weather_cmd.py:546`. The copy of the bundled database is not atomic. If the process
  dies in it, the next one finds a torn file of the right age and hands it out:
  `HandedOutIsComplete` excepts this case.
* `weather_cmd.py:580`. The bundled database as a last resort is tried for validity
  the same way as before the download: with an image older than the refresh time
  and no network the request fails although it has a database.
* `weather_cmd.py:612,632`. A download without a single station is accepted, kept for
  the life of the process, and fetched again at the next start.
* `weather_cmd.py:533`. After a download that failed each request in the queue makes
  all its attempts again, so the last one waits for the sum of them.

## 6. Plan

Done: every component of the inventory with state of its own, the pure
algorithms of parsing, configuration, clipping and the channel table, abstract
specifications of the two deliveries and of the node store with refinement proofs,
and a proof of every safety and action property of the passing runs.
Left, if the code changes there: an abstract specification of the weather cache,
and the cutting of a long direct reply into parts.

## 7. Not modelled

* Wording, formatting and the labels of replies; age and distance in a ping.
* `geo.py` is floating point without state, `i18n.py` is wording, `diagnose.py`
  prints a report and ends.
* `companion_contacts.py` is one await of `Bot`: it writes settings of the companion,
  whatever becomes of each, and logs the outcome. No state of the bot depends on
  it.
* Of a configuration: paths, keys, texts, and the fractions of numbers.
* Adding to and removing from the blacklist, which nothing calls.
* The search for stations in the database, and the units and labels of weather.
* The inside of the `meshcore` and `httpx` libraries (only what the code relies
  on), and the parsing of environment variables and YAML.
* Two processes on one store file do not occur.
