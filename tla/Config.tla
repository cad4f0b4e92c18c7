------------------------------- MODULE Config -------------------------------
(* BotConfig.from_dict: what a configuration file makes of the settings.    *)
(* Numbers are taken in the unit of the setting and as whole numbers, and   *)
(* of the text settings only the channel lists matter here.                 *)
EXTENDS Integers

(* What may stand in the file where a number is expected, besides a number. *)
(* The word inf is Endless to float() and Junk to int(), as -inf is.        *)
CONSTANTS
    Absent,        \* nothing, or null
    Junk,          \* a word, a list
    NotANumber,    \* .nan, or the word nan
    Endless,       \* .inf
    MinusEndless   \* -.inf

Odd == {Absent, Junk, NotANumber, Endless, MinusEndless}

Rule(default, low, high, kind) ==
    [default |-> default, low |-> low, high |-> high, kind |-> kind]

(* All but the "plain" settings are read by `get(...) or default`.  The    *)
(* limits are two comparisons, but for the "maxmin" one: max(low, min(x,    *)
(* high)).  All but the "int" ones go through float().                      *)
Rules ==
    [reply_delay_sec                   |-> Rule(0, 0, 600, "maxmin"),
     advert_interval_hours             |-> Rule(0, 0, 8760, "float"),
     node_advert_retention_days        |-> Rule(7, 0, 3650, "float"),
     node_advert_max_stored            |-> Rule(5000, 1, 1000000, "int"),
     node_key_preview_bytes            |-> Rule(2, 1, 4, "int"),
     node_sync_interval_minutes        |-> Rule(15, 0, 1440, "float"),
     dm_delivery_wait_sec              |-> Rule(10, 0, 600, "float"),
     dm_delivery_max_attempts          |-> Rule(2, 1, 50, "int"),
     channel_delivery_wait_sec         |-> Rule(10, 0, 600, "float"),
     channel_delivery_min_rx_repeats   |-> Rule(1, 0, 1000, "int"),
     channel_delivery_max_attempts     |-> Rule(3, 1, 50, "int"),
     weather_cache_ttl_minutes         |-> Rule(15, 0, 10080, "plain"),
     poll_keepalive_sec                |-> Rule(60, 0, 3600, "plain"),
     poll_keepalive_only_when_idle_sec |-> Rule(30, 0, 3600, "plain")]

Settings == DOMAIN Rules
Commands == {"weather", "time", "ping", "help", "stop", "channels", "msg", "node"}

(* Nothing is below or above what is not a number.                          *)
Below(x, limit) == x = MinusEndless \/ (x \in Int /\ x < limit)
Above(x, limit) == x = Endless \/ (x \in Int /\ x > limit)

(* Fault: the lower limit is left out.                                      *)
CappedOnly(rule, x) == IF Above(x, rule.high) THEN rule.high ELSE x

Clamp(rule, x) ==
    CASE Below(x, rule.low)  -> rule.low
      [] Above(x, rule.high) -> rule.high
      [] OTHER               -> x

(* int() of an infinity is an OverflowError, which load_config lets through. *)
Readable(s, value) == ~ (Rules[s].kind = "int" /\ value \in {Endless, MinusEndless})

(* int() refuses what is not a number, with the ValueError of a word.       *)
TakesDefault(rule, value) ==
    \/ value \in {Absent, Junk}
    \/ value = NotANumber /\ rule.kind = "int"
    \/ value = 0 /\ rule.kind # "plain"

Number(s, value) ==
    LET rule  == Rules[s]
        taken == IF TakesDefault(rule, value) THEN rule.default ELSE value
    IN  IF taken = NotANumber /\ rule.kind = "maxmin" THEN rule.low ELSE Clamp(rule, taken)

(* Every channel a list names must be enabled.                              *)
AdminsEnabled(raw) == raw.admins \subseteq raw.enabled

ListsEnabled(raw) ==
    \A c \in Commands : raw.channels[c] # Absent => raw.channels[c] \subseteq raw.enabled

Loads(raw) ==
    AdminsEnabled(raw) /\ ListsEnabled(raw) /\ \A s \in Settings : Readable(s, raw.numbers[s])

(* A command without a list is allowed on all of them.                      *)
FromDict(raw) ==
    [enabled |-> raw.enabled,
     admins  |-> raw.admins,
     allowed |-> [c \in Commands |-> IF raw.channels[c] = Absent THEN {} ELSE raw.channels[c]],
     numbers |-> [s \in Settings |-> Number(s, raw.numbers[s])]]
=============================================================================
