----------------------------- MODULE AnswersProofs -----------------------------
(***************************************************************************)
(* Theorems about Answers, for any configuration files, packets, messages  *)
(* and companions.                                                         *)
(***************************************************************************)
EXTENDS WellFoundedInduction, SequenceTheorems, Answers, TLAPS

(* The latest path is the one that the latest event with a path told.      *)
CacheSound ==
    /\ cache = [f \in {"snr", "width", "route", "path"} |-> cache[f]]
    /\ cache.path.len = lastLen

(* There are finitely many channels to answer on.                          *)
HasLast(channels) ==
    channels # {} => \E last \in channels : \A c \in channels : c \in Int /\ c <= last

(* Nothing is answered before the settings are read, and these stay.       *)
AnswersInv ==
    /\ phase = "start" => raw \in RawConfigs
    /\ phase \in {"loaded", "serving"} => HasLast(lists.enabled)
    /\ phase # "serving" => reply = NoReply
    /\ CacheSound
    /\ SettingsAreUsable /\ EnabledChannelsAreNamed /\ PingTellsItsPacket

-----------------------------------------------------------------------------

LEMMA RulesAreSound ==
    \A s \in Settings :
        /\ Rules[s].low \in 0 .. 1
        /\ Rules[s].default \in Nat /\ Rules[s].high \in Nat
        /\ Rules[s].low <= Rules[s].default /\ Rules[s].default <= Rules[s].high
  BY DEF Settings, Rules, Rule

LEMMA MinOfTwo == \A a, b \in Int : Min({a, b}) = IF a <= b THEN a ELSE b
<1> SUFFICES ASSUME NEW a \in Int, NEW b \in Int
             PROVE  Min({a, b}) = IF a <= b THEN a ELSE b
  OBVIOUS
<1>1. \E x \in {a, b} : \A y \in {a, b} : x <= y
  OBVIOUS
<1>2. Min({a, b}) \in {a, b} /\ \A y \in {a, b} : Min({a, b}) <= y
  BY <1>1 DEF Min
<1> QED
  BY <1>2

LEMMA MaxOfTwo == \A a, b \in Int : Max({a, b}) = IF a >= b THEN a ELSE b
<1> SUFFICES ASSUME NEW a \in Int, NEW b \in Int
             PROVE  Max({a, b}) = IF a >= b THEN a ELSE b
  OBVIOUS
<1>1. \E x \in {a, b} : \A y \in {a, b} : x >= y
  OBVIOUS
<1>2. Max({a, b}) \in {a, b} /\ \A y \in {a, b} : Max({a, b}) >= y
  BY <1>1 DEF Max
<1> QED
  BY <1>2

(* The two comparisons keep everything within the limits but what is not a *)
(* number, which is neither below nor above them.                          *)
LEMMA Clamped ==
    ASSUME NEW s \in Settings, NEW x \in Int \cup {NotANumber, Endless, MinusEndless}
    PROVE  /\ x # NotANumber => Clamp(Rules[s], x) \in Rules[s].low .. Rules[s].high
           /\ x = NotANumber => Clamp(Rules[s], x) = x
           /\ x \in Rules[s].low .. Rules[s].high => Clamp(Rules[s], x) = x
<1>1. Rules[s].high \in Int /\ Rules[s].low \in Int /\ Rules[s].low <= Rules[s].high
  BY RulesAreSound
<1>2. CASE x \in Int
  <2>1. x \notin {NotANumber, Endless, MinusEndless}
    BY <1>2, AnswersAssumption DEF AnswersAssumption, Odd
  <2> QED
    BY <1>1, <1>2, <2>1 DEF Clamp, Below, Above
<1>3. CASE x \in {NotANumber, Endless, MinusEndless}
  <2>1. x \notin Int /\ NotANumber \notin {Endless, MinusEndless} /\ Endless # MinusEndless
    BY <1>3, AnswersAssumption DEF AnswersAssumption, Odd
  <2> QED
    BY <1>1, <1>3, <2>1 DEF Clamp, Below, Above
<1> QED
  BY <1>2, <1>3

(* The settings that others rely on.                                       *)
Relied == {"dm_delivery_max_attempts", "channel_delivery_max_attempts",
           "channel_delivery_min_rx_repeats", "node_advert_max_stored",
           "node_key_preview_bytes", "reply_delay_sec"}

LEMMA ReliedAreWhole ==
    \A s \in Relied : s \in Settings /\ Rules[s].kind \in {"int", "maxmin"}
  BY DEF Settings, Rules, Rule, Relied

LEMMA ReliedLimits ==
    ASSUME NEW n
    PROVE  /\ InLimits("dm_delivery_max_attempts", n) => n \in 1 .. 50
           /\ InLimits("channel_delivery_max_attempts", n) => n \in 1 .. 50
           /\ InLimits("channel_delivery_min_rx_repeats", n) => n \in Nat
           /\ InLimits("node_advert_max_stored", n) => n \in Nat \ {0}
           /\ InLimits("node_key_preview_bytes", n) => n \in 1 .. 4
           /\ InLimits("reply_delay_sec", n) => n \in Nat
<1>1. /\ Rules["dm_delivery_max_attempts"].low = 1 /\ Rules["dm_delivery_max_attempts"].high = 50
      /\ Rules["channel_delivery_max_attempts"].low = 1
      /\ Rules["channel_delivery_max_attempts"].high = 50
      /\ Rules["node_key_preview_bytes"].low = 1 /\ Rules["node_key_preview_bytes"].high = 4
      /\ Rules["node_advert_max_stored"].low = 1
  BY DEF Rules, Rule
<1>2. \A s \in Relied : InLimits(s, n) => n \in Nat /\ n >= Rules[s].low /\ n <= Rules[s].high
  BY ReliedAreWhole, RulesAreSound DEF InLimits
<1> QED
  BY <1>1, <1>2 DEF Relied

(* What a setting of a file that is not refused becomes.                   *)
LEMMA NumberIsInLimits ==
    ASSUME NEW s \in Settings, NEW value \in Int \cup Odd
    PROVE  /\ \/ InLimits(s, Number(s, value))
              \/ /\ Number(s, value) = NotANumber /\ value = NotANumber
                 /\ Rules[s].kind \notin {"int", "maxmin"}
           /\ InLimits(s, value) => Number(s, value) = Kept(s, value)
<1> DEFINE taken == IF TakesDefault(Rules[s], value) THEN Rules[s].default ELSE value
<1>1. /\ Rules[s].default \in Int /\ Rules[s].low \in Int
      /\ Rules[s].low \in Rules[s].low .. Rules[s].high
  BY RulesAreSound
<1>2. NotANumber \notin Int /\ Absent \notin Int /\ Junk \notin Int
  BY AnswersAssumption DEF AnswersAssumption, Odd
<1>3. taken \in Int \cup {NotANumber, Endless, MinusEndless}
  BY <1>1 DEF TakesDefault, Odd
<1>4. taken = NotANumber => value = NotANumber /\ Rules[s].kind # "int"
  BY <1>1, <1>2 DEF TakesDefault
<1>5. Number(s, value) = IF taken = NotANumber /\ Rules[s].kind = "maxmin"
                         THEN Rules[s].low ELSE Clamp(Rules[s], taken)
  BY DEF Number
<1>6. InLimits(s, value) => taken = Kept(s, value) /\ taken \in Rules[s].low .. Rules[s].high
  BY <1>1, <1>2, RulesAreSound DEF InLimits, Kept, TakesDefault
<1>7. InLimits(s, value) => value \in Int
  BY <1>1 DEF InLimits
<1> HIDE DEF taken
<1>8. /\ taken # NotANumber => Clamp(Rules[s], taken) \in Rules[s].low .. Rules[s].high
      /\ taken = NotANumber => Clamp(Rules[s], taken) = taken
      /\ taken \in Rules[s].low .. Rules[s].high => Clamp(Rules[s], taken) = taken
  BY <1>3, Clamped
<1>9. \/ InLimits(s, Number(s, value))
      \/ /\ Number(s, value) = NotANumber /\ value = NotANumber
         /\ Rules[s].kind \notin {"int", "maxmin"}
  BY <1>1, <1>4, <1>5, <1>8 DEF InLimits
<1>10. ASSUME InLimits(s, value) PROVE Number(s, value) = Kept(s, value)
  <2>1. taken = Kept(s, value) /\ taken \in Rules[s].low .. Rules[s].high
    BY <1>6, <1>10
  <2>2. taken # NotANumber
    BY <1>1, <1>2, <2>1
  <2> QED
    BY <1>5, <1>8, <2>1, <2>2
<1> QED
  BY <1>9, <1>10

(* config.py:97-221, for every file that is not refused.                   *)
LEMMA LoadedIsUsable ==
    ASSUME NEW file \in RawConfigs, Loads(file)
    PROVE  LET config == FromDict(file) IN
           /\ \A s \in Settings :
                /\ \/ InLimits(s, config.numbers[s])
                   \/ /\ config.numbers[s] = NotANumber /\ file.numbers[s] = NotANumber
                      /\ Rules[s].kind \notin {"int", "maxmin"}
                /\ InLimits(s, file.numbers[s]) => config.numbers[s] = Kept(s, file.numbers[s])
           /\ config.admins \subseteq config.enabled
           /\ \A c \in Commands : config.allowed[c] \subseteq config.enabled
<1> DEFINE config == FromDict(file)
<1>1. \A s \in Settings :
        /\ \/ InLimits(s, config.numbers[s])
           \/ /\ config.numbers[s] = NotANumber /\ file.numbers[s] = NotANumber
              /\ Rules[s].kind \notin {"int", "maxmin"}
        /\ InLimits(s, file.numbers[s]) => config.numbers[s] = Kept(s, file.numbers[s])
  <2>1. TAKE s \in Settings
  <2>2. config.numbers[s] = Number(s, file.numbers[s])
    BY DEF FromDict
  <2>3. file.numbers[s] \in Int \cup Odd
    BY AnswersAssumption DEF AnswersAssumption
  <2> HIDE DEF config
  <2> QED
    BY <2>2, <2>3, NumberIsInLimits
<1>2. config.admins \subseteq config.enabled
  BY DEF FromDict, Loads, AdminsEnabled
<1>3. \A c \in Commands : config.allowed[c] \subseteq config.enabled
  BY DEF FromDict, Loads, ListsEnabled
<1> QED
  BY <1>1, <1>2, <1>3

LEMMA LoadHolds == AnswersInv /\ LoadConfig => AnswersInv'
<1> SUFFICES ASSUME AnswersInv, LoadConfig PROVE AnswersInv'
  OBVIOUS
<1>1. /\ phase = "start" /\ raw \in RawConfigs /\ reply = NoReply
      /\ UNCHANGED <<raw, cache, event, reply, lastLen>>
  BY DEF AnswersInv, LoadConfig
<1>2. phase' \in {"loaded", "refused"}
  BY DEF LoadConfig
<1>3. SettingsAreUsable'
  <2> SUFFICES ASSUME phase' = "loaded" PROVE SettingsAreUsable'
    BY DEF SettingsAreUsable
  <2> DEFINE config == FromDict(raw)
  <2>1. /\ Loads(raw) /\ numbers' = config.numbers
        /\ lists' = [enabled |-> config.enabled, admins |-> config.admins,
                     allowed |-> config.allowed]
    BY DEF LoadConfig
  <2>2. /\ \A s \in Settings :
             /\ \/ InLimits(s, config.numbers[s])
                \/ /\ config.numbers[s] = NotANumber /\ raw.numbers[s] = NotANumber
                   /\ Rules[s].kind \notin {"int", "maxmin"}
             /\ InLimits(s, raw.numbers[s]) => config.numbers[s] = Kept(s, raw.numbers[s])
        /\ config.admins \subseteq config.enabled
        /\ \A c \in Commands : config.allowed[c] \subseteq config.enabled
    BY <1>1, <2>1, LoadedIsUsable
  <2> HIDE DEF config
  <2>3. /\ \A s \in Settings :
             \/ InLimits(s, numbers'[s])
             \/ numbers'[s] = NotANumber /\ raw'.numbers[s] = NotANumber
        /\ \A s \in Settings :
             InLimits(s, raw'.numbers[s]) => numbers'[s] = Kept(s, raw'.numbers[s])
    BY <1>1, <2>1, <2>2
  <2>4. /\ numbers'["dm_delivery_max_attempts"] \in 1 .. 50
        /\ numbers'["channel_delivery_max_attempts"] \in 1 .. 50
        /\ numbers'["channel_delivery_min_rx_repeats"] \in Nat
        /\ numbers'["node_advert_max_stored"] \in Nat \ {0}
        /\ numbers'["node_key_preview_bytes"] \in 1 .. 4
        /\ numbers'["reply_delay_sec"] \in Nat
    <3>1. \A s \in Relied : InLimits(s, numbers'[s])
      BY <2>1, <2>2, ReliedAreWhole
    <3> QED
      BY <3>1, ReliedLimits DEF Relied
  <2>5. lists'.admins \subseteq lists'.enabled
    BY <2>1, <2>2
  <2>6. \A c \in Commands : lists'.allowed[c] \subseteq lists'.enabled
    BY <2>1, <2>2
  <2> QED
    BY <2>3, <2>4, <2>5, <2>6 DEF SettingsAreUsable
<1>4. CacheSound'
  BY <1>1 DEF AnswersInv, CacheSound
<1>5. EnabledChannelsAreNamed' /\ PingTellsItsPacket'
  BY <1>1 DEF EnabledChannelsAreNamed, PingTellsItsPacket, NoReply
<1>6. phase' = "loaded" => HasLast(lists'.enabled)
  <2>1. phase' = "loaded" => lists'.enabled = raw.enabled
    BY DEF LoadConfig, FromDict
  <2>2. HasLast(raw.enabled)
    BY <1>1, AnswersAssumption DEF AnswersAssumption, HasLast
  <2> QED
    BY <2>1, <2>2
<1> QED
  BY <1>1, <1>2, <1>3, <1>4, <1>5, <1>6 DEF AnswersInv

-----------------------------------------------------------------------------
(* service.py:1421: the path that is told of a packet is its own.          *)
LEMMA OwnPath ==
    ASSUME NEW p, NEW width, NEW route, Plausible(p.len)
    PROVE  LET path == MessagePath(p, width, route) IN
           /\ path # NoPath /\ path.len = p.len
           /\ p.len = 0 => path.width = Or(p.width, width)
           /\ p.width # None => path.width = p.width
           /\ p.len = 0 => path.snr = p.snr /\ path.route = <<>>
           /\ p.len > 0 => path.snr = None
           /\ p.len > 0 /\ Or(p.route, route) = None => path.route = <<>>
           /\ p.len > 0 /\ p.route # None => path.route = Groups(p.route, path.width)
  BY DEF MessagePath, FormatPath, NoPath, Plausible, Or

LEMMA OthersPath ==
    ASSUME NEW p, NEW width, NEW route, ~ Plausible(p.len)
    PROVE  MessagePath(p, width, route) = NoPath
  BY DEF MessagePath

LEMMA LatestKeepsPath ==
    ASSUME CacheSound, NEW p
    PROVE  /\ Latest(cache, p).path = cache.path
           /\ Latest(cache, p) = [f \in {"snr", "width", "route", "path"} |-> Latest(cache, p)[f]]
  BY DEF CacheSound, Latest

LEMMA RxLogKeepsCache ==
    ASSUME CacheSound, NEW p, cache' = OnRxLog(cache, p), Told(Or(p.len, ParseRxLog(p).len))
    PROVE  CacheSound'
<1> DEFINE parsed == ParseRxLog(p)
           latest == Latest(cache, p)
           kept   == [latest EXCEPT !.route = Or(@, parsed.route), !.width = Or(@, parsed.tail)]
           len    == Or(p.len, parsed.len)
           path   == FormatPath(len, kept.route, Or(p.width, kept.width), kept.snr)
<1>1. /\ latest.path = cache.path
      /\ latest = [f \in {"snr", "width", "route", "path"} |-> latest[f]]
  BY LatestKeepsPath
<1>2. cache' = IF Plausible(len) THEN [kept EXCEPT !.path = path] ELSE kept
  BY DEF OnRxLog
<1>3. lastLen' = IF Plausible(len) THEN len ELSE lastLen
  BY DEF Told
<1>4. path.len = len
  BY DEF FormatPath
<1> HIDE DEF latest, parsed, len, path
<1>5. /\ kept.path = cache.path
      /\ kept = [f \in {"snr", "width", "route", "path"} |-> kept[f]]
  BY <1>1
<1> HIDE DEF kept
<1> QED
  BY <1>2, <1>3, <1>4, <1>5 DEF CacheSound

LEMMA MessageKeepsCache ==
    ASSUME CacheSound, NEW p,
           \/ cache' = OnChannelPacket(cache, p) /\ Told(p.len)
           \/ cache' \in {cache, OnContactPing(cache, p)} /\ lastLen' = lastLen
    PROVE  CacheSound'
<1>1. CASE cache' = OnChannelPacket(cache, p) /\ Told(p.len)
  <2> DEFINE path == ChannelPath(cache, p)
             latest == Latest(cache, p)
  <2>1. /\ Plausible(p.len) => path # NoPath /\ path.len = p.len
        /\ ~ Plausible(p.len) => path = NoPath
    BY OwnPath, OthersPath DEF ChannelPath
  <2>2. cache' = [latest EXCEPT !.path = IF path # NoPath THEN path ELSE @]
    BY <1>1 DEF OnChannelPacket
  <2>3. /\ latest.path = cache.path
        /\ latest = [f \in {"snr", "width", "route", "path"} |-> latest[f]]
    BY LatestKeepsPath
  <2> HIDE DEF path, latest
  <2> QED
    BY <1>1, <2>1, <2>2, <2>3 DEF Told, CacheSound
<1>2. CASE cache' \in {cache, OnContactPing(cache, p)} /\ lastLen' = lastLen
  BY <1>2 DEF CacheSound, OnContactPing
<1> QED
  BY <1>1, <1>2

-----------------------------------------------------------------------------
(* Induction on the natural numbers, said of a set of them.                *)
LEMMA NatSetInduction ==
    ASSUME NEW T, 0 \in T, \A n \in Nat : n \in T => n + 1 \in T
    PROVE  Nat \subseteq T
<1> SUFFICES ASSUME Nat \ T # {} PROVE FALSE
  OBVIOUS
<1>1. \E n \in Nat \ T : \A m \in Nat \ T : <<m, n>> \notin OpToRel(<, Nat)
  BY WFMin, NatLessThanWellFounded
<1>2. PICK n \in Nat \ T : \A m \in Nat \ T : ~ (m < n)
  BY <1>1 DEF OpToRel
<1>3. n - 1 \in Nat /\ n - 1 \in T
  BY <1>2
<1> QED
  BY <1>2, <1>3

LEMMA RangeInduction ==
    ASSUME NEW N \in Nat, NEW T, 0 \in T, \A n \in 1 .. N : n - 1 \in T => n \in T
    PROVE  0 .. N \subseteq T
<1> DEFINE U == {n \in Nat : n <= N => n \in T}
<1>1. 0 \in U
  OBVIOUS
<1>2. ASSUME NEW n \in Nat, n \in U PROVE n + 1 \in U
  <2>1. n + 1 <= N => n \in T /\ n + 1 \in 1 .. N
    BY <1>2
  <2>2. n + 1 <= N => n + 1 \in T
    BY <2>1
  <2> QED
    BY <2>2
<1> HIDE DEF U
<1>3. Nat \subseteq U
  BY <1>1, <1>2, NatSetInduction
<1> QED
  BY <1>3 DEF U

(* A recursion on the numbers up to N has a solution.                      *)
Solves(f, base, step, k) == f[0] = base /\ \A n \in 1 .. k : f[n] = step[n][f[n - 1]]

LEMMA RecursionExists ==
    ASSUME NEW N \in Nat, NEW S, NEW base \in S, NEW step \in [1 .. N -> [S -> S]]
    PROVE  \E f \in [0 .. N -> S] : Solves(f, base, step, N)
<1> DEFINE T == {k \in 0 .. N : \E f \in [0 .. k -> S] : Solves(f, base, step, k)}
<1>1. 0 \in T
  <2> DEFINE f == [n \in 0 .. 0 |-> base]
  <2>1. f \in [0 .. 0 -> S]
    OBVIOUS
  <2>2. Solves(f, base, step, 0)
    BY DEF Solves
  <2> HIDE DEF f
  <2> QED
    BY <2>1, <2>2
<1>2. ASSUME NEW k \in 1 .. N, k - 1 \in T PROVE k \in T
  <2>1. PICK f \in [0 .. k - 1 -> S] : Solves(f, base, step, k - 1)
    BY <1>2
  <2> DEFINE last == step[k][f[k - 1]]
             g == [n \in 0 .. k |-> IF n = k THEN last ELSE f[n]]
  <2>2. last \in S /\ g \in [0 .. k -> S]
    OBVIOUS
  <2>3. Solves(g, base, step, k)
    <3>1. \A n \in 0 .. k - 1 : g[n] = f[n]
      OBVIOUS
    <3>2. g[k] = step[k][g[k - 1]]
      OBVIOUS
    <3>3. g[0] = base
      BY <2>1, <3>1 DEF Solves
    <3>4. ASSUME NEW n \in 1 .. k - 1 PROVE g[n] = step[n][g[n - 1]]
      <4>1. n \in 0 .. k - 1 /\ n - 1 \in 0 .. k - 1
        OBVIOUS
      <4> HIDE DEF g
      <4> QED
        BY <2>1, <3>1, <4>1 DEF Solves
    <3> HIDE DEF g
    <3> QED
      BY <3>2, <3>3, <3>4 DEF Solves
  <2> HIDE DEF g
  <2>4. \E h \in [0 .. k -> S] : Solves(h, base, step, k)
    BY <2>2, <2>3
  <2> QED
    BY <2>4
<1> HIDE DEF T
<1>3. 0 .. N \subseteq T
  BY <1>1, <1>2, RangeInduction
<1>4. N \in T
  BY <1>3
<1> QED
  BY <1>4 DEF T

LEMMA SizesExist ==
    ASSUME NEW text \in Seq(Nat)
    PROVE  \E size : size = [n \in 0 .. Len(text) |-> IF n = 0 THEN 0 ELSE size[n - 1] + text[n]]
<1> DEFINE N == Len(text)
           step == [n \in 1 .. N |-> [x \in Nat |-> x + text[n]]]
<1>1. N \in Nat /\ step \in [1 .. N -> [Nat -> Nat]]
  OBVIOUS
<1>2. \A x \in Nat, n \in 1 .. N : step[n][x] = x + text[n]
  OBVIOUS
<1> HIDE DEF N, step
<1>3. \E f \in [0 .. N -> Nat] : Solves(f, 0, step, N)
  BY <1>1, RecursionExists
<1>4. PICK f \in [0 .. N -> Nat] : Solves(f, 0, step, N)
  BY <1>3
<1>5. \A n \in 1 .. N : f[n] = f[n - 1] + text[n]
  <2>1. TAKE n \in 1 .. N
  <2>2. f[n] = step[n][f[n - 1]]
    BY <1>4 DEF Solves
  <2>3. n - 1 \in 0 .. N
    BY <1>1
  <2>4. f[n - 1] \in Nat
    BY <2>3
  <2> QED
    BY <1>2, <2>2, <2>4
<1>6. f = [n \in 0 .. N |-> IF n = 0 THEN 0 ELSE f[n - 1] + text[n]]
  <2>1. \A n \in 0 .. N : f[n] = IF n = 0 THEN 0 ELSE f[n - 1] + text[n]
    BY <1>1, <1>4, <1>5 DEF Solves
  <2> QED
    BY <2>1
<1> QED
  BY <1>6 DEF N

LEMMA BytesBySize ==
    ASSUME NEW text \in Seq(Nat)
    PROVE  \E size : /\ Bytes(text) = size[Len(text)]
                     /\ size[0] = 0
                     /\ \A n \in 1 .. Len(text) : size[n] = size[n - 1] + text[n]
<1> DEFINE size == CHOOSE s : s = [n \in 0 .. Len(text) |-> IF n = 0 THEN 0 ELSE s[n - 1] + text[n]]
<1>1. Bytes(text) = size[Len(text)]
  BY DEF Bytes
<1>2. size = [n \in 0 .. Len(text) |-> IF n = 0 THEN 0 ELSE size[n - 1] + text[n]]
  BY SizesExist
<1> HIDE DEF size
<1>3. size[0] = 0
  <2>1. 0 \in 0 .. Len(text)
    OBVIOUS
  <2> QED
    BY <1>2, <2>1
<1>4. \A n \in 1 .. Len(text) : size[n] = size[n - 1] + text[n]
  <2>1. TAKE n \in 1 .. Len(text)
  <2>2. n \in 0 .. Len(text) /\ n # 0
    OBVIOUS
  <2> QED
    BY <1>2, <2>2
<1> QED
  BY <1>1, <1>3, <1>4

LEMMA BytesOfNone == Bytes(<<>>) = 0
<1>1. <<>> \in Seq(Nat) /\ Len(<<>>) = 0
  OBVIOUS
<1> QED
  BY <1>1, BytesBySize

LEMMA BytesIsNat == \A text \in Seq(Nat) : Bytes(text) \in Nat
<1>1. TAKE text \in Seq(Nat)
<1>2. PICK size : /\ Bytes(text) = size[Len(text)]
                  /\ size[0] = 0
                  /\ \A n \in 1 .. Len(text) : size[n] = size[n - 1] + text[n]
  BY BytesBySize
<1> DEFINE T == {n \in 0 .. Len(text) : size[n] \in Nat}
<1>3. 0 \in T
  BY <1>2
<1>4. ASSUME NEW n \in 1 .. Len(text), n - 1 \in T PROVE n \in T
  <2>1. text[n] \in Nat /\ n - 1 \in 0 .. Len(text)
    OBVIOUS
  <2> QED
    BY <1>2, <1>4, <2>1
<1> HIDE DEF T
<1>5. Len(text) \in Nat
  OBVIOUS
<1>6. 0 .. Len(text) \subseteq T
  BY <1>3, <1>4, <1>5, RangeInduction
<1> QED
  BY <1>2, <1>5, <1>6 DEF T

LEMMA BytesOfOne == \A n \in Nat : Bytes(<<n>>) = n
<1>1. TAKE n \in Nat
<1> DEFINE text == <<n>>
<1>2. text \in Seq(Nat) /\ Len(text) = 1 /\ text[1] = n
  OBVIOUS
<1> HIDE DEF text
<1>3. PICK size : /\ Bytes(text) = size[Len(text)]
                  /\ size[0] = 0
                  /\ \A k \in 1 .. Len(text) : size[k] = size[k - 1] + text[k]
  BY <1>2, BytesBySize
<1>4. size[1] = size[0] + n
  BY <1>2, <1>3
<1> QED
  BY <1>2, <1>3, <1>4 DEF text

LEMMA BytesOfBoth == \A s, t \in Seq(Nat) : Bytes(s \o t) = Bytes(s) + Bytes(t)
<1>1. TAKE s, t \in Seq(Nat)
<1>2. s \o t \in Seq(Nat) /\ Len(s \o t) = Len(s) + Len(t)
  OBVIOUS
<1>3. PICK a : /\ Bytes(s) = a[Len(s)]
               /\ a[0] = 0
               /\ \A n \in 1 .. Len(s) : a[n] = a[n - 1] + s[n]
  BY BytesBySize
<1>4. PICK b : /\ Bytes(t) = b[Len(t)]
               /\ b[0] = 0
               /\ \A n \in 1 .. Len(t) : b[n] = b[n - 1] + t[n]
  BY BytesBySize
<1>5. PICK c : /\ Bytes(s \o t) = c[Len(s \o t)]
               /\ c[0] = 0
               /\ \A n \in 1 .. Len(s \o t) : c[n] = c[n - 1] + (s \o t)[n]
  BY <1>2, BytesBySize
<1>6. Len(s) \in Nat /\ Len(t) \in Nat
  OBVIOUS
<1>7. 0 .. Len(s) \subseteq {n \in 0 .. Len(s) : c[n] = a[n]}
  <2> DEFINE T == {n \in 0 .. Len(s) : c[n] = a[n]}
  <2>1. 0 \in T
    BY <1>3, <1>5
  <2>2. ASSUME NEW n \in 1 .. Len(s), n - 1 \in T PROVE n \in T
    <3>1. (s \o t)[n] = s[n] /\ n \in 1 .. Len(s \o t)
      BY <1>2
    <3> QED
      BY <1>3, <1>5, <2>2, <3>1
  <2> HIDE DEF T
  <2>3. 0 .. Len(s) \subseteq T
    BY <1>6, <2>1, <2>2, RangeInduction
  <2> QED
    BY <2>3 DEF T
<1>8. 0 .. Len(t) \subseteq {n \in 0 .. Len(t) : c[Len(s) + n] = Bytes(s) + b[n] /\ b[n] \in Nat}
  <2> DEFINE T == {n \in 0 .. Len(t) : c[Len(s) + n] = Bytes(s) + b[n] /\ b[n] \in Nat}
  <2>1. 0 \in T
    <3>1. c[Len(s)] = a[Len(s)] /\ Bytes(s) \in Nat /\ 0 \in 0 .. Len(t)
      BY <1>6, <1>7, BytesIsNat
    <3>2. c[Len(s) + 0] = Bytes(s) + 0
      BY <1>3, <1>6, <3>1
    <3> QED
      BY <1>4, <3>1, <3>2
  <2>2. ASSUME NEW n \in 1 .. Len(t), n - 1 \in T PROVE n \in T
    <3>1. /\ (s \o t)[Len(s) + n] = t[n] /\ t[n] \in Nat
          /\ Len(s) + n \in 1 .. Len(s \o t) /\ (Len(s) + n) - 1 = Len(s) + (n - 1)
      BY <1>2
    <3>2. c[Len(s) + n] = c[Len(s) + (n - 1)] + t[n] /\ b[n] = b[n - 1] + t[n]
      BY <1>4, <1>5, <3>1
    <3>3. c[Len(s) + (n - 1)] = Bytes(s) + b[n - 1] /\ b[n - 1] \in Nat
      BY <2>2
    <3> HIDE DEF T
    <3>4. c[Len(s) + n] = Bytes(s) + b[n] /\ b[n] \in Nat
      <4>1. Bytes(s) \in Nat
        BY BytesIsNat
      <4> DEFINE u == c[Len(s) + (n - 1)]
                 v == b[n - 1]
                 w == t[n]
                 x == Bytes(s)
      <4>2. /\ c[Len(s) + n] = u + w /\ b[n] = v + w /\ u = x + v
            /\ v \in Nat /\ w \in Nat /\ x \in Nat
        BY <3>1, <3>2, <3>3, <4>1
      <4> HIDE DEF u, v, w, x
      <4>3. u + w = x + (v + w)
        BY <4>2
      <4>4. v + w \in Nat
        BY <4>2
      <4> QED
        BY <4>2, <4>3, <4>4 DEF x
    <3> QED
      BY <3>4 DEF T
  <2> HIDE DEF T
  <2>3. 0 .. Len(t) \subseteq T
    BY <1>6, <2>1, <2>2, RangeInduction
  <2> QED
    BY <2>3 DEF T
<1>9. c[Len(s) + Len(t)] = Bytes(s) + b[Len(t)]
  <2>1. Len(t) \in 0 .. Len(t)
    BY <1>6
  <2> QED
    BY <1>8, <2>1
<1> QED
  BY <1>2, <1>4, <1>5, <1>9

(* What is cut off is the end.                                             *)
LEMMA BytesOfPart ==
    ASSUME NEW text \in Seq(Nat), NEW n \in 0 .. Len(text)
    PROVE  /\ SubSeq(text, 1, n) \in Seq(Nat)
           /\ Bytes(SubSeq(text, 1, n)) <= Bytes(text)
<1> DEFINE s == SubSeq(text, 1, n)
           t == SubSeq(text, n + 1, Len(text))
<1>1. s \in Seq(Nat) /\ t \in Seq(Nat)
  OBVIOUS
<1>2. s \o t = text
  <2>1. Len(text) \in Nat
    OBVIOUS
  <2> QED
    <3>1. 1 \in 1 .. Len(text) + 1 /\ n \in (1 - 1) .. Len(text) /\ Len(text) \in n .. Len(text)
      BY <2>1
    <3>2. SubSeq(text, 1, n) \o SubSeq(text, n + 1, Len(text)) = SubSeq(text, 1, Len(text))
      BY <3>1, ConcatAdjacentSubSeq
    <3>3. SubSeq(text, 1, Len(text)) = text
      BY SubSeqFull
    <3> QED
      BY <3>2, <3>3
<1> HIDE DEF s, t
<1>3. Bytes(s \o t) = Bytes(s) + Bytes(t)
  BY <1>1, BytesOfBoth
<1>4. Bytes(s) <= Bytes(text)
  BY <1>1, <1>3, <1>2, BytesIsNat
<1> QED
  BY <1>1, <1>4 DEF s

LEMMA MaxIsGreatest ==
    ASSUME NEW N \in Nat, NEW S \in SUBSET (0 .. N), 0 \in S
    PROVE  Max(S) \in S /\ \A n \in S : n <= Max(S)
<1> DEFINE T == {k \in 0 .. N : \E x \in S : \A y \in S : y <= k => y <= x}
<1>1. 0 \in T
  OBVIOUS
<1>2. ASSUME NEW k \in 1 .. N, k - 1 \in T PROVE k \in T
  <2>1. PICK x \in S : \A y \in S : y <= k - 1 => y <= x
    BY <1>2
  <2>2. CASE k \in S
    <3>1. \A y \in S : y <= k => y <= k
      OBVIOUS
    <3> QED
      BY <2>2, <3>1
  <2>3. CASE k \notin S
    <3>1. \A y \in S : y <= k => y <= k - 1
      BY <2>3
    <3> QED
      BY <2>1, <3>1
  <2> QED
    BY <2>2, <2>3
<1> HIDE DEF T
<1>3. N \in T
  BY <1>1, <1>2, RangeInduction
<1>4. \E x \in S : \A y \in S : x >= y
  BY <1>3 DEF T
<1>5. Max(S) \in S /\ \A y \in S : Max(S) >= y
  BY <1>4 DEF Max
<1> QED
  BY <1>5

LEMMA Clipped ==
    ASSUME NEW text \in Seq(Nat), NEW max \in Nat
    PROVE  /\ ClipUtf8(text, max) \in Seq(Nat)
           /\ Bytes(ClipUtf8(text, max)) <= max
           /\ Bytes(text) <= max => ClipUtf8(text, max) = text
<1> DEFINE S == {n \in 0 .. Len(text) : n = 0 \/ Bytes(SubSeq(text, 1, n)) <= max}
           end == Max(S)
<1>1. end \in S /\ \A n \in S : n <= end
  <2>1. Len(text) \in Nat
    OBVIOUS
  <2>2. S \in SUBSET (0 .. Len(text)) /\ 0 \in S
    BY <2>1
  <2> HIDE DEF S
  <2> QED
    BY <2>1, <2>2, MaxIsGreatest
<1>2. ClipUtf8(text, max) = SubSeq(text, 1, end)
  BY DEF ClipUtf8
<1> HIDE DEF end
<1>3. end \in 0 .. Len(text) /\ (end = 0 \/ Bytes(SubSeq(text, 1, end)) <= max)
  BY <1>1
<1>4. SubSeq(text, 1, end) \in Seq(Nat)
  BY <1>3, BytesOfPart
<1>5. Bytes(SubSeq(text, 1, end)) <= max
  <2>1. CASE end = 0
    <3>1. SubSeq(text, 1, 0) = <<>>
      BY SubSeqEmpty
    <3>2. Bytes(SubSeq(text, 1, end)) = 0
      BY <2>1, <3>1, BytesOfNone
    <3> QED
      BY <3>2
  <2> QED
    BY <1>3, <2>1
<1>6. ASSUME Bytes(text) <= max PROVE SubSeq(text, 1, end) = text
  <2>1. SubSeq(text, 1, Len(text)) = text
    BY SubSeqFull
  <2>2. Len(text) \in S
    <3>1. Len(text) \in 0 .. Len(text)
      OBVIOUS
    <3> QED
      BY <1>6, <2>1, <3>1
  <2>3. end = Len(text)
    BY <1>1, <1>3, <2>2
  <2> QED
    BY <2>1, <2>3
<1> QED
  BY <1>2, <1>4, <1>5, <1>6

-----------------------------------------------------------------------------
(* The text as it grows.                                                   *)
JoinsAs(lines, text) ==
    /\ Join(lines) = text[Len(lines)]
    /\ text[0] = <<>>
    /\ Len(lines) >= 1 => text[1] = lines[1]
    /\ \A n \in 2 .. Len(lines) : text[n] = text[n - 1] \o <<1>> \o lines[n]

LEMMA JoinBySteps == \A lines \in Seq(Seq(Nat)) : \E text : JoinsAs(lines, text)
<1>1. TAKE lines \in Seq(Seq(Nat))
<1> DEFINE N == Len(lines)
           More(x, n) == IF n = 1 THEN lines[1] ELSE x \o <<1>> \o lines[n]
           Grows(t) == t = [n \in 0 .. N |-> IF n = 0 THEN <<>> ELSE More(t[n - 1], n)]
           step == [n \in 1 .. N |-> [x \in Seq(Nat) |-> More(x, n)]]
           text == CHOOSE t : Grows(t)
<1>2. N \in Nat /\ \A x \in Seq(Nat), n \in 1 .. N : More(x, n) \in Seq(Nat)
  OBVIOUS
<1>3. Join(lines) = text[N]
  BY DEF Join
<1>4. /\ step \in [1 .. N -> [Seq(Nat) -> Seq(Nat)]] /\ <<>> \in Seq(Nat)
      /\ \A x \in Seq(Nat), n \in 1 .. N : step[n][x] = More(x, n)
  <2> HIDE DEF More, N
  <2> QED
    BY <1>2
<1> HIDE DEF N, step, More
<1>5. \E f \in [0 .. N -> Seq(Nat)] : Solves(f, <<>>, step, N)
  BY <1>2, <1>4, RecursionExists
<1>6. PICK f \in [0 .. N -> Seq(Nat)] : Solves(f, <<>>, step, N)
  BY <1>5
<1>7. Grows(f)
  <2>1. \A n \in 1 .. N : f[n] = More(f[n - 1], n)
    <3>1. TAKE n \in 1 .. N
    <3>2. f[n] = step[n][f[n - 1]]
      BY <1>6 DEF Solves
    <3>3. n - 1 \in 0 .. N
      BY <1>2
    <3>4. f[n - 1] \in Seq(Nat)
      BY <3>3
    <3> QED
      BY <1>4, <3>2, <3>4
  <2>2. \A n \in 0 .. N : f[n] = IF n = 0 THEN <<>> ELSE More(f[n - 1], n)
    BY <1>2, <1>6, <2>1 DEF Solves
  <2> QED
    BY <2>2
<1>8. text[0] = <<>> /\ \A n \in 1 .. N : text[n] = More(text[n - 1], n)
  <2>1. Grows(text)
    BY <1>7
  <2> HIDE DEF text
  <2>2. text[0] = <<>>
    BY <1>2, <2>1
  <2>3. ASSUME NEW n \in 1 .. N PROVE text[n] = More(text[n - 1], n)
    <3>1. n \in 0 .. N /\ n # 0
      BY <1>2
    <3> QED
      BY <2>1, <3>1
  <2> QED
    BY <2>2, <2>3
<1> HIDE DEF text
<1>9. N >= 1 => text[1] = lines[1]
  BY <1>2, <1>8 DEF More
<1>10. ASSUME NEW n \in 2 .. N PROVE text[n] = text[n - 1] \o <<1>> \o lines[n]
  <2>1. n \in 1 .. N /\ n # 1
    BY <1>2
  <2> QED
    BY <1>8, <2>1 DEF More
<1> QED
  BY <1>3, <1>8, <1>9, <1>10 DEF JoinsAs, N

LEMMA JoinOfNone == Join(<<>>) = <<>>
<1>1. <<>> \in Seq(Seq(Nat)) /\ Len(<<>>) = 0
  OBVIOUS
<1> QED
  BY <1>1, JoinBySteps DEF JoinsAs

LEMMA JoinIsText == \A lines \in Seq(Seq(Nat)) : Join(lines) \in Seq(Nat)
<1>1. TAKE lines \in Seq(Seq(Nat))
<1>2. PICK text : JoinsAs(lines, text)
  BY JoinBySteps
<1>3. Len(lines) \in Nat
  OBVIOUS
<1> DEFINE T == {n \in 0 .. Len(lines) : text[n] \in Seq(Nat)}
<1>4. 0 \in T
  <2>1. text[0] = <<>>
    BY <1>2 DEF JoinsAs
  <2>2. text[0] \in Seq(Nat)
    BY <2>1
  <2> QED
    BY <1>3, <2>2
<1>5. ASSUME NEW n \in 1 .. Len(lines), n - 1 \in T PROVE n \in T
  <2>1. lines[n] \in Seq(Nat) /\ n \in 0 .. Len(lines) /\ <<1>> \in Seq(Nat)
    OBVIOUS
  <2>2. CASE n = 1
    BY <1>2, <2>1, <2>2 DEF JoinsAs
  <2>3. CASE n # 1
    <3>1. n \in 2 .. Len(lines)
      BY <2>3
    <3>2. text[n] = text[n - 1] \o <<1>> \o lines[n]
      BY <1>2, <3>1 DEF JoinsAs
    <3>3. text[n - 1] \in Seq(Nat)
      BY <1>5
    <3>4. text[n - 1] \o <<1>> \o lines[n] \in Seq(Nat)
      BY <2>1, <3>3
    <3>5. text[n] \in Seq(Nat)
      BY <3>2, <3>4
    <3> QED
      BY <2>1, <3>5
  <2> QED
    BY <2>2, <2>3
<1> HIDE DEF T
<1>6. 0 .. Len(lines) \subseteq T
  BY <1>3, <1>4, <1>5, RangeInduction
<1> QED
  BY <1>2, <1>3, <1>6 DEF T, JoinsAs

LEMMA JoinOfMore ==
    ASSUME NEW lines \in Seq(Seq(Nat)), NEW line \in Seq(Nat)
    PROVE  Join(Append(lines, line)) = IF lines = <<>> THEN line ELSE Join(lines) \o <<1>> \o line
<1> DEFINE more == Append(lines, line)
<1>1. /\ more \in Seq(Seq(Nat)) /\ Len(more) = Len(lines) + 1 /\ Len(lines) \in Nat
      /\ \A n \in 1 .. Len(lines) : more[n] = lines[n]
      /\ more[Len(lines) + 1] = line
  OBVIOUS
<1> HIDE DEF more
<1>2. PICK s : JoinsAs(lines, s)
  BY JoinBySteps
<1>3. PICK t : JoinsAs(more, t)
  BY <1>1, JoinBySteps
<1> DEFINE T == {n \in 0 .. Len(lines) : t[n] = s[n]}
<1>4. 0 \in T
  BY <1>1, <1>2, <1>3 DEF JoinsAs
<1>5. ASSUME NEW n \in 1 .. Len(lines), n - 1 \in T PROVE n \in T
  <2>1. more[n] = lines[n] /\ n \in 1 .. Len(more) /\ n \in 0 .. Len(lines)
    BY <1>1
  <2>2. CASE n = 1
    <3>1. t[1] = more[1] /\ s[1] = lines[1]
      BY <1>1, <1>2, <1>3, <2>2 DEF JoinsAs
    <3> QED
      BY <2>1, <2>2, <3>1
  <2>3. CASE n # 1
    <3>1. n \in 2 .. Len(lines) /\ n \in 2 .. Len(more)
      BY <2>1, <2>3
    <3>2. s[n] = s[n - 1] \o <<1>> \o lines[n] /\ t[n] = t[n - 1] \o <<1>> \o more[n]
      BY <1>2, <1>3, <3>1 DEF JoinsAs
    <3> QED
      BY <1>5, <2>1, <3>2
  <2> QED
    BY <2>2, <2>3
<1> HIDE DEF T
<1>6. 0 .. Len(lines) \subseteq T
  BY <1>1, <1>4, <1>5, RangeInduction
<1>7. Len(lines) \in T
  <2>1. Len(lines) \in 0 .. Len(lines)
    BY <1>1
  <2> QED
    BY <1>6, <2>1
<1>8. t[Len(lines)] = Join(lines)
  BY <1>2, <1>7 DEF T, JoinsAs
<1>9. CASE lines = <<>>
  <2>1. Len(lines) = 0
    BY <1>9
  <2>2. Join(more) = t[1] /\ t[1] = more[1]
    BY <1>1, <1>3, <2>1 DEF JoinsAs
  <2> QED
    BY <1>1, <1>9, <2>1, <2>2 DEF more
<1>10. CASE lines # <<>>
  <2>1. Len(lines) >= 1
    BY <1>10
  <2>2. Len(more) \in 2 .. Len(more) /\ Len(more) - 1 = Len(lines)
    BY <1>1, <2>1
  <2>3. Join(more) = t[Len(lines)] \o <<1>> \o more[Len(more)]
    BY <1>3, <2>2 DEF JoinsAs
  <2> QED
    BY <1>1, <1>8, <1>10, <2>3 DEF more
<1> QED
  BY <1>9, <1>10

LEMMA JoinOfOne == \A line \in Seq(Nat) : Join(<<line>>) = line
<1>1. TAKE line \in Seq(Nat)
<1>2. <<>> \in Seq(Seq(Nat)) /\ Append(<<>>, line) = <<line>>
  OBVIOUS
<1> QED
  BY <1>2, JoinOfMore

LEMMA TextsAssociate == \A s, t, u \in Seq(Nat) : (s \o t) \o u = s \o (t \o u)
<1> TAKE s, t, u \in Seq(Nat)
<1> QED
  BY ConcatAssociative, SMTT(30)

(* A text joined to others, and what it has at its end.                    *)
LEMMA JoinOfLonger ==
    ASSUME NEW lines \in Seq(Seq(Nat)), NEW line \in Seq(Nat), NEW end \in Seq(Nat)
    PROVE  Join(Append(lines, line \o <<1>> \o end)) = Join(Append(lines, line)) \o <<1>> \o end
<1>1. /\ line \o <<1>> \o end \in Seq(Nat) /\ Join(lines) \in Seq(Nat)
      /\ <<1>> \in Seq(Nat) /\ Join(lines) \o <<1>> \in Seq(Nat)
  BY JoinIsText
<1>2. CASE lines = <<>>
  BY <1>1, <1>2, JoinOfMore
<1>3. CASE lines # <<>>
  <2> DEFINE start == Join(lines) \o <<1>>
             tail == <<1>> \o end
  <2>1. start \in Seq(Nat) /\ tail \in Seq(Nat)
    BY <1>1
  <2>2. Join(Append(lines, line \o <<1>> \o end)) = start \o (line \o <<1>> \o end)
    BY <1>1, <1>3, JoinOfMore
  <2>3. Join(Append(lines, line)) = start \o line
    BY <1>3, JoinOfMore
  <2>4. line \o <<1>> \o end = line \o tail
    BY <1>1, TextsAssociate, SMTT(30)
  <2> HIDE DEF start
  <2>5. (start \o line) \o <<1>> \o end = (start \o line) \o tail
    <3>1. start \o line \in Seq(Nat)
      BY <2>1
    <3> QED
      BY <1>1, <3>1, TextsAssociate, SMTT(30)
  <2> HIDE DEF tail
  <2>6. (start \o line) \o tail = start \o (line \o tail)
    BY <2>1, TextsAssociate, SMTT(30)
  <2> QED
    BY <2>2, <2>3, <2>4, <2>5, <2>6
<1> QED
  BY <1>2, <1>3

Text == Seq(Nat)
PackedType == [chunks : Seq(Seq(Text)), current : Seq(Text), size : Nat]

LEMMA FlushedTyped == \A packed \in PackedType : Flushed(packed) \in Seq(Seq(Text))
  BY DEF PackedType, Flushed

LEMMA PackLineTyped ==
    ASSUME NEW packed \in PackedType, NEW line \in Text, NEW max \in Nat
    PROVE  PackLine(packed, line, max) \in PackedType
<1>1. /\ Flushed(packed) \in Seq(Seq(Text)) /\ Bytes(line) \in Nat
      /\ ClipUtf8(line, max) \in Text /\ JoinedSize(packed.size, line) \in Nat
  <2>1. Flushed(packed) \in Seq(Seq(Text))
    BY FlushedTyped
  <2>2. Bytes(line) \in Nat /\ ClipUtf8(line, max) \in Text
    BY BytesIsNat, Clipped DEF Text
  <2>3. packed.size \in Nat
    BY DEF PackedType
  <2>4. JoinedSize(packed.size, line) \in Nat
    BY <2>2, <2>3 DEF JoinedSize
  <2> QED
    BY <2>1, <2>2, <2>4
<1>2. <<ClipUtf8(line, max)>> \in Seq(Text) /\ <<line>> \in Seq(Text)
  BY <1>1
<1>3. packed.current \in Seq(Text) /\ packed.chunks \in Seq(Seq(Text))
  BY DEF PackedType
<1> DEFINE line2 == <<line>>
           cut == <<ClipUtf8(line, max)>>
           flushed == Flushed(packed)
           S == Seq(Text)
<1>4. Append(packed.current, line) \in S /\ Append(flushed, cut) \in Seq(S)
  BY <1>1, <1>2, <1>3
<1>5. CASE Bytes(line) > max
  <2>1. PackLine(packed, line, max) = [chunks |-> Append(flushed, cut), current |-> <<>>, size |-> 0]
    <3>1. ~ (Bytes(line) <= max)
      BY <1>1, <1>5
    <3> QED
      BY <1>5, <3>1 DEF PackLine
  <2>2. <<>> \in S
    OBVIOUS
  <2> HIDE DEF S, flushed, cut
  <2>3. [chunks |-> Append(flushed, cut), current |-> <<>>, size |-> 0]
           \in [chunks : Seq(S), current : S, size : Nat]
    BY <1>4, <2>2
  <2> QED
    BY <2>1, <2>3 DEF PackedType, S
<1>6. CASE Bytes(line) <= max /\ packed.current # <<>> /\ JoinedSize(packed.size, line) <= max
  <2>1. PackLine(packed, line, max)
          = [packed EXCEPT !.current = Append(@, line), !.size = JoinedSize(@, line)]
    BY <1>1, <1>6 DEF PackLine
  <2> DEFINE more == Append(packed.current, line)
             size == JoinedSize(packed.size, line)
  <2>2. PackLine(packed, line, max) = [packed EXCEPT !.current = more, !.size = size]
    BY <2>1
  <2>3. more \in S /\ size \in Nat /\ packed \in [chunks : Seq(S), current : S, size : Nat]
    BY <1>1, <1>4 DEF PackedType
  <2> HIDE DEF more, size, S
  <2>4. [packed EXCEPT !.current = more, !.size = size] \in [chunks : Seq(S), current : S, size : Nat]
    BY <2>3
  <2> QED
    BY <2>2, <2>4 DEF PackedType, S
<1>7. CASE ~ (Bytes(line) > max)
           /\ ~ (Bytes(line) <= max /\ packed.current # <<>> /\ JoinedSize(packed.size, line) <= max)
  <2>1. PackLine(packed, line, max) = [chunks |-> flushed, current |-> line2, size |-> Bytes(line)]
    BY <1>7 DEF PackLine
  <2>2. flushed \in Seq(S) /\ line2 \in S
    BY <1>1, <1>2
  <2> HIDE DEF S, flushed, line2
  <2>3. [chunks |-> flushed, current |-> line2, size |-> Bytes(line)]
           \in [chunks : Seq(S), current : S, size : Nat]
    BY <1>1, <2>2
  <2> QED
    BY <2>1, <2>3 DEF PackedType, S
<1> QED
  BY <1>5, <1>6, <1>7

(* The chunks as line after line is packed.                                *)
PacksAs(lines, max, packed) ==
    /\ PackLines(lines, max) = Flushed(packed[Len(lines)])
    /\ packed[0] = [chunks |-> <<>>, current |-> <<>>, size |-> 0]
    /\ \A n \in 1 .. Len(lines) : packed[n] = PackLine(packed[n - 1], lines[n], max)

LEMMA PackBySteps ==
    ASSUME NEW lines \in Seq(Text), NEW max \in Nat
    PROVE  \E packed \in [0 .. Len(lines) -> PackedType] : PacksAs(lines, max, packed)
<1> DEFINE N == Len(lines)
           none == [chunks |-> <<>>, current |-> <<>>, size |-> 0]
           Grows(p) == p = [n \in 0 .. N |->
                              IF n = 0 THEN none ELSE PackLine(p[n - 1], lines[n], max)]
           step == [n \in 1 .. N |-> [x \in PackedType |-> PackLine(x, lines[n], max)]]
           packed == CHOOSE p : Grows(p)
<1>1. N \in Nat
  OBVIOUS
<1>2. PackLines(lines, max) = Flushed(packed[N])
  BY DEF PackLines
<1>3. none \in PackedType
  BY DEF PackedType
<1>4. \A n \in 1 .. N, x \in PackedType : PackLine(x, lines[n], max) \in PackedType
  <2>1. TAKE n \in 1 .. N, x \in PackedType
  <2>2. lines[n] \in Text
    OBVIOUS
  <2> QED
    BY <2>2, PackLineTyped
<1> HIDE DEF N, none
<1>5. /\ step \in [1 .. N -> [PackedType -> PackedType]]
      /\ \A x \in PackedType, n \in 1 .. N : step[n][x] = PackLine(x, lines[n], max)
  BY <1>4
<1> HIDE DEF step
<1>6. \E f \in [0 .. N -> PackedType] : Solves(f, none, step, N)
  BY <1>1, <1>3, <1>5, RecursionExists
<1>7. PICK f \in [0 .. N -> PackedType] : Solves(f, none, step, N)
  BY <1>6
<1>8. Grows(f)
  <2>1. \A n \in 1 .. N : f[n] = PackLine(f[n - 1], lines[n], max)
    <3>1. TAKE n \in 1 .. N
    <3>2. f[n] = step[n][f[n - 1]]
      BY <1>7 DEF Solves
    <3>3. n - 1 \in 0 .. N
      BY <1>1
    <3>4. f[n - 1] \in PackedType
      BY <3>3
    <3> QED
      BY <1>5, <3>2, <3>4
  <2>2. \A n \in 0 .. N : f[n] = IF n = 0 THEN none ELSE PackLine(f[n - 1], lines[n], max)
    BY <1>1, <1>7, <2>1 DEF Solves
  <2> QED
    BY <2>2
<1>9. Grows(packed)
  BY <1>8
<1> HIDE DEF packed
<1>10. packed[0] = none
  BY <1>1, <1>9
<1>11. \A n \in 1 .. N : packed[n] = PackLine(packed[n - 1], lines[n], max)
  <2>1. TAKE n \in 1 .. N
  <2>2. n \in 0 .. N /\ n # 0
    BY <1>1
  <2> QED
    BY <1>9, <2>2
<1>12. packed \in [0 .. N -> PackedType]
  <2> DEFINE T == {n \in 0 .. N : packed[n] \in PackedType}
  <2>1. 0 \in T
    BY <1>1, <1>3, <1>10
  <2>2. ASSUME NEW n \in 1 .. N, n - 1 \in T PROVE n \in T
    <3>1. packed[n] \in PackedType
      BY <1>4, <1>11, <2>2
    <3>2. n \in 0 .. N
      BY <1>1
    <3> QED
      BY <3>1, <3>2
  <2> HIDE DEF T
  <2>3. 0 .. N \subseteq T
    BY <1>1, <2>1, <2>2, RangeInduction
  <2>4. \A n \in 0 .. N : packed[n] \in PackedType
    BY <2>3 DEF T
  <2> QED
    BY <1>9, <2>4
<1>13. PacksAs(lines, max, packed)
  BY <1>2, <1>10, <1>11 DEF PacksAs, N, none
<1> QED
  BY <1>12, <1>13 DEF N

(* The text of each chunk.                                                 *)
Bodies(chunks) == [i \in DOMAIN chunks |-> Join(chunks[i])]

LEMMA BodiesTyped ==
    ASSUME NEW chunks \in Seq(Seq(Text))
    PROVE  /\ Bodies(chunks) \in Seq(Text) /\ Len(Bodies(chunks)) = Len(chunks)
           /\ \A i \in 1 .. Len(chunks) : Bodies(chunks)[i] = Join(chunks[i])
<1>1. Len(chunks) \in Nat /\ DOMAIN chunks = 1 .. Len(chunks)
  OBVIOUS
<1>2. \A i \in 1 .. Len(chunks) : Join(chunks[i]) \in Text
  <2>1. TAKE i \in 1 .. Len(chunks)
  <2>2. chunks[i] \in Seq(Text)
    OBVIOUS
  <2> QED
    BY <2>2, JoinIsText DEF Text
<1>3. Bodies(chunks) = [i \in 1 .. Len(chunks) |-> Join(chunks[i])]
  BY <1>1 DEF Bodies
<1>4. Bodies(chunks) \in [1 .. Len(chunks) -> Text]
  BY <1>2, <1>3
<1>5. Bodies(chunks) \in Seq(Text)
  BY <1>1, <1>4, SeqDef, SMTT(30)
<1>6. Len(Bodies(chunks)) = Len(chunks)
  BY <1>1, <1>3
<1> QED
  BY <1>3, <1>5, <1>6

LEMMA BodiesOfMore ==
    ASSUME NEW chunks \in Seq(Seq(Text)), NEW chunk \in Seq(Text)
    PROVE  Bodies(Append(chunks, chunk)) = Append(Bodies(chunks), Join(chunk))
<1> DEFINE more == Append(chunks, chunk)
           N == Len(chunks)
<1>1. /\ more \in Seq(Seq(Text)) /\ Len(more) = N + 1 /\ N \in Nat
      /\ more[N + 1] = chunk
  OBVIOUS
<1>2. \A i \in 1 .. N : more[i] = chunks[i]
  OBVIOUS
<1>3. Join(chunk) \in Text
  BY JoinIsText DEF Text
<1> HIDE DEF more
<1>4. /\ Bodies(more) \in Seq(Text) /\ Len(Bodies(more)) = N + 1
      /\ \A i \in 1 .. N + 1 : Bodies(more)[i] = Join(more[i])
  BY <1>1, BodiesTyped
<1>5. /\ Bodies(chunks) \in Seq(Text) /\ Len(Bodies(chunks)) = N
      /\ \A i \in 1 .. N : Bodies(chunks)[i] = Join(chunks[i])
  BY BodiesTyped
<1> DEFINE old == Bodies(chunks)
           body == Join(chunk)
<1>6. N \in Nat /\ old \in Seq(Text) /\ Len(old) = N /\ body \in Text
  BY <1>1, <1>3, <1>5
<1>7. /\ Append(old, body) \in Seq(Text) /\ Len(Append(old, body)) = N + 1
      /\ Append(old, body)[N + 1] = body
  <2> HIDE DEF old, body, N
  <2> QED
    BY <1>6
<1>8. \A i \in 1 .. N : Append(old, body)[i] = old[i]
  <2> HIDE DEF old, body, N
  <2> QED
    BY <1>6
<1>9. \A i \in 1 .. N + 1 : Bodies(more)[i] = Append(old, body)[i]
  <2>1. TAKE i \in 1 .. N + 1
  <2>2. CASE i = N + 1
    BY <1>1, <1>4, <1>7, <2>2
  <2>3. CASE i # N + 1
    <3>1. i \in 1 .. N
      BY <1>1, <2>3
    <3> QED
      BY <1>2, <1>4, <1>5, <1>8, <3>1
  <2> QED
    BY <2>2, <2>3
<1> HIDE DEF N
<1>10. Bodies(more) = Append(old, body)
  BY <1>4, <1>7, <1>9, SeqEqual
<1> QED
  BY <1>10 DEF more

(* No two texts that follow one another would fit into one.                *)
Overfull(bodies, max) ==
    \A i \in DOMAIN bodies \ {1} : Bytes(bodies[i - 1]) + 1 + Bytes(bodies[i]) > max

LEMMA OverfullOfMore ==
    ASSUME NEW bodies \in Seq(Text), NEW body \in Text, NEW max \in Nat, Overfull(bodies, max),
           bodies # <<>> => Bytes(bodies[Len(bodies)]) + 1 + Bytes(body) > max
    PROVE  Overfull(Append(bodies, body), max)
<1> DEFINE more == Append(bodies, body)
<1>1. /\ Len(bodies) \in Nat /\ DOMAIN bodies = 1 .. Len(bodies)
      /\ DOMAIN more = 1 .. Len(bodies) + 1 /\ more[Len(bodies) + 1] = body
  OBVIOUS
<1>2. \A i \in 1 .. Len(bodies) : more[i] = bodies[i]
  OBVIOUS
<1> HIDE DEF more
<1>3. ASSUME NEW i \in DOMAIN more \ {1} PROVE Bytes(more[i - 1]) + 1 + Bytes(more[i]) > max
  <2>1. i \in 2 .. Len(bodies) + 1 /\ i - 1 \in 1 .. Len(bodies)
    BY <1>1
  <2>2. CASE i = Len(bodies) + 1
    <3>1. bodies # <<>> /\ i - 1 = Len(bodies)
      BY <1>1, <2>1, <2>2
    <3>2. more[i - 1] = bodies[Len(bodies)] /\ more[i] = body
      BY <1>1, <1>2, <2>1, <2>2, <3>1
    <3> QED
      BY <3>1, <3>2
  <2>3. CASE i # Len(bodies) + 1
    <3>1. i \in 1 .. Len(bodies) /\ i \in DOMAIN bodies \ {1}
      BY <1>1, <2>1, <2>3
    <3>2. more[i] = bodies[i] /\ more[i - 1] = bodies[i - 1]
      BY <1>2, <2>1, <3>1
    <3> QED
      BY <3>1, <3>2 DEF Overfull
  <2> QED
    BY <2>2, <2>3
<1> QED
  BY <1>3 DEF Overfull, more

LEMMA OverfullGrows ==
    ASSUME NEW bodies \in Seq(Text), NEW body \in Text, NEW longer \in Text, NEW max \in Nat,
           Overfull(Append(bodies, body), max), Bytes(body) <= Bytes(longer)
    PROVE  Overfull(Append(bodies, longer), max)
<1> DEFINE more == Append(bodies, body)
<1>1. Len(bodies) \in Nat /\ DOMAIN bodies = 1 .. Len(bodies)
  OBVIOUS
<1>2. DOMAIN more = 1 .. Len(bodies) + 1
  OBVIOUS
<1>3. more[Len(bodies) + 1] = body
  OBVIOUS
<1>4. \A i \in 1 .. Len(bodies) : more[i] = bodies[i]
  OBVIOUS
<1> HIDE DEF more
<1>5. \A i \in DOMAIN more \ {1} : Bytes(more[i - 1]) + 1 + Bytes(more[i]) > max
  BY DEF more, Overfull
<1>6. ASSUME NEW i \in DOMAIN bodies \ {1} PROVE Bytes(bodies[i - 1]) + 1 + Bytes(bodies[i]) > max
  <2>1. /\ i \in DOMAIN more \ {1} /\ more[i] = bodies[i]
        /\ i - 1 \in 1 .. Len(bodies) /\ more[i - 1] = bodies[i - 1]
    BY <1>1, <1>2, <1>4
  <2> QED
    BY <1>5, <2>1
<1>7. Overfull(bodies, max)
  BY <1>6 DEF Overfull
<1>8. ASSUME bodies # <<>> PROVE Bytes(bodies[Len(bodies)]) + 1 + Bytes(longer) > max
  <2> DEFINE N == Len(bodies)
  <2>1. N \in 1 .. N /\ N + 1 \in DOMAIN more \ {1}
    BY <1>1, <1>2, <1>8
  <2>2. more[N] = bodies[N] /\ more[N + 1] = body /\ (N + 1) - 1 = N
    BY <1>1, <1>3, <1>4, <2>1
  <2>3. Bytes(more[(N + 1) - 1]) + 1 + Bytes(more[N + 1]) > max
    BY <1>5, <2>1
  <2>4. Bytes(bodies[N]) + 1 + Bytes(body) > max
    BY <2>2, <2>3
  <2>5. bodies[N] \in Text
    BY <2>1
  <2>6. Bytes(bodies[N]) \in Nat /\ Bytes(body) \in Nat /\ Bytes(longer) \in Nat
    BY <2>5, BytesIsNat DEF Text
  <2> QED
    BY <2>4, <2>6
<1> QED
  BY <1>7, <1>8, OverfullOfMore

(* A line more in a text is a line feed more as well.                      *)
LEMMA JoinedSizeIsBytes ==
    ASSUME NEW lines \in Seq(Text), lines # <<>>, NEW line \in Text
    PROVE  JoinedSize(Bytes(Join(lines)), line) = Bytes(Join(Append(lines, line)))
<1>1. Join(lines) \in Seq(Nat) /\ <<1>> \in Seq(Nat) /\ line \in Seq(Nat)
  BY JoinIsText DEF Text
<1>2. Join(Append(lines, line)) = Join(lines) \o <<1>> \o line
  BY <1>1, JoinOfMore DEF Text
<1> DEFINE start == Join(lines)
           feed == <<1>>
<1>3. Bytes(feed) = 1
  BY BytesOfOne
<1>4. start \in Seq(Nat) /\ feed \in Seq(Nat)
  BY <1>1
<1> HIDE DEF start, feed
<1>5. start \o feed \in Seq(Nat) /\ Bytes(start \o feed) = Bytes(start) + Bytes(feed)
  BY <1>4, BytesOfBoth
<1>6. Bytes((start \o feed) \o line) = Bytes(start \o feed) + Bytes(line)
  BY <1>1, <1>5, BytesOfBoth
<1>7. Bytes(Join(Append(lines, line))) = Bytes(start) + 1 + Bytes(line)
  BY <1>2, <1>3, <1>5, <1>6 DEF start, feed
<1> QED
  BY <1>7 DEF JoinedSize, start

LEMMA PackLineForms ==
    ASSUME NEW packed \in PackedType, NEW line \in Text, NEW max \in Nat
    PROVE  LET more == PackLine(packed, line, max) IN
           \/ /\ Bytes(line) > max
              /\ more.chunks = Append(Flushed(packed), <<ClipUtf8(line, max)>>)
              /\ more.current = <<>> /\ more.size = 0
           \/ /\ Bytes(line) <= max /\ packed.current # <<>>
              /\ JoinedSize(packed.size, line) <= max
              /\ more.chunks = packed.chunks
              /\ more.current = Append(packed.current, line)
              /\ more.size = JoinedSize(packed.size, line)
           \/ /\ Bytes(line) <= max
              /\ packed.current = <<>> \/ JoinedSize(packed.size, line) > max
              /\ more.chunks = Flushed(packed)
              /\ more.current = <<line>> /\ more.size = Bytes(line)
<1>1. Bytes(line) \in Nat /\ packed.size \in Nat /\ JoinedSize(packed.size, line) \in Nat
  BY BytesIsNat DEF Text, PackedType, JoinedSize
<1>2. CASE Bytes(line) > max
  <2>1. ~ (Bytes(line) <= max)
    BY <1>1, <1>2
  <2> QED
    BY <1>2, <2>1 DEF PackLine
<1>3. CASE Bytes(line) <= max /\ packed.current # <<>> /\ JoinedSize(packed.size, line) <= max
  <2>1. PackLine(packed, line, max)
          = [packed EXCEPT !.current = Append(@, line), !.size = JoinedSize(@, line)]
    BY <1>1, <1>3 DEF PackLine
  <2> DEFINE current == Append(packed.current, line)
             size == JoinedSize(packed.size, line)
  <2>2. PackLine(packed, line, max) = [packed EXCEPT !.current = current, !.size = size]
    BY <2>1
  <2>3. packed = [chunks |-> packed.chunks, current |-> packed.current, size |-> packed.size]
    BY DEF PackedType
  <2> HIDE DEF current, size
  <2>4. /\ PackLine(packed, line, max).chunks = packed.chunks
        /\ PackLine(packed, line, max).current = current
        /\ PackLine(packed, line, max).size = size
    BY <2>2, <2>3
  <2> QED
    BY <1>3, <2>4 DEF current, size
<1>4. CASE Bytes(line) <= max /\ (packed.current = <<>> \/ JoinedSize(packed.size, line) > max)
  <2>1. /\ ~ (Bytes(line) > max)
        /\ ~ (Bytes(line) <= max /\ packed.current # <<>> /\ JoinedSize(packed.size, line) <= max)
    BY <1>1, <1>4
  <2> QED
    BY <1>4, <2>1 DEF PackLine
<1> QED
  BY <1>1, <1>2, <1>3, <1>4

(* The bodies once the current lines are a chunk as well.                  *)
LEMMA BodiesOfFlushed ==
    ASSUME NEW packed \in PackedType
    PROVE  /\ Bodies(Flushed(packed)) \in Seq(Text)
           /\ packed.current = <<>> => Bodies(Flushed(packed)) = Bodies(packed.chunks)
           /\ packed.current # <<>> =>
                Bodies(Flushed(packed)) = Append(Bodies(packed.chunks), Join(packed.current))
<1>1. packed.chunks \in Seq(Seq(Text)) /\ packed.current \in Seq(Text)
  BY DEF PackedType
<1>2. Bodies(Flushed(packed)) \in Seq(Text)
  BY FlushedTyped, BodiesTyped
<1>3. CASE packed.current = <<>>
  BY <1>2, <1>3 DEF Flushed
<1>4. CASE packed.current # <<>>
  <2>1. Flushed(packed) = Append(packed.chunks, packed.current)
    BY <1>4 DEF Flushed
  <2> QED
    BY <1>1, <1>2, <1>4, <2>1, BodiesOfMore
<1> QED
  BY <1>3, <1>4

AllFit(bodies, max) == \A i \in DOMAIN bodies : Bytes(bodies[i]) <= max

LEMMA AllFitOfMore ==
    ASSUME NEW bodies \in Seq(Text), NEW body \in Text, NEW max \in Nat
    PROVE  AllFit(Append(bodies, body), max) <=> AllFit(bodies, max) /\ Bytes(body) <= max
<1> DEFINE more == Append(bodies, body)
<1>1. Len(bodies) \in Nat /\ DOMAIN bodies = 1 .. Len(bodies)
  OBVIOUS
<1>2. DOMAIN more = 1 .. Len(bodies) + 1
  OBVIOUS
<1>3. more[Len(bodies) + 1] = body
  OBVIOUS
<1>4. \A i \in 1 .. Len(bodies) : more[i] = bodies[i]
  OBVIOUS
<1> HIDE DEF more
<1>5. AllFit(more, max) <=> AllFit(bodies, max) /\ Bytes(body) <= max
  <2>1. ASSUME AllFit(more, max) PROVE AllFit(bodies, max) /\ Bytes(body) <= max
    BY <1>1, <1>2, <1>3, <1>4, <2>1 DEF AllFit
  <2>2. ASSUME AllFit(bodies, max), Bytes(body) <= max PROVE AllFit(more, max)
    <3>1. ASSUME NEW i \in DOMAIN more PROVE Bytes(more[i]) <= max
      <4>1. i = Len(bodies) + 1 \/ i \in 1 .. Len(bodies)
        BY <1>1, <1>2
      <4> QED
        BY <1>1, <1>3, <1>4, <2>2, <4>1 DEF AllFit
    <3> QED
      BY <3>1 DEF AllFit
  <2> QED
    BY <2>1, <2>2
<1> QED
  BY <1>5 DEF more

(* Every chunk fits, the one that is being made as well, and its size is   *)
(* what is counted.                                                        *)
PackFits(packed, n, max) ==
    /\ packed.size = Bytes(Join(packed.current))
    /\ AllFit(Bodies(Flushed(packed)), max)
    /\ n > 0 => Flushed(packed) # <<>>

LEMMA PackLineFits ==
    ASSUME NEW packed \in PackedType, NEW line \in Text, NEW max \in Nat, NEW n \in Nat,
           PackFits(packed, n, max)
    PROVE  PackFits(PackLine(packed, line, max), n + 1, max)
<1> DEFINE more == PackLine(packed, line, max)
           bodies == Bodies(Flushed(packed))
           before == Bodies(packed.chunks)
<1>1. /\ more \in PackedType /\ bodies \in Seq(Text) /\ before \in Seq(Text)
      /\ Bodies(more.chunks) \in Seq(Text) /\ Flushed(packed) \in Seq(Seq(Text))
      /\ packed.current \in Seq(Text)
  <2>1. more \in PackedType
    BY PackLineTyped
  <2>2. packed.chunks \in Seq(Seq(Text)) /\ packed.current \in Seq(Text) /\ more.chunks \in Seq(Seq(Text))
    BY <2>1 DEF PackedType
  <2> QED
    BY <2>1, <2>2, FlushedTyped, BodiesTyped
<1>2. \/ /\ Bytes(line) > max
         /\ more.chunks = Append(Flushed(packed), <<ClipUtf8(line, max)>>)
         /\ more.current = <<>> /\ more.size = 0
      \/ /\ Bytes(line) <= max /\ packed.current # <<>>
         /\ JoinedSize(packed.size, line) <= max
         /\ more.chunks = packed.chunks
         /\ more.current = Append(packed.current, line)
         /\ more.size = JoinedSize(packed.size, line)
      \/ /\ Bytes(line) <= max
         /\ packed.current = <<>> \/ JoinedSize(packed.size, line) > max
         /\ more.chunks = Flushed(packed)
         /\ more.current = <<line>> /\ more.size = Bytes(line)
  BY PackLineForms
<1> HIDE DEF more, before
<1>3. CASE /\ more.chunks = Append(Flushed(packed), <<ClipUtf8(line, max)>>)
           /\ more.current = <<>> /\ more.size = 0
  <2> DEFINE cut == ClipUtf8(line, max)
  <2>1. cut \in Text /\ Bytes(cut) <= max
    BY Clipped DEF Text
  <2>2. <<cut>> \in Seq(Text) /\ Join(<<cut>>) = cut
    BY <2>1, JoinOfOne DEF Text
  <2> HIDE DEF cut
  <2>3. Bodies(more.chunks) = Append(bodies, cut)
    BY <1>1, <1>3, <2>2, BodiesOfMore DEF cut
  <2>4. AllFit(Append(bodies, cut), max)
    BY <1>1, <2>1, AllFitOfMore DEF PackFits
  <2>5. Flushed(more) = more.chunks /\ more.chunks # <<>>
    <3>1. Flushed(more) = more.chunks
      BY <1>3 DEF Flushed
    <3>2. Append(Flushed(packed), <<cut>>) # <<>>
      <4> DEFINE flushed == Flushed(packed)
                 piece == <<cut>>
      <4>1. flushed \in Seq(Seq(Text)) /\ piece \in Seq(Text)
        BY <1>1, <2>2
      <4> HIDE DEF flushed, piece
      <4>2. Append(flushed, piece) # <<>>
        BY <4>1, AppendProperties
      <4> QED
        BY <4>2 DEF flushed, piece
    <3> QED
      BY <1>3, <3>1, <3>2 DEF cut
  <2>6. more.size = Bytes(Join(more.current))
    BY <1>3, JoinOfNone, BytesOfNone
  <2> QED
    BY <2>3, <2>4, <2>5, <2>6 DEF PackFits, more
<1>4. ASSUME more.current # <<>>, more.current \in Seq(Text), Join(more.current) \in Text,
             more.size = Bytes(Join(more.current)), more.size <= max,
             AllFit(Bodies(more.chunks), max)
      PROVE  PackFits(more, n + 1, max)
  <2>1. Bodies(Flushed(more)) = Append(Bodies(more.chunks), Join(more.current))
    BY <1>1, <1>4, BodiesOfFlushed
  <2>2. AllFit(Bodies(Flushed(more)), max)
    BY <1>1, <1>4, <2>1, AllFitOfMore
  <2>3. Flushed(more) # <<>>
    <3>1. Flushed(more) = Append(more.chunks, more.current)
      BY <1>4 DEF Flushed
    <3>2. more.chunks \in Seq(Seq(Text))
      BY <1>1 DEF PackedType
    <3> QED
      BY <1>4, <3>1, <3>2
  <2> QED
    BY <1>4, <2>2, <2>3 DEF PackFits
<1>5. CASE /\ Bytes(line) <= max /\ packed.current # <<>>
           /\ JoinedSize(packed.size, line) <= max
           /\ more.chunks = packed.chunks
           /\ more.current = Append(packed.current, line)
           /\ more.size = JoinedSize(packed.size, line)
  <2>1. more.current # <<>> /\ more.current \in Seq(Text)
    <3>1. packed.current \in Seq(Text) /\ more.current = Append(packed.current, line)
      BY <1>1, <1>5
    <3>2. Append(packed.current, line) # <<>> /\ Append(packed.current, line) \in Seq(Text)
      BY <3>1, AppendProperties
    <3> QED
      BY <3>1, <3>2
  <2>2. Join(more.current) \in Text /\ Join(packed.current) \in Text
    BY <1>1, <2>1, JoinIsText DEF Text
  <2>3. more.size = Bytes(Join(more.current))
    BY <1>1, <1>5, JoinedSizeIsBytes DEF PackFits
  <2>4. AllFit(before, max)
    <3>1. bodies = Append(before, Join(packed.current))
      BY <1>5, BodiesOfFlushed DEF before
    <3> QED
      BY <1>1, <2>2, <3>1, AllFitOfMore DEF PackFits
  <2> QED
    BY <1>4, <1>5, <2>1, <2>2, <2>3, <2>4 DEF before, more
<1>6. CASE /\ Bytes(line) <= max
           /\ more.chunks = Flushed(packed)
           /\ more.current = <<line>> /\ more.size = Bytes(line)
  <2>1. <<line>> # <<>> /\ <<line>> \in Seq(Text) /\ Join(<<line>>) = line
    BY JoinOfOne DEF Text
  <2>2. AllFit(Bodies(more.chunks), max)
    BY <1>6 DEF PackFits
  <2> QED
    BY <1>4, <1>6, <2>1, <2>2 DEF more
<1> QED
  BY <1>2, <1>3, <1>5, <1>6

(* If every line fits, what is in the chunks is the lines before, and no   *)
(* two chunks would have fitted into one.                                  *)
PackKeeps(packed, before, max) ==
    /\ packed.current = <<>> <=> before = <<>>
    /\ packed.current = <<>> => packed.chunks = <<>>
    /\ Join(Bodies(Flushed(packed))) = Join(before)
    /\ Overfull(Bodies(Flushed(packed)), max)

LEMMA PackLineKeeps ==
    ASSUME NEW packed \in PackedType, NEW before \in Seq(Text), NEW line \in Text,
           NEW max \in Nat, NEW n \in Nat, PackFits(packed, n, max),
           PackKeeps(packed, before, max), Bytes(line) <= max
    PROVE  PackKeeps(PackLine(packed, line, max), Append(before, line), max)
<1> DEFINE more == PackLine(packed, line, max)
           bodies == Bodies(Flushed(packed))
           full == Bodies(packed.chunks)
           text == Join(packed.current)
           after == Append(before, line)
<1>1. /\ more \in PackedType /\ packed.chunks \in Seq(Seq(Text)) /\ packed.current \in Seq(Text)
      /\ Bytes(line) \in Nat /\ line \in Seq(Nat) /\ before \in Seq(Seq(Nat))
  BY PackLineTyped, BytesIsNat DEF PackedType, Text
<1>2. bodies \in Seq(Text) /\ full \in Seq(Text) /\ text \in Text
  BY <1>1, FlushedTyped, BodiesTyped, JoinIsText DEF Text
<1>3. after # <<>>
  BY AppendProperties
<1>4. \/ /\ packed.current # <<>>
         /\ more.chunks = packed.chunks
         /\ more.current = Append(packed.current, line)
      \/ /\ packed.current = <<>> \/ JoinedSize(packed.size, line) > max
         /\ more.chunks = Flushed(packed)
         /\ more.current = <<line>>
  <2>1. ~ (Bytes(line) > max)
    BY <1>1
  <2> HIDE DEF more
  <2> QED
    BY <2>1, PackLineForms DEF more
<1> HIDE DEF more
<1>5. ASSUME packed.current # <<>> PROVE bodies = Append(full, text)
  BY <1>5, BodiesOfFlushed
<1>6. CASE /\ packed.current # <<>>
           /\ more.chunks = packed.chunks
           /\ more.current = Append(packed.current, line)
  <2> DEFINE longer == Join(more.current)
  <2>1. more.current # <<>> /\ more.current \in Seq(Text)
    <3>1. packed.current \in Seq(Text)
      BY <1>1
    <3>2. Append(packed.current, line) # <<>> /\ Append(packed.current, line) \in Seq(Text)
      BY <3>1, AppendProperties
    <3> QED
      BY <1>6, <3>2
  <2>2. longer = text \o <<1>> \o line
    BY <1>1, <1>6, JoinOfMore DEF Text
  <2>3. longer \in Text
    BY <2>1, JoinIsText DEF Text
  <2>4. Bodies(Flushed(more)) = Append(full, longer)
    BY <1>1, <1>6, <2>1, BodiesOfFlushed
  <2>5. Overfull(Append(full, longer), max)
    <3>1. Overfull(Append(full, text), max)
      BY <1>5, <1>6 DEF PackKeeps
    <3>2. Bytes(longer) = JoinedSize(Bytes(text), line)
      BY <1>1, <1>6, JoinedSizeIsBytes
    <3>3. Bytes(text) \in Nat
      BY <1>2, BytesIsNat DEF Text
    <3>4. Bytes(text) <= Bytes(longer)
      BY <1>1, <3>2, <3>3 DEF JoinedSize
    <3> HIDE DEF longer, text, full
    <3> QED
      BY <1>2, <2>3, <3>1, <3>4, OverfullGrows
  <2>6. Join(Append(full, longer)) = Join(after)
    <3>1. Join(Append(full, text \o <<1>> \o line)) = Join(Append(full, text)) \o <<1>> \o line
      <4> HIDE DEF full, text
      <4> QED
        BY <1>1, <1>2, JoinOfLonger DEF Text
    <3>2. Join(Append(full, text)) = Join(before)
      BY <1>5, <1>6 DEF PackKeeps
    <3>3. before # <<>>
      BY <1>6 DEF PackKeeps
    <3>4. Join(after) = Join(before) \o <<1>> \o line
      BY <1>1, <3>3, JoinOfMore
    <3> QED
      BY <2>2, <3>1, <3>2, <3>4
  <2> HIDE DEF longer, full, after
  <2> QED
    BY <1>3, <2>1, <2>4, <2>5, <2>6 DEF PackKeeps, more, after
<1>7. CASE /\ packed.current = <<>> \/ JoinedSize(packed.size, line) > max
           /\ more.chunks = Flushed(packed)
           /\ more.current = <<line>>
  <2>1. <<line>> # <<>> /\ <<line>> \in Seq(Text) /\ Join(<<line>>) = line
    BY <1>1, JoinOfOne
  <2>2. Bodies(Flushed(more)) = Append(bodies, line)
    BY <1>1, <1>7, <2>1, BodiesOfFlushed
  <2>3. Overfull(Append(bodies, line), max)
    <3>1. ASSUME bodies # <<>> PROVE Bytes(bodies[Len(bodies)]) + 1 + Bytes(line) > max
      <4>1. packed.current # <<>>
        <5> SUFFICES ASSUME packed.current = <<>> PROVE FALSE
          OBVIOUS
        <5>1. packed.chunks = <<>> /\ bodies = full
          BY BodiesOfFlushed DEF PackKeeps
        <5>2. Len(full) = 0
          BY <1>1, <5>1, BodiesTyped
        <5> QED
          BY <1>2, <3>1, <5>1, <5>2
      <4>2. bodies = Append(full, text)
        BY <1>5, <4>1
      <4>3. bodies[Len(bodies)] = text
        <5> HIDE DEF full, text
        <5>1. Len(bodies) = Len(full) + 1 /\ Append(full, text)[Len(full) + 1] = text
          BY <1>2, <4>2
        <5> QED
          BY <4>2, <5>1
      <4>4. JoinedSize(Bytes(text), line) > max
        BY <1>7, <4>1 DEF PackFits
      <4> QED
        BY <4>3, <4>4 DEF JoinedSize
    <3> HIDE DEF bodies
    <3> QED
      BY <1>2, <3>1, OverfullOfMore DEF PackKeeps, bodies
  <2>4. Join(Append(bodies, line)) = Join(after)
    <3>1. CASE packed.current = <<>>
      <4>1. before = <<>> /\ packed.chunks = <<>> /\ bodies = full
        BY <3>1, BodiesOfFlushed DEF PackKeeps
      <4>2. Len(full) = 0
        BY <1>1, <4>1, BodiesTyped
      <4>3. bodies = <<>>
        BY <1>2, <4>1, <4>2
      <4> QED
        BY <4>1, <4>3
    <3>2. CASE packed.current # <<>>
      <4>1. before # <<>> /\ Join(bodies) = Join(before)
        BY <3>2 DEF PackKeeps
      <4>2. bodies # <<>>
        <5> HIDE DEF full, text
        <5> QED
          BY <1>2, <1>5, <3>2, AppendProperties
      <4>3. bodies \in Seq(Seq(Nat))
        BY <1>2 DEF Text
      <4> HIDE DEF bodies
      <4>4. Join(Append(bodies, line)) = Join(bodies) \o <<1>> \o line
        BY <1>1, <4>2, <4>3, JoinOfMore
      <4>5. Join(after) = Join(before) \o <<1>> \o line
        BY <1>1, <4>1, JoinOfMore
      <4> QED
        BY <4>1, <4>4, <4>5
    <3> QED
      BY <3>1, <3>2
  <2> HIDE DEF bodies, after
  <2> QED
    BY <1>3, <1>7, <2>1, <2>2, <2>3, <2>4 DEF PackKeeps, more, after
<1> QED
  BY <1>4, <1>6, <1>7

(* textutil.py:22: what packing lines makes of them.                       *)
LEMMA PackLinesPacks ==
    ASSUME NEW lines \in Seq(Text), NEW max \in Nat
    PROVE  /\ PackLines(lines, max) \in Seq(Seq(Text))
           /\ AllFit(Bodies(PackLines(lines, max)), max)
           /\ lines # <<>> => PackLines(lines, max) # <<>>
           /\ (\A i \in DOMAIN lines : Bytes(lines[i]) <= max) =>
                /\ Join(Bodies(PackLines(lines, max))) = Join(lines)
                /\ Overfull(Bodies(PackLines(lines, max)), max)
<1> DEFINE N == Len(lines)
           before(n) == SubSeq(lines, 1, n)
<1>1. N \in Nat /\ DOMAIN lines = 1 .. N /\ \A n \in 1 .. N : lines[n] \in Text
  OBVIOUS
<1>2. PICK packed \in [0 .. N -> PackedType] : PacksAs(lines, max, packed)
  BY PackBySteps
<1> HIDE DEF N
<1>3. /\ PackLines(lines, max) = Flushed(packed[N])
      /\ packed[0] = [chunks |-> <<>>, current |-> <<>>, size |-> 0]
      /\ \A n \in 1 .. N : packed[n] = PackLine(packed[n - 1], lines[n], max)
  BY <1>2 DEF PacksAs, N
<1>4. \A n \in 0 .. N : packed[n] \in PackedType
  OBVIOUS
<1>5. \A n \in 1 .. N : n - 1 \in 0 .. N /\ n - 1 \in Nat /\ n \in 0 .. N
  BY <1>1
<1>6. /\ Flushed(packed[0]) = <<>> /\ Bodies(<<>>) = <<>>
      /\ packed[0].current = <<>> /\ packed[0].size = 0 /\ packed[0].chunks = <<>>
  BY <1>3 DEF Flushed, Bodies
<1>7. \A n \in 0 .. N : PackFits(packed[n], n, max)
  <2> DEFINE T == {n \in 0 .. N : PackFits(packed[n], n, max)}
  <2>1. 0 \in T
    <3>1. PackFits(packed[0], 0, max)
      BY <1>6, JoinOfNone, BytesOfNone DEF PackFits, AllFit
    <3> QED
      BY <1>1, <3>1
  <2>2. ASSUME NEW n \in 1 .. N, n - 1 \in T PROVE n \in T
    <3>1. PackFits(PackLine(packed[n - 1], lines[n], max), (n - 1) + 1, max)
      BY <1>1, <1>4, <1>5, <2>2, PackLineFits
    <3>2. (n - 1) + 1 = n
      OBVIOUS
    <3>3. PackFits(packed[n], n, max)
      BY <1>3, <3>1, <3>2
    <3> QED
      BY <1>5, <3>3
  <2> HIDE DEF T
  <2>3. 0 .. N \subseteq T
    BY <1>1, <2>1, <2>2, RangeInduction
  <2> QED
    BY <2>3 DEF T
<1>8. ASSUME \A i \in DOMAIN lines : Bytes(lines[i]) <= max
      PROVE  \A n \in 0 .. N : PackKeeps(packed[n], before(n), max)
  <2> DEFINE T == {n \in 0 .. N : PackKeeps(packed[n], before(n), max)}
  <2>1. 0 \in T
    <3>1. before(0) = <<>>
      BY SubSeqEmpty
    <3>2. PackKeeps(packed[0], <<>>, max)
      BY <1>6 DEF PackKeeps, Overfull
    <3> QED
      BY <1>1, <3>1, <3>2
  <2>2. ASSUME NEW n \in 1 .. N, n - 1 \in T PROVE n \in T
    <3>1. before(n - 1) \in Seq(Text) /\ before(n) = Append(before(n - 1), lines[n])
      <4>1. n \in 1 .. Len(lines)
        BY DEF N
      <4>2. before(n - 1) \in Seq(Text)
        BY <4>1
      <4>3. before(n) = before(n - 1) \o <<lines[n]>>
        BY <4>1, SubSeqRecursiveSecond
      <4>4. lines[n] \in Text
        BY <1>1
      <4> HIDE DEF before
      <4> QED
        BY <4>2, <4>3, <4>4, AppendIsConcat
    <3> HIDE DEF before
    <3>2. PackKeeps(packed[n - 1], before(n - 1), max)
      BY <2>2
    <3>3. PackFits(packed[n - 1], n - 1, max) /\ n - 1 \in Nat
      BY <1>5, <1>7
    <3>4. packed[n - 1] \in PackedType /\ lines[n] \in Text /\ Bytes(lines[n]) <= max
      BY <1>1, <1>4, <1>5, <1>8
    <3>5. PackKeeps(PackLine(packed[n - 1], lines[n], max), Append(before(n - 1), lines[n]), max)
      BY <3>1, <3>2, <3>3, <3>4, PackLineKeeps
    <3>6. PackKeeps(packed[n], before(n), max)
      BY <1>3, <3>1, <3>5
    <3> QED
      BY <1>5, <3>6
  <2> HIDE DEF T
  <2>3. 0 .. N \subseteq T
    BY <1>1, <2>1, <2>2, RangeInduction
  <2> QED
    BY <2>3 DEF T
<1>9. N \in 0 .. N /\ (lines # <<>> => N > 0) /\ before(N) = lines
  <2>1. before(Len(lines)) = lines
    BY SubSeqFull
  <2>2. lines # <<>> => Len(lines) > 0
    OBVIOUS
  <2> QED
    BY <1>1, <2>1, <2>2 DEF N
<1>10. PackLines(lines, max) \in Seq(Seq(Text))
  BY <1>3, <1>4, <1>9, FlushedTyped
<1>11. AllFit(Bodies(PackLines(lines, max)), max) /\ (lines # <<>> => PackLines(lines, max) # <<>>)
  BY <1>3, <1>7, <1>9 DEF PackFits
<1>12. ASSUME \A i \in DOMAIN lines : Bytes(lines[i]) <= max
       PROVE  /\ Join(Bodies(PackLines(lines, max))) = Join(lines)
              /\ Overfull(Bodies(PackLines(lines, max)), max)
  <2> HIDE DEF before
  <2>1. PackKeeps(packed[N], before(N), max)
    BY <1>8, <1>9, <1>12
  <2> QED
    BY <1>3, <1>9, <2>1 DEF PackKeeps
<1> QED
  BY <1>10, <1>11, <1>12

(* service.py:1479-1500: what becomes of the lines that answer the command, *)
(* if there is room for any text after the mention.                        *)
PartsArrive(mention, lines, parts, max) ==
    LET budget == max - Bytes(mention)
        bodies == [i \in DOMAIN parts |-> SubSeq(parts[i], Len(mention) + 1, Len(parts[i]))]
    IN  /\ parts # <<>>
        /\ \A i \in DOMAIN parts : Bytes(parts[i]) <= max
        /\ \A i \in DOMAIN parts : SubSeq(parts[i], 1, Len(mention)) = mention
        /\ (\A i \in DOMAIN lines : Bytes(lines[i]) <= budget) =>
             /\ Join(bodies) = Join(lines)
             /\ \A i \in DOMAIN parts \ {1} : Bytes(bodies[i - 1]) + 1 + Bytes(bodies[i]) > budget

LEMMA PartsOfBoth ==
    ASSUME NEW s \in Text, NEW t \in Text
    PROVE  /\ SubSeq(s \o t, 1, Len(s)) = s
           /\ SubSeq(s \o t, Len(s) + 1, Len(s \o t)) = t
<1>1. /\ s \in Seq(Nat) /\ t \in Seq(Nat) /\ Len(s) \in Nat /\ Len(t) \in Nat
      /\ Len(s \o t) = Len(s) + Len(t) /\ s \o t \in Seq(Nat)
  BY DEF Text
<1>2. \A i \in 1 .. Len(s) : (s \o t)[i] = s[i]
  BY <1>1
<1>3. \A i \in 1 .. Len(t) : (s \o t)[Len(s) + i] = t[i]
  BY <1>1
<1> DEFINE st == s \o t
<1>4. SubSeq(st, 1, Len(s)) = s
  <2> HIDE DEF st
  <2> QED
    BY <1>1, <1>2 DEF st
<1>5. SubSeq(st, Len(s) + 1, Len(st)) = t
  <2> HIDE DEF st
  <2> QED
    BY <1>1, <1>3 DEF st
<1> QED
  BY <1>4, <1>5

LEMMA NodePartsPack ==
    ASSUME NEW mention \in Text, NEW lines \in Seq(Text), lines # <<>>,
           NEW max \in Nat, Bytes(mention) < max
    PROVE  PartsArrive(mention, lines, NodeParts(mention, lines, max), max)
<1> DEFINE budget == max - Bytes(mention)
           chunks == PackLines(lines, budget)
           texts == Bodies(chunks)
           parts == NodeParts(mention, lines, max)
           bodies == [i \in DOMAIN parts |-> SubSeq(parts[i], Len(mention) + 1, Len(parts[i]))]
           N == Len(chunks)
<1>1. Bytes(mention) \in Nat
  BY BytesIsNat DEF Text
<1>2. budget \in Nat /\ 1 <= budget /\ Max({1, budget}) = budget
  <2>1. budget \in Nat /\ 1 <= budget
    BY <1>1
  <2> HIDE DEF budget
  <2> QED
    BY <2>1, MaxOfTwo
<1>3. /\ chunks \in Seq(Seq(Text)) /\ AllFit(texts, budget) /\ chunks # <<>>
      /\ (\A i \in DOMAIN lines : Bytes(lines[i]) <= budget) =>
           Join(texts) = Join(lines) /\ Overfull(texts, budget)
  <2> HIDE DEF budget
  <2> QED
    BY <1>2, PackLinesPacks
<1>4. parts = [i \in DOMAIN chunks |-> ClipUtf8(mention \o Join(chunks[i]), max)]
  BY <1>2 DEF NodeParts
<1> HIDE DEF chunks, parts
<1>5. /\ N \in Nat /\ DOMAIN chunks = 1 .. N /\ texts \in Seq(Text) /\ DOMAIN texts = 1 .. N
      /\ \A i \in 1 .. N : texts[i] = Join(chunks[i]) /\ texts[i] \in Text
  BY <1>3, BodiesTyped
<1> HIDE DEF texts, N
<1>6. ASSUME NEW i \in 1 .. N
      PROVE  parts[i] = mention \o texts[i] /\ Bytes(parts[i]) <= max
  <2> DEFINE whole == mention \o texts[i]
  <2>1. texts[i] \in Seq(Nat) /\ mention \in Seq(Nat) /\ Bytes(texts[i]) <= budget
    BY <1>3, <1>5 DEF AllFit, Text
  <2>2. whole \in Seq(Nat) /\ Bytes(whole) = Bytes(mention) + Bytes(texts[i])
    BY <2>1, BytesOfBoth
  <2>3. Bytes(whole) <= max
    BY <1>1, <2>1, <2>2, BytesIsNat
  <2>4. parts[i] = ClipUtf8(whole, max)
    BY <1>4, <1>5
  <2> HIDE DEF whole
  <2>5. ClipUtf8(whole, max) = whole
    BY <2>2, <2>3, Clipped
  <2> QED
    BY <2>3, <2>4, <2>5 DEF whole
<1>7. DOMAIN parts = 1 .. N
  BY <1>4, <1>5
<1>8. ASSUME NEW i \in 1 .. N
      PROVE  /\ SubSeq(parts[i], 1, Len(mention)) = mention
             /\ SubSeq(parts[i], Len(mention) + 1, Len(parts[i])) = texts[i]
  <2> DEFINE text == texts[i]
  <2>1. text \in Text /\ parts[i] = mention \o text
    BY <1>5, <1>6
  <2> HIDE DEF text
  <2>2. /\ SubSeq(mention \o text, 1, Len(mention)) = mention
        /\ SubSeq(mention \o text, Len(mention) + 1, Len(mention \o text)) = text
    BY <2>1, PartsOfBoth
  <2> QED
    BY <2>1, <2>2 DEF text
<1>9. bodies = texts
  <2>1. bodies = [i \in 1 .. N |-> texts[i]]
    BY <1>7, <1>8
  <2>2. texts = [i \in 1 .. N |-> texts[i]]
    BY <1>5
  <2> QED
    BY <2>1, <2>2
<1>10. parts # <<>>
  <2>1. N # 0
    BY <1>3 DEF N
  <2>2. 1 \in DOMAIN parts
    BY <1>5, <1>7, <2>1
  <2> QED
    BY <2>2
<1>11. ASSUME \A i \in DOMAIN lines : Bytes(lines[i]) <= budget
       PROVE  /\ Join(bodies) = Join(lines)
              /\ \A i \in DOMAIN parts \ {1} : Bytes(bodies[i - 1]) + 1 + Bytes(bodies[i]) > budget
  <2>1. Join(texts) = Join(lines) /\ Overfull(texts, budget)
    BY <1>3, <1>11
  <2> HIDE DEF bodies, budget
  <2>2. \A i \in DOMAIN texts \ {1} : Bytes(texts[i - 1]) + 1 + Bytes(texts[i]) > budget
    BY <2>1 DEF Overfull
  <2> QED
    BY <1>5, <1>7, <1>9, <2>1, <2>2
<1> QED
  BY <1>6, <1>7, <1>8, <1>10, <1>11 DEF PartsArrive, parts

-----------------------------------------------------------------------------
(* What is said of the answer to a ping, that it is m, with what is known  *)
(* of the latest path.                                                     *)
PongOf(m, path, latestLen) ==
    LET p == m.packet IN
    /\ path.len = IF Plausible(p.len) THEN p.len ELSE IF m.via = DM THEN None ELSE latestLen
    /\ Plausible(p.len) =>
         /\ p.width # None => path.width = p.width
         /\ p.len = 0 => path.snr = p.snr
         /\ p.len > 0 /\ p.route # None => path.route = Groups(p.route, path.width)
    /\ m.via = DM =>
         /\ path.snr \in {None, p.snr}
         /\ p.route = None => path.route = <<>>
         /\ p.width = None /\ p.len = 0 => path.width = None

LEMMA ChannelPongTells ==
    ASSUME CacheSound, NEW m, m.via # DM
    PROVE  PongOf(m, ChannelPong(cache, m.packet), lastLen)
<1> DEFINE p == m.packet
           path == ChannelPath(cache, p)
<1>1. CASE Plausible(p.len)
  <2>1. ChannelPong(cache, p) = path
    BY <1>1, OwnPath DEF ChannelPong, ChannelPath
  <2>2. /\ path.len = p.len
        /\ p.width # None => path.width = p.width
        /\ p.len = 0 => path.snr = p.snr
        /\ p.len > 0 /\ p.route # None => path.route = Groups(p.route, path.width)
    BY <1>1, OwnPath DEF ChannelPath
  <2> QED
    BY <1>1, <2>1, <2>2 DEF PongOf
<1>2. CASE ~ Plausible(p.len)
  <2>1. path = NoPath
    BY <1>2, OthersPath DEF ChannelPath
  <2>2. ChannelPong(cache, p).len = cache.path.len
    BY <2>1 DEF ChannelPong, NoPath
  <2> QED
    BY <1>2, <2>2 DEF PongOf, CacheSound
<1> QED
  BY <1>1, <1>2

LEMMA ContactPongTells ==
    ASSUME NEW m, m.via = DM
    PROVE  PongOf(m, ContactPong(cache, m.packet), lastLen)
<1> DEFINE p == m.packet
           path == MessagePath(p, None, None)
<1>1. CASE Plausible(p.len)
  <2>1. ContactPong(cache, p) = path
    BY <1>1, OwnPath DEF ContactPong
  <2>2. p.len = 0 \/ p.len > 0
    BY <1>1, AnswersAssumption DEF Plausible, AnswersAssumption
  <2>3. /\ path.len = p.len
        /\ p.len = 0 => path.width = Or(p.width, None) /\ path.snr = p.snr /\ path.route = <<>>
        /\ p.len > 0 => path.snr = None
        /\ p.width # None => path.width = p.width
        /\ p.len > 0 /\ Or(p.route, None) = None => path.route = <<>>
        /\ p.len > 0 /\ p.route # None => path.route = Groups(p.route, path.width)
    BY <1>1, OwnPath
  <2> HIDE DEF path
  <2> QED
    BY <1>1, <2>1, <2>2, <2>3 DEF PongOf, Or
<1>2. CASE ~ Plausible(p.len)
  <2>1. ContactPong(cache, p) = [NoPath EXCEPT !.snr = p.snr]
    BY <1>2, OthersPath DEF ContactPong
  <2> QED
    BY <1>2, <2>1 DEF PongOf, NoPath
<1> QED
  BY <1>1, <1>2

LEMMA ChannelAnswers ==
    ASSUME NEW m, NEW parsed, NEW rows
    PROVE  LET answer == AnswerOnChannel(m, parsed, rows) IN
           /\ answer.kind # "channels"
           /\ answer.kind = "ping" => answer.detail = ChannelPong(cache, m.packet)
<1>1. CASE ~ ChannelAccepts(parsed.kind, m.via)
  BY <1>1 DEF AnswerOnChannel, NoReply
<1>2. CASE ChannelAccepts(parsed.kind, m.via)
  <2>1. parsed.kind # "channels"
    BY <1>2 DEF ChannelAccepts, OnChannelKinds
  <2>2. CASE parsed.kind = "ping"
    BY <1>2, <2>2 DEF AnswerOnChannel, Reply
  <2>3. CASE parsed.kind = "node"
    BY <1>2, <2>3 DEF AnswerOnChannel, AnswerNode, Reply
  <2>4. CASE parsed.kind \notin {"ping", "node"}
    BY <1>2, <2>1, <2>4 DEF AnswerOnChannel, Reply
  <2> QED
    BY <2>2, <2>3, <2>4
<1> QED
  BY <1>1, <1>2

LEMMA ContactAnswers ==
    ASSUME NEW m, NEW parsed, NEW rows, NEW device
    PROVE  LET answer == AnswerContact(m, parsed, rows, device) IN
           /\ answer.kind = "channels" =>
                answer.detail = lists.enabled \cap Fetched(lists.enabled, device)
           /\ answer.kind = "ping" => answer.detail = ContactPong(cache, m.packet)
<1>1. CASE parsed.kind = "none"
  BY <1>1 DEF AnswerContact, NoReply
<1>2. CASE parsed.kind = "ping"
  BY <1>2 DEF AnswerContact, Reply
<1>3. CASE parsed.kind = "node"
  BY <1>3 DEF AnswerContact, AnswerNode, Reply
<1>4. CASE parsed.kind = "channels"
  BY <1>4 DEF AnswerContact, Reply
<1>5. CASE parsed.kind \notin {"none", "ping", "node", "channels"}
  BY <1>5 DEF AnswerContact, Reply
<1> QED
  BY <1>1, <1>2, <1>3, <1>4, <1>5

LEMMA Greatest ==
    ASSUME NEW S \in SUBSET Int, S # {}, NEW top \in Int, \A x \in S : x <= top
    PROVE  Max(S) \in S /\ \A x \in S : x <= Max(S)
<1> DEFINE D == {top - x : x \in S}
<1>1. D \subseteq Nat /\ D # {}
  <2>1. \A x \in S : top - x \in Nat
    OBVIOUS
  <2> QED
    BY <2>1
<1>2. PICK d \in D : \A e \in D : ~ (e < d)
  <2> HIDE DEF D
  <2>1. PICK d \in D : \A e \in D : ~ (<<e, d>> \in OpToRel(<, Nat))
    BY <1>1, WFMin, NatLessThanWellFounded
  <2>2. \A e \in D : ~ (e < d)
    <3>1. TAKE e \in D
    <3>2. ~ (<<e, d>> \in OpToRel(<, Nat)) /\ e \in Nat /\ d \in Nat
      BY <1>1, <2>1
    <3> QED
      BY <3>2 DEF OpToRel
  <2> QED
    BY <2>2
<1>3. \E x \in S : d = top - x
  BY <1>2
<1>4. PICK x \in S : d = top - x
  BY <1>3
<1>5. \A y \in S : x >= y
  <2>1. TAKE y \in S
  <2>2. top - y \in D
    OBVIOUS
  <2>3. ~ (top - y < top - x)
    BY <1>2, <1>4, <2>2
  <2>4. x \in Int /\ y \in Int
    OBVIOUS
  <2> QED
    BY <2>3, <2>4
<1> QED
  BY <1>5 DEF Max

(* channel_info.py:23: no enabled channel below the cap is beyond the slots. *)
LEMMA EnabledAreAsked ==
    ASSUME NEW enabled, HasLast(enabled), NEW max \in Int, NEW c \in enabled, c < Cap
    PROVE  c <= Slots(enabled, max) - 1 /\ Slots(enabled, max) \in Int
<1> DEFINE base == IF max = Unknown THEN Probe ELSE max
           S == {base, 1} \cup {i + 1 : i \in enabled}
<1>1. PICK last \in Int : \A i \in enabled : i \in Int /\ i <= last
  BY DEF HasLast
<1>2. base \in Int /\ Cap \in Int
  <2>1. Probe \in Int /\ Cap \in Int
    BY AnswersAssumption DEF AnswersAssumption
  <2> QED
    BY <2>1
<1> HIDE DEF base
<1>3. S \in SUBSET Int /\ S # {} /\ c + 1 \in S
  BY <1>1, <1>2
<1>4. PICK top \in Int : \A x \in S : x <= top
  <2> DEFINE larger == IF base <= last THEN last ELSE base
             top == IF larger < 0 THEN 1 ELSE larger + 1
  <2>1. top \in Int /\ base <= top /\ 1 <= top /\ last + 1 <= top
    BY <1>1, <1>2
  <2> HIDE DEF top
  <2>2. \A x \in S : x <= top
    BY <1>1, <1>2, <2>1
  <2> QED
    BY <2>1, <2>2
<1> HIDE DEF S
<1>5. Max(S) \in Int /\ c + 1 <= Max(S)
  <2>1. Max(S) \in S /\ \A x \in S : x <= Max(S)
    BY <1>3, <1>4, Greatest
  <2> QED
    BY <1>3, <2>1
<1>6. Slots(enabled, max) = Min({Max(S), Cap})
  BY Zenon DEF Slots, S, base
<1>7. Slots(enabled, max) = IF Max(S) <= Cap THEN Max(S) ELSE Cap
  BY <1>2, <1>5, <1>6, MinOfTwo
<1> QED
  BY <1>1, <1>2, <1>5, <1>7

(* channel_info.py:16: no enabled channel is left out that answers in the  *)
(* first round of questions, if below the cap, or in the second one.       *)
LEMMA AllThatAnswer ==
    ASSUME NEW enabled, HasLast(enabled), NEW device, device.max \in Int
    PROVE  LET told == device.answersAgain \cup (device.answers \cap 0 .. Cap - 1)
           IN  /\ enabled \cap told \subseteq enabled \cap Fetched(enabled, device)
               /\ enabled \cap Fetched(enabled, device)
                     \subseteq device.answers \cup device.answersAgain
<1>1. \A c \in enabled : c \in 0 .. Cap - 1 => c \in 0 .. Slots(enabled, device.max) - 1
  <2> TAKE c \in enabled
  <2> HAVE c \in 0 .. Cap - 1
  <2>1. c \in Int /\ 0 <= c /\ c < Cap
    BY AnswersAssumption DEF AnswersAssumption
  <2> QED
    BY <2>1, EnabledAreAsked
<1> QED
  BY <1>1 DEF Fetched

-----------------------------------------------------------------------------
(* The events that are handled.                                            *)
LEMMA HandleHolds == AnswersInv /\ Handle => AnswersInv'
<1> SUFFICES ASSUME AnswersInv, Handle PROVE AnswersInv'
  OBVIOUS
<1>1. UNCHANGED <<phase, raw, numbers, lists>> /\ phase = "serving" /\ CacheSound
  BY DEF AnswersInv, Handle, OnRxLogData, OnChannelMsg, OnContactMsg, Handled
<1>2. SUFFICES CacheSound' /\ EnabledChannelsAreNamed' /\ PingTellsItsPacket'
  BY <1>1 DEF AnswersInv, SettingsAreUsable
<1>3. CASE OnRxLogData
  <2>1. PICK p \in Packets :
           /\ cache' = OnRxLog(cache, p) /\ Told(Or(p.len, ParseRxLog(p).len))
           /\ reply' = NoReply
    BY <1>3 DEF OnRxLogData, Handled
  <2> QED
    BY <1>1, <2>1, RxLogKeepsCache DEF EnabledChannelsAreNamed, PingTellsItsPacket, NoReply
<1>4. CASE OnChannelMsg
  <2>1. PICK m \in Messages :
           /\ m.via # DM
           /\ \/ /\ cache' = OnChannelPacket(cache, m.packet) /\ Told(m.packet.len)
                 /\ \E rows \in RowsFor(ParseIncoming(m.text)) :
                      Handled([message |-> m, rows |-> rows],
                              AnswerOnChannel(m, ParseIncoming(m.text), rows))
              \/ /\ UNCHANGED <<cache, lastLen>>
                 /\ Handled([message |-> m], NoReply)
    BY <1>4 DEF OnChannelMsg
  <2>2. CacheSound'
    BY <1>1, <2>1, MessageKeepsCache
  <2>3. CASE reply' = NoReply
    BY <2>2, <2>3 DEF EnabledChannelsAreNamed, PingTellsItsPacket, NoReply
  <2>4. CASE reply' # NoReply
    <3>1. PICK rows : /\ event' = [message |-> m, rows |-> rows]
                      /\ reply' = AnswerOnChannel(m, ParseIncoming(m.text), rows)
                      /\ Told(m.packet.len)
      BY <2>1, <2>4 DEF Handled
    <3>2. /\ reply'.kind # "channels"
          /\ reply'.kind = "ping" => reply'.detail = ChannelPong(cache, m.packet)
      BY <3>1, ChannelAnswers
    <3>3. PongOf(m, ChannelPong(cache, m.packet), lastLen')
      BY <1>1, <2>1, <3>1, ChannelPongTells DEF PongOf, Told
    <3>4. event'.message = m
      BY <3>1
    <3> QED
      BY <2>2, <3>2, <3>3, <3>4 DEF EnabledChannelsAreNamed, PingTellsItsPacket, PongOf
  <2> QED
    BY <2>3, <2>4
<1>5. CASE OnContactMsg
  <2>1. PICK m \in Messages :
           /\ m.via = DM
           /\ cache' \in {cache, OnContactPing(cache, m.packet)} /\ lastLen' = lastLen
           /\ \E rows \in RowsFor(ParseIncoming(m.text)), device \in DevicesFor(ParseIncoming(m.text)) :
                Handled([message |-> m, rows |-> rows, device |-> device],
                        AnswerContact(m, ParseIncoming(m.text), rows, device))
    BY <1>5 DEF OnContactMsg
  <2>2. CacheSound'
    BY <1>1, <2>1, MessageKeepsCache
  <2>3. PICK rows \in RowsFor(ParseIncoming(m.text)), device \in DevicesFor(ParseIncoming(m.text)) :
           /\ event' = [message |-> m, rows |-> rows, device |-> device]
           /\ reply' = AnswerContact(m, ParseIncoming(m.text), rows, device)
    BY <2>1 DEF Handled
  <2>4. /\ reply'.kind = "channels" =>
             reply'.detail = lists.enabled \cap Fetched(lists.enabled, device)
        /\ reply'.kind = "ping" => reply'.detail = ContactPong(cache, m.packet)
    BY <2>3, ContactAnswers
  <2>5. event'.message = m /\ event'.device = device
    BY <2>3
  <2>6. EnabledChannelsAreNamed'
    <3>1. device.max \in Int
      BY AnswersAssumption DEF AnswersAssumption, DevicesFor, Unknown
    <3>2. HasLast(lists.enabled)
      BY <1>1 DEF AnswersInv
    <3> QED
      BY <1>1, <2>4, <2>5, <3>1, <3>2, AllThatAnswer DEF EnabledChannelsAreNamed
  <2>7. PingTellsItsPacket'
    BY <2>1, <2>4, <2>5, ContactPongTells DEF PingTellsItsPacket, PongOf
  <2> QED
    BY <2>2, <2>6, <2>7
<1> QED
  BY <1>3, <1>4, <1>5 DEF Handle

LEMMA AlwaysHolds == Spec => []AnswersInv
<1>1. Init => AnswersInv
  <2> SUFFICES ASSUME Init PROVE AnswersInv
    OBVIOUS
  <2>1. CacheSound
    BY DEF Init, CacheSound, EmptyCache, NoPath
  <2> QED
    BY <2>1 DEF Init, AnswersInv, SettingsAreUsable, EnabledChannelsAreNamed,
                PingTellsItsPacket, NoReply
<1>2. AnswersInv /\ [Next]_vars => AnswersInv'
  <2> SUFFICES ASSUME AnswersInv, [Next]_vars PROVE AnswersInv'
    OBVIOUS
  <2>1. CASE Serve
    BY <2>1 DEF Serve, AnswersInv, CacheSound, SettingsAreUsable,
                EnabledChannelsAreNamed, PingTellsItsPacket, NoReply
  <2>2. CASE Done
    BY <2>2 DEF Done, AnswersInv, CacheSound, SettingsAreUsable,
                EnabledChannelsAreNamed, PingTellsItsPacket, NoReply
  <2>3. CASE UNCHANGED vars
    BY <2>3 DEF vars, AnswersInv, CacheSound, SettingsAreUsable,
                EnabledChannelsAreNamed, PingTellsItsPacket
  <2> QED
    BY <2>1, <2>2, <2>3, LoadHolds, HandleHolds DEF Next, Refused
<1> QED
  BY <1>1, <1>2, PTL DEF Spec

(* config.py:97-221: a file is refused, or its whole numbers and reply     *)
(* delay are within the limits that the rest of the code relies on, and    *)
(* the others within theirs or what is no number; what is within them is   *)
(* kept, but for a 0.                                                      *)
THEOREM FilesGiveUsableSettings == Spec => []SettingsAreUsable
<1>1. AnswersInv => SettingsAreUsable
  BY DEF AnswersInv
<1> QED
  BY <1>1, AlwaysHolds, PTL

(* channel_info.py:16: `channels` names every enabled channel that answers, *)
(* at first if below the cap, or when asked again, whatever number of slots *)
(* the companion has told.                                                 *)
THEOREM ChannelsAreNamed == Spec => []EnabledChannelsAreNamed
<1>1. AnswersInv => EnabledChannelsAreNamed
  BY DEF AnswersInv
<1> QED
  BY <1>1, AlwaysHolds, PTL

(* service.py:1421: a ping is answered with the path of its own packet, and *)
(* whatever came before only fills in what this packet leaves open.        *)
THEOREM PingTellsOfItsPacket == Spec => []PingTellsItsPacket
<1>1. AnswersInv => PingTellsItsPacket
  BY DEF AnswersInv
<1> QED
  BY <1>1, AlwaysHolds, PTL
-----------------------------------------------------------------------------
(* The answers to the node command.  There must be room for a text after   *)
(* the mention; the name of a node has at most 32 bytes (external).        *)
MentionsAreShort == \A m \in Messages : Bytes(m.mention) < MaxBytes

(* service.py:1510: there is always something to tell.                     *)
LEMMA NodeQueryHasLines ==
    ASSUME NEW rows \in NodeLines
    PROVE  NodeQueryLines(rows) \in Seq(Text) /\ NodeQueryLines(rows) # <<>>
<1>1. rows \in Seq(Text) /\ NotFound \in Text
  BY AnswersAssumption DEF AnswersAssumption, Text
<1>2. CASE rows = <<>>
  BY <1>1, <1>2 DEF NodeQueryLines
<1>3. CASE rows # <<>>
  <2> DEFINE N == Len(rows)
             number == <<1, 1, 1>>
             numbered == [i \in 1 .. N |-> number \o rows[i]]
  <2>1. N \in Nat \ {0} /\ DOMAIN rows = 1 .. N
    BY <1>1, <1>3
  <2>2. \A i \in 1 .. N : number \o rows[i] \in Text
    <3>1. TAKE i \in 1 .. N
    <3>2. rows[i] \in Seq(Nat) /\ number \in Seq(Nat)
      BY <1>1 DEF Text
    <3> HIDE DEF number
    <3> QED
      BY <3>2 DEF Text
  <2> HIDE DEF N, number
  <2>3. numbered \in [1 .. N -> Text]
    BY <2>2
  <2>4. numbered \in Seq(Text) /\ DOMAIN numbered = 1 .. N
    BY <2>1, <2>3, SeqDef
  <2>5. numbered # <<>>
    <3>1. 1 \in DOMAIN numbered
      BY <2>1, <2>4
    <3> HIDE DEF numbered
    <3> QED
      BY <3>1
  <2>6. NodeQueryLines(rows) = rows \/ NodeQueryLines(rows) = numbered
    BY <1>3, <2>1 DEF NodeQueryLines, N, number
  <2> QED
    BY <1>1, <1>3, <2>4, <2>5, <2>6
<1> QED
  BY <1>2, <1>3

LEMMA NodeAnswerArrives ==
    ASSUME MentionsAreShort, NEW m \in Messages, NEW arg, NEW rows \in NodeLines,
           AnswerNode(m, arg, rows).detail # None
    PROVE  PartsArrive(m.mention, NodeQueryLines(rows), AnswerNode(m, arg, rows).detail, MaxBytes)
<1> DEFINE lines == NodeQueryLines(rows)
<1>1. m.mention \in Text /\ MaxBytes \in Nat /\ Bytes(m.mention) < MaxBytes
  BY AnswersAssumption DEF AnswersAssumption, Text, MentionsAreShort
<1>2. lines \in Seq(Text) /\ lines # <<>>
  BY NodeQueryHasLines
<1>3. AnswerNode(m, arg, rows).detail = NodeParts(m.mention, lines, MaxBytes)
  BY DEF AnswerNode, Reply
<1> HIDE DEF lines
<1>4. PartsArrive(m.mention, lines, NodeParts(m.mention, lines, MaxBytes), MaxBytes)
  BY <1>1, <1>2, NodePartsPack
<1> QED
  BY <1>3, <1>4 DEF lines

(* An answer with parts is one to the node command, with the rows for it.  *)
LEMMA PartsAreForNode ==
    ASSUME NEW m, NEW parsed, NEW rows, NEW device, NEW answer,
           answer = AnswerOnChannel(m, parsed, rows) \/ answer = AnswerContact(m, parsed, rows, device),
           answer.kind = "node"
    PROVE  parsed.kind = "node" /\ answer = AnswerNode(m, parsed.arg, rows)
<1>1. CASE answer = AnswerOnChannel(m, parsed, rows)
  <2>1. CASE ~ ChannelAccepts(parsed.kind, m.via)
    BY <1>1, <2>1 DEF AnswerOnChannel, NoReply
  <2>2. CASE ChannelAccepts(parsed.kind, m.via)
    <3>1. CASE parsed.kind = "ping"
      BY <1>1, <2>2, <3>1 DEF AnswerOnChannel, Reply
    <3>2. CASE parsed.kind = "node"
      BY <1>1, <2>2, <3>2 DEF AnswerOnChannel
    <3>3. CASE parsed.kind \notin {"ping", "node"}
      BY <1>1, <2>2, <3>3 DEF AnswerOnChannel, Reply
    <3> QED
      BY <3>1, <3>2, <3>3
  <2> QED
    BY <2>1, <2>2
<1>2. CASE answer = AnswerContact(m, parsed, rows, device)
  <2>1. CASE parsed.kind = "none"
    BY <1>2, <2>1 DEF AnswerContact, NoReply
  <2>2. CASE parsed.kind = "ping"
    BY <1>2, <2>2 DEF AnswerContact, Reply
  <2>3. CASE parsed.kind = "node"
    BY <1>2, <2>3 DEF AnswerContact
  <2>4. CASE parsed.kind = "channels"
    BY <1>2, <2>4 DEF AnswerContact, Reply
  <2>5. CASE parsed.kind \notin {"none", "ping", "node", "channels"}
    BY <1>2, <2>5 DEF AnswerContact, Reply
  <2> QED
    BY <2>1, <2>2, <2>3, <2>4, <2>5
<1> QED
  BY <1>1, <1>2

LEMMA HandledArrives == MentionsAreShort /\ Handle => NodePartsArrive'
<1> SUFFICES ASSUME MentionsAreShort, Handle, reply'.kind = "node", reply'.detail # None
             PROVE  PartsArrive(event'.message.mention, NodeQueryLines(event'.rows),
                                reply'.detail, MaxBytes)
  BY DEF NodePartsArrive, PartsArrive
<1>1. PICK m \in Messages : \E rows \in RowsFor(ParseIncoming(m.text)) :
        /\ event'.message = m /\ event'.rows = rows
        /\ \/ reply' = AnswerOnChannel(m, ParseIncoming(m.text), rows)
           \/ \E device : reply' = AnswerContact(m, ParseIncoming(m.text), rows, device)
  <2>1. CASE OnRxLogData
    BY <2>1 DEF OnRxLogData, Handled, NoReply
  <2>2. CASE OnChannelMsg
    <3>1. PICK m \in Messages :
            \/ \E rows \in RowsFor(ParseIncoming(m.text)) :
                 Handled([message |-> m, rows |-> rows],
                         AnswerOnChannel(m, ParseIncoming(m.text), rows))
            \/ Handled([message |-> m], NoReply)
      BY <2>2 DEF OnChannelMsg
    <3>2. ~ Handled([message |-> m], NoReply)
      BY DEF Handled, NoReply
    <3>3. PICK rows \in RowsFor(ParseIncoming(m.text)) :
            /\ event' = [message |-> m, rows |-> rows]
            /\ reply' = AnswerOnChannel(m, ParseIncoming(m.text), rows)
      BY <3>1, <3>2 DEF Handled
    <3> QED
      BY <3>3
  <2>3. CASE OnContactMsg
    <3>1. PICK m \in Messages :
            \E rows \in RowsFor(ParseIncoming(m.text)), device \in DevicesFor(ParseIncoming(m.text)) :
              Handled([message |-> m, rows |-> rows, device |-> device],
                      AnswerContact(m, ParseIncoming(m.text), rows, device))
      BY <2>3 DEF OnContactMsg
    <3>2. PICK rows \in RowsFor(ParseIncoming(m.text)) : \E device :
            /\ event' = [message |-> m, rows |-> rows, device |-> device]
            /\ reply' = AnswerContact(m, ParseIncoming(m.text), rows, device)
      BY <3>1 DEF Handled
    <3> QED
      BY <3>2
  <2> QED
    BY <2>1, <2>2, <2>3 DEF Handle
<1>2. PICK rows \in RowsFor(ParseIncoming(m.text)) :
        /\ event'.message = m /\ event'.rows = rows
        /\ \/ reply' = AnswerOnChannel(m, ParseIncoming(m.text), rows)
           \/ \E device : reply' = AnswerContact(m, ParseIncoming(m.text), rows, device)
  BY <1>1
<1> DEFINE parsed == ParseIncoming(m.text)
<1> HIDE DEF parsed
<1>3. parsed.kind = "node" /\ reply' = AnswerNode(m, parsed.arg, rows)
  BY <1>2, PartsAreForNode DEF parsed
<1>4. rows \in NodeLines
  BY <1>3 DEF RowsFor, parsed
<1> QED
  BY <1>2, <1>3, <1>4, NodeAnswerArrives

(* service.py:1479-1500, textutil.py:22: whatever is told of nodes, every  *)
(* part of the answer can be sent, the mention is before each of them, and *)
(* lines that fit are told in their order, whole, and in no more parts     *)
(* than it takes when they are never moved.                                *)
THEOREM NodePartsAlwaysArrive ==
    ASSUME MentionsAreShort
    PROVE  Spec => []NodePartsArrive
<1>1. Init => NodePartsArrive
  BY DEF Init, NodePartsArrive, NoReply
<1>2. NodePartsArrive /\ [Next]_vars => NodePartsArrive'
  <2> SUFFICES ASSUME NodePartsArrive, [Next]_vars PROVE NodePartsArrive'
    OBVIOUS
  <2>1. CASE Handle
    BY <2>1, HandledArrives
  <2>2. CASE Done
    BY <2>2 DEF Done, NodePartsArrive, NoReply
  <2>3. CASE LoadConfig \/ Serve \/ Refused \/ UNCHANGED vars
    <3>1. UNCHANGED <<event, reply>>
      BY <2>3 DEF LoadConfig, Serve, Refused, vars
    <3> QED
      BY <3>1 DEF NodePartsArrive
  <2> QED
    BY <2>1, <2>2, <2>3 DEF Next
<1> QED
  BY <1>1, <1>2, PTL DEF Spec

-----------------------------------------------------------------------------
(* Commands.  Of a tidy line nothing is stripped; its first word decides.  *)
LEMMA LeastIs ==
    ASSUME NEW S, S \subseteq Int, NEW a \in S, \A x \in S : a <= x PROVE Min(S) = a
<1>1. Min(S) \in S /\ \A y \in S : Min(S) <= y
  BY DEF Min
<1>2. Min(S) \in Int /\ a \in Int /\ a <= Min(S) /\ Min(S) <= a
  BY <1>1
<1> QED
  BY <1>2

LEMMA GreatestIs ==
    ASSUME NEW S, S \subseteq Int, NEW a \in S, \A x \in S : x <= a PROVE Max(S) = a
<1>1. Max(S) \in S /\ \A y \in S : y <= Max(S)
  BY DEF Max
<1>2. Max(S) \in Int /\ a \in Int /\ a <= Max(S) /\ Max(S) <= a
  BY <1>1
<1> QED
  BY <1>2

LEMMA StripIs ==
    ASSUME NEW S, NEW line \in Seq(S), NEW a \in DOMAIN line, NEW b \in DOMAIN line,
           ~ IsSpace(line[a]), ~ IsSpace(line[b]),
           \A i \in DOMAIN line : i < a \/ i > b => IsSpace(line[i])
    PROVE  Strip(line) = SubSeq(line, a, b)
<1> DEFINE kept == {i \in DOMAIN line : ~ IsSpace(line[i])}
<1>1. kept \subseteq Int /\ a \in kept /\ b \in kept /\ \A i \in kept : a <= i /\ i <= b
  BY DEF IsSpace
<1>0. Strip(line) = IF kept = {} THEN <<>> ELSE SubSeq(line, Min(kept), Max(kept))
  BY DEF Strip
<1> HIDE DEF kept
<1>2. Min(kept) = a /\ Max(kept) = b /\ kept # {}
  BY <1>1, LeastIs, GreatestIs
<1> QED
  BY <1>0, <1>2

LEMMA StripOfNone == Strip(<<>>) = <<>>
  BY DEF Strip

(* Where a test first holds, and where it never does.                      *)
LEMMA SplitAtSpace ==
    ASSUME NEW S, NEW line \in Seq(S), NEW n \in DOMAIN line,
           \A i \in 1 .. n : ~ IsSpace(line[i]),
           n < Len(line) => IsSpace(line[n + 1])
    PROVE  /\ UpTo(line, IsSpace) = SubSeq(line, 1, n)
           /\ After(line, IsSpace) = SubSeq(line, n + 2, Len(line))
<1> DEFINE I == {i \in 1 .. Len(line) : IsSpace(line[i])}
<1>0. n \in Nat /\ Len(line) \in Nat /\ 1 <= n /\ n <= Len(line)
  OBVIOUS
<1>1. CASE n < Len(line)
  <2>1. I \subseteq Int /\ n + 1 \in I /\ \A x \in I : n + 1 <= x
    BY <1>0, <1>1
  <2>2. SelectInSeq(line, IsSpace) = IF I # {} THEN Min(I) ELSE 0
    BY DEF SelectInSeq
  <2> HIDE DEF I
  <2>3. I # {} /\ Min(I) = n + 1
    BY <2>1, LeastIs
  <2>4. SelectInSeq(line, IsSpace) = n + 1
    BY <2>2, <2>3
  <2>5. n + 1 # 0 /\ (n + 1) - 1 = n /\ (n + 1) + 1 = n + 2
    BY <1>0
  <2>6. UpTo(line, IsSpace) = SubSeq(line, 1, (n + 1) - 1)
    BY <2>4, <2>5 DEF UpTo
  <2>7. After(line, IsSpace) = SubSeq(line, (n + 1) + 1, Len(line))
    BY <2>4, <2>5 DEF After
  <2> QED
    BY <2>5, <2>6, <2>7
<1>2. CASE n = Len(line)
  <2>1. SelectInSeq(line, IsSpace) = 0
    BY <1>0, <1>2 DEF SelectInSeq
  <2>2. SubSeq(line, 1, n) = line /\ SubSeq(line, n + 2, Len(line)) = <<>>
    BY <1>0, <1>2, SubSeqFull, SubSeqEmpty
  <2> QED
    BY <2>1, <2>2 DEF UpTo, After
<1> QED
  BY <1>0, <1>1, <1>2

LEMMA AfterFirstColon ==
    ASSUME NEW S, NEW line \in Seq(S), NEW c \in DOMAIN line,
           IsColon(line[c]), \A i \in 1 .. c - 1 : ~ IsColon(line[i])
    PROVE  After(line, IsColon) = SubSeq(line, c + 1, Len(line))
<1> DEFINE I == {i \in 1 .. Len(line) : IsColon(line[i])}
<1>1. I \subseteq Int /\ c \in I /\ \A x \in I : c <= x /\ c # 0
  OBVIOUS
<1>2. SelectInSeq(line, IsColon) = IF I # {} THEN Min(I) ELSE 0
  BY DEF SelectInSeq
<1> HIDE DEF I
<1>3. I # {} /\ Min(I) = c
  BY <1>1, LeastIs
<1> QED
  BY <1>1, <1>2, <1>3 DEF After

LEMMA LeastOfSome ==
    ASSUME NEW S \in SUBSET Nat, S # {} PROVE \E a \in S : \A x \in S : a <= x
<1>1. \E a \in S : \A x \in S : <<x, a>> \notin OpToRel(<, Nat)
  BY WFMin, NatLessThanWellFounded
<1>2. PICK a \in S : \A x \in S : ~ (x < a)
  BY <1>1 DEF OpToRel
<1> QED
  BY <1>2

LEMMA GreatestOfSome ==
    ASSUME NEW N \in Nat, NEW S \in SUBSET (1 .. N), S # {} PROVE Max(S) \in S
<1> DEFINE T == S \cup {0}
<1>0. T \in SUBSET (0 .. N) /\ 0 \in T
  OBVIOUS
<1>1. Max(T) \in T /\ \A n \in T : n <= Max(T)
  BY <1>0, MaxIsGreatest
<1>2. \E m \in S : \A n \in S : m >= n
  <2>1. PICK x : x \in S
    OBVIOUS
  <2>2. Max(T) \in S /\ \A n \in S : Max(T) >= n
    <3>1. x \in 1 .. N /\ x \in T /\ S \subseteq T /\ T \subseteq Int
      BY <1>0, <2>1
    <3>2. Max(T) # 0
      BY <1>1, <3>1
    <3> QED
      BY <1>1, <3>1, <3>2
  <2> QED
    BY <2>2
<1> QED
  BY <1>2 DEF Max

LEMMA FirstWord ==
    ASSUME NEW S, NEW line \in Seq(S), line # <<>>, ~ IsSpace(line[1])
    PROVE  \E n \in DOMAIN line : /\ \A i \in 1 .. n : ~ IsSpace(line[i])
                                  /\ n < Len(line) => IsSpace(line[n + 1])
<1>0. Len(line) \in Nat /\ 1 <= Len(line) /\ DOMAIN line = 1 .. Len(line)
  OBVIOUS
<1> DEFINE I == {i \in 1 .. Len(line) : IsSpace(line[i])}
<1>1. CASE I = {}
  BY <1>0, <1>1
<1>2. CASE I # {}
  <2>0. I \in SUBSET Nat /\ 1 \notin I
    BY <1>0
  <2> HIDE DEF I
  <2>1. PICK a \in I : \A x \in I : a <= x
    BY <1>2, <2>0, LeastOfSome
  <2>2. a - 1 \in 1 .. Len(line) /\ a \in Nat /\ IsSpace(line[a]) /\ a <= Len(line)
    BY <1>0, <2>0, <2>1 DEF I
  <2>3. \A i \in 1 .. a - 1 : ~ IsSpace(line[i])
    BY <1>0, <2>1, <2>2 DEF I
  <2>4. a - 1 \in DOMAIN line /\ (a - 1) + 1 = a
    BY <1>0, <2>2
  <2> QED
    BY <2>2, <2>3, <2>4
<1> QED
  BY <1>1, <1>2

(* The name that a token stands for, and the command of a name.            *)
NameOf(token) == SubSeq(token, 1, SelectLastInSeq(token, LAMBDA s : ~ IsColon(s)))

PlaceOf(name) == SelectInSeq(Order, LAMBDA k : \E w \in Names[k] : name = <<w>>)

LEMMA Parsed ==
    ASSUME NEW line
    PROVE  LET place == PlaceOf(NameOf(UpTo(line, IsSpace)))
           IN  ParseTokens(line) =
                 IF place = 0 THEN NoCommand
                 ELSE [kind |-> Order[place],
                       arg |-> IF Order[place] \in WithArg
                               THEN Strip(After(line, IsSpace)) ELSE <<>>]
  BY DEF ParseTokens, NameOf, PlaceOf

LEMMA NameIs ==
    ASSUME NEW S, NEW token \in Seq(S), token # <<>>
    PROVE  /\ \A w : NameOf(token) = <<w>> => w = token[1]
           /\ ~ IsColon(token[1]) /\ (\A c \in 2 .. Len(token) : IsColon(token[c]))
                => NameOf(token) = <<token[1]>>
<1> DEFINE I == {i \in 1 .. Len(token) : ~ IsColon(token[i])}
<1>0. Len(token) \in Nat /\ 1 <= Len(token) /\ DOMAIN token = 1 .. Len(token)
  OBVIOUS
<1>1. NameOf(token) = SubSeq(token, 1, IF I # {} THEN Max(I) ELSE 0)
  BY DEF NameOf, SelectLastInSeq
<1>2. CASE I = {}
  <2>1. NameOf(token) = <<>> /\ IsColon(token[1])
    BY <1>0, <1>1, <1>2, SubSeqEmpty
  <2> QED
    BY <2>1
<1>3. CASE I # {}
  <2> DEFINE n == Max(I)
  <2>1. n \in 1 .. Len(token) /\ n \in I
    BY <1>0, <1>3, GreatestOfSome
  <2>2. NameOf(token) = SubSeq(token, 1, n)
    BY <1>1, <1>3
  <2>3. \A c \in 2 .. Len(token) : IsColon(token[c]) => n # c
    BY <2>1
  <2> HIDE DEF n
  <2>4. Len(NameOf(token)) = n /\ NameOf(token)[1] = token[1] /\ NameOf(token) \in Seq(S)
    BY <1>0, <2>1, <2>2
  <2>5. \A w : NameOf(token) = <<w>> => w = token[1]
    BY <2>4
  <2>6. n = 1 => NameOf(token) = <<token[1]>>
    BY <2>4
  <2> QED
    BY <1>0, <2>1, <2>3, <2>5, <2>6
<1> QED
  BY <1>2, <1>3

LEMMA PlaceIs ==
    ASSUME NEW w, NEW i \in DOMAIN Order, w \in Names[Order[i]],
           \A j \in 1 .. i - 1 : w \notin Names[Order[j]]
    PROVE  PlaceOf(<<w>>) = i
<1> DEFINE I == {j \in 1 .. Len(Order) : \E v \in Names[Order[j]] : <<w>> = <<v>>}
<1>0. Order \in Seq(DOMAIN Names)
  BY RouterAssumption DEF RouterAssumption
<1>1. PlaceOf(<<w>>) = IF I # {} THEN Min(I) ELSE 0
  BY DEF PlaceOf, SelectInSeq
<1>2. I \subseteq Int /\ i \in I /\ \A x \in I : i <= x
  BY <1>0
<1> HIDE DEF I
<1>3. Min(I) = i
  BY <1>2, LeastIs
<1> QED
  BY <1>1, <1>2, <1>3

LEMMA PlaceIsNone ==
    ASSUME NEW name, \A i \in DOMAIN Order : \A w \in Names[Order[i]] : name # <<w>>
    PROVE  PlaceOf(name) = 0
<1> DEFINE I == {j \in 1 .. Len(Order) : \E v \in Names[Order[j]] : name = <<v>>}
<1>0. Order \in Seq(DOMAIN Names)
  BY RouterAssumption DEF RouterAssumption
<1>1. PlaceOf(name) = IF I # {} THEN Min(I) ELSE 0
  BY DEF PlaceOf, SelectInSeq
<1>2. I = {}
  BY <1>0
<1> QED
  BY <1>1, <1>2

LEMMA TidyStaysWhole == ASSUME NEW line, Tidy(line) PROVE Strip(line) = line
<1>1. /\ line \in Seq(Range(line)) /\ Len(line) \in Nat /\ 1 <= Len(line)
      /\ ~ IsSpace(line[1]) /\ ~ IsSpace(line[Len(line)])
  BY DEF Tidy
<1>2. 1 \in DOMAIN line /\ Len(line) \in DOMAIN line
      /\ \A i \in DOMAIN line : ~ (i < 1 \/ i > Len(line))
  BY <1>1
<1>3. Strip(line) = SubSeq(line, 1, Len(line))
  BY <1>1, <1>2, StripIs
<1> QED
  BY <1>1, <1>3, SubSeqFull

LEMMA TidyEnd ==
    ASSUME NEW text, Tidy(text), NEW first \in 1 .. Len(text), ~ IsSpace(text[first])
    PROVE  Tidy(SubSeq(text, first, Len(text)))
<1> DEFINE line == SubSeq(text, first, Len(text))
<1>1. text \in Seq(Range(text)) /\ Len(text) \in Nat /\ first \in Nat
  BY DEF Tidy
<1>2. /\ line \in Seq(Range(text)) /\ Len(line) = Len(text) - first + 1
      /\ \A i \in 1 .. Len(line) : line[i] = text[first + i - 1]
  BY <1>1
<1> HIDE DEF line
<1>3. line \in Seq(Range(line))
  <2>1. \A i \in 1 .. Len(line) : line[i] \in Range(line)
    <3>1. DOMAIN line = 1 .. Len(line)
      BY <1>2
    <3> QED
      BY <3>1, Zenon DEF Range
  <2> QED
    BY <1>2, <2>1
<1>4. line # <<>> /\ line[1] = text[first] /\ line[Len(line)] = text[Len(text)]
  BY <1>1, <1>2
<1>5. ASSUME NEW i \in 2 .. Len(line) PROVE ~ (IsSpace(line[i - 1]) /\ IsSpace(line[i]))
  <2>1. first + i - 1 \in 2 .. Len(text) /\ i - 1 \in 1 .. Len(line)
    BY <1>1, <1>2
  <2>2. line[i] = text[first + i - 1] /\ line[i - 1] = text[(first + i - 1) - 1]
    BY <1>1, <1>2, <2>1
  <2> QED
    BY <2>1, <2>2 DEF Tidy
<1>6. ~ IsSpace(text[Len(text)])
  BY DEF Tidy
<1> QED
  BY <1>3, <1>4, <1>5, <1>6 DEF Tidy, line

LEMMA CommandIsParsed ==
    ASSUME NEW line, Tidy(line), NEW means, GivesCommand(line, means)
    PROVE  /\ ParseTokens(line) = means
           /\ means = [kind |-> means.kind, arg |-> means.arg] /\ means.kind \in DOMAIN Names
           /\ means.kind \notin WithArg => means.arg = <<>>
<1>1. PICK i \in DOMAIN Order, n \in DOMAIN line :
        /\ line[1] \in Names[Order[i]] /\ \A j \in 1 .. i - 1 : line[1] \notin Names[Order[j]]
        /\ \A c \in 2 .. n : IsColon(line[c])
        /\ n < Len(line) => IsSpace(line[n + 1])
        /\ means = [kind |-> Order[i],
                    arg |-> IF Order[i] \in WithArg THEN SubSeq(line, n + 2, Len(line)) ELSE <<>>]
  BY DEF GivesCommand
<1>2. /\ line \in Seq(Range(line)) /\ Len(line) \in Nat /\ n \in 1 .. Len(line)
      /\ Order[i] \in DOMAIN Names /\ i \in Nat /\ i # 0
      /\ ~ IsSpace(line[1]) /\ ~ IsColon(line[1])
  BY <1>1, RouterAssumption DEF RouterAssumption, Tidy, IsColon
<1>3. \A c \in 1 .. n : ~ IsSpace(line[c])
  <2>1. \A c \in 2 .. n : ~ IsSpace(line[c])
    BY <1>1 DEF IsSpace, IsColon, Space, Colon
  <2> QED
    BY <1>2, <2>1
<1> DEFINE token == SubSeq(line, 1, n)
<1>4. /\ UpTo(line, IsSpace) = token
      /\ After(line, IsSpace) = SubSeq(line, n + 2, Len(line))
  BY <1>1, <1>2, <1>3, SplitAtSpace
<1>5. /\ token \in Seq(Range(line)) /\ Len(token) = n
      /\ \A c \in 1 .. n : token[c] = line[c]
  BY <1>2
<1> HIDE DEF token
<1>6. NameOf(token) = <<line[1]>>
  <2>1. token # <<>> /\ token[1] = line[1] /\ \A c \in 2 .. Len(token) : IsColon(token[c])
    BY <1>1, <1>2, <1>5
  <2> QED
    BY <1>2, <1>5, <2>1, NameIs
<1>7. PlaceOf(NameOf(token)) = i
  BY <1>1, <1>6, PlaceIs
<1>8. Strip(SubSeq(line, n + 2, Len(line))) = SubSeq(line, n + 2, Len(line))
  <2>1. CASE n + 2 <= Len(line)
    <3>1. n + 2 \in 1 .. Len(line) /\ n + 2 \in 2 .. Len(line) /\ IsSpace(line[(n + 2) - 1])
      BY <1>1, <1>2, <2>1
    <3>2. ~ IsSpace(line[n + 2])
      BY <3>1 DEF Tidy
    <3> QED
      BY <3>1, <3>2, TidyEnd, TidyStaysWhole
  <2>2. CASE n + 2 > Len(line)
    <3>1. SubSeq(line, n + 2, Len(line)) = <<>>
      BY <1>2, <2>2, SubSeqEmpty
    <3> QED
      BY <3>1, StripOfNone
  <2> QED
    BY <1>2, <2>1, <2>2
<1>9. ParseTokens(line) = means
  BY <1>1, <1>2, <1>4, <1>7, <1>8, Parsed
<1> QED
  BY <1>1, <1>2, <1>9

LEMMA OtherIsParsed ==
    ASSUME NEW line, Tidy(line), NameFree(line) PROVE ParseTokens(line) = NoCommand
<1>1. line \in Seq(Range(line)) /\ Len(line) \in Nat /\ line # <<>> /\ ~ IsSpace(line[1])
  BY DEF Tidy
<1>2. PICK n \in DOMAIN line : /\ \A i \in 1 .. n : ~ IsSpace(line[i])
                               /\ n < Len(line) => IsSpace(line[n + 1])
  BY <1>1, FirstWord
<1> DEFINE token == SubSeq(line, 1, n)
<1>3. UpTo(line, IsSpace) = token
  BY <1>1, <1>2, SplitAtSpace
<1>4. token \in Seq(Range(line)) /\ token # <<>> /\ token[1] = line[1]
  BY <1>1
<1> HIDE DEF token
<1>5. \A i \in DOMAIN Order : \A w \in Names[Order[i]] : NameOf(token) # <<w>>
  BY <1>4, NameIs DEF NameFree
<1>6. PlaceOf(NameOf(token)) = 0
  BY <1>5, PlaceIsNone
<1> QED
  BY <1>3, <1>6, Parsed

LEMMA LineIsParsed ==
    ASSUME NEW line, Tidy(line), NEW means, LineMeans(line, means)
    PROVE  /\ ParseTokens(line) = means
           /\ means = [kind |-> means.kind, arg |-> means.arg]
           /\ means.kind \notin WithArg => means.arg = <<>>
  BY CommandIsParsed, OtherIsParsed DEF LineMeans, NoCommand

(* After a nickname and a colon there is a space or there is none.         *)
LEMMA BodyAfterNick ==
    ASSUME NEW text, Tidy(text), NEW c \in 2 .. Len(text) - 1, IsColon(text[c]),
           \A i \in 1 .. c - 1 : ~ IsColon(text[i])
    PROVE  LET first == IF IsSpace(text[c + 1]) THEN c + 2 ELSE c + 1
               line  == SubSeq(text, first, Len(text))
           IN  Tidy(line) /\ Body(text) = line /\ Body(text) # text
<1> DEFINE first == IF IsSpace(text[c + 1]) THEN c + 2 ELSE c + 1
           line  == SubSeq(text, first, Len(text))
           rest  == SubSeq(text, c + 1, Len(text))
<1>1. text \in Seq(Range(text)) /\ Len(text) \in Nat /\ ~ IsSpace(text[Len(text)])
  BY DEF Tidy
<1>2. first \in 2 .. Len(text) /\ ~ IsSpace(text[first]) /\ c + 1 \in 2 .. Len(text)
  <2>1. CASE IsSpace(text[c + 1])
    <3>1. c + 1 # Len(text)
      BY <1>1, <2>1
    <3>2. c + 2 \in 2 .. Len(text)
      BY <1>1, <3>1
    <3>3. ~ (IsSpace(text[(c + 2) - 1]) /\ IsSpace(text[c + 2]))
      BY <3>2 DEF Tidy
    <3>4. text[(c + 2) - 1] = text[c + 1]
      BY <1>1
    <3> QED
      BY <2>1, <3>2, <3>3, <3>4
  <2>2. CASE ~ IsSpace(text[c + 1])
    BY <1>1, <2>2
  <2> QED
    BY <2>1, <2>2
<1>3. After(text, IsColon) = rest
  <2>1. c \in DOMAIN text
    BY <1>1
  <2> QED
    BY <1>1, <2>1, AfterFirstColon
<1>4. Tidy(line)
  BY <1>1, <1>2, TidyEnd
<1>5. Strip(rest) = line
  <2>1. CASE ~ IsSpace(text[c + 1])
    BY <1>4, <2>1, TidyStaysWhole
  <2>2. CASE IsSpace(text[c + 1])
    <3>1. first = c + 2
      BY <2>2
    <3>2. /\ rest \in Seq(Range(text)) /\ Len(rest) = Len(text) - c
          /\ \A i \in 1 .. Len(rest) : rest[i] = text[c + i]
      BY <1>1
    <3>3. SubSeq(rest, 2, Len(rest)) = SubSeq(text, c + 2, Len(text))
      <4>1. /\ c + 1 \in 1 .. Len(text) /\ Len(text) \in 1 .. Len(text)
            /\ 2 \in 1 .. Len(text) - (c + 1) + 1
            /\ Len(rest) \in 1 .. Len(text) - (c + 1) + 1
            /\ (c + 1) + 2 - 1 = c + 2 /\ (c + 1) + Len(rest) - 1 = Len(text)
        BY <1>1, <1>2, <3>1, <3>2
      <4> QED
        BY <1>1, <4>1, SubSeqOfSubSeq
    <3> HIDE DEF rest
    <3>4. /\ 2 \in DOMAIN rest /\ Len(rest) \in DOMAIN rest
          /\ rest[1] = text[c + 1] /\ rest[2] = text[c + 2] /\ rest[Len(rest)] = text[Len(text)]
      BY <1>1, <1>2, <3>1, <3>2
    <3>5. \A i \in DOMAIN rest : i < 2 \/ i > Len(rest) => IsSpace(rest[i])
      BY <2>2, <3>2, <3>4
    <3>6. Strip(rest) = SubSeq(rest, 2, Len(rest))
      BY <1>1, <1>2, <3>1, <3>2, <3>4, <3>5, StripIs
    <3> QED
      BY <3>1, <3>3, <3>6
  <2> QED
    BY <2>1, <2>2
<1>6. line # <<>> /\ line # text
  <2> HIDE DEF first
  <2>1. Len(line) = Len(text) - first + 1
    BY <1>1, <1>2
  <2>2. Len(line) # Len(text) /\ Len(line) # 0
    BY <1>1, <1>2, <2>1
  <2> HIDE DEF line
  <2> QED
    BY <2>2
<1> HIDE DEF line, rest
<1>7. Body(text) = line
  BY <1>3, <1>5, <1>6 DEF Body
<1> QED
  BY <1>4, <1>6, <1>7 DEF line

LEMMA BodyWithoutColon ==
    ASSUME NEW text, Tidy(text), \A i \in DOMAIN text : ~ IsColon(text[i])
    PROVE  Body(text) = text
<1>1. {i \in 1 .. Len(text) : IsColon(text[i])} = {}
  BY DEF Tidy
<1>2. After(text, IsColon) = <<>>
  BY <1>1 DEF After, SelectInSeq
<1> QED
  BY <1>2, StripOfNone DEF Body

LEMMA MeantIsParsed ==
    ASSUME PeopleMeanWhatTheyWrite, NEW m \in Messages
    PROVE  /\ ParseIncoming(m.text) = m.means
           /\ m.means = [kind |-> m.means.kind, arg |-> m.means.arg]
           /\ m.means.kind \notin WithArg => m.means.arg = <<>>
<1> DEFINE text == Normalize(m.text)
<1>1. Tidy(text) /\ IF m.via = DM THEN SaidDirectly(text, m.means)
                                  ELSE SaidAfterNick(text, m.means)
  BY DEF PeopleMeanWhatTheyWrite
<1>2. ParseIncoming(m.text) = CASE ParseTokens(text).kind # "none" -> ParseTokens(text)
                                [] ParseTokens(text).kind = "none" /\ Body(text) # text
                                     -> ParseTokens(Body(text))
                                [] OTHER -> NoCommand
  BY DEF ParseIncoming
<1> HIDE DEF text
<1>3. "none" \notin DOMAIN Names /\ NoCommand.kind = "none" /\ NoCommand.arg = <<>>
      /\ NoCommand = [kind |-> NoCommand.kind, arg |-> NoCommand.arg]
  BY AnswersAssumption DEF AnswersAssumption, NoCommand
<1>4. CASE GivesCommand(text, m.means)
  <2>1. ParseTokens(text).kind # "none"
    BY <1>1, <1>3, <1>4, CommandIsParsed
  <2> QED
    BY <1>1, <1>2, <1>4, <2>1, CommandIsParsed
<1>5. CASE m.via = DM /\ ~ GivesCommand(text, m.means)
  <2>1. ParseTokens(text) = NoCommand /\ Body(text) = text /\ m.means = NoCommand
    BY <1>1, <1>5, OtherIsParsed, BodyWithoutColon DEF SaidDirectly
  <2> QED
    BY <1>2, <1>3, <2>1
<1>6. CASE m.via # DM
  <2>1. PICK c \in 2 .. Len(text) - 1 :
          /\ IsColon(text[c]) /\ \A i \in 1 .. c - 1 : ~ IsColon(text[i])
          /\ LET first == IF IsSpace(text[c + 1]) THEN c + 2 ELSE c + 1
             IN  LineMeans(SubSeq(text, first, Len(text)), m.means)
    BY <1>1, <1>6 DEF SaidAfterNick
  <2>2. Tidy(Body(text)) /\ LineMeans(Body(text), m.means) /\ Body(text) # text
    BY <1>1, <2>1, BodyAfterNick
  <2>3. ParseTokens(text) = NoCommand
    BY <1>1, <1>6, OtherIsParsed DEF SaidAfterNick
  <2> QED
    BY <1>2, <1>3, <2>2, <2>3, LineIsParsed
<1> QED
  BY <1>4, <1>5, <1>6

-----------------------------------------------------------------------------
(* A handler answers what is meant, and nothing is handled before the      *)
(* channels and those who may give a command are known.                    *)
Meant(m) ==
    IF Accepted(m) THEN [kind |-> reply.kind, arg |-> reply.arg] = m.means ELSE reply = NoReply

MeantInv == CommandAfterColon /\ (phase # "serving" => event = None)

LEMMA ChannelAnswerIsMeant ==
    ASSUME PeopleMeanWhatTheyWrite, NEW m \in Messages, NEW rows, m.via # DM,
           m.via \in lists.enabled, lists' = lists,
           reply' = AnswerOnChannel(m, ParseIncoming(m.text), rows)
    PROVE  Meant(m)'
<1> DEFINE parsed == ParseIncoming(m.text)
<1>1. parsed = m.means /\ m.means = [kind |-> m.means.kind, arg |-> m.means.arg]
      /\ (m.means.kind \notin WithArg => m.means.arg = <<>>)
  BY MeantIsParsed
<1> HIDE DEF parsed
<1>2. reply' = AnswerOnChannel(m, m.means, rows)
  BY <1>1 DEF parsed
<1>3. Accepted(m)' <=> ChannelAccepts(m.means.kind, m.via)
  BY DEF Accepted, ChannelAccepts, CommandAllowed
<1>4. CASE ~ ChannelAccepts(m.means.kind, m.via)
  BY <1>2, <1>3, <1>4 DEF AnswerOnChannel, Meant
<1>5. CASE ChannelAccepts(m.means.kind, m.via)
  <2>1. reply'.kind = m.means.kind /\ reply'.arg = m.means.arg
    BY <1>1, <1>2, <1>5 DEF AnswerOnChannel, AnswerNode, Reply, WithArg
  <2> QED
    BY <1>1, <1>3, <1>5, <2>1 DEF Meant
<1> QED
  BY <1>4, <1>5

LEMMA ContactAnswerIsMeant ==
    ASSUME PeopleMeanWhatTheyWrite, NEW m \in Messages, NEW rows, NEW device, m.via = DM,
           lists' = lists,
           reply' = AnswerContact(m, ParseIncoming(m.text), rows, device)
    PROVE  Meant(m)'
<1>1. ParseIncoming(m.text) = m.means /\ m.means = [kind |-> m.means.kind, arg |-> m.means.arg]
      /\ (m.means.kind \notin WithArg => m.means.arg = <<>>)
  BY MeantIsParsed
<1>2. reply' = AnswerContact(m, m.means, rows, device)
  BY <1>1
<1>3. Accepted(m)' <=> m.means.kind # "none"
  BY DEF Accepted
<1>4. CASE m.means.kind = "none"
  BY <1>2, <1>3, <1>4 DEF AnswerContact, Meant
<1>5. CASE m.means.kind # "none"
  <2>1. reply'.kind = m.means.kind /\ reply'.arg = m.means.arg
    BY <1>1, <1>2, <1>5 DEF AnswerContact, AnswerNode, Reply, WithArg
  <2> QED
    BY <1>1, <1>3, <1>5, <2>1 DEF Meant
<1> QED
  BY <1>4, <1>5

LEMMA HandledAsMeant ==
    ASSUME PeopleMeanWhatTheyWrite, Handle PROVE CommandAfterColon'
<1>1. CASE OnRxLogData
  BY <1>1 DEF OnRxLogData, Handled, CommandAfterColon
<1>2. CASE OnChannelMsg
  <2>1. PICK m \in Messages :
          /\ m.via # DM
          /\ \/ /\ m.via \in lists.enabled
                /\ \E rows \in RowsFor(ParseIncoming(m.text)) :
                     Handled([message |-> m, rows |-> rows],
                             AnswerOnChannel(m, ParseIncoming(m.text), rows))
             \/ /\ m.via \notin lists.enabled
                /\ Handled([message |-> m], NoReply)
    BY <1>2 DEF OnChannelMsg
  <2>2. event'.message = m /\ lists' = lists
    BY <2>1 DEF Handled
  <2>3. CASE m.via \in lists.enabled
    BY <2>1, <2>2, <2>3, ChannelAnswerIsMeant DEF Handled, CommandAfterColon, Meant
  <2>4. CASE m.via \notin lists.enabled
    <3>1. reply' = NoReply /\ ~ Accepted(m)'
      BY <2>1, <2>2, <2>4 DEF Handled, Accepted
    <3> QED
      BY <2>2, <3>1 DEF CommandAfterColon
  <2> QED
    BY <2>3, <2>4
<1>3. CASE OnContactMsg
  <2>1. PICK m \in Messages : m.via = DM
          /\ \E rows \in RowsFor(ParseIncoming(m.text)), device \in DevicesFor(ParseIncoming(m.text)) :
               Handled([message |-> m, rows |-> rows, device |-> device],
                       AnswerContact(m, ParseIncoming(m.text), rows, device))
    BY <1>3 DEF OnContactMsg
  <2>2. PICK rows \in RowsFor(ParseIncoming(m.text)) : \E device :
          /\ event' = [message |-> m, rows |-> rows, device |-> device] /\ lists' = lists
          /\ reply' = AnswerContact(m, ParseIncoming(m.text), rows, device)
    BY <2>1 DEF Handled
  <2>3. event'.message = m /\ Meant(m)'
    BY <2>1, <2>2, ContactAnswerIsMeant
  <2> QED
    BY <2>3 DEF CommandAfterColon, Meant
<1> QED
  BY <1>1, <1>2, <1>3 DEF Handle

(* README.md:88, router.py:123: a command written in any of the forms      *)
(* people use, with the name of its sender before it on a channel or none, *)
(* is the one that is carried out, with what it is about; and a line that  *)
(* is no command, or may not be given there, is left without an answer.    *)
THEOREM CommandsAreUnderstood ==
    ASSUME PeopleMeanWhatTheyWrite
    PROVE  Spec => []CommandAfterColon
<1>1. Init => MeantInv
  BY DEF Init, MeantInv, CommandAfterColon
<1>2. MeantInv /\ [Next]_vars => MeantInv'
  <2> SUFFICES ASSUME MeantInv, [Next]_vars PROVE MeantInv'
    OBVIOUS
  <2>1. CASE Handle
    <3>1. phase = "serving" /\ phase' = phase
      BY <2>1 DEF Handle, OnRxLogData, OnChannelMsg, OnContactMsg, Handled
    <3> QED
      BY <2>1, <3>1, HandledAsMeant DEF MeantInv
  <2>2. CASE LoadConfig \/ Serve
    <3>1. event' = None
      BY <2>2 DEF LoadConfig, Serve, MeantInv
    <3> QED
      BY <3>1 DEF MeantInv, CommandAfterColon
  <2>3. CASE Done
    BY <2>3 DEF Done, MeantInv, CommandAfterColon
  <2>4. CASE Refused \/ UNCHANGED vars
    BY <2>4 DEF Refused, vars, MeantInv, CommandAfterColon, Accepted, ChannelAccepts,
                CommandAllowed
  <2> QED
    BY <2>1, <2>2, <2>3, <2>4 DEF Next
<1>3. MeantInv => CommandAfterColon
  BY DEF MeantInv
<1> QED
  BY <1>1, <1>2, <1>3, PTL DEF Spec
=============================================================================
