------------------------------- MODULE Weather -------------------------------
(***************************************************************************)
(* fetch_weather_payload and the cache that all requests share.  Each      *)
(* request is a handler task.  The lock around the cache is never held     *)
(* over an await, so looking up and storing are parts of the step they     *)
(* happen in; what other tasks do meanwhile happens while a provider is    *)
(* asked.                                                                  *)
(***************************************************************************)
EXTENDS WeatherProviders, Integers, Sequences

CONSTANTS
    Requests,
    City,       \* what each request asks for, normalised as the cache key is
    UseCache,   \* a weather command does, a time command does not
    Primary,    \* weather.provider after _norm
    Fallback,   \* weather.fallback_provider after _norm; "": none
    Ttl,        \* weather.cache_ttl_minutes; 0: no cache
    MaxFetch,   \* the longest a provider takes
    MaxTime     \* bound: the horizon

Providers ==
    IF Fallback \in {"", Primary} THEN <<Primary>> ELSE <<Primary, Fallback>>

ASSUME WeatherAssumption ==
    /\ UseCache \in [Requests -> BOOLEAN]
    /\ DOMAIN City = Requests
    /\ {Primary, Fallback} \subseteq DOMAIN Reports \cup {""}
    /\ Primary # ""
    /\ Ttl \in Nat /\ MaxFetch \in Nat

VARIABLES
    now,     \* time.monotonic()
    cache,   \* _weather_cache: [key -> [exp, asOf]]
    pc,      \* where each request is
    errors,  \* what the providers asked so far reported
    began,   \* when the current one was asked
    answer   \* what the user is told, and how old it is

vars == <<now, cache, pc, errors, began, answer>>

NoAnswer == [what |-> "none", age |-> 0]

Init ==
    /\ now = 0
    /\ cache = [k \in {} |-> [exp |-> 0, asOf |-> 0]]
    /\ pc = [r \in Requests |-> "idle"]
    /\ errors = [r \in Requests |-> <<>>]
    /\ began = [r \in Requests |-> 0]
    /\ answer = [r \in Requests |-> NoAnswer]

-----------------------------------------------------------------------------
Key(r, p) == <<p, City[r]>>

Live(k) == k \in DOMAIN cache /\ cache[k].exp > now

(* _weather_prune_expired. *)
Unexpired == [k \in {x \in DOMAIN cache : cache[x].exp > now} |-> cache[k]]

Caching(r) == UseCache[r] /\ Ttl > 0

Answered(r, what, age) ==
    /\ pc' = [pc EXCEPT ![r] = "done"]
    /\ answer' = [answer EXCEPT ![r] = [what |-> what, age |-> age]]
    /\ began' = [began EXCEPT ![r] = 0]

(* The head of the loop over the providers: the cache, or the provider.    *)
Try(r, p) ==
    /\ IF Caching(r) /\ Live(Key(r, p))
       THEN Answered(r, "weather", now - cache[Key(r, p)].asOf)
       ELSE /\ pc' = [pc EXCEPT ![r] = "asking"]
            /\ began' = [began EXCEPT ![r] = now]
            /\ UNCHANGED answer
    /\ cache' = IF Caching(r) THEN Unexpired ELSE cache

Ask(r) ==
    /\ pc[r] = "idle"
    /\ Try(r, Providers[1])
    /\ UNCHANGED <<now, errors>>

Provider(r) == Providers[Len(errors[r]) + 1]

(* Faults: a stored line never expires, or its two times change places.    *)
StoreForever(r) ==
    cache' = IF Caching(r)
             THEN [k \in DOMAIN Unexpired \cup {Key(r, Provider(r))} |->
                     IF k = Key(r, Provider(r))
                     THEN [exp |-> now + Ttl + MaxTime, asOf |-> began[r]]
                     ELSE cache[k]]
             ELSE cache

StoreSwapped(r) ==
    cache' = IF Caching(r)
             THEN [k \in DOMAIN Unexpired \cup {Key(r, Provider(r))} |->
                     IF k = Key(r, Provider(r))
                     THEN [exp |-> began[r], asOf |-> now + Ttl]
                     ELSE cache[k]]
             ELSE cache

(* The provider reported the weather as it was at some time since asked.   *)
Store(r) ==
    cache' = IF Caching(r)
             THEN [k \in DOMAIN Unexpired \cup {Key(r, Provider(r))} |->
                     IF k = Key(r, Provider(r))
                     THEN [exp |-> now + Ttl, asOf |-> began[r]]
                     ELSE cache[k]]
             ELSE cache

Succeeded(r) ==
    /\ pc[r] = "asking"
    /\ "ok" \in Reports[Provider(r)]
    /\ Store(r)
    /\ Answered(r, "weather", now - began[r])
    /\ UNCHANGED <<now, errors>>

(* The verdict when every provider has failed.                             *)
Verdict(errs) ==
    IF \A i \in DOMAIN errs : errs[i] = "city_not_found" THEN "not_found_anywhere"
    ELSE IF \A i \in DOMAIN errs : errs[i] = "not_configured" THEN "no_providers"
    ELSE "last_error"

(* Faults: the fallback is not tried, or after it the first one again.     *)
FailedAtOnce(r) ==
    /\ pc[r] = "asking"
    /\ \E e \in Reports[Provider(r)] \ {"ok", "raised"} :
         LET errs == Append(errors[r], e) IN
         /\ errors' = [errors EXCEPT ![r] = errs]
         /\ Answered(r, Verdict(errs), 0)
    /\ UNCHANGED <<now, cache>>

FailedAgain(r) ==
    /\ pc[r] = "asking"
    /\ \E e \in Reports[Provider(r)] \ {"ok", "raised"} :
         errors' = [errors EXCEPT ![r] = IF Len(@) + 1 < Len(Providers) THEN <<e>> ELSE <<>>]
    /\ Try(r, Providers[Len(errors'[r]) + 1])
    /\ UNCHANGED now

Failed(r) ==
    /\ pc[r] = "asking"
    /\ \E e \in Reports[Provider(r)] \ {"ok", "raised"} :
         LET errs == Append(errors[r], e) IN
         /\ errors' = [errors EXCEPT ![r] = errs]
         /\ IF Len(errs) < Len(Providers)
            THEN Try(r, Providers[Len(errs) + 1])
            ELSE Answered(r, Verdict(errs), 0) /\ UNCHANGED cache
    /\ UNCHANGED now

(* An exception that the provider does not handle ends the handler.        *)
Raised(r) ==
    /\ pc[r] = "asking"
    /\ "raised" \in Reports[Provider(r)]
    /\ pc' = [pc EXCEPT ![r] = "raised"]
    /\ UNCHANGED <<now, cache, errors, began, answer>>

Tick ==
    /\ now < MaxTime
    /\ \A r \in Requests : pc[r] = "asking" => now < began[r] + MaxFetch
    /\ now' = now + 1
    /\ UNCHANGED <<cache, pc, errors, began, answer>>

(* The horizon of a bounded run. *)
Horizon == now = MaxTime /\ UNCHANGED vars

Next ==
    \/ \E r \in Requests : Ask(r) \/ Succeeded(r) \/ Failed(r) \/ Raised(r)
    \/ Tick
    \/ Horizon

Spec == Init /\ [][Next]_vars

(* Every HTTP request has a timeout.                                       *)
FairSpec ==
    Spec /\ \A r \in Requests : WF_vars(Succeeded(r) \/ Failed(r) \/ Raised(r))

-----------------------------------------------------------------------------
TypeOK ==
    /\ now \in Nat
    /\ \A k \in DOMAIN cache : cache[k].exp \in Nat /\ cache[k].asOf \in 0 .. now
    /\ pc \in [Requests -> {"idle", "asking", "done", "raised"}]
    /\ \A r \in Requests : Len(errors[r]) <= Len(Providers)
    /\ began \in [Requests -> Nat]
    /\ \A r \in Requests : answer[r].age \in Nat

(* config.example.yaml:78: a weather line is at most the cache time and    *)
(* one fetch old, in whatever order slow and quick fetches of several      *)
(* tasks store theirs.  A time command, or one without a cache, is told    *)
(* nothing older than a fetch.                                             *)
AnswersAreRecent ==
    \A r \in Requests : answer[r].what = "weather" =>
        answer[r].age <= IF Caching(r) THEN Ttl + MaxFetch ELSE MaxFetch

(* README.md:15,131: if the first provider fails the fallback is tried; no *)
(* user is left without the weather before both were asked.                *)
FallbackIsTried ==
    \A r \in Requests :
        pc[r] \in {"done", "raised"} /\ answer[r].what # "weather" =>
            \/ Len(errors[r]) = Len(Providers)
            \/ pc[r] = "raised" /\ Len(errors[r]) + 1 = Len(Providers)

(* No request is left waiting: each provider answers within its timeouts   *)
(* and is asked once, whatever the others have in the cache meanwhile.     *)
EveryRequestEnds == \A r \in Requests : pc[r] = "asking" ~> pc[r] \in {"done", "raised"}
=============================================================================
