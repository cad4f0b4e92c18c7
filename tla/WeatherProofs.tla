---------------------------- MODULE WeatherProofs ----------------------------
(***************************************************************************)
(* Theorems about Weather, for any number of requests and cities, any two  *)
(* providers, and any times.                                               *)
(***************************************************************************)
EXTENDS Weather, SequenceTheorems, TLAPS

Errors == UNION {Reports[p] : p \in DOMAIN Reports}
Told == {"none", "weather", "not_found_anywhere", "no_providers", "last_error"}
Places == {"idle", "asking", "done", "raised"}

(* What TypeOK leaves open of the shape of the variables.                  *)
Shapes ==
    /\ errors \in [Requests -> Seq(Errors)]
    /\ answer \in [Requests -> [what : Told, age : Nat]]

(* A provider that is being asked is the next one, and was asked not long  *)
(* ago; nothing was asked for an idle request.                             *)
AskedInTurn ==
    \A r \in Requests :
        /\ pc[r] = "idle" => errors[r] = <<>>
        /\ pc[r] = "asking" =>
             /\ Len(errors[r]) < Len(Providers)
             /\ began[r] <= now /\ now <= began[r] + MaxFetch

(* Nothing is kept for longer than the cache time after it was fetched,    *)
(* which may be one fetch after what it tells of.                          *)
CacheSound == \A k \in DOMAIN cache : cache[k].exp <= cache[k].asOf + Ttl + MaxFetch

(* Who is told of a failure is told of the failure of every provider.      *)
AllHaveFailed ==
    \A r \in Requests :
        pc[r] = "done" /\ answer[r].what # "weather" => Len(errors[r]) = Len(Providers)

WeatherInv ==
    TypeOK /\ Shapes /\ AskedInTurn /\ CacheSound /\ AllHaveFailed /\ AnswersAreRecent

-----------------------------------------------------------------------------
(* The SMT solver cannot read the empty string, which stands for no second *)
(* provider: facts with it are left to Zenon.                              *)
LEMMA Numbers == Ttl \in Nat /\ MaxFetch \in Nat
  BY Zenon, WeatherAssumption

LEMMA OneProvider == Fallback \in {"", Primary} => Providers = <<Primary>>
  BY Zenon DEF Providers

LEMMA TwoProviders == Fallback \notin {"", Primary} => Providers = <<Primary, Fallback>>
  BY Zenon DEF Providers

LEMMA ProvidersFacts ==
  /\ Len(Providers) \in {1, 2}
  /\ \A i \in 1 .. Len(Providers) : Providers[i] \in DOMAIN Reports
<1>1. Primary \in DOMAIN Reports
  BY Zenon, WeatherAssumption
<1>2. CASE Fallback \in {"", Primary}
  <2>1. Providers = <<Primary>>
    BY <1>2, OneProvider
  <2> QED
    BY <1>1, <2>1
<1>3. CASE Fallback \notin {"", Primary}
  <2>1. Providers = <<Primary, Fallback>>
    BY <1>3, TwoProviders
  <2>2. Fallback \in DOMAIN Reports
    BY Zenon, <1>3, WeatherAssumption
  <2> QED
    BY <1>1, <2>1, <2>2
<1> QED
  BY <1>2, <1>3

LEMMA VerdictFacts == \A errs : Verdict(errs) \in Told \ {"none", "weather"}
  BY DEF Verdict, Told

LEMMA InitWeather == Init => WeatherInv
<1> USE Numbers, ProvidersFacts
<1> SUFFICES ASSUME Init PROVE WeatherInv
  OBVIOUS
<1>1. TypeOK
  BY DEF Init, TypeOK, NoAnswer
<1>2. Shapes
  BY DEF Init, Shapes, NoAnswer, Told
<1>3. AskedInTurn /\ CacheSound /\ AllHaveFailed /\ AnswersAreRecent
  BY DEF Init, AskedInTurn, CacheSound, AllHaveFailed, AnswersAreRecent, NoAnswer
<1> QED
  BY <1>1, <1>2, <1>3 DEF WeatherInv

(* A provider's turn: either what the cache has is still good, or it is    *)
(* asked now.  The cache loses what has expired and gains nothing.         *)
LEMMA TryFacts ==
  ASSUME WeatherInv, NEW r \in Requests, NEW p, Try(r, p)
  PROVE  /\ DOMAIN cache' \subseteq DOMAIN cache
         /\ \A k \in DOMAIN cache' : cache'[k] = cache[k]
         /\ \/ /\ pc' = [pc EXCEPT ![r] = "asking"]
               /\ began' = [began EXCEPT ![r] = now]
               /\ answer' = answer
            \/ /\ pc' = [pc EXCEPT ![r] = "done"]
               /\ began' = [began EXCEPT ![r] = 0]
               /\ Caching(r)
               /\ \E age \in Nat :
                    /\ age <= Ttl + MaxFetch
                    /\ answer' = [answer EXCEPT ![r] = [what |-> "weather", age |-> age]]
<1> USE Numbers
<1>0. TypeOK /\ CacheSound
  BY DEF WeatherInv
<1>1. DOMAIN cache' \subseteq DOMAIN cache /\ \A k \in DOMAIN cache' : cache'[k] = cache[k]
  BY DEF Try, Unexpired
<1>2. CASE Caching(r) /\ Live(Key(r, p))
  <2> DEFINE k == Key(r, p)
             age == now - cache[k].asOf
  <2>1. k \in DOMAIN cache /\ cache[k].exp > now
    BY <1>2 DEF Live
  <2>2. cache[k].exp \in Nat /\ cache[k].asOf \in 0 .. now /\ now \in Nat
    BY <1>0, <2>1 DEF TypeOK
  <2>3. cache[k].exp <= cache[k].asOf + Ttl + MaxFetch
    BY <1>0, <2>1 DEF CacheSound
  <2>4. age \in Nat /\ age <= Ttl + MaxFetch
    BY <2>1, <2>2, <2>3
  <2> QED
    BY <1>1, <1>2, <2>4 DEF Try, Answered
<1>3. CASE ~ (Caching(r) /\ Live(Key(r, p)))
  BY <1>1, <1>3 DEF Try
<1> QED
  BY <1>2, <1>3

(* A request is answered, or its next provider is asked, while the cache   *)
(* keeps what it had: no other request is concerned.                       *)
LEMMA TurnWeather ==
  ASSUME WeatherInv, NEW r \in Requests, NEW p, Try(r, p), UNCHANGED now,
         errors' \in [Requests -> Seq(Errors)],
         \A q \in Requests \ {r} : errors'[q] = errors[q],
         Len(errors'[r]) < Len(Providers)
  PROVE  WeatherInv'
<1> USE Numbers
<1>0. TypeOK /\ Shapes /\ AskedInTurn /\ CacheSound /\ AllHaveFailed /\ AnswersAreRecent
  BY DEF WeatherInv
<1>1. /\ DOMAIN cache' \subseteq DOMAIN cache
      /\ \A k \in DOMAIN cache' : cache'[k] = cache[k]
  BY TryFacts
<1>2. CacheSound' /\ \A k \in DOMAIN cache' : cache'[k].exp \in Nat /\ cache'[k].asOf \in 0 .. now
  BY <1>0, <1>1 DEF CacheSound, TypeOK
<1>3. \A q \in Requests : Len(errors'[q]) <= Len(Providers)
  <2>1. Len(errors'[r]) \in Nat /\ Len(Providers) \in Nat
    BY ProvidersFacts
  <2>2. \A q \in Requests \ {r} : Len(errors'[q]) <= Len(Providers)
    BY <1>0 DEF TypeOK
  <2>3. Len(errors'[r]) <= Len(Providers)
    BY <2>1
  <2> QED
    BY <2>2, <2>3
<1>4. CASE /\ pc' = [pc EXCEPT ![r] = "asking"]
           /\ began' = [began EXCEPT ![r] = now]
           /\ answer' = answer
  <2>1. TypeOK' /\ Shapes'
    BY <1>0, <1>2, <1>3, <1>4 DEF TypeOK, Shapes
  <2>2. AskedInTurn'
    BY <1>0, <1>4 DEF AskedInTurn, TypeOK
  <2>3. AllHaveFailed' /\ AnswersAreRecent'
    BY <1>0, <1>4 DEF AllHaveFailed, AnswersAreRecent, Caching, TypeOK
  <2> QED
    BY <1>2, <2>1, <2>2, <2>3 DEF WeatherInv
<1>5. CASE /\ pc' = [pc EXCEPT ![r] = "done"]
           /\ began' = [began EXCEPT ![r] = 0]
           /\ Caching(r)
           /\ \E age \in Nat :
                /\ age <= Ttl + MaxFetch
                /\ answer' = [answer EXCEPT ![r] = [what |-> "weather", age |-> age]]
  <2>1. PICK age \in Nat :
          /\ age <= Ttl + MaxFetch
          /\ answer' = [answer EXCEPT ![r] = [what |-> "weather", age |-> age]]
    BY <1>5
  <2>2. answer' \in [Requests -> [what : Told, age : Nat]]
    BY <1>0, <2>1 DEF Shapes, Told
  <2>3. TypeOK' /\ Shapes'
    BY <1>0, <1>2, <1>3, <1>5, <2>2 DEF TypeOK, Shapes
  <2>4. AskedInTurn'
    BY <1>0, <1>5 DEF AskedInTurn, TypeOK
  <2>5. AllHaveFailed' /\ AnswersAreRecent'
    BY <1>0, <1>5, <2>1 DEF AllHaveFailed, AnswersAreRecent, Caching, TypeOK, Shapes
  <2> QED
    BY <1>2, <2>3, <2>4, <2>5 DEF WeatherInv
<1> QED
  BY <1>4, <1>5, TryFacts

LEMMA AskWeather ==
  ASSUME WeatherInv, NEW r \in Requests, Ask(r) PROVE WeatherInv'
<1>1. errors[r] = <<>> /\ errors \in [Requests -> Seq(Errors)]
  BY DEF Ask, WeatherInv, AskedInTurn, Shapes
<1>2. Len(errors[r]) = 0
  BY <1>1
<1>3. errors' = errors /\ now' = now /\ Try(r, Providers[1])
  BY DEF Ask
<1>4. Len(errors'[r]) < Len(Providers)
  BY <1>2, <1>3, ProvidersFacts
<1> QED
  BY <1>1, <1>3, <1>4, TurnWeather

(* What comes last is stored with the times of its own fetch.              *)
LEMMA SucceededWeather ==
  ASSUME WeatherInv, NEW r \in Requests, Succeeded(r) PROVE WeatherInv'
<1> USE Numbers
<1>0. TypeOK /\ Shapes /\ AskedInTurn /\ CacheSound /\ AllHaveFailed /\ AnswersAreRecent
  BY DEF WeatherInv
<1>1. /\ now \in Nat /\ began[r] \in Nat
      /\ began[r] <= now /\ now <= began[r] + MaxFetch
  BY <1>0 DEF Succeeded, AskedInTurn, TypeOK
<1>2. /\ now' = now /\ errors' = errors
      /\ pc' = [pc EXCEPT ![r] = "done"]
      /\ began' = [began EXCEPT ![r] = 0]
      /\ answer' = [answer EXCEPT ![r] = [what |-> "weather", age |-> now - began[r]]]
  BY DEF Succeeded, Answered
<1>3. \A k \in DOMAIN cache' :
        \/ k \in DOMAIN cache /\ cache'[k] = cache[k]
        \/ cache'[k] = [exp |-> now + Ttl, asOf |-> began[r]]
  <2>1. CASE Caching(r)
    BY <2>1 DEF Succeeded, Store, Unexpired
  <2>2. CASE ~ Caching(r)
    BY <2>2 DEF Succeeded, Store
  <2> QED
    BY <2>1, <2>2
<1>4. \A k \in DOMAIN cache' :
        /\ cache'[k].exp \in Nat /\ cache'[k].asOf \in 0 .. now
        /\ cache'[k].exp <= cache'[k].asOf + Ttl + MaxFetch
  BY <1>0, <1>1, <1>3 DEF TypeOK, CacheSound
<1>5. now - began[r] \in Nat /\ now - began[r] <= MaxFetch
  BY <1>1
<1>6. answer' \in [Requests -> [what : Told, age : Nat]]
  BY <1>0, <1>2, <1>5 DEF Shapes, Told
<1>7. TypeOK' /\ Shapes'
  BY <1>0, <1>2, <1>4, <1>6 DEF TypeOK, Shapes
<1>8. AskedInTurn' /\ CacheSound'
  BY <1>0, <1>2, <1>4 DEF AskedInTurn, CacheSound, TypeOK
<1>9. AllHaveFailed'
  BY <1>0, <1>2 DEF AllHaveFailed, TypeOK, Shapes
<1>10. AnswersAreRecent'
  BY <1>0, <1>2, <1>5 DEF AnswersAreRecent, Caching, Shapes
<1> QED
  BY <1>7, <1>8, <1>9, <1>10 DEF WeatherInv

LEMMA FailedWeather ==
  ASSUME WeatherInv, NEW r \in Requests, Failed(r) PROVE WeatherInv'
<1> USE Numbers
<1>0. TypeOK /\ Shapes /\ AskedInTurn /\ CacheSound /\ AllHaveFailed /\ AnswersAreRecent
  BY DEF WeatherInv
<1>1. /\ errors[r] \in Seq(Errors) /\ Len(errors[r]) \in Nat
      /\ Len(errors[r]) < Len(Providers) /\ Len(Providers) \in Nat
  BY <1>0, ProvidersFacts DEF Failed, AskedInTurn, Shapes
<1>2. Provider(r) \in DOMAIN Reports
  BY <1>1, ProvidersFacts DEF Provider
<1>3. PICK e \in Reports[Provider(r)] \ {"ok", "raised"} :
        /\ errors' = [errors EXCEPT ![r] = Append(errors[r], e)]
        /\ IF Len(Append(errors[r], e)) < Len(Providers)
           THEN Try(r, Providers[Len(Append(errors[r], e)) + 1])
           ELSE Answered(r, Verdict(Append(errors[r], e)), 0) /\ UNCHANGED cache
  BY DEF Failed
<1> DEFINE errs == Append(errors[r], e)
<1>4. e \in Errors
  BY <1>2, <1>3 DEF Errors
<1>5. errs \in Seq(Errors) /\ Len(errs) = Len(errors[r]) + 1
  BY <1>1, <1>4, AppendProperties
<1>6. /\ errors' \in [Requests -> Seq(Errors)] /\ errors'[r] = errs
      /\ \A q \in Requests \ {r} : errors'[q] = errors[q]
      /\ now' = now
  BY <1>0, <1>3, <1>5 DEF Shapes, Failed
<1>7. CASE Len(errs) < Len(Providers)
  BY <1>3, <1>6, <1>7, TurnWeather
<1>8. CASE ~ (Len(errs) < Len(Providers))
  <2>1. /\ pc' = [pc EXCEPT ![r] = "done"]
        /\ began' = [began EXCEPT ![r] = 0]
        /\ answer' = [answer EXCEPT ![r] = [what |-> Verdict(errs), age |-> 0]]
        /\ cache' = cache
    BY <1>3, <1>8 DEF Answered
  <2>2. Len(errors'[r]) = Len(Providers)
    BY <1>1, <1>5, <1>6, <1>8
  <2>3. Verdict(errs) \in Told /\ Verdict(errs) # "weather"
    BY VerdictFacts
  <2> HIDE DEF errs
  <2>4. answer' \in [Requests -> [what : Told, age : Nat]]
    BY <1>0, <2>1, <2>3 DEF Shapes
  <2>5. \A q \in Requests : Len(errors'[q]) <= Len(Providers)
    <3>1. \A q \in Requests \ {r} : Len(errors'[q]) <= Len(Providers)
      BY <1>0, <1>6 DEF TypeOK
    <3>2. Len(errors'[r]) <= Len(Providers)
      BY <1>1, <2>2
    <3> QED
      BY <3>1, <3>2
  <2>6. TypeOK' /\ Shapes'
    BY <1>0, <1>6, <2>1, <2>4, <2>5 DEF TypeOK, Shapes
  <2>7. AskedInTurn' /\ CacheSound'
    BY <1>0, <1>6, <2>1 DEF AskedInTurn, CacheSound, TypeOK
  <2>8. AllHaveFailed'
    BY <1>0, <1>6, <2>1, <2>2 DEF AllHaveFailed, TypeOK, Shapes
  <2>9. AnswersAreRecent'
    BY <1>0, <2>1, <2>3 DEF AnswersAreRecent, Caching, Shapes
  <2> QED
    BY <2>6, <2>7, <2>8, <2>9 DEF WeatherInv
<1> QED
  BY <1>7, <1>8

LEMMA RestWeather ==
  ASSUME WeatherInv, (\E r \in Requests : Raised(r)) \/ Tick \/ UNCHANGED vars PROVE WeatherInv'
<1> USE Numbers
<1>0. TypeOK /\ Shapes /\ AskedInTurn /\ CacheSound /\ AllHaveFailed /\ AnswersAreRecent
  BY DEF WeatherInv
<1>1. ASSUME NEW r \in Requests, Raised(r) PROVE WeatherInv'
  <2>1. TypeOK' /\ Shapes' /\ AskedInTurn' /\ CacheSound'
    BY <1>0, <1>1 DEF Raised, TypeOK, Shapes, AskedInTurn, CacheSound
  <2>2. AllHaveFailed' /\ AnswersAreRecent'
    BY <1>0, <1>1 DEF Raised, AllHaveFailed, AnswersAreRecent, Caching, TypeOK
  <2> QED
    BY <2>1, <2>2 DEF WeatherInv
<1>2. CASE Tick
  <2>1. /\ now' = now + 1 /\ UNCHANGED <<cache, pc, errors, began, answer>>
        /\ \A r \in Requests : pc[r] = "asking" => now < began[r] + MaxFetch
    BY <1>2 DEF Tick
  <2>2. TypeOK' /\ Shapes'
    BY <1>0, <2>1 DEF TypeOK, Shapes
  <2>3. AskedInTurn' /\ CacheSound'
    BY <1>0, <2>1 DEF AskedInTurn, CacheSound, TypeOK
  <2>4. AllHaveFailed' /\ AnswersAreRecent'
    BY <1>0, <2>1 DEF AllHaveFailed, AnswersAreRecent, Caching
  <2> QED
    BY <2>2, <2>3, <2>4 DEF WeatherInv
<1>3. CASE UNCHANGED vars
  <2>1. TypeOK' /\ Shapes' /\ AskedInTurn' /\ CacheSound'
    BY <1>0, <1>3 DEF vars, TypeOK, Shapes, AskedInTurn, CacheSound
  <2>2. AllHaveFailed' /\ AnswersAreRecent'
    BY <1>0, <1>3 DEF vars, AllHaveFailed, AnswersAreRecent, Caching
  <2> QED
    BY <2>1, <2>2 DEF WeatherInv
<1> QED
  BY <1>1, <1>2, <1>3

LEMMA StepWeather == WeatherInv /\ [Next]_vars => WeatherInv'
  BY AskWeather, SucceededWeather, FailedWeather, RestWeather DEF Next, Horizon

LEMMA InvariantWeather == Spec => []WeatherInv
  BY InitWeather, StepWeather, PTL DEF Spec

-----------------------------------------------------------------------------
(* The variables keep their types: no line in the cache is of the future,  *)
(* and no request asks more providers than there are.                      *)
THEOREM TypeCorrect == Spec => []TypeOK
<1>1. WeatherInv => TypeOK
  BY DEF WeatherInv
<1> QED
  BY <1>1, InvariantWeather, PTL

(* No answer is older than the cache time and one fetch, whichever of two  *)
(* fetches of a city stores its line last.                                 *)
THEOREM AnswersStayRecent == Spec => []AnswersAreRecent
<1>1. WeatherInv => AnswersAreRecent
  BY DEF WeatherInv
<1> QED
  BY <1>1, InvariantWeather, PTL

-----------------------------------------------------------------------------
(* No service gives a word for a number.                                   *)
NumbersAreNumbers == "odd" \notin Http

(* No exception escapes from these providers then.                         *)
Quiet == {"openmeteo", "meteostat_rapidapi", "wttr", "unsupported"}

LEMMA QuietProviders ==
    ASSUME NumbersAreNumbers PROVE \A p \in Quiet : "raised" \notin Reports[p]
<1>1. \A a \in Http : Located(a) # "raised" /\ Shown(a) # "raised" /\ WttrOnce(a) # "raised"
  BY DEF Located, Complete, Shown, WttrOnce, NumbersAreNumbers
<1>2. \A a, b \in Http : GeocodeCity(a, b) # "raised" /\ Wttr(a, b) # "raised"
  BY <1>1 DEF GeocodeCity, Wttr
<1>3. \A a, b, f \in Http : OpenMeteo(a, b, f) # "raised"
  BY <1>1, <1>2 DEF OpenMeteo, AfterGeocode
<1>4. \A k \in BOOLEAN, a, b, n, h \in Http : MeteostatRapidApi(k, a, b, n, h) # "raised"
  BY <1>1, <1>2 DEF MeteostatRapidApi, AfterGeocode
<1>5. "raised" \notin Reports["openmeteo"]
  BY <1>3 DEF Reports
<1>6. "raised" \notin Reports["meteostat_rapidapi"]
  BY <1>4 DEF Reports
<1>7. "raised" \notin Reports["wttr"]
  BY <1>2 DEF Reports
<1>8. "raised" \notin Reports["unsupported"]
  BY DEF Reports
<1> QED
  BY <1>5, <1>6, <1>7, <1>8 DEF Quiet

(* If one escapes, it is from the last provider.                           *)
RaisedLast ==
    \A r \in Requests : pc[r] = "raised" => Len(errors[r]) + 1 = Len(Providers)

(* There is only one provider, or no exception escapes from the first.    *)
QuietFirst == Fallback \in {"", Primary} \/ (Primary \in Quiet /\ NumbersAreNumbers)

(* Nobody goes without the weather before both providers were asked, if    *)
(* there is but one, or no exception escapes from the first.  One does at  *)
(* weather_cmd.py:1341 if a field is missing, and at 946, 1157 and 1275 if *)
(* the temperature is no number.                                           *)
THEOREM BothAreAsked ==
  ASSUME QuietFirst
  PROVE  Spec => []FallbackIsTried
<1>1. Init => RaisedLast
  BY DEF Init, RaisedLast
<1>2. ASSUME WeatherInv, RaisedLast, NEW r \in Requests, Raised(r) PROVE RaisedLast'
  <2>1. /\ Len(errors[r]) \in Nat /\ Len(errors[r]) < Len(Providers)
        /\ pc' = [pc EXCEPT ![r] = "raised"] /\ errors' = errors
        /\ "raised" \in Reports[Provider(r)]
    BY <1>2 DEF Raised, WeatherInv, AskedInTurn, Shapes
  <2>2. CASE Fallback \in {"", Primary}
    <3>1. Len(Providers) = 1
      <4>1. Providers = <<Primary>>
        BY <2>2, OneProvider
      <4> QED
        BY <4>1
    <3> QED
      BY <1>2, <2>1, <3>1 DEF RaisedLast, WeatherInv, TypeOK
  <2>3. CASE Fallback \notin {"", Primary} /\ Primary \in Quiet /\ NumbersAreNumbers
    <3>0. Providers = <<Primary, Fallback>> /\ Primary \in Quiet /\ NumbersAreNumbers
      BY Zenon, <2>3, TwoProviders
    <3>1. Providers[1] = Primary /\ Len(Providers) = 2
      BY <3>0
    <3>2. Len(errors[r]) # 0
      <4> SUFFICES ASSUME Len(errors[r]) = 0 PROVE FALSE
        OBVIOUS
      <4>1. Provider(r) = Primary
        BY <3>1 DEF Provider
      <4> QED
        BY <2>1, <3>0, <4>1, QuietProviders
    <3> QED
      BY <1>2, <2>1, <3>1, <3>2 DEF RaisedLast, WeatherInv, TypeOK
  <2> QED
    BY Zenon, <2>2, <2>3 DEF QuietFirst
<1>3. ASSUME WeatherInv, RaisedLast, NEW r \in Requests, Ask(r) \/ Succeeded(r) \/ Failed(r)
      PROVE  RaisedLast'
  <2>1. pc[r] # "raised" /\ \A q \in Requests \ {r} : pc'[q] = pc[q] /\ errors'[q] = errors[q]
    BY <1>3 DEF Ask, Succeeded, Failed, Try, Answered, WeatherInv, TypeOK, Shapes
  <2>2. pc'[r] # "raised"
    BY <1>3 DEF Ask, Succeeded, Failed, Try, Answered, WeatherInv, TypeOK
  <2> QED
    BY <1>3, <2>1, <2>2 DEF RaisedLast
<1>4. WeatherInv /\ RaisedLast /\ [Next]_vars => RaisedLast'
  BY <1>2, <1>3 DEF Next, Tick, Horizon, vars, RaisedLast
<1>5. WeatherInv /\ RaisedLast => FallbackIsTried
  BY DEF WeatherInv, AllHaveFailed, RaisedLast, FallbackIsTried
<1> QED
  BY <1>1, <1>4, <1>5, InvariantWeather, PTL DEF Spec
=============================================================================
