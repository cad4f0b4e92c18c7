-------------------------- MODULE WeatherProviders --------------------------
(***************************************************************************)
(* weather_cmd.py: what each provider reports, as a function of the HTTP   *)
(* answers it gets on the way.  A provider returns ok with a weather line, *)
(* or an error of one of three kinds; or an exception that none of its     *)
(* handlers names escapes from it (raised).                                *)
(***************************************************************************)

(* One HTTP answer: complete; well-formed but with nothing in it; status   *)
(* 404; another status, a network error or a timeout; well-formed without  *)
(* the fields that are read; a body that cannot be decoded; complete, but  *)
(* with a word where a number is read.                                     *)
HttpKinds == {"ok", "empty", "not_found", "failed", "partial", "garbled", "odd"}

CONSTANT Http   \* those that the services give

ASSUME HttpAssumption == Http \subseteq HttpKinds

(* Open-Meteo's geocoder and Nominatim treat their answers alike.          *)
Located(a) ==
    CASE a = "ok"                     -> "ok"
      [] a \in {"empty", "not_found"} -> "city_not_found"
      [] OTHER                        -> "provider_error"

(* Nominatim is asked only if Open-Meteo could not say.                    *)
GeocodeCity(a, b) ==
    IF Located(a) = "provider_error" THEN Located(b) ELSE Located(a)

(* What is left to do once the place is known, or the geocoder's error.    *)
AfterGeocode(g, rest) == IF g = "ok" THEN rest ELSE g

Complete(a) == IF a = "ok" THEN "ok" ELSE "provider_error"

(* float() of the temperature is outside the try of all but Meteostat.     *)
Shown(a) == IF a = "odd" THEN "raised" ELSE Complete(a)

OpenMeteo(a, b, forecast) == AfterGeocode(GeocodeCity(a, b), Shown(forecast))

(* Its own geocoder: a 404 is an error like any other, and its numbers are *)
(* only passed on.  The fields of the weather are read outside the try, so *)
(* a missing one raises.                                                   *)
OpenWeatherMap(key, place, weather) ==
    CASE ~ key                              -> "not_configured"
      [] key /\ place = "empty"             -> "city_not_found"
      [] key /\ place \notin {"ok", "empty", "odd"} -> "provider_error"
      [] OTHER -> IF weather \in {"partial", "empty"} THEN "raised" ELSE Shown(weather)

(* The station database, the stations near the place, the last hour of one *)
(* of them.  A file cut off in the middle raises an EOFError.              *)
Meteostat(a, b, database, stations, hour) ==
    AfterGeocode(GeocodeCity(a, b),
        IF database = "ok" /\ stations = "ok"
        THEN IF hour = "garbled" THEN "raised" ELSE Complete(hour)
        ELSE "provider_error")

MeteostatRapidApi(key, a, b, nearby, hour) ==
    IF ~ key THEN "not_configured"
    ELSE AfterGeocode(GeocodeCity(a, b),
             IF nearby = "ok" THEN Shown(hour) ELSE "provider_error")

(* The two addresses of wttr.in in turn; a 404 of the first is final.      *)
WttrOnce(a) == IF a = "not_found" THEN "city_not_found" ELSE Shown(a)

Wttr(a, b) == IF WttrOnce(a) = "provider_error" THEN WttrOnce(b) ELSE WttrOnce(a)

(* Everything each provider can report, with and without its API key.      *)
Reports ==
    [openmeteo      |-> {OpenMeteo(a, b, f) : a, b, f \in Http},
     openweathermap |-> {OpenWeatherMap(k, p, w) : k \in BOOLEAN, p, w \in Http},
     meteostat      |-> {Meteostat(a, b, d, s, h) :
                            a, b, h \in Http, d \in {"ok", "failed"}, s \in {"ok", "empty"}},
     meteostat_rapidapi |-> {MeteostatRapidApi(k, a, b, n, h) :
                            k \in BOOLEAN, a, b, n, h \in Http},
     wttr           |-> {Wttr(a, b) : a, b \in Http},
     unsupported    |-> {"provider_error"}]
=============================================================================
