SPECIFICATION FairSpec
CONSTANTS
    r1 = r1
    r2 = r2
    r3 = r3
    moscow = moscow
    Http = {"ok", "empty", "not_found", "failed", "partial", "garbled"}
    Requests <- ThreeRequests
    City <- ThreeCities
    UseCache <- AllCached
    Primary = "wttr"
    Fallback = "openweathermap"
    Ttl = 1
    MaxFetch = 2
    MaxTime = 4
INVARIANTS TypeOK AnswersAreRecent FallbackIsTried
PROPERTIES EveryRequestEnds
