SPECIFICATION Spec
CONSTANTS
    r1 = r1
    r2 = r2
    r3 = r3
    moscow = moscow
    Http = {"ok", "empty", "not_found", "failed", "partial", "garbled"}
    Requests <- OneRequest
    City <- OneCity
    UseCache <- Cached
    Primary = "openweathermap"
    Fallback = "wttr"
    Ttl = 2
    MaxFetch = 2
    MaxTime = 4
INVARIANTS FallbackIsTried
