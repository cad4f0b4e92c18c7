SPECIFICATION FairSpec
CONSTANTS
    r1 = r1
    r2 = r2
    r3 = r3
    Requests <- ThreeRequests
    Retries = 2
    Refresh = 1
    MaxTime = 2
    MaxLives = 2
INVARIANTS TypeOK HandedOutIsComplete
PROPERTIES FetchedOnce EveryLookupEnds
