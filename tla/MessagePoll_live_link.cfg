SPECIFICATION FairSpec
CONSTANTS
    Keepalive = 4
    KeepIdle = 2
    Watch = 6
    Timeout = 2
    ProbeMax = 1
    NapIdle = 1
    NapError = 1
    NapRaise = 2
    Cap = 14
    MaxArrivals = 2
INVARIANTS TypeOK IdleIsProbed
PROPERTIES ProbesAreSpaced EveryMessageIsPulled PollStops
