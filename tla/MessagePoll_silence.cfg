SPECIFICATION Spec
CONSTANTS
    Keepalive = 4
    KeepIdle = 2
    Watch = 6
    Timeout = 2
    ProbeMax = 1
    NapIdle = 1
    NapError = 1
    NapRaise = 2
    Cap = 14
    MaxArrivals = 0
INVARIANTS SilenceIsReported
