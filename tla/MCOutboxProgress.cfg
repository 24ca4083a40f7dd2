\* An event the broker takes behind one it refuses, under endless time and restarts.
SPECIFICATION ProgressSpec
CONSTANTS
    e1 = e1
    e2 = e2
    w1 = w1
    gone = gone
    Events = {e1, e2}
    Workers = {w1, gone}
    Retired = gone
    Refused = {e2}
    None = None
    LeaseDuration = 1
    BaseBackoff = 1
    MaxBackoff = 1
    SaturatedAttempts = 1
    SdkRetryTotal = 0
    DatabaseFaults = TRUE
    MaxClock = 3
PROPERTIES
    EveryEventIsPublished
    ShutdownEndsProcess
