\* A run with a deadline, woken late or on time, stopped early or not.
SPECIFICATION FairSpec
CONSTANTS
    Interval = 2
    Duration = 10
    MaxClock = 13
INVARIANTS
    LoadInvariant
    DurationBoundsRequests
    EveryRequestIsRecorded
    PercentilesAreRanks
PROPERTIES
    OnSchedule
    Returns
CHECK_DEADLOCK FALSE
