\* One event and two workers over enough time for the backoff to double and
\* reach its cap, with SDK retries inside each attempt.
SPECIFICATION Spec
CONSTANTS
    e1 = e1
    w1 = w1
    w2 = w2
    Events = {e1}
    Workers = {w1, w2}
    None = None
    LeaseDuration = 2
    BaseBackoff = 1
    MaxBackoff = 3
    SdkRetryTotal = 1
    DatabaseFaults = FALSE
    MaxClock = 6
SYMMETRY MCSymmetry
INVARIANTS
    PublishedWasAccepted
    TableConstraints
    CopiesBounded
    StoppedLeavesNoLease
PROPERTIES
    PublishedIsFinal
    RetryPacing
CHECK_DEADLOCK FALSE
