\* Two events and two workers that compete for them; leases of one tick.
SPECIFICATION Spec
CONSTANTS
    e1 = e1
    e2 = e2
    w1 = w1
    w2 = w2
    Events = {e1, e2}
    Workers = {w1, w2}
    None = None
    LeaseDuration = 1
    BaseBackoff = 1
    MaxBackoff = 2
    SdkRetryTotal = 0
    DatabaseFaults = TRUE
    MaxClock = 2
SYMMETRY MCSymmetry
INVARIANTS
    HolderOwnsOrExpired
    ClaimsAreDistinct
    OutboxInvariant
PROPERTIES
    LeaseProtectsRow
    ImplementsDelivery
CHECK_DEADLOCK FALSE
