\* Two consumers and two of: two copies of one event, an invalid message, one that
\* ends the process; every fault, fair consumers.
SPECIFICATION FairSpec
CONSTANTS
    m1 = m1
    m2 = m2
    m3 = m3
    m4 = m4
    e1 = e1
    e2 = e2
    c1 = c1
    c2 = c2
    Messages = {m1, m2, m3, m4}
    Events = {e1, e2}
    EventOf <- MCEventOf
    BodyOf <- MCBodies
    Consumers = {c1, c2}
    None = None
    MaxDeliveryCount = 2
    BatchSize = 2
    DatabaseFaults = TRUE
    BrokerFaults = TRUE
    MaxMessages = 2
    MaxInterruptions = 1
INVARIANTS
    FulfilmentInvariant
    TablesAgree
    CompletedWasFulfilled
    DeadOnlyAfterBudget
    StoppedHoldsNoLock
PROPERTIES
    ImplementsExactlyOnce
    EverythingIsSettled
CHECK_DEADLOCK FALSE
