\* A message body that is not UTF-8; nothing else fails.
SPECIFICATION Spec
CONSTANTS
    m1 = m1
    m2 = m2
    m3 = m3
    m4 = m4
    e1 = e1
    e2 = e2
    c1 = c1
    Messages = {m1, m2, m3, m4}
    Events = {e1, e2}
    EventOf <- MCEventOf
    BodyOf <- MCBodies
    Consumers = {c1}
    None = None
    MaxDeliveryCount = 2
    BatchSize = 1
    DatabaseFaults = FALSE
    BrokerFaults = FALSE
    MaxMessages = 1
    MaxInterruptions = 0
PROPERTY
    UnparseableIsRejected
CHECK_DEADLOCK FALSE
