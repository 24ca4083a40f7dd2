\* One order, a resend inside the detection window and one beyond it.
SPECIFICATION Spec
CONSTANTS
    m1 = m1
    m2 = m2
    e1 = e1
    w1 = w1
    w2 = w2
    c1 = c1
    Events = {e1}
    None = None
    Workers = {w1, w2}
    LeaseDuration = 1
    BaseBackoff = 1
    MaxBackoff = 1
    SdkRetryTotal = 0
    MaxClock = 2
    Messages = {m1, m2}
    EventOf <- MCEventOf
    BodyOf <- MCBodies
    Consumers = {c1}
    MaxDeliveryCount = 2
    BatchSize = 1
    MaxMessages = 2
    MaxInterruptions = 0
    PublisherFaults = FALSE
    DatabaseFaults = TRUE
    BrokerFaults = FALSE
    DetectionWindow = 2
SYMMETRY MCSymmetry
INVARIANTS
    RecordedIsHandled
    PipelineInvariant
PROPERTY
    ImplementsCheckout
CHECK_DEADLOCK FALSE
