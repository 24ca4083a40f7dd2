\* A fault whose revert enables the topic and then disables it.
SPECIFICATION Spec
CONSTANTS
    topic = topic
    postgres = postgres
    sendDisabled = sendDisabled
    outage = outage
    r1 = r1
    r2 = r2
    Runners = {r1, r2}
    Entities = {topic, postgres}
    Faults = {sendDisabled, outage}
    Plans <- MCPlansReDisable
    None = None
    RevertsAlone = TRUE
SYMMETRY MCRunners
INVARIANT
    NoObligationMeansRestored
