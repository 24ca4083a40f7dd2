\* A revert while a run is under way.
SPECIFICATION Spec
CONSTANTS
    topic = topic
    postgres = postgres
    sendDisabled = sendDisabled
    outage = outage
    r1 = r1
    r2 = r2
    Runners = {r1, r2}
    Entities = {topic, postgres}
    Faults = {sendDisabled, outage}
    Plans <- MCPlans
    None = None
    RevertsAlone = FALSE
SYMMETRY MCRunners
INVARIANT
    InjectsUnderItsRecord
