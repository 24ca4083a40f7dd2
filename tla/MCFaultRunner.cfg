\* Two terminals, a fault of one step and one of two that share an entity; every
\* failure and death, late effects, runs that overlap, reverts that have their turn.
SPECIFICATION FairSpec
CONSTANTS
    topic = topic
    postgres = postgres
    sendDisabled = sendDisabled
    outage = outage
    r1 = r1
    r2 = r2
    Runners = {r1, r2}
    Entities = {topic, postgres}
    Faults = {sendDisabled, outage}
    Plans <- MCPlans
    None = None
    RevertsAlone = TRUE
INVARIANTS
    RunnerInvariant
    ObligationCoversDamage
    InjectsUnderItsRecord
PROPERTIES
    RecordIsNeverReplaced
    ReportsAreTrue
    RecoveryEnds
