---------------------------- MODULE LoadGenerator ----------------------------
(***************************************************************************)
(* The load generator: run_load, issue_one and LoadStats of                *)
(* apps/loadgen/generator.py.                                              *)
(*                                                                         *)
(* run_load is a coroutine: between two of its waits nothing else of the   *)
(* process runs, so a request it has created starts, and a signal is       *)
(* noticed, only while it waits.  Time passes at every point.              *)
(***************************************************************************)
EXTENDS Naturals

CONSTANTS
    Interval,   \* ticks between two slots, 1 / rate_per_second
    Duration,   \* ticks to run for; 0 for no deadline (`if duration`)
    MaxClock    \* bound on the clock

ASSUME LoadAssumption ==
    /\ Interval \in Nat \ {0}
    /\ Duration \in Nat
    /\ MaxClock \in Nat

VARIABLES
    clock,      \* loop.time() - started
    pc,         \* where run_load is
    issued,     \* stats.issued, which is also slot
    created,    \* tasks that have not run yet
    sending,    \* requests waiting for their response
    completed,  \* len(stats.outcomes)
    signalled,  \* whether a termination signal has reached the process
    shutdown    \* the shutdown event

vars == <<clock, pc, issued, created, sending, completed, signalled, shutdown>>

requestVars == <<created, sending, completed>>

-----------------------------------------------------------------------------
Init ==
    /\ clock = 0
    /\ pc = "looping"
    /\ issued = 0
    /\ created = 0 /\ sending = 0 /\ completed = 0
    /\ signalled = FALSE
    /\ shutdown \in BOOLEAN

\* run_load is suspended in wait_for or gather.
Yielded == pc \in {"waiting", "draining"}

DeadlineReached == Duration > 0 /\ clock >= Duration

Issue_DeadlineIncluded ==
    /\ pc = "looping"
    /\ ~ shutdown
    /\ Duration > 0 => clock <= Duration
    /\ pc' = "pacing"
    /\ issued' = issued + 1
    /\ created' = created + 1
    /\ UNCHANGED <<clock, sending, completed, signalled, shutdown>>

Issue ==
    /\ pc = "looping"
    /\ ~ shutdown
    /\ ~ DeadlineReached
    /\ pc' = "pacing"
    /\ issued' = issued + 1
    /\ created' = created + 1
    /\ UNCHANGED <<clock, sending, completed, signalled, shutdown>>

LeaveLoop ==
    /\ pc = "looping"
    /\ shutdown \/ DeadlineReached
    /\ pc' = "draining"
    /\ UNCHANGED <<clock, issued, requestVars, signalled, shutdown>>

Pace_FromNow ==
    /\ pc = "pacing"
    /\ pc' = "waiting"
    /\ UNCHANGED <<clock, issued, requestVars, signalled, shutdown>>

\* Behind schedule the next request is issued at once, with no wait between.
Pace ==
    /\ pc = "pacing"
    /\ pc' = IF issued * Interval > clock THEN "waiting" ELSE "looping"
    /\ UNCHANGED <<clock, issued, requestVars, signalled, shutdown>>

Wake_OnlyShutdown ==
    /\ pc = "waiting"
    /\ shutdown
    /\ pc' = "looping"
    /\ UNCHANGED <<clock, issued, requestVars, signalled, shutdown>>

\* The time of the next slot has come, or shutdown.
Wake ==
    /\ pc = "waiting"
    /\ shutdown \/ clock >= issued * Interval
    /\ pc' = "looping"
    /\ UNCHANGED <<clock, issued, requestVars, signalled, shutdown>>

Return_WithoutGather ==
    /\ pc = "draining"
    /\ pc' = "done"
    /\ UNCHANGED <<clock, issued, requestVars, signalled, shutdown>>

\* gather: every request in flight has ended.
Return ==
    /\ pc = "draining"
    /\ created = 0 /\ sending = 0
    /\ pc' = "done"
    /\ UNCHANGED <<clock, issued, requestVars, signalled, shutdown>>

-----------------------------------------------------------------------------
(* The event loop *)

StartRequest ==
    /\ Yielded
    /\ created > 0
    /\ created' = created - 1
    /\ sending' = sending + 1
    /\ UNCHANGED <<clock, pc, issued, completed, signalled, shutdown>>

CompleteRequest_OnlyAnswered ==
    /\ Yielded
    /\ sending > 0
    /\ sending' = sending - 1
    /\ completed' \in {completed, completed + 1}
    /\ UNCHANGED <<clock, pc, issued, created, signalled, shutdown>>

\* An outcome is recorded whether place_order returned or raised.
CompleteRequest ==
    /\ Yielded
    /\ sending > 0
    /\ sending' = sending - 1
    /\ completed' = completed + 1
    /\ UNCHANGED <<clock, pc, issued, created, signalled, shutdown>>

Signal ==
    /\ ~ signalled
    /\ signalled' = TRUE
    /\ UNCHANGED <<clock, pc, issued, requestVars, shutdown>>

HandleSignal ==
    /\ Yielded
    /\ signalled /\ ~ shutdown
    /\ shutdown' = TRUE
    /\ UNCHANGED <<clock, pc, issued, requestVars, signalled>>

Tick ==
    /\ clock < MaxClock
    /\ clock' = clock + 1
    /\ UNCHANGED <<pc, issued, requestVars, signalled, shutdown>>

RunLoad == Issue \/ LeaveLoop \/ Pace \/ Wake \/ Return

Next ==
    \/ RunLoad
    \/ StartRequest \/ CompleteRequest
    \/ Signal \/ HandleSignal
    \/ Tick

Spec == Init /\ [][Next]_vars

\* Coroutines that can run do, a request ends (the client has a timeout) and
\* time passes.
FairSpec ==
    /\ Spec
    /\ WF_vars(RunLoad)
    /\ WF_vars(StartRequest) /\ WF_vars(CompleteRequest)
    /\ WF_vars(HandleSignal)
    /\ WF_vars(Tick)

-----------------------------------------------------------------------------
(* LoadStats.percentile, of p hundredths; fraction * len(ordered) is taken as exact *)

Least(a, b) == IF a <= b THEN a ELSE b

\* Python's round of a / b: to the nearest integer, halves to the even one.
RoundHalfEven(a, b) ==
    LET q == a \div b
        r == a % b
    IN IF 2 * r < b \/ (2 * r = b /\ q % 2 = 0) THEN q ELSE q + 1

percentile_rank_NotFromOne(p) ==
    LET rounded == RoundHalfEven(p * completed, 100) IN
    Least(completed, IF rounded < 1 THEN 1 ELSE rounded + 1)

\* index + 1: which of the sorted latencies is returned, counted from one.
percentile_rank(p) ==
    LET rounded == RoundHalfEven(p * completed, 100) IN
    Least(completed, IF rounded < 1 THEN 1 ELSE rounded)

\* The nearest rank: the least one with at least p hundredths at or below it.
nearest_rank(p) ==
    CHOOSE k \in 1 .. completed :
        /\ 100 * k >= p * completed
        /\ \A j \in 1 .. k - 1 : 100 * j < p * completed

-----------------------------------------------------------------------------
(* Properties *)

\* Every variable has its type, and each request issued is in one of its three
\* states: none is recorded twice or dropped on the way, whatever its outcome.
TypeOK ==
    /\ clock \in 0 .. MaxClock
    /\ pc \in {"looping", "pacing", "waiting", "draining", "done"}
    /\ {issued, created, sending, completed} \subseteq Nat
    /\ {signalled, shutdown} \subseteq BOOLEAN
    /\ issued = created + sending + completed

\* "A slow request cannot push the whole schedule later" (run_load): whenever the
\* generator goes to sleep it has issued one request for every slot up to now,
\* however late it was woken and however slow the responses are.
OnSchedule ==
    [][pc = "pacing" /\ pc' = "waiting" => issued = clock \div Interval + 1]_vars

\* A run with a deadline never issues more requests than its rate allows, late
\* wake-ups and the burst after them included.
DurationBoundsRequests ==
    Duration > 0 => issued <= (Duration + Interval - 1) \div Interval

\* Shutdown or deadline, each request that was issued is in the statistics that
\* run_load returns (test_shutdown_stops_issuing_and_drains_in_flight).
EveryRequestIsRecorded == pc = "done" => completed = issued

\* No request is issued before its slot: the loop comes back to issue one only when
\* the slot is there, or to leave.
NeverAhead ==
    /\ issued > 0 => (issued - 1) * Interval <= clock
    /\ pc = "looping" /\ ~ shutdown => issued * Interval <= clock

\* What gather has waited for stays so: nothing is in flight once run_load is done.
DrainedWhenDone == pc = "done" => created = 0 /\ sending = 0

\* What every step preserves.
LoadInvariant ==
    /\ TypeOK
    /\ NeverAhead
    /\ DurationBoundsRequests
    /\ DrainedWhenDone

\* A run with a deadline returns, even if it is always behind its schedule.
Returns == <>(pc = "done")

\* A percentile is one of the latencies, at most one rank from the nearest rank,
\* and a higher percentile is no lower.
PercentilesAreRanks ==
    completed > 0 =>
        /\ \A p \in {1, 50, 99, 100} :
             /\ percentile_rank(p) \in 1 .. completed
             /\ nearest_rank(p) \in percentile_rank(p) .. percentile_rank(p) + 1
        /\ percentile_rank(50) <= percentile_rank(99)
        /\ percentile_rank(100) = completed
=============================================================================
