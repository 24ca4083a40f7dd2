------------------------------- MODULE Outbox -------------------------------
(***************************************************************************)
(* The transactional outbox of the Orders service: the table               *)
(* orders.outbox_events, the processes that move its rows to the broker    *)
(* (apps/orders/outbox.py, apps/orders/publisher_worker.py) and the sender *)
(* they use (apps/orders/servicebus.py).                                   *)
(*                                                                         *)
(* A member of Workers is one life of a publisher process: the lease       *)
(* owner is a uuid drawn when the process starts, so a restarted process   *)
(* is another member.  The steps of a worker are its database transactions *)
(* and broker calls; between two of them any time may pass.  A row lock is *)
(* held from LockDueRow to the end of that transaction.  The pauses of the *)
(* loop are not steps: a worker resting in "loop" may resume at any time.  *)
(***************************************************************************)
EXTENDS Naturals

CONSTANTS
    Events,             \* identifiers of the orders' outbox events
    Workers,            \* publisher process lives (lease owners)
    None,               \* SQL NULL, and the Python None
    LeaseDuration,      \* DEFAULT_LEASE_DURATION
    BaseBackoff,        \* DEFAULT_BASE_BACKOFF
    MaxBackoff,         \* DEFAULT_MAX_BACKOFF
    SdkRetryTotal,      \* SDK_RETRY_TOTAL
    DatabaseFaults,     \* whether a publisher's transaction may fail
    MaxClock            \* bound on the clock, for TLC only

ASSUME DurationsAssumption ==
    /\ LeaseDuration \in Nat \ {0}
    /\ BaseBackoff \in Nat \ {0}
    /\ MaxBackoff \in Nat \ {0}
    /\ SdkRetryTotal \in Nat
    /\ MaxClock \in Nat
    /\ DatabaseFaults \in BOOLEAN

VARIABLES
    clock,      \* PostgreSQL's clock, the only one the workers read
    row,        \* the outbox table: event -> its row, None when there is none
    pc,         \* where each worker is in run_publisher_loop / run_once
    now,        \* the `now` of the transaction a worker has open
    claimed,    \* the _ClaimedEvent a worker carries
    tries,      \* sends already made inside the current publish() call
    shutdown,   \* the shutdown event of each process
    copies      \* copies of each event the broker has accepted

vars == <<clock, row, pc, now, claimed, tries, shutdown, copies>>

workerVars == <<pc, now, claimed, tries, shutdown>>

-----------------------------------------------------------------------------
(* Data *)

MAX_BACKOFF_EXPONENT == 16

AtMost(a, b) == IF a <= b THEN a ELSE b

backoff_delay(attempts) ==
    AtMost(BaseBackoff * 2 ^ AtMost(attempts - 1, MAX_BACKOFF_EXPONENT), MaxBackoff)

OutboxEvent ==
    [published : BOOLEAN,
     attempts  : Nat,
     nextAt    : Nat,
     owner     : Workers \union {None},
     leaseEnd  : Nat \union {None},
     lastAt    : Nat \union {None}]

\* claimedAt is the claiming transaction's `now`, the row's last_attempt_at.
ClaimedEvent == [event : Events, attempts : Nat \ {0}, claimedAt : Nat]

ASSUME NoneAssumption ==
    None \notin Nat \union Workers \union OutboxEvent \union ClaimedEvent

Placed(e) == row[e] # None

\* Faulty variants of a definition stand before it, named for the fault: each
\* shows that a property below notices it.
Due_IgnoresLease(e, t) ==
    /\ Placed(e)
    /\ ~ row[e].published
    /\ row[e].nextAt <= t

Due_IgnoresPublished(e, t) ==
    /\ Placed(e)
    /\ row[e].nextAt <= t
    /\ row[e].leaseEnd # None => row[e].leaseEnd <= t

Due_OnlyUnleased(e, t) ==
    /\ Placed(e)
    /\ ~ row[e].published
    /\ row[e].nextAt <= t
    /\ row[e].leaseEnd = None

\* The WHERE clause of due_event_statement.
Due(e, t) ==
    /\ Placed(e)
    /\ ~ row[e].published
    /\ row[e].nextAt <= t
    /\ row[e].leaseEnd # None => row[e].leaseEnd <= t

\* A claiming transaction that has selected the row FOR UPDATE.
RowLocked(e) == \E w \in Workers : pc[w] = "locked" /\ claimed[w].event = e

Claimable_NoSkipLocked(e, t) == Due(e, t)

Claimable(e, t) == Due(e, t) /\ ~ RowLocked(e)

\* Between the commit of its claim and the end of its settlement.
Holds(w, e) ==
    /\ pc[w] \in {"sending", "sent", "failed", "releasing"}
    /\ claimed[w].event = e

Running == {"loop", "claiming", "locked", "sending", "sent", "failed", "releasing"}

-----------------------------------------------------------------------------
Init ==
    /\ clock = 0
    /\ row = [e \in Events |-> None]
    /\ pc = [w \in Workers |-> "off"]
    /\ now = [w \in Workers |-> None]
    /\ claimed = [w \in Workers |-> None]
    /\ tries = [w \in Workers |-> 0]
    /\ shutdown = [w \in Workers |-> FALSE]
    /\ copies = [e \in Events |-> 0]

Goto(w, label) == pc' = [pc EXCEPT ![w] = label]

\* Leave run_once, normally or by an exception: its locals are gone.
LeaveRunOnce(w, label) ==
    /\ Goto(w, label)
    /\ now' = [now EXCEPT ![w] = None]
    /\ claimed' = [claimed EXCEPT ![w] = None]
    /\ tries' = [tries EXCEPT ![w] = 0]

-----------------------------------------------------------------------------
(* Orders API *)

\* The order and its event are inserted by one transaction.  occurred_at, set
\* from the API host's own clock, only breaks ties between due rows and is left
\* out: LockDueRow may pick any of the rows that are due first.
place_order(e) ==
    /\ ~ Placed(e)
    /\ row' = [row EXCEPT ![e] =
                 [published |-> FALSE, attempts |-> 0, nextAt |-> clock,
                  owner |-> None, leaseEnd |-> None, lastAt |-> None]]
    /\ UNCHANGED <<clock, workerVars, copies>>

-----------------------------------------------------------------------------
(* Process life and loop *)

StartWorker(w) ==
    /\ pc[w] = "off"
    /\ Goto(w, "loop")
    /\ UNCHANGED <<clock, row, now, claimed, tries, shutdown, copies>>

RequestShutdown(w) ==
    /\ pc[w] \in Running
    /\ ~ shutdown[w]
    /\ shutdown' = [shutdown EXCEPT ![w] = TRUE]
    /\ UNCHANGED <<clock, row, pc, now, claimed, tries, copies>>

StopLoop_WhenIdle(w) ==
    /\ pc[w] = "loop"
    /\ shutdown[w]
    /\ \A e \in Events : ~ Due(e, clock)
    /\ Goto(w, "stopped")
    /\ shutdown' = [shutdown EXCEPT ![w] = FALSE]
    /\ UNCHANGED <<clock, row, now, claimed, tries, copies>>

StopLoop_Anywhere(w) ==
    /\ pc[w] \in Running
    /\ shutdown[w]
    /\ LeaveRunOnce(w, "stopped")
    /\ shutdown' = [shutdown EXCEPT ![w] = FALSE]
    /\ UNCHANGED <<clock, row, copies>>

\* `while not shutdown.is_set()` is the only place that looks at the event.
StopLoop(w) ==
    /\ pc[w] = "loop"
    /\ shutdown[w]
    /\ Goto(w, "stopped")
    /\ shutdown' = [shutdown EXCEPT ![w] = FALSE]
    /\ UNCHANGED <<clock, row, now, claimed, tries, copies>>

\* The process dies; an open transaction is rolled back and its lock dropped.
Crash(w) ==
    /\ pc[w] \in Running
    /\ LeaveRunOnce(w, "crashed")
    /\ shutdown' = [shutdown EXCEPT ![w] = FALSE]
    /\ UNCHANGED <<clock, row, copies>>

-----------------------------------------------------------------------------
(* _claim_next_event: one transaction *)

BeginClaim(w) ==
    /\ pc[w] = "loop"
    /\ ~ shutdown[w]
    /\ Goto(w, "claiming")
    /\ now' = [now EXCEPT ![w] = clock]
    /\ UNCHANGED <<clock, row, claimed, tries, shutdown, copies>>

\* ORDER BY next_attempt_at LIMIT 1 FOR UPDATE SKIP LOCKED.
LockDueRow(w) ==
    /\ pc[w] = "claiming"
    /\ \E e \in Events :
         /\ Claimable(e, now[w])
         /\ \A f \in Events : Claimable(f, now[w]) => row[e].nextAt <= row[f].nextAt
         /\ claimed' = [claimed EXCEPT ![w] =
                          [event |-> e, attempts |-> row[e].attempts + 1,
                           claimedAt |-> now[w]]]
    /\ Goto(w, "locked")
    /\ UNCHANGED <<clock, row, now, tries, shutdown, copies>>

FindNothingDue(w) ==
    /\ pc[w] = "claiming"
    /\ \A e \in Events : ~ Claimable(e, now[w])
    /\ LeaveRunOnce(w, "loop")
    /\ UNCHANGED <<clock, row, shutdown, copies>>

WriteClaim_LeaseFromCommit(w) ==
    row' = [row EXCEPT ![claimed[w].event] =
              [@ EXCEPT !.owner = w,
                        !.leaseEnd = clock + LeaseDuration,
                        !.attempts = claimed[w].attempts,
                        !.lastAt = now[w]]]

WriteClaim(w) ==
    row' = [row EXCEPT ![claimed[w].event] =
              [@ EXCEPT !.owner = w,
                        !.leaseEnd = now[w] + LeaseDuration,
                        !.attempts = claimed[w].attempts,
                        !.lastAt = now[w]]]

CommitClaim(w) ==
    /\ pc[w] = "locked"
    /\ WriteClaim(w)
    /\ Goto(w, "sending")
    /\ now' = [now EXCEPT ![w] = None]
    /\ UNCHANGED <<clock, claimed, tries, shutdown, copies>>

\* The commit takes effect but its reply is lost: run_once raises, the loop goes on.
CommitClaimUnseen(w) ==
    /\ DatabaseFaults
    /\ pc[w] = "locked"
    /\ WriteClaim(w)
    /\ LeaveRunOnce(w, "loop")
    /\ UNCHANGED <<clock, shutdown, copies>>

ClaimFails(w) ==
    /\ DatabaseFaults
    /\ pc[w] \in {"claiming", "locked"}
    /\ LeaveRunOnce(w, "loop")
    /\ UNCHANGED <<clock, row, shutdown, copies>>

-----------------------------------------------------------------------------
(* publish: at most 1 + SdkRetryTotal sends inside one call *)

Accept(e) == copies' = [copies EXCEPT ![e] = @ + 1]

SendAcknowledged(w) ==
    /\ pc[w] = "sending"
    /\ Accept(claimed[w].event)
    /\ Goto(w, "sent")
    /\ tries' = [tries EXCEPT ![w] = 0]
    /\ UNCHANGED <<clock, row, now, claimed, shutdown>>

SendFails_Swallowed(w) ==
    /\ pc[w] = "sending"
    /\ Accept(claimed[w].event) \/ UNCHANGED copies
    /\ Goto(w, "sent")
    /\ UNCHANGED <<clock, row, now, claimed, tries, shutdown>>

SendFails_OneRetryMore(w) ==
    /\ pc[w] = "sending"
    /\ Accept(claimed[w].event) \/ UNCHANGED copies
    /\ \/ /\ tries[w] <= SdkRetryTotal
          /\ tries' = [tries EXCEPT ![w] = @ + 1]
          /\ UNCHANGED pc
       \/ /\ Goto(w, "failed")
          /\ tries' = [tries EXCEPT ![w] = 0]
    /\ UNCHANGED <<clock, row, now, claimed, shutdown>>

\* The client sees an error; the broker may have accepted the message all the same.
SendFails(w) ==
    /\ pc[w] = "sending"
    /\ Accept(claimed[w].event) \/ UNCHANGED copies
    /\ \/ /\ tries[w] < SdkRetryTotal
          /\ tries' = [tries EXCEPT ![w] = @ + 1]
          /\ UNCHANGED pc
       \/ /\ Goto(w, "failed")
          /\ tries' = [tries EXCEPT ![w] = 0]
    /\ UNCHANGED <<clock, row, now, claimed, shutdown>>

-----------------------------------------------------------------------------
(* _mark_published and _release_for_retry *)

Settle_AnyOwner(w, settled) == row' = [row EXCEPT ![claimed[w].event] = settled]

\* The UPDATE ... WHERE event_id AND lease_owner = self: a row whose lease is
\* another's is left alone, and one a claim has locked is waited for.
Settle(w, settled) ==
    LET e == claimed[w].event IN
    IF row[e].owner = w
    THEN /\ ~ RowLocked(e)
         /\ row' = [row EXCEPT ![e] = settled]
    ELSE UNCHANGED row

mark_published_BeforeSend(w) ==
    /\ pc[w] = "sending"
    /\ Settle(w, [row[claimed[w].event] EXCEPT
                    !.published = TRUE, !.owner = None, !.leaseEnd = None])
    /\ LeaveRunOnce(w, "loop")
    /\ UNCHANGED <<clock, shutdown, copies>>

mark_published_KeepsLease(w) ==
    /\ pc[w] = "sent"
    /\ Settle(w, [row[claimed[w].event] EXCEPT !.published = TRUE])
    /\ LeaveRunOnce(w, "loop")
    /\ UNCHANGED <<clock, shutdown, copies>>

mark_published(w) ==
    /\ pc[w] = "sent"
    /\ Settle(w, [row[claimed[w].event] EXCEPT
                    !.published = TRUE, !.owner = None, !.leaseEnd = None])
    /\ LeaveRunOnce(w, "loop")
    /\ UNCHANGED <<clock, shutdown, copies>>

BeginRelease(w) ==
    /\ pc[w] = "failed"
    /\ Goto(w, "releasing")
    /\ now' = [now EXCEPT ![w] = clock]
    /\ UNCHANGED <<clock, row, claimed, tries, shutdown, copies>>

release_for_retry_NoBackoff(w) ==
    /\ pc[w] = "releasing"
    /\ Settle(w, [row[claimed[w].event] EXCEPT !.owner = None, !.leaseEnd = None])
    /\ LeaveRunOnce(w, "loop")
    /\ UNCHANGED <<clock, shutdown, copies>>

release_for_retry(w) ==
    /\ pc[w] = "releasing"
    /\ Settle(w, [row[claimed[w].event] EXCEPT
                    !.owner = None, !.leaseEnd = None,
                    !.nextAt = now[w] + backoff_delay(claimed[w].attempts)])
    /\ LeaveRunOnce(w, "loop")
    /\ UNCHANGED <<clock, shutdown, copies>>

\* A settling transaction fails: the loop's except clause keeps the process alive.
SettleFails(w) ==
    /\ DatabaseFaults
    /\ pc[w] \in {"sent", "failed", "releasing"}
    /\ LeaveRunOnce(w, "loop")
    /\ UNCHANGED <<clock, row, shutdown, copies>>

-----------------------------------------------------------------------------
Tick ==
    /\ clock < MaxClock
    /\ clock' = clock + 1
    /\ UNCHANGED <<row, workerVars, copies>>

LoopStep(w) == StartWorker(w) \/ RequestShutdown(w) \/ StopLoop(w) \/ Crash(w)

ClaimStep(w) ==
    \/ BeginClaim(w) \/ LockDueRow(w) \/ FindNothingDue(w)
    \/ CommitClaim(w) \/ CommitClaimUnseen(w) \/ ClaimFails(w)

PublishStep(w) == SendAcknowledged(w) \/ SendFails(w)

SettleStep(w) ==
    mark_published(w) \/ BeginRelease(w) \/ release_for_retry(w) \/ SettleFails(w)

Next ==
    \/ \E e \in Events : place_order(e)
    \/ \E w \in Workers : LoopStep(w) \/ ClaimStep(w) \/ PublishStep(w) \/ SettleStep(w)
    \/ Tick

Spec == Init /\ [][Next]_vars

-----------------------------------------------------------------------------
(* Properties *)

\* Every variable has its type; a worker carries a transaction time and a
\* claimed event exactly where the code's locals exist.
TypeOK ==
    /\ clock \in Nat
    /\ row \in [Events -> OutboxEvent \union {None}]
    /\ pc \in [Workers -> Running \union {"off", "stopped", "crashed"}]
    /\ now \in [Workers -> Nat \union {None}]
    /\ claimed \in [Workers -> ClaimedEvent \union {None}]
    /\ tries \in [Workers -> 0 .. SdkRetryTotal]
    /\ shutdown \in [Workers -> BOOLEAN]
    /\ copies \in [Events -> Nat]
    /\ \A w \in Workers :
         /\ now[w] # None <=> pc[w] \in {"claiming", "locked", "releasing"}
         /\ claimed[w] # None <=>
              pc[w] \in {"locked", "sending", "sent", "failed", "releasing"}
         /\ claimed[w] # None => Placed(claimed[w].event)

\* The outbox never forgets an order: a row is recorded as published only after
\* the broker accepted the event at least once, whoever sent it and however the
\* workers' leases, crashes and failed transactions interleaved.
PublishedWasAccepted ==
    \A e \in Events : Placed(e) /\ row[e].published => copies[e] >= 1

\* The check constraints lease_fields_match and published_has_no_lease hold, so
\* no UPDATE of a worker is ever refused by the table.
TableConstraints ==
    \A e \in Events : Placed(e) =>
        /\ row[e].owner = None <=> row[e].leaseEnd = None
        /\ row[e].published => row[e].owner = None

\* A worker in the middle of an event either still owns the row's lease, with
\* the attempt number it claimed, or has outlived its lease: the only way two
\* processes handle one event at a time is that the earlier one was slow.
HolderOwnsOrExpired ==
    \A w \in Workers, e \in Events : Holds(w, e) =>
        \/ /\ row[e].owner = w
           /\ row[e].attempts = claimed[w].attempts
           /\ ~ row[e].published
        \/ claimed[w].claimedAt + LeaseDuration <= clock

\* Two claiming transactions never have the same row (FOR UPDATE SKIP LOCKED),
\* so no attempt number is given twice.
ClaimsAreDistinct ==
    \A v, w \in Workers :
        /\ v # w
        /\ claimed[v] # None /\ claimed[w] # None
        /\ claimed[v].event = claimed[w].event
        => claimed[v].attempts # claimed[w].attempts

\* Duplicates are bounded by the recorded attempts: each claim puts at most
\* 1 + SdkRetryTotal copies on the topic.
CopiesBounded ==
    \A e \in Events :
        copies[e] <= IF Placed(e) THEN row[e].attempts * (1 + SdkRetryTotal) ELSE 0

\* While a lease has not expired nothing changes its row but the settlement of
\* the worker that owns it.
LeaseProtectsRow ==
    [][\A e \in Events :
         /\ Placed(e)
         /\ row[e].leaseEnd # None /\ row[e].leaseEnd > clock
         /\ row'[e] # row[e]
         => /\ pc[row[e].owner] \in {"sent", "releasing"}
            /\ claimed[row[e].owner].event = e
            /\ row'[e].owner = None]_vars

\* A published row is never claimed, released or recorded again, not even by a
\* worker that still holds it from before.
PublishedIsFinal ==
    [][\A e \in Events : Placed(e) /\ row[e].published => row'[e] = row[e]]_vars

\* Two attempts at one event are at least a lease, or the backoff of the earlier
\* attempt, apart on the database clock.
RetryPacing ==
    [][\A e \in Events :
         /\ Placed(e)
         /\ row[e].attempts >= 1
         /\ row'[e].attempts # row[e].attempts
         => /\ row'[e].attempts = row[e].attempts + 1
            /\ row'[e].lastAt >= row[e].lastAt
                   + AtMost(LeaseDuration, backoff_delay(row[e].attempts))]_vars

\* Shutdown is only checked between events (run_publisher_loop): a process that
\* stopped, rather than died, leaves no row under its lease for the others to
\* wait for.  It holds where no transaction fails.
StoppedLeavesNoLease ==
    \A w \in Workers, e \in Events :
        pc[w] = "stopped" /\ Placed(e) => row[e].owner # w

-----------------------------------------------------------------------------
(* The inductive invariant: what the code relies on between its transactions *)

\* A transaction's time lies in the past.
TimesPast == \A w \in Workers : now[w] # None => now[w] <= clock

\* A row locked by a claim is still as the claim's SELECT found it.
LockedRowUnchanged ==
    \A w \in Workers : pc[w] = "locked" =>
        /\ Due(claimed[w].event, now[w])
        /\ claimed[w].attempts = row[claimed[w].event].attempts + 1
        /\ claimed[w].claimedAt = now[w]

LocksExclusive ==
    \A v, w \in Workers :
        /\ pc[v] = "locked" /\ pc[w] = "locked"
        /\ claimed[v].event = claimed[w].event
        => v = w

\* What a worker that carries a committed claim knows of the row: all of it
\* while the lease is its own, and that its lease has expired otherwise.
HolderKnows ==
    \A w \in Workers, e \in Events : Holds(w, e) =>
        /\ Placed(e)
        /\ claimed[w].attempts >= 1
        /\ claimed[w].attempts <= row[e].attempts
        /\ claimed[w].claimedAt <= clock
        /\ pc[w] = "releasing" => claimed[w].claimedAt <= now[w]
        /\ pc[w] = "sent" => copies[e] >= 1
        /\ row[e].owner = w => /\ row[e].lastAt = claimed[w].claimedAt
                               /\ row[e].attempts = claimed[w].attempts
        /\ row[e].owner # w => claimed[w].claimedAt + LeaseDuration <= clock

\* What a row's columns say of its last attempt.
RowTimes ==
    \A e \in Events : Placed(e) =>
        /\ row[e].attempts >= 1 => row[e].lastAt # None
        /\ row[e].owner # None => /\ row[e].attempts >= 1
                                  /\ row[e].leaseEnd = row[e].lastAt + LeaseDuration
        /\ row[e].owner = None /\ ~ row[e].published /\ row[e].attempts >= 1
              => row[e].nextAt >= row[e].lastAt + backoff_delay(row[e].attempts)

\* All of it together; it implies PublishedWasAccepted, TableConstraints,
\* HolderOwnsOrExpired and ClaimsAreDistinct (module OutboxProofs).
OutboxInvariant ==
    /\ TypeOK
    /\ PublishedWasAccepted
    /\ TableConstraints
    /\ TimesPast
    /\ LockedRowUnchanged
    /\ LocksExclusive
    /\ HolderKnows
    /\ RowTimes
    /\ ClaimsAreDistinct

-----------------------------------------------------------------------------
\* The workers, leases and retries implement at-least-once delivery.
D == INSTANCE Delivery WITH
        placed <- {e \in Events : Placed(e)},
        delivered <- {e \in Events : copies[e] > 0},
        recorded <- {e \in Events : Placed(e) /\ row[e].published}

\* Whatever the workers do, the table and the topic behave as module Delivery
\* allows: committed before delivered, delivered before recorded, nothing undone.
ImplementsDelivery == D!DeliverySpec
=============================================================================
