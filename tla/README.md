# Swarmscope in TLA+

Specifications of the parts of Swarmscope that exist at this commit: the order system that
serves as proving ground (transactional outbox, publisher, Service Bus subscription, idempotent
consumer) and the fault runner that breaks it on purpose. Each module is a translation of the
code it names; `PROJECT.json` gives the lines of every definition.

## 1. The system

| Component | State it keeps | Operations | Modelled in |
|---|---|---|---|
| Orders API (`apps/orders/main.py`, `service.py`) | rows `orders.orders`, `orders.outbox_events` | `place_order`: order and event in one transaction | `Outbox` |
| Outbox publisher (`apps/orders/outbox.py`) | lease, attempts, schedule, publication of each row | `_claim_next_event`, `publish`, `_mark_published`, `_release_for_retry` | `Outbox`, `OutboxProgress`, `Delivery` |
| Publisher loop (`apps/orders/publisher_worker.py`, `packages/runtime.py`) | the shutdown event, statistics | start, `run_once` again and again, catch and go on, stop | `Outbox`, `OutboxProgress` |
| Service Bus sender (`apps/orders/servicebus.py`) | an open connection | `publish` with one SDK retry | `Outbox` (connection set-up left out) |
| Topic and subscription (`infra/azure/service-bus/main.tf`) | detection history, messages, locks, delivery counts, dead letters | discard a copy; lock, complete, abandon, dead-letter, lock expiry | `Pipeline`, `Fulfilment` (external) |
| Fulfilment consumer (`apps/fulfilment/consumer.py`) | the batch received, the shutdown event | receive, validate, fulfil, settle | `Fulfilment` |
| Fulfilment service (`apps/fulfilment/service.py`, `models.py`) | `processed_events`, `fulfilments` | `fulfil_order`: both rows in one transaction | `Fulfilment`, `ExactlyOnce`, `Pipeline`, `Checkout` |
| Event contract (`packages/contracts`) | none | validation of an envelope | `Fulfilment` (valid, invalid, undecodable) |
| Fault runner (`chaos/runner.py`, `__main__.py`) | the step under way | `run`, `revert` | `FaultRunner` |
| Fault state (`chaos/state.py`) | the recovery record, one file | `load`, `record`, `clear` | `FaultRunner` |
| Fault environment (`chaos/environment.py`) | status of topics, subscriptions, containers | `apply`, `detect` | `FaultRunner` |
| Fault catalogue (`chaos/catalogue.py`, `faults/*.yaml`) | immutable plans | load and validate | `FaultRunner` (the restore check) |
| Load generator (`apps/loadgen`) | schedule, requests in flight, outcomes | `run_load`, `issue_one`, `percentile` | `LoadGenerator` |
| Migrations (`apps/orders/migrations`) | the schema, the version table | `upgrade`, `downgrade` of three revisions | `Migrations` |
| Settings, sessions, logging, Terraform, mockup | none of their own | | not modelled: construction, formatting, declarations |
| Planner, investigators, tape, replay | | | not in the repository: the README lists them as open |

How they interact. The API and the publisher share only the table `outbox_events`; publishers
share that table with each other and coordinate through row locks (for the length of the claiming
transaction) and leases (for seconds, surviving a crash). A publisher hands an event to the broker
between two transactions. The subscription hands a message to a consumer under a lock that nobody
renews; the consumer runs one transaction and then settles the message by a call that can fail.
The topic discards a copy of an event it has taken within the last ten
minutes. Consumers share the two tables of the fulfilment schema, whose uniqueness constraints decide
between them. The fault runner changes broker and container state by a sequence of external calls
and protects itself against dying in the middle with a file written before the first of them.

What makes it hard, and what correctness is for each part:

- *Outbox*: several processes, a lease that can expire under a slow one, a database that can fail
  in the middle of `run_once`, an acknowledgement that can be lost, retries on two levels.
  Correct means: never recorded unsent, never touched under another's live lease, never reopened,
  paced, with a bounded number of copies.
- *Fulfilment*: at-least-once input, concurrent deliveries of one event, a commit whose reply is
  lost, settlement calls that fail, processes that end. Correct means: each order takes effect at
  most once, the broker is told only the truth, and every message is settled in the end.
- *Fault runner*: partial injection, partial revert, death at any point, a second command.
  Correct means: no damage without a record of how to repair it, a report that is true, and a
  record that reverting again and again does clear.
- *Migrations*: commands that overlap, are aborted in the middle, go up and down in any order.
  Correct means: the schema is always that of the recorded revision.
- *Load generator*: a loop that wakes late, a backlog, requests in flight at the end. Correct means:
  the schedule does not drift, the rate is an upper bound, every request is recorded, the run ends.

The full list of hazards, each at its line and with the properties that watch it, is in
`PROJECT.json` ("hazards").

## 2. The modules

`Outbox` is the core. `row` is the table, one record per event with the columns the workers read
(`published`, `attempts`, `nextAt`, `owner`, `leaseEnd`, `lastAt`). A worker is one *life* of a
publisher process, since the owner uuid is drawn when it starts. Its `pc` names the place in
`run_publisher_loop` and `run_once`:

    off -> loop -> claiming -> locked -> sending -> sent -> loop
                                            |-> failed -> releasing -> loop
    loop -> stopped        any running place -> crashed

One step is one database statement that others can notice, one commit, or one broker call.
`BeginClaim` and `BeginRelease` read `now()`, which in PostgreSQL is the time the transaction
began; any time may pass before the commit. `LockDueRow` is the SELECT with its whole WHERE and
`ORDER BY next_attempt_at`, and its row lock lasts until `CommitClaim` or a failure. `Settle` is the
conditional UPDATE: it waits for the row lock of a claim if the row is still the worker's own and
changes nothing if it is not. `SendFails` covers an answer that is lost after the broker accepted,
an SDK retry, and the final failure. `DatabaseFaults` lets any transaction of a publisher fail;
a commit that takes effect but whose reply is lost is `CommitClaimUnseen`. The pauses of the
loop are not steps: a worker in `loop` may go on at once or much later.

`Delivery` states what all this is for: commit, then deliver any number of times, then record, in
that order and never undone. `Outbox` maps onto it by `D == INSTANCE Delivery WITH ...`.

`OutboxProgress` is `Outbox` without an end, for liveness. Once the clock stands at `MaxClock`, `Age`
takes the place of `Tick`: it moves every time in the table and in the processes one back, and lets
what lies in the past gather at zero (rows that are due keep their order). No comparison an action makes
is changed by this. `Replace` starts a new life in the place of one that ended; its row leases pass
to `Retired`, a life that is over and stands for all of them, so that nothing settles them but a
takeover. Attempts count up to the one at which the backoff has reached its cap.

`Fulfilment` models consumers, the transaction of `fulfil_order` and the subscription. `InsertRows`
waits while another open transaction holds the same keys, as a unique index makes it wait, and
turns into the duplicate path once the event is committed. `FulfilOrderFails` includes the commit
whose reply is lost. `SettleMessageFails` ends the process, as no handler surrounds the settlement
calls; it may or may not have taken effect at the broker. `StartConsumer` starts a process again.
A message not yet used may arrive at any time (`Enqueue`, up to
`MaxMessages`). `ReceiveFails` is a receive that raises: it may have locked nothing, or messages
whose delivery is spent and whose answer nobody received, which are then held by nobody. Time is
left out: a held lock may expire at any moment.

`ExactlyOnce` states what the service promises, and `Fulfilment` maps onto it.

`Pipeline` composes the two by INSTANCE and adds the topic between them. A send the broker accepts
is one step of both: a step of `Outbox` that counts a copy, and `Arrive`, which discards the copy
if the topic remembers the event (`history`, `DetectionWindow`) and otherwise is `Enqueue` of
`Fulfilment` for a message of that event. Every other step belongs to one side. `Checkout` extends
`Delivery` by the fulfilled order and is what `Pipeline` as a whole implements.

`FaultRunner` models the terminals in which an operator calls `run` and `revert`, one after the other in
each, any number of times. The state file holds a fault id or nothing. Inject and revert steps are
applied one by one; a step that raises, is interrupted or dies with its process may have taken
effect, or not, or may do so later (`late`), since `run_command` does not stop what it started.
`struck` remembers what such a late effect changed last. A symptom appears at some moment while an
entity it depends on is disabled and outlasts it for a while, so that every check may see it or
not. `clear` (load and compare) and `Unlink` are two steps, as in the code. `raised` is what ended
the try block of a run, an error or a Ctrl-C (`Interrupt`); both recover, but of a Ctrl-C
`asyncio.run` makes a `KeyboardInterrupt`, for which `main` returns 130 and prints nothing. A Ctrl-C
outside the try block, where nothing recovers, is counted with `Die`. `outcome` is what the operator
is told; an "interrupted" or "died" command told nothing. Runs may always overlap: the exclusive creation of the record decides between
them. The constant `RevertsAlone` says whether the operator starts a revert only when no other
command is under way, which nothing in the code enforces: `FALSE` is the code as it is, `TRUE` how
its tests use it.

`Migrations` holds the database as a set of objects and the three revisions as sequences of
statements on it. `Accepted`, `Effect` and `Locks` say when PostgreSQL takes a statement, what it does
and what it locks until the end of the transaction; a command is one transaction (`env.py`), reads
its revision at its start without a lock, and after each migration writes the version row by a
statement that must match it (`Stamp`). Column types, nullability and server defaults are told
apart, lengths and time zones are not; names leave out the prefix of the naming convention, which
the scripts write out and the models have generated. `Models` is what `models.py` declares. What each
script does by itself (`ScriptsFit`: a downgrade undoes its upgrade, nothing touches the version
table, and the like) is a closed formula about the three upgrades and the three downgrades, which
TLC evaluates.

`LoadGenerator` models `run_load` as the coroutine it is: it suspends only in `wait_for` and `gather`, and
only then (`Yielded`) does the event loop start requests, complete them and handle signals. Time
passes anywhere, so that the loop may be late at every point. `percentile_rank` is the index
computed by `LoadStats.percentile`, plus one; percentages are whole numbers.

`OutboxProofs`, `FulfilmentProofs`, `FaultRunnerProofs`, `MigrationsProofs` and `LoadGeneratorProofs` hold the theorems
about the module they are named after, `PipelineProofs` those about the composition: it takes over
what is proved of the two services by `OP == INSTANCE OutboxProofs WITH ...` and
`FP == INSTANCE FulfilmentProofs WITH ...`. The `MC*` modules give the constants values for TLC.

Definitions whose name carries a suffix (`Due_IgnoresLease`, `record_Replaces`) are faulty variants
of the definition below them. No specification uses them; each one, put in the place of the
original, makes TLC find one of the properties violated, which shows that the property notices
that fault.

## 3. What TLC checks

| Run | Question | Result |
|---|---|---|
| `outbox_two` | two workers, two events, leases of one tick, failing transactions | `HolderOwnsOrExpired`, `ClaimsAreDistinct`, `OutboxInvariant`, `LeaseProtectsRow`, `ImplementsDelivery` hold (1.28 million states) |
| `outbox_retries` | one event, two workers, enough ticks for the backoff to double and reach its cap, an SDK retry in each attempt, shutdown at any moment, working database | `PublishedWasAccepted`, `TableConstraints`, `CopiesBounded`, `StoppedLeavesNoLease`, `PublishedIsFinal`, `RetryPacing` hold (670 000 states) |
| `outbox_progress` | two events, one of them refused for ever, one process that is replaced when it ends, time without end, failing transactions | `EveryEventIsPublished`, `ShutdownEndsProcess` hold under fairness (145 000 states) |
| `pipeline` | one order, two publishers, a consumer, resends inside and beyond the detection window | `RecordedIsHandled`, `PipelineInvariant`, `ImplementsCheckout` hold (1.2 million states) |
| `fulfilment` | two consumers and any two of: two copies of one event, an invalid message, one that is not UTF-8; batches, all faults | `FulfilmentInvariant`, `TablesAgree`, `CompletedWasFulfilled`, `DeadOnlyAfterBudget`, `StoppedHoldsNoLock`, `ImplementsExactlyOnce` hold, and `EverythingIsSettled` under fairness (220 000 states) |
| `fulfilment_unparseable` | a body that is not UTF-8, nothing else fails | `UnparseableIsRejected` is violated (finding 1) |
| `runner` | two terminals, every failure, interrupt and death, late effects, lagging symptoms, runs that overlap, reverts in their turn | `RunnerInvariant`, `ObligationCoversDamage`, `InjectsUnderItsRecord`, `RecordIsNeverReplaced`, `ReportsAreTrue` hold, and `RecoveryEnds` under fairness (126 000 states) |
| `runner_concurrent_revert` | a revert during a run | `InjectsUnderItsRecord` is violated (finding 2) |
| `runner_redisable` | a plan whose revert ends by disabling again | `NoObligationMeansRestored` is violated (finding 3) |
| `runner_interrupt` | Ctrl-C during a run, reverts in their turn | `RecoveryIsReported` is violated (finding 4) |
| `migrations` | three terminals, any sequence of upgrades and downgrades, aborted anywhere | `MigrationInvariant`, `SchemaMatchesVersion`, `LoneCommandSucceeds`, `LatestIsTheModels` hold (35 000 states) |
| `load_deadline` | a deadline of five slots, a late loop, slow requests, a signal at any time | `LoadInvariant`, `OnSchedule`, `DurationBoundsRequests`, `EveryRequestIsRecorded`, `PercentilesAreRanks`, `Returns` hold (4 200 states) |

The invariant named after a module (`OutboxInvariant`, `RunnerInvariant`, ...) is that of its proofs
in section 4; `TypeOK` is its first conjunct. An invariant is checked by TLC before it is proved: what fails there is
cheaper to understand as a behaviour than as an obligation.

### Bounds

- *Outbox.* Two workers are the conflict the lease is about; a third adds no new relation, as
  every property speaks of at most two, and the theorems cover any number. Leases of one tick
  with two ticks (`outbox_two`) let a lease expire exactly at, before and after a settlement and a
  takeover. `outbox_retries` has six ticks with a lease of two and waits of 1, 2, 3 (the cap), so
  that the lease is the shorter of the two waits at some attempts and the longer at others and both
  arms of `RetryPacing` bind; its database works, since one of its properties
  (`StoppedLeavesNoLease`) needs that, and the theorems cover the others with one that fails. `MaxClock` only ends the clock: a finite behaviour has a
  last tick, so the safety theorems, which hold for every `MaxClock`, say the same of a clock
  without bound. The production values (30 s lease, 1 s base, 5 min cap, one SDK retry) are among
  the values the theorems range over.
- *Outbox progress.* One process at a time is enough, as a replaced process meets the leases of all
  before it under the name `Retired`; how two live ones compete is a matter of safety. The refused
  event is one that always comes back in front of the other. Waits and leases of one tick; `MaxClock`
  exceeds them and the number of events, so that what is forgotten was already past.
- *Pipeline.* One order, as orders meet nowhere but in the batch, which is `fulfilment`'s. With a window
  of two ticks and a clock of two, a resend after one tick is discarded and one after two is not, so
  both messages reach the consumer. The database of the consumer fails, that of the publishers does not:
  the crash of a publisher makes the same duplicates. No crash of the consumer
  (`MaxInterruptions`): expiring locks already bring its messages back.
- *Fulfilment.* At most two of the four messages are in the subscription (`MaxMessages`): any pair of
  two copies, of a good and a bad message, or of two bad ones. Two copies of one event and two
  consumers are what concurrent deduplication needs; a budget of two deliveries instead of five still
  tells the last delivery from an earlier one. `MaxInterruptions` bounds crashes and shutdown requests;
  failures of transactions, of broker calls and of locks are bounded only by the delivery budget.
- *Fault runner.* Two terminals, each with commands without end, and one late effect at a time. Two
  plans share an entity, and the one of two steps lets an injection or a revert stop before, between
  and after its steps.
- *Migrations.* Nothing is bounded but the number of terminals: two to collide, a third that changes the
  revision both of them read.
- *Load generator.* A slot of two ticks lets the loop wake on a slot, between two and past several.
  The clock outlasts deadline and slot (`MCClockSuffices`), so its bound ends nothing. Five
  latencies reach a rounded half in either direction.

Deadlock is checked in `migrations`, where commands that wait for each other are aborted, in `runner`
and in `outbox_progress`, none of which ever stops. The other instances do (`CHECK_DEADLOCK FALSE`):
the clock or the budget is spent, or every process has ended.

### Fairness

Four runs assume some. In `fulfilment`, `WF(Proceed(c) \/ StartConsumer(c))`: a consumer that runs goes
on, as its loop has no wait without a timeout (the long poll ends by itself, transactions and calls
answer or raise), and a process that ended is started again; the code leaves that to its supervisor,
and its exit on a settlement error only makes sense with one. `WF(LockExpires(m))`: the
subscription's lock duration is one minute and the consumer has no lock renewer.
`SF(\E c : Receive(c))`: a receive may raise any number of times without locking anything, and the
loop pauses and asks again (`consumer.py:155-164`); if that went on for ever no message would reach
the code, so an outage of the broker is assumed to end. It is strong fairness because consumers
come to the poll and leave it again, and of some consumer, not of each, as one of them may be the
one that is always refused. Nothing is assumed of the outcome of a transaction or a settlement:
they may fail every time, and then it is the delivery budget that settles the message. In `load_deadline`: `run_load` and the requests go on when they
can run, a request ends (the HTTP client has a timeout of 30 s), a handler of a signal runs once
the loop is free, and time passes. In
`outbox_progress`: a process that runs goes on, one that ended is replaced, time passes. An event that is not refused
for ever is accepted if it is sent again and again under its sender's own lease (strong fairness:
attempts come and go), and an accepted one is settled now and then while the lease still holds;
without the last, a process that always takes longer than its lease would hand the event on for ever.
`Calm` is the premise that crashes, shutdown requests and failing transactions come to an end, since
a database that always fails publishes nothing. In `runner`: a command that runs goes on or fails, the
operator tries a revert whenever the terminals are again and again free (strong fairness), a symptom
fades once nothing is disabled; `RecoveryEnds` has the premise that commands at last stop failing
and dying.

A load run without a deadline promises less: at a rate above what
the process can issue, the loop never suspends and a signal is never handled.

### Findings

1. *Bytes that are not UTF-8 are not dead-lettered.* `read_body` raises `UnicodeDecodeError`, the
   handler names `ValidationError` (`consumer.py:90-95`): the process ends at each of the five
   deliveries the comment wants to spare.
2. *A revert during a run clears the run's record.* The file does not tell a run under way from one
   that died (`state.py:13-15`, `83-92`).
3. *A plan may end by disabling what it restored.* The validator looks for some `Active` step of each
   disabled entity (`catalogue.py:126-148`), not for the last one.
4. *The outcome of an interrupted run is told to nobody.* The except clause of `run` recovers on a
   Ctrl-C as well and hangs its outcome on the `CancelledError` as notes; `asyncio.run` raises a
   `KeyboardInterrupt` in its place, for which `main` returns 130 in silence (`__main__.py:130-131`,
   `153-154`). `_report_failure` (`53-59`) and the test of the command line
   (`tests/chaos/test_runner.py:346`) want it to reach the operator.

Four things met while modelling have no run of their own.

- "An event already being sent is always seen through to its recorded outcome"
  (`publisher_worker.py:44-45`): if the transaction of `_mark_published` raises, the loop pauses and goes
  on (`59-66`) with the event sent and not recorded. It is sent again after its lease;
  `EveryEventIsPublished` and `CopiesBounded` say what remains true.
- "A broker hiccup must not end the process" (`tests/fulfilment/test_consumer.py:279`) is tested for
  `receive_messages`; the settlement calls are awaited outside any handler, so an error in one ends the
  process (`SettleMessageFails`), and the message is settled by a later delivery
  (`EverythingIsSettled`).
- `clear` compares the fault id and then unlinks by path (`state.py:83-92`). Between the two another
  revert may clear the record and a new run write its own, which is then removed. As with finding 2 it
  takes a revert beside another command.
- `percentile` calls itself nearest-rank (`generator.py:50-56`), but `round(fraction * n)` may round down
  where the nearest rank rounds up: the median of five latencies is the second smallest.
  `PercentilesAreRanks` bounds the difference by one rank.

`ReportsAreTrue` and `ObligationCoversDamage` except what an interrupted step does late: once the record
is cleared nothing in the code could notice it.

## 4. What is proved

Theorems checked by TLAPS, for every value of the constants the assumptions admit. The assumptions
give the constants their types and nothing else, with the exceptions named below.

### `OutboxProofs`

For every set of events and workers, every lease, backoff, retry limit and clock bound that satisfy
`DurationsAssumption` (naturals, positive where the code's defaults are) and `NoneAssumption` (NULL is
no value of the columns).

| Theorem | States |
|---|---|
| `Typing` | `Spec => []TypeOK` |
| `InvariantHolds` | `Spec => []OutboxInvariant` |
| `PublishedOnlyAfterAcceptance` | `Spec => []PublishedWasAccepted` |
| `ConstraintsHold` | `Spec => []TableConstraints` |
| `LeaseSafety` | `Spec => []HolderOwnsOrExpired` |
| `DistinctAttempts` | `Spec => []ClaimsAreDistinct` |
| `LeaseProtection` | `Spec => LeaseProtectsRow` |
| `PublicationIsFinal` | `Spec => PublishedIsFinal` |
| `RetriesArePaced` | `Spec => RetryPacing` |
| `OutboxImplementsDelivery` | `Spec => ImplementsDelivery` |
| `CopiesAreBounded` | `Spec => []CopiesBounded` |
| `StopsCleanly` | `~ DatabaseFaults` implies `Spec => []StoppedLeavesNoLease` |
| `BackoffBounds` | every attempt waits at least one tick and at most the maximum |

The argument. None of the safety properties is inductive by itself: whether a settlement may touch
a row depends on who owns the lease, and whether the owner may have changed depends on times read
in earlier transactions. `OutboxInvariant` adds what the code relies on between its
transactions:

- `TimesPast`: the time of an open transaction is not in the future;
- `LockedRowUnchanged`, `LocksExclusive`: a row under a claim's lock is still due at the claim's time,
  and locked once, so the values read by the SELECT may be written at the commit;
- `HolderKnows`: a worker between claim and settlement knows the row's attempt number and time as
  long as it is the owner, and if it is not the owner any more its lease has run out;
- `RowTimes`: a lease ends one duration after the last attempt, and a released row waits at least
  its backoff.

`TypeOKStep` and `InvariantStep` have one step per action; the claims and the settlements go
through lemmas that say what they do to a row (`WriteClaimEffect`, `SettleEffect`, `MarkEffect`,
`ReleaseEffect`). `RowChange` classifies every change of the table into placement, claim and
settlement, from which the action properties and the refinement follow.

`CopiesAreBounded` needs an account of every send, as a worker that lost its lease may still be
sending beside its successors. `Sends` names the sends the recorded attempts allow by attempt and
retry, `Spent` are those no worker has before it, and `CopiesAccounted` says that no event has more
copies than spent sends. `ClaimsAreDistinct` is what makes it inductive: a send spent by one worker
is not pending for another. `StopsCleanly` rests on `OwnsOnlyWhatItHolds`: without failing
transactions a live worker owns only the row it carries.

### `FulfilmentProofs`

For every set of consumers and messages, every delivery budget, batch size and bound, with every kind of fault
switched on or off (`FulfilmentAssumption`).

| Theorem | States |
|---|---|
| `Typing` | `Spec => []TypeOK` |
| `InvariantHolds` | `Spec => []FulfilmentInvariant` |
| `FulfilledOnce` | `Spec => []TablesAgree` |
| `CompletionIsTruthful` | `Spec => []CompletedWasFulfilled` |
| `DeadLettersSpentBudget` | `Spec => []DeadOnlyAfterBudget` |
| `StopsWithoutLock` | `Spec => []StoppedHoldsNoLock` |
| `FulfilmentImplementsExactlyOnce` | `Spec => ImplementsExactlyOnce` |

The argument. What a consumer does next rests on what it saw before: it completes a message because it
found the event in the tables, and it commits because nobody else had inserted the keys. Between
the two, locks expire, messages go to others and transactions come and go. `FulfilmentInvariant` says what survives:

- `ConsumerKnows`: what the body of the message under its hands is, that its event is in no committed
  row while it has inserted one, and is in one when it is about to complete;
- `InsertsExclusive`: two open transactions never hold the rows of one event, so that the commit of
  one cannot invalidate the other's;
- `DeliveriesLeft`: a message that may be delivered has deliveries left, so that the one that
  dead-letters is the last;
- `LocksCarried`: a process holds a lock only on a message it carries, which gives `StopsWithoutLock`;
- `OnlyArrivals`: what a consumer carries and what is processed did reach the subscription, which the
  pipeline needs.

`InvariantStep` has one step per action; what whole groups of actions keep is a lemma (`LocksCarriedStep`,
`ArrivalsKept`, `SettlementKeepsMessages`).

### `PipelineProofs`

For every pipeline whose constants satisfy what its parts assume (`OutboxAssumption`,
`FulfilmentAssumption`), whose publishers write only valid envelopes and whose detection window is
positive (`PipelineAssumption`).

| Theorem | States |
|---|---|
| `PipelineRunsBoth` | `Spec => OP!Spec /\ FP!Spec` |
| `InvariantHolds` | `Spec => []PipelineInvariant` |
| `NothingIsLost` | `Spec => []RecordedIsHandled` |
| `PipelineImplementsCheckout` | `Spec => ImplementsCheckout` |

The argument. `PipelineRunsBoth` shows that a step of the pipeline is a step or a stutter of either part, the
arrival being `Enqueue`. Every theorem of the two parts then holds of the pipeline by
instantiation, and neither invariant is proved again. What is left is where they meet: `TopicAgrees`
says that copies were accepted of just the events the topic remembers, and of just those a message arrived.
With it, an order recorded as published was accepted (`PublishedWasAccepted`), hence arrived, hence
its message is waiting, dead after its budget (`DeadOnlyAfterBudget`), or completed, and then
fulfilled (`CompletedWasFulfilled`): `NothingIsLost`. The refinement of `Checkout` takes its steps of
delivery from the outbox's and its steps of fulfilment from those of `ExactlyOnce`.

### `FaultRunnerProofs`

For every set of terminals, entities and faults and every pair of plans (`FaultRunnerAssumption`).

| Theorem | Hypotheses | States |
|---|---|---|
| `Typing` | | `Spec => []TypeOK` |
| `RecordIsKept` | | `Spec => RecordIsNeverReplaced` |
| `RecordHasOneOwner` | `RevertsAlone` | `Spec => []OneOwner` |
| `InjectionIsRecorded` | `RevertsAlone` | `Spec => []InjectsUnderItsRecord` |
| `InvariantHolds` | `RevertsAlone`, `RevertsEndActive` | `Spec => []RunnerInvariant` |
| `DamageIsRecorded` | `RevertsAlone`, `RevertsEndActive` | `Spec => []ObligationCoversDamage` |
| `ClearedMeansRestored` | `RevertsAlone`, `RevertsEndActive` | `Spec => []NoObligationMeansRestored` |
| `ReportsHold` | `RevertsAlone`, `RevertsEndActive` | `Spec => ReportsAreTrue` |

The hypotheses are those the findings show to be needed: without `RevertsAlone`, `runner_concurrent_revert` is a
counterexample, and without `RevertsEndActive` (a revert step that disables an entity is followed by
one that enables it), `runner_redisable` is. Runs may overlap in all theorems. The shipped faults satisfy
the second, and `load_catalogue` would need one line to enforce it. What the code does check when it loads (`CatalogueLoads`)
is not assumed: a command gets past its loading only if it holds, and `CommandsLoadTheCatalogue` carries that through.

The argument. `OneOwner` says that the record is that of the one command which acts on it, however many runs found
no file; it is inductive under `RevertsAlone` alone. `ObligationCoversDamage` then needs to know that a recovery about to clear the
record has repaired everything: `RepairsAhead` says that whatever is disabled is enabled by a step
still before a recovery without failures, hence by none once it has verified. `StepsStarted` and `CommandsLoadTheCatalogue` say
where plans start and that they are admissible. `ReportsHold`
says that "recovered" stands for a record that is gone and entities that are enabled, "retained" for a
record that is still there, and that one of the two is behind the silence of an interrupted run; that
the operator is not told which is finding 4.

### `LoadGeneratorProofs`

For every interval, duration and clock bound (`LoadAssumption`).

| Theorem | States |
|---|---|
| `Typing` | `Spec => []TypeOK` |
| `InvariantHolds` | `Spec => []LoadInvariant` |
| `RateIsABound` | `Spec => []DurationBoundsRequests` |
| `RequestsAreRecorded` | `Spec => []EveryRequestIsRecorded` |
| `ScheduleDoesNotDrift` | `Spec => OnSchedule` |
| `PercentilesHold` | `Spec => []PercentilesAreRanks` |

`NeverAhead` (no request before its slot) makes the bound on the requests inductive, `DrainedWhenDone` the
record. Products of two variables are beyond the provers' linear arithmetic: `SlotOf`,
`SlotsFit` and their neighbours state once what is needed of quotients, and `RoundBounds`, `RoundMonotonic` of
rounding half to even.

### `MigrationsProofs`

For every set of commands, any number of them at once.

| Theorem | Hypothesis | States |
|---|---|---|
| `Typing` | | `Spec => []TypeOK` |
| `InvariantHolds` | | `Spec => []MigrationInvariant` |
| `SchemaIsOfItsVersion` | | `Spec => []SchemaMatchesVersion` |
| `LatestMatchesModels` | `Tables(SchemaAt[Latest]) = Models` | `Spec => []LatestIsTheModels` |
| `LoneCommandGoesThrough` | `ScriptsGoThrough` | `Spec => []LoneCommandSucceeds` |

The proofs divide the work with TLC. What a script makes of a given schema is computed, and the one
assumption, `ScriptsFit`, states the outcome: the provers cannot unfold a fold, and TLC evaluates the
formula, which has no variable and no constant but the scripts, at the start of the run `migrations`. What
commands do to each other when they overlap, for which TLC needs a bound on their number, is
proved. The two hypotheses are closed in the same way: that the upgrades one after the other end
at the models, and that each script is accepted on the schema of its revision. They are the part of
the two properties that depends on the scripts alone, and both hold: the run reaches the last
revision, and lone commands pass each statement of each script, where `LatestIsTheModels` or
`LoneCommandSucceeds` would fail otherwise.

The argument. A command reads its revision without a lock and works through statements meant for it,
while others commit. `Effect` acts on what one table owns and is decided by it (`EffectElsewhere`,
`EffectOfOwner`), so the schema can be followed table by table. A command may be wrong about the
revision until it writes the version row; it need not be right, it only must not get that far:

- `ScriptFollowed`: a table that an unstamped command has locked is as its script makes it, provided it
  is committed as its revision has it; what it has not locked, its script has not changed;
- `StampedHoldsVersion`: a command that wrote the version row found it at its own revision, so the
  proviso held for every table, and its tables are those of the script; it holds the lock on that
  row, hence nobody else stamps or has stamped;
- `FirstTableIsNew`: the first upgrade has no row to match, and what keeps a second one out is the
  name of the first table;
- `LoneOnCourse`: without company a command sees just what its script has made.

`SchemaMatchesVersion` is part of the invariant, as a commit carries it from one revision to the next.
`OneStamped` is where two commands meet; `ExecuteLocks` and `ExecuteFollows`, `StampKeeps` and
`CommitKeepsOthers` are the steps that matter.

### What is only model-checked

`EveryEventIsPublished`, `ShutdownEndsProcess`, `EverythingIsSettled`, `RecoveryEnds` and `Returns`: liveness under
fairness and ENABLED are out of the prover's reach, for good. `ScriptsFit` and the two hypotheses of
`MigrationsProofs`: what a fold computes is out of its reach too.
`OutboxProgress` has no theorem of its own: the safety properties are proved of `Outbox`, whose steps it
takes, and it adds only what makes the clock and the processes go on without end.

## 5. What is left out

Contents of messages and columns that nothing decides on (payload, correlation ids, error texts),
statistics and logging; the order of rows due at the same time (`occurred_at`, an API host's
clock); the connection set-up of the sender and the receiver; which field makes an envelope
invalid; the width of integers; symptom texts and ground truth of the catalogue; the composition of
the generated orders; rows in `Migrations`, where every added column has a default or is nullable,
and alembic's offline mode and its first creation of the version table.

Not modelled at all: settings and sessions (construction), logging (formatting), the Terraform files
but for the values cited, and the parts of the design that are not in the repository.

## 6. Plan

Done: `Outbox` with `Delivery`, `OutboxProgress` and `OutboxProofs`; `Fulfilment` with `ExactlyOnce`;
`Pipeline` with `Checkout`; `FaultRunner`; `Migrations`; `LoadGenerator`.

Proved: every invariant and every action property that a passing run checks, in `Outbox`, `Fulfilment`,
`Pipeline`, `FaultRunner`, `Migrations` and `LoadGenerator`, and the refinements of `Delivery`,
`ExactlyOnce` and `Checkout`.

Next: that `OutboxProgress` keeps the safety properties of `Outbox` when it moves times back and replaces
processes, so that its liveness speaks of states the theorems cover; the safety of the fault runner
under the weakest condition on reverts that the code could enforce.
