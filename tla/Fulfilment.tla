----------------------------- MODULE Fulfilment -----------------------------
(***************************************************************************)
(* The fulfilment service: the consumer processes of                       *)
(* apps/fulfilment/consumer.py, the transaction of                         *)
(* apps/fulfilment/service.py, the two tables of the fulfilment schema and *)
(* the Service Bus subscription they work on.                              *)
(*                                                                         *)
(* The subscription is external: its lock, delivery count and dead-letter  *)
(* queue are modelled from how infra/azure/service-bus/main.tf configures  *)
(* them and how the consumer relies on them.  Time is left out: a message  *)
(* lock may expire whenever it is held.  An event and its order are one    *)
(* thing here, as place_order creates exactly one event for each order.    *)
(***************************************************************************)
EXTENDS Naturals, Sequences, FiniteSets

CONSTANTS
    Messages,           \* messages on the subscription
    Events,             \* order events
    EventOf,            \* the event a message carries; several may carry one
    BodyOf,             \* "valid", "invalid" envelope or "undecodable" bytes
    Consumers,          \* consumer processes
    None,
    MaxDeliveryCount,   \* max_delivery_count of the subscription
    BatchSize,          \* batch_size of run_consumer_loop
    DatabaseFaults,     \* whether a transaction may fail
    BrokerFaults,       \* whether a broker call may fail
    MaxMessages,        \* bound on the messages that reach the subscription
    MaxInterruptions    \* bound on crashes and shutdown requests

ASSUME FulfilmentAssumption ==
    /\ EventOf \in [Messages -> Events]
    /\ BodyOf \in [Messages -> {"valid", "invalid", "undecodable"}]
    /\ None \notin Consumers
    /\ MaxDeliveryCount \in Nat \ {0}
    /\ BatchSize \in Nat \ {0}
    /\ DatabaseFaults \in BOOLEAN
    /\ BrokerFaults \in BOOLEAN
    /\ MaxMessages \in Nat
    /\ MaxInterruptions \in Nat

VARIABLES
    state,          \* of each message: absent, active, locked, completed, dead
    holder,         \* the consumer a lock was given to, None if it never got it
    deliveries,     \* the broker's delivery count of each message
    processed,      \* fulfilment.processed_events: a set of event ids
    fulfilments,    \* fulfilment.fulfilments: rows for each order's event
    pc,             \* where each consumer is in run_consumer_loop / settle_message
    batch,          \* the messages it has received and not settled, head first
    shutdown,       \* the shutdown event of each process
    interruptions   \* crashes and shutdown requests so far

brokerVars == <<state, holder, deliveries>>
tableVars == <<processed, fulfilments>>
vars == <<brokerVars, tableVars, pc, batch, shutdown, interruptions>>

-----------------------------------------------------------------------------
Working == {"settling", "inserting", "inserted", "completing", "abandoning", "rejecting"}

Running == {"loop", "polling"} \union Working

Ended == {"off", "stopped", "crashed", "failed"}

Current(c) == Head(batch[c])

CurrentEvent(c) == EventOf[Current(c)]

\* An open transaction that has inserted the event's two rows.
InsertedBy(c, e) == pc[c] = "inserted" /\ CurrentEvent(c) = e

LockHeld(c, m) == state[m] = "locked" /\ holder[m] = c

Goto(c, label) == pc' = [pc EXCEPT ![c] = label]

EndProcess(c, label) ==
    /\ Goto(c, label)
    /\ batch' = [batch EXCEPT ![c] = <<>>]
    /\ shutdown' = [shutdown EXCEPT ![c] = FALSE]

\* Faulty variants of a definition stand before it, named for the fault: each
\* shows that a property below notices it.
NextMessage_ChecksShutdown(c) ==
    LET rest == IF shutdown[c] THEN <<>> ELSE Tail(batch[c]) IN
    /\ batch' = [batch EXCEPT ![c] = rest]
    /\ Goto(c, IF rest = <<>> THEN "loop" ELSE "settling")

\* `for message in messages`
NextMessage(c) ==
    /\ batch' = [batch EXCEPT ![c] = Tail(@)]
    /\ Goto(c, IF Tail(batch[c]) = <<>> THEN "loop" ELSE "settling")

Init ==
    /\ state = [m \in Messages |-> "absent"]
    /\ holder = [m \in Messages |-> None]
    /\ deliveries = [m \in Messages |-> 0]
    /\ processed = {}
    /\ fulfilments = [e \in Events |-> 0]
    /\ pc = [c \in Consumers |-> "off"]
    /\ batch = [c \in Consumers |-> <<>>]
    /\ shutdown = [c \in Consumers |-> FALSE]
    /\ interruptions = 0

-----------------------------------------------------------------------------
(* The subscription *)

Enqueue(m) ==
    /\ state[m] = "absent"
    /\ Cardinality({n \in Messages : state[n] # "absent"}) < MaxMessages
    /\ state' = [state EXCEPT ![m] = "active"]
    /\ UNCHANGED <<holder, deliveries, tableVars, pc, batch, shutdown, interruptions>>

\* Hand the messages of a set to a consumer, or to nobody if the answer is lost.
LockFor(h, ms) ==
    /\ \A m \in ms : state[m] = "active"
    /\ state' = [m \in Messages |-> IF m \in ms THEN "locked" ELSE state[m]]
    /\ holder' = [m \in Messages |-> IF m \in ms THEN h ELSE holder[m]]
    /\ deliveries' = [m \in Messages |->
                        IF m \in ms THEN deliveries[m] + 1 ELSE deliveries[m]]

Settled(m, outcome) ==
    /\ state' = [state EXCEPT ![m] = outcome]
    /\ holder' = [holder EXCEPT ![m] = None]
    /\ UNCHANGED deliveries

\* A message that was not settled goes back, or to the dead-letter queue once its
\* deliveries are spent.
Returned(m) ==
    Settled(m, IF deliveries[m] < MaxDeliveryCount THEN "active" ELSE "dead")

LockExpires(m) ==
    /\ state[m] = "locked"
    /\ Returned(m)
    /\ UNCHANGED <<tableVars, pc, batch, shutdown, interruptions>>

-----------------------------------------------------------------------------
(* Process life and loop *)

\* A new process has a receiver of its own: the locks of an earlier life are nobody's.
StartConsumer(c) ==
    /\ pc[c] \in Ended
    /\ Goto(c, "loop")
    /\ holder' = [m \in Messages |-> IF holder[m] = c THEN None ELSE holder[m]]
    /\ UNCHANGED <<state, deliveries, tableVars, batch, shutdown, interruptions>>

RequestShutdown(c) ==
    /\ pc[c] \in Running /\ ~ shutdown[c]
    /\ interruptions < MaxInterruptions
    /\ interruptions' = interruptions + 1
    /\ shutdown' = [shutdown EXCEPT ![c] = TRUE]
    /\ UNCHANGED <<brokerVars, tableVars, pc, batch>>

\* The process dies: its transaction is rolled back, its locks run out by themselves.
Crash(c) ==
    /\ pc[c] \in Running
    /\ interruptions < MaxInterruptions
    /\ interruptions' = interruptions + 1
    /\ EndProcess(c, "crashed")
    /\ UNCHANGED <<brokerVars, tableVars>>

StopLoop(c) ==
    /\ pc[c] = "loop" /\ shutdown[c]
    /\ EndProcess(c, "stopped")
    /\ UNCHANGED <<brokerVars, tableVars, interruptions>>

BeginReceive(c) ==
    /\ pc[c] = "loop" /\ ~ shutdown[c]
    /\ Goto(c, "polling")
    /\ UNCHANGED <<brokerVars, tableVars, batch, shutdown, interruptions>>

Active == {m \in Messages : state[m] = "active"}

\* receive_messages returns a batch, in the broker's order.
Receive(c) ==
    /\ pc[c] = "polling"
    /\ \E n \in 1 .. BatchSize :
         \E ms \in [1 .. n -> Active] :
            /\ \A i, j \in 1 .. n : i # j => ms[i] # ms[j]
            /\ LockFor(c, {ms[i] : i \in 1 .. n})
            /\ batch' = [batch EXCEPT ![c] = ms]
    /\ Goto(c, "settling")
    /\ UNCHANGED <<tableVars, shutdown, interruptions>>

ReceiveNothing(c) ==
    /\ pc[c] = "polling"
    /\ Active = {}
    /\ Goto(c, "loop")
    /\ UNCHANGED <<brokerVars, tableVars, batch, shutdown, interruptions>>

\* receive_messages raises: the broker was not reached or refused, or it locked
\* messages whose delivery was lost on the way.  The loop goes on after a pause.
ReceiveFails(c) ==
    /\ BrokerFaults
    /\ pc[c] = "polling"
    /\ \E ms \in SUBSET Active : Cardinality(ms) <= BatchSize /\ LockFor(None, ms)
    /\ Goto(c, "loop")
    /\ UNCHANGED <<tableVars, batch, shutdown, interruptions>>

-----------------------------------------------------------------------------
(* settle_message: the envelope and the transaction of fulfil_order *)

\* A UnicodeDecodeError of read_body is no ValidationError: it ends the process.
ValidateEnvelope(c) ==
    /\ pc[c] = "settling"
    /\ \/ /\ BodyOf[Current(c)] = "valid"
          /\ Goto(c, "inserting")
          /\ UNCHANGED <<batch, shutdown>>
       \/ /\ BodyOf[Current(c)] = "invalid"
          /\ Goto(c, "rejecting")
          /\ UNCHANGED <<batch, shutdown>>
       \/ /\ BodyOf[Current(c)] = "undecodable"
          /\ EndProcess(c, "failed")
    /\ UNCHANGED <<brokerVars, tableVars, interruptions>>

InsertRows_ReadThenWrite(c) ==
    /\ pc[c] = "inserting"
    /\ Goto(c, IF CurrentEvent(c) \in processed THEN "completing" ELSE "inserted")
    /\ UNCHANGED <<brokerVars, tableVars, batch, shutdown, interruptions>>

InsertRows_NoUniqueKeys(c) ==
    /\ pc[c] = "inserting"
    /\ Goto(c, "inserted")
    /\ UNCHANGED <<brokerVars, tableVars, batch, shutdown, interruptions>>

\* The inserts wait for another transaction that has inserted the same keys, and
\* are refused as a duplicate once the event is in the tables.
InsertRows(c) ==
    /\ pc[c] = "inserting"
    /\ \A d \in Consumers : ~ InsertedBy(d, CurrentEvent(c))
    /\ Goto(c, IF CurrentEvent(c) \in processed THEN "completing" ELSE "inserted")
    /\ UNCHANGED <<brokerVars, tableVars, batch, shutdown, interruptions>>

WriteRows_ProcessedOnly(e) ==
    /\ processed' = processed \union {e}
    /\ UNCHANGED fulfilments

WriteRows(e) ==
    /\ processed' = processed \union {e}
    /\ fulfilments' = [fulfilments EXCEPT ![e] = @ + 1]

CommitRows_Forgotten(c) ==
    /\ pc[c] = "inserted"
    /\ Goto(c, "completing")
    /\ UNCHANGED <<brokerVars, tableVars, batch, shutdown, interruptions>>

CommitRows(c) ==
    /\ pc[c] = "inserted"
    /\ WriteRows(CurrentEvent(c))
    /\ Goto(c, "completing")
    /\ UNCHANGED <<brokerVars, batch, shutdown, interruptions>>

FulfilOrderFails_AsDuplicate(c) ==
    /\ DatabaseFaults
    /\ pc[c] \in {"inserting", "inserted"}
    /\ Goto(c, "completing")
    /\ UNCHANGED <<brokerVars, tableVars, batch, shutdown, interruptions>>

FulfilOrderFails_DeadLetters(c) ==
    /\ DatabaseFaults
    /\ pc[c] \in {"inserting", "inserted"}
    /\ Goto(c, "rejecting")
    /\ UNCHANGED <<brokerVars, tableVars, batch, shutdown, interruptions>>

\* fulfil_order raises: nothing was written, or the commit's reply was lost.
FulfilOrderFails(c) ==
    /\ DatabaseFaults
    /\ \/ pc[c] \in {"inserting", "inserted"} /\ UNCHANGED tableVars
       \/ pc[c] = "inserted" /\ WriteRows(CurrentEvent(c))
    /\ Goto(c, "abandoning")
    /\ UNCHANGED <<brokerVars, batch, shutdown, interruptions>>

-----------------------------------------------------------------------------
(* settle_message: telling the broker *)

\* The effect a settlement call has on the message the consumer holds.
Settlement(c) ==
    \/ pc[c] = "completing" /\ Settled(Current(c), "completed")
    \/ pc[c] = "abandoning" /\ Returned(Current(c))
    \/ pc[c] = "rejecting" /\ Settled(Current(c), "dead")

SettleMessage(c) ==
    /\ pc[c] \in {"completing", "abandoning", "rejecting"}
    /\ LockHeld(c, Current(c))
    /\ Settlement(c)
    /\ NextMessage(c)
    /\ UNCHANGED <<tableVars, shutdown, interruptions>>

SettleMessageFails_TriesAgain(c) ==
    /\ pc[c] \in {"completing", "abandoning", "rejecting"}
    /\ BrokerFaults /\ LockHeld(c, Current(c)) /\ Settlement(c)
    /\ UNCHANGED <<tableVars, pc, batch, shutdown, interruptions>>

\* A settlement call that raises is caught nowhere: it ends the process.
SettleMessageFails(c) ==
    /\ pc[c] \in {"completing", "abandoning", "rejecting"}
    /\ \/ ~ LockHeld(c, Current(c)) /\ UNCHANGED brokerVars
       \/ BrokerFaults /\ UNCHANGED brokerVars
       \/ BrokerFaults /\ LockHeld(c, Current(c)) /\ Settlement(c)
    /\ EndProcess(c, "failed")
    /\ UNCHANGED <<tableVars, interruptions>>

-----------------------------------------------------------------------------
\* What a running consumer does by itself.
Proceed(c) ==
    \/ StopLoop(c) \/ BeginReceive(c)
    \/ Receive(c) \/ ReceiveNothing(c) \/ ReceiveFails(c)
    \/ ValidateEnvelope(c) \/ InsertRows(c) \/ CommitRows(c) \/ FulfilOrderFails(c)
    \/ SettleMessage(c) \/ SettleMessageFails(c)

Next ==
    \/ \E m \in Messages : Enqueue(m) \/ LockExpires(m)
    \/ \E c \in Consumers :
         StartConsumer(c) \/ RequestShutdown(c) \/ Crash(c) \/ Proceed(c)

Spec == Init /\ [][Next]_vars

\* A process that runs goes on, one that ended is started again, a lock nobody
\* renews expires (the consumer has no lock renewer).  A receive may fail any number
\* of times, but where the broker has messages again and again and the consumers ask
\* for them again and again, some receive is answered: an outage of the broker ends.
FairSpec ==
    /\ Spec
    /\ \A c \in Consumers : WF_vars(Proceed(c) \/ StartConsumer(c))
    /\ SF_vars(\E c \in Consumers : Receive(c))
    /\ \A m \in Messages : WF_vars(LockExpires(m))

-----------------------------------------------------------------------------
(* Properties *)

\* Every variable has its type; a consumer carries messages exactly while it is
\* working on a batch.
TypeOK ==
    /\ state \in [Messages -> {"absent", "active", "locked", "completed", "dead"}]
    /\ holder \in [Messages -> Consumers \union {None}]
    /\ deliveries \in [Messages -> 0 .. MaxDeliveryCount]
    /\ processed \subseteq Events
    /\ fulfilments \in [Events -> Nat]
    /\ pc \in [Consumers -> Running \union Ended]
    /\ batch \in [Consumers -> Seq(Messages)]
    /\ shutdown \in [Consumers -> BOOLEAN]
    /\ interruptions \in 0 .. MaxInterruptions
    /\ \A c \in Consumers : batch[c] # <<>> <=> pc[c] \in Working

\* An order is fulfilled exactly once if its event was processed and not at all
\* otherwise, with several consumers on several copies of the event at once,
\* transactions that fail and commits whose reply is lost (fulfil_order).
TablesAgree ==
    \A e \in Events : fulfilments[e] = IF e \in processed THEN 1 ELSE 0

\* The broker is told that a message is complete only once its order is
\* fulfilled: no failure makes the consumer discard an event (settle_message).
CompletedWasFulfilled ==
    \A m \in Messages : state[m] = "completed" =>
        BodyOf[m] = "valid" /\ EventOf[m] \in processed

\* A message whose envelope is valid reaches the dead-letter queue only by
\* spending its deliveries, never by a decision of the consumer.
DeadOnlyAfterBudget ==
    \A m \in Messages :
        state[m] = "dead" /\ BodyOf[m] = "valid" => deliveries[m] = MaxDeliveryCount

\* A batch already received is settled in full even once shutdown arrives
\* (run_consumer_loop): a process that stopped of itself holds no lock.
StoppedHoldsNoLock ==
    \A c \in Consumers, m \in Messages : pc[c] = "stopped" => ~ LockHeld(c, m)

\* A message that may be handed out has a delivery left.
DeliveriesLeft ==
    \A m \in Messages : state[m] \in {"absent", "active"} => deliveries[m] < MaxDeliveryCount

\* What settle_message knows at each place of the message it is at: what its body
\* is, and whether its event is in the tables.
ConsumerKnows ==
    \A c \in Consumers :
        /\ pc[c] \in {"inserting", "inserted", "completing", "abandoning"} =>
             BodyOf[Current(c)] = "valid"
        /\ pc[c] = "rejecting" => BodyOf[Current(c)] = "invalid"
        /\ pc[c] = "inserted" => CurrentEvent(c) \notin processed
        /\ pc[c] = "completing" => CurrentEvent(c) \in processed

\* The unique keys keep two open transactions from having inserted the same rows.
InsertsExclusive ==
    \A c, d \in Consumers :
        pc[c] = "inserted" /\ c # d => ~ InsertedBy(d, CurrentEvent(c))

\* A process holds no lock on a message it has forgotten.
LocksCarried ==
    \A c \in Consumers, m \in Messages :
        pc[c] \in Running \union {"stopped"} /\ LockHeld(c, m) =>
            \E i \in 1 .. Len(batch[c]) : batch[c][i] = m

\* What a consumer carries, and what is processed, once reached the subscription.
OnlyArrivals ==
    /\ \A c \in Consumers : \A i \in 1 .. Len(batch[c]) : state[batch[c][i]] # "absent"
    /\ \A e \in processed : \E m \in Messages : EventOf[m] = e /\ state[m] # "absent"

\* What every step of the consumers and of the subscription preserves: the types and
\* the safety properties above, with what the consumer relies on between its waits.
FulfilmentInvariant ==
    /\ TypeOK
    /\ TablesAgree
    /\ CompletedWasFulfilled
    /\ DeadOnlyAfterBudget
    /\ DeliveriesLeft
    /\ ConsumerKnows
    /\ InsertsExclusive
    /\ LocksCarried
    /\ OnlyArrivals

\* Every message is settled in the end, completed or dead-lettered, in spite of
\* failing transactions and broker calls, and of bodies that end the process
\* (run_consumer_loop, which goes on after a failed receive).
EverythingIsSettled ==
    \A m \in Messages : state[m] = "active" ~> state[m] \in {"completed", "dead"}

E == INSTANCE ExactlyOnce WITH
        effects <- fulfilments,
        done <- {m \in Messages : state[m] = "completed"}

\* The consumers implement exactly-once processing of at-least-once delivery.
ImplementsExactlyOnce == E!ExactlyOnceSpec

\* An unparseable message is dead-lettered now rather than spending its delivery
\* budget (settle_message): the consumer does nothing else with it.
UnparseableIsRejected ==
    [][\A c \in Consumers :
         /\ pc[c] = "settling" /\ pc'[c] \notin {"settling", "crashed"}
         /\ BodyOf[Current(c)] # "valid"
         => pc'[c] = "rejecting"]_vars
=============================================================================
