--------------------------- MODULE FulfilmentProofs ---------------------------
(***************************************************************************)
(* Theorems about Fulfilment for every set of messages, events and         *)
(* consumers, every body, delivery budget and batch size, checked by       *)
(* TLAPS.                                                                  *)
(***************************************************************************)
EXTENDS Fulfilment, TLAPS

-----------------------------------------------------------------------------
(* The operators the actions are built from *)

\* A consumer at work has a message, of an event, and the rest of its batch.
LEMMA CurrentTypes ==
  ASSUME TypeOK, NEW c \in Consumers, pc[c] \in Working
  PROVE  /\ batch[c] \in Seq(Messages) /\ batch[c] # <<>>
         /\ Current(c) \in Messages
         /\ CurrentEvent(c) \in Events
         /\ Tail(batch[c]) \in Seq(Messages)
<1>1. batch[c] \in Seq(Messages) /\ batch[c] # <<>>
  BY DEF TypeOK
<1>2. Head(batch[c]) \in Messages /\ Tail(batch[c]) \in Seq(Messages)
  BY <1>1
<1> QED
  BY <1>1, <1>2, FulfilmentAssumption DEF Current, CurrentEvent

\* What is locked goes to its holder with one more delivery; the rest stays.
LEMMA LockForEffect ==
  ASSUME TypeOK, DeliveriesLeft, NEW h \in Consumers \union {None},
         NEW ms \in SUBSET Messages, LockFor(h, ms)
  PROVE  /\ state' \in [Messages -> {"absent", "active", "locked", "completed", "dead"}]
         /\ holder' \in [Messages -> Consumers \union {None}]
         /\ deliveries' \in [Messages -> 0 .. MaxDeliveryCount]
         /\ \A m \in ms : state[m] = "active" /\ state'[m] = "locked" /\ holder'[m] = h
         /\ \A m \in Messages \ ms :
              /\ state'[m] = state[m] /\ holder'[m] = holder[m]
              /\ deliveries'[m] = deliveries[m]
<1>1. MaxDeliveryCount \in Nat
  BY FulfilmentAssumption
<1>2. ASSUME NEW m \in Messages
      PROVE  (IF m \in ms THEN deliveries[m] + 1 ELSE deliveries[m]) \in 0 .. MaxDeliveryCount
  <2>1. deliveries[m] \in 0 .. MaxDeliveryCount
    BY DEF TypeOK
  <2>2. m \in ms => deliveries[m] < MaxDeliveryCount
    BY DEF LockFor, DeliveriesLeft
  <2> QED
    BY <1>1, <2>1, <2>2
<1>3. deliveries' \in [Messages -> 0 .. MaxDeliveryCount]
  BY <1>2 DEF LockFor
<1> QED
  BY <1>3 DEF LockFor, TypeOK

\* The answer of receive_messages is a batch of active messages that are locked now.
LEMMA ReceivedBatch ==
  ASSUME NEW c \in Consumers, Receive(c)
  PROVE  \E ms \in Seq(Messages) :
           /\ ms # <<>>
           /\ {ms[i] : i \in 1 .. Len(ms)} \subseteq Active
           /\ LockFor(c, {ms[i] : i \in 1 .. Len(ms)})
           /\ batch' = [batch EXCEPT ![c] = ms]
<1>1. PICK n \in 1 .. BatchSize :
        \E ms \in [1 .. n -> Active] :
           /\ LockFor(c, {ms[i] : i \in 1 .. n})
           /\ batch' = [batch EXCEPT ![c] = ms]
  BY DEF Receive
<1>2. PICK ms \in [1 .. n -> Active] :
        /\ LockFor(c, {ms[i] : i \in 1 .. n})
        /\ batch' = [batch EXCEPT ![c] = ms]
  BY <1>1
<1>3. n \in Nat /\ n >= 1 /\ ms \in [1 .. n -> Messages]
  BY FulfilmentAssumption DEF Active
<1>4. ms \in Seq(Messages) /\ Len(ms) = n /\ ms # <<>>
  BY <1>3
<1>5. {ms[i] : i \in 1 .. Len(ms)} \subseteq Active
  BY <1>4
<1> QED
  BY <1>2, <1>4, <1>5

\* What a settlement leaves of the message it is about, and of the others.
LEMMA SettledEffect ==
  ASSUME TypeOK, NEW m \in Messages,
         NEW outcome \in {"active", "completed", "dead"}, Settled(m, outcome)
  PROVE  /\ state' \in [Messages -> {"absent", "active", "locked", "completed", "dead"}]
         /\ holder' \in [Messages -> Consumers \union {None}]
         /\ deliveries' = deliveries
         /\ state'[m] = outcome /\ holder'[m] = None
         /\ \A n \in Messages \ {m} : state'[n] = state[n] /\ holder'[n] = holder[n]
  BY DEF Settled, TypeOK

\* A returned message is active with a delivery left, or dead with none.
LEMMA ReturnedOutcome ==
  ASSUME TypeOK, NEW m \in Messages, Returned(m)
  PROVE  \E outcome \in {"active", "completed", "dead"} :
           /\ Settled(m, outcome)
           /\ outcome # "completed"
           /\ outcome = "active" => deliveries[m] < MaxDeliveryCount
           /\ outcome = "dead" => deliveries[m] = MaxDeliveryCount
<1>1. deliveries[m] \in 0 .. MaxDeliveryCount /\ MaxDeliveryCount \in Nat
  BY FulfilmentAssumption DEF TypeOK
<1>2. CASE deliveries[m] < MaxDeliveryCount
  <2>1. Settled(m, "active")
    BY <1>2 DEF Returned
  <2> QED
    BY <1>2, <2>1
<1>3. CASE ~ (deliveries[m] < MaxDeliveryCount)
  <2>1. Settled(m, "dead")
    BY <1>3 DEF Returned
  <2>2. deliveries[m] = MaxDeliveryCount
    BY <1>1, <1>3
  <2> QED
    BY <2>1, <2>2
<1> QED
  BY <1>2, <1>3

\* What the broker does with the message a settlement call is about: complete it for
\* a consumer in "completing", else dead-letter an invalid one or take it back.
LEMMA SettlementOutcome ==
  ASSUME TypeOK, NEW c \in Consumers, pc[c] \in Working, Settlement(c)
  PROVE  \E outcome \in {"active", "completed", "dead"} :
           /\ Settled(Current(c), outcome)
           /\ outcome = "completed" <=> pc[c] = "completing"
           /\ outcome = "active" => deliveries[Current(c)] < MaxDeliveryCount
           /\ outcome = "dead" => \/ pc[c] = "rejecting"
                                  \/ deliveries[Current(c)] = MaxDeliveryCount
<1>1. Current(c) \in Messages
  BY CurrentTypes
<1>2. CASE pc[c] = "completing" /\ Settled(Current(c), "completed")
  BY <1>2
<1>3. CASE pc[c] = "abandoning" /\ Returned(Current(c))
  BY <1>1, <1>3, ReturnedOutcome
<1>4. CASE pc[c] = "rejecting" /\ Settled(Current(c), "dead")
  BY <1>4
<1> QED
  BY <1>2, <1>3, <1>4 DEF Settlement

-----------------------------------------------------------------------------
(* Types *)

\* A settlement that makes its message active only with a delivery left keeps every
\* active message deliverable.
LEMMA SettledKeepsDeliveries ==
  ASSUME TypeOK, DeliveriesLeft, NEW m \in Messages,
         NEW outcome \in {"active", "completed", "dead"}, Settled(m, outcome),
         outcome = "active" => deliveries[m] < MaxDeliveryCount
  PROVE  DeliveriesLeft'
<1>1. ASSUME NEW n \in Messages, state'[n] \in {"absent", "active"}
      PROVE  deliveries'[n] < MaxDeliveryCount
  <2>1. CASE n = m
    BY <1>1, <2>1, SettledEffect
  <2>2. CASE n # m
    BY <1>1, <2>2, SettledEffect DEF DeliveriesLeft
  <2> QED
    BY <2>1, <2>2
<1> QED
  BY <1>1 DEF DeliveriesLeft

\* A step of one consumer that keeps the types of its place and of its batch.
LEMMA ConsumerTypes ==
  ASSUME TypeOK, NEW c \in Consumers,
         NEW label \in Running \union Ended, Goto(c, label),
         NEW rest \in Seq(Messages), batch' = [batch EXCEPT ![c] = rest],
         rest # <<>> <=> label \in Working
  PROVE  /\ pc' \in [Consumers -> Running \union Ended]
         /\ batch' \in [Consumers -> Seq(Messages)]
         /\ \A d \in Consumers : batch'[d] # <<>> <=> pc'[d] \in Working
<1>1. pc' = [pc EXCEPT ![c] = label]
  BY DEF Goto
<1>2. /\ pc \in [Consumers -> Running \union Ended]
      /\ batch \in [Consumers -> Seq(Messages)]
  BY DEF TypeOK
<1>3. /\ pc' \in [Consumers -> Running \union Ended]
      /\ batch' \in [Consumers -> Seq(Messages)]
  BY <1>1, <1>2
<1>4. ASSUME NEW d \in Consumers PROVE batch'[d] # <<>> <=> pc'[d] \in Working
  <2>1. CASE d = c
    BY <1>1, <1>2, <2>1
  <2>2. CASE d # c
    BY <1>1, <1>2, <2>2 DEF TypeOK
  <2> QED
    BY <2>1, <2>2
<1> QED
  BY <1>3, <1>4

\* The same for a step that does not touch the batch.
LEMMA GotoTypes ==
  ASSUME TypeOK, NEW c \in Consumers,
         NEW label \in Running \union Ended, Goto(c, label), UNCHANGED batch,
         pc[c] \in Working <=> label \in Working
  PROVE  /\ pc' \in [Consumers -> Running \union Ended]
         /\ batch' \in [Consumers -> Seq(Messages)]
         /\ \A d \in Consumers : batch'[d] # <<>> <=> pc'[d] \in Working
<1>1. batch[c] \in Seq(Messages) /\ batch' = [batch EXCEPT ![c] = batch[c]]
  BY DEF TypeOK
<1>2. batch[c] # <<>> <=> label \in Working
  BY DEF TypeOK
<1> QED
  BY <1>1, <1>2, ConsumerTypes

\* The end of a process, its shutdown event with it.
LEMMA EndProcessTypes ==
  ASSUME TypeOK, NEW c \in Consumers, NEW label \in Ended, EndProcess(c, label)
  PROVE  /\ pc' \in [Consumers -> Running \union Ended]
         /\ batch' \in [Consumers -> Seq(Messages)]
         /\ shutdown' \in [Consumers -> BOOLEAN]
         /\ \A d \in Consumers : batch'[d] # <<>> <=> pc'[d] \in Working
<1>1. label \in Running \union Ended /\ label \notin Working
  BY DEF Ended, Working
<1>2. Goto(c, label) /\ batch' = [batch EXCEPT ![c] = <<>>]
  BY DEF EndProcess
<1>3. <<>> \in Seq(Messages)
  OBVIOUS
<1>4. shutdown' \in [Consumers -> BOOLEAN]
  BY DEF EndProcess, TypeOK
<1> QED
  BY <1>1, <1>2, <1>3, <1>4, ConsumerTypes

\* The commit of an event's rows.
LEMMA WriteRowsTypes ==
  ASSUME TypeOK, NEW e \in Events, WriteRows(e)
  PROVE  processed' \subseteq Events /\ fulfilments' \in [Events -> Nat]
  BY DEF TypeOK, WriteRows

\* Every step keeps the types and never spends a delivery that is not there.
LEMMA TypeOKStep ==
  ASSUME TypeOK, DeliveriesLeft, [Next]_vars
  PROVE  TypeOK' /\ DeliveriesLeft'
<1> USE FulfilmentAssumption
<1>1. ASSUME NEW m \in Messages, Enqueue(m) PROVE TypeOK' /\ DeliveriesLeft'
  BY <1>1 DEF Enqueue, TypeOK, DeliveriesLeft, tableVars
<1>2. ASSUME NEW m \in Messages, LockExpires(m) PROVE TypeOK' /\ DeliveriesLeft'
  <2>1. PICK outcome \in {"active", "completed", "dead"} :
          /\ Settled(m, outcome)
          /\ outcome = "active" => deliveries[m] < MaxDeliveryCount
    BY <1>2, ReturnedOutcome DEF LockExpires
  <2>2. DeliveriesLeft'
    BY <2>1, SettledKeepsDeliveries
  <2> QED
    BY <1>2, <2>1, <2>2, SettledEffect DEF LockExpires, TypeOK, tableVars
<1>3. ASSUME NEW c \in Consumers, StartConsumer(c) PROVE TypeOK' /\ DeliveriesLeft'
  <2>1. Goto(c, "loop") /\ UNCHANGED batch /\ pc[c] \notin Working
    BY <1>3 DEF StartConsumer, Ended, Working
  <2>2. "loop" \in Running \union Ended /\ "loop" \notin Working
    BY DEF Running, Working
  <2>3. holder' \in [Messages -> Consumers \union {None}]
    BY <1>3 DEF StartConsumer, TypeOK
  <2> QED
    BY <1>3, <2>1, <2>2, <2>3, GotoTypes DEF StartConsumer, TypeOK, DeliveriesLeft, tableVars
<1>4. ASSUME NEW c \in Consumers, RequestShutdown(c) PROVE TypeOK' /\ DeliveriesLeft'
  BY <1>4 DEF RequestShutdown, TypeOK, DeliveriesLeft, tableVars, brokerVars
<1>5. ASSUME NEW c \in Consumers, Crash(c) PROVE TypeOK' /\ DeliveriesLeft'
  <2>1. EndProcess(c, "crashed") /\ "crashed" \in Ended
    BY <1>5 DEF Crash, Ended
  <2>2. interruptions' \in 0 .. MaxInterruptions
    BY <1>5 DEF Crash, TypeOK
  <2> QED
    BY <1>5, <2>1, <2>2, EndProcessTypes
    DEF Crash, TypeOK, DeliveriesLeft, tableVars, brokerVars
<1>6. ASSUME NEW c \in Consumers, StopLoop(c) PROVE TypeOK' /\ DeliveriesLeft'
  <2>1. EndProcess(c, "stopped") /\ "stopped" \in Ended
    BY <1>6 DEF StopLoop, Ended
  <2> QED
    BY <1>6, <2>1, EndProcessTypes DEF StopLoop, TypeOK, DeliveriesLeft, tableVars, brokerVars
<1>7. ASSUME NEW c \in Consumers, BeginReceive(c) PROVE TypeOK' /\ DeliveriesLeft'
  <2>1. Goto(c, "polling") /\ UNCHANGED batch /\ pc[c] \notin Working
    BY <1>7 DEF BeginReceive, Working
  <2>2. "polling" \in Running \union Ended /\ "polling" \notin Working
    BY DEF Running, Working
  <2> QED
    BY <1>7, <2>1, <2>2, GotoTypes DEF BeginReceive, TypeOK, DeliveriesLeft, tableVars, brokerVars
<1>8. ASSUME NEW c \in Consumers, Receive(c) PROVE TypeOK' /\ DeliveriesLeft'
  <2>1. PICK ms \in Seq(Messages) :
          /\ ms # <<>>
          /\ {ms[i] : i \in 1 .. Len(ms)} \subseteq Active
          /\ LockFor(c, {ms[i] : i \in 1 .. Len(ms)})
          /\ batch' = [batch EXCEPT ![c] = ms]
    BY <1>8, ReceivedBatch
  <2>4. {ms[i] : i \in 1 .. Len(ms)} \in SUBSET Messages
    BY <2>1 DEF Active
  <2>5. Goto(c, "settling") /\ "settling" \in Running \union Ended /\ "settling" \in Working
    BY <1>8 DEF Receive, Running, Working
  <2>6. /\ pc' \in [Consumers -> Running \union Ended]
        /\ batch' \in [Consumers -> Seq(Messages)]
        /\ \A d \in Consumers : batch'[d] # <<>> <=> pc'[d] \in Working
    BY <2>1, <2>5, ConsumerTypes
  <2>7. DeliveriesLeft'
    BY <2>1, <2>4, LockForEffect DEF DeliveriesLeft
  <2> QED
    BY <1>8, <2>1, <2>4, <2>6, <2>7, LockForEffect DEF Receive, TypeOK, tableVars
<1>9. ASSUME NEW c \in Consumers, ReceiveNothing(c) PROVE TypeOK' /\ DeliveriesLeft'
  <2>1. Goto(c, "loop") /\ UNCHANGED batch /\ pc[c] \notin Working
    BY <1>9 DEF ReceiveNothing, Working
  <2>2. "loop" \in Running \union Ended /\ "loop" \notin Working
    BY DEF Running, Working
  <2> QED
    BY <1>9, <2>1, <2>2, GotoTypes
    DEF ReceiveNothing, TypeOK, DeliveriesLeft, tableVars, brokerVars
<1>10. ASSUME NEW c \in Consumers, ReceiveFails(c) PROVE TypeOK' /\ DeliveriesLeft'
  <2>1. PICK ms \in SUBSET Active : LockFor(None, ms)
    BY <1>10 DEF ReceiveFails
  <2>2. ms \in SUBSET Messages
    BY DEF Active
  <2>3. Goto(c, "loop") /\ UNCHANGED batch /\ pc[c] \notin Working
    BY <1>10 DEF ReceiveFails, Working
  <2>4. "loop" \in Running \union Ended /\ "loop" \notin Working
    BY DEF Running, Working
  <2>5. /\ pc' \in [Consumers -> Running \union Ended]
        /\ batch' \in [Consumers -> Seq(Messages)]
        /\ \A d \in Consumers : batch'[d] # <<>> <=> pc'[d] \in Working
    BY <2>3, <2>4, GotoTypes
  <2>6. DeliveriesLeft'
    BY <2>1, <2>2, LockForEffect DEF DeliveriesLeft
  <2> QED
    BY <1>10, <2>1, <2>2, <2>5, <2>6, LockForEffect DEF ReceiveFails, TypeOK, tableVars
<1>11. ASSUME NEW c \in Consumers, ValidateEnvelope(c) PROVE TypeOK' /\ DeliveriesLeft'
  <2>1. CASE \E label \in {"inserting", "rejecting"} :
               Goto(c, label) /\ UNCHANGED <<batch, shutdown>>
    <3>1. PICK label \in {"inserting", "rejecting"} :
            Goto(c, label) /\ UNCHANGED <<batch, shutdown>>
      BY <2>1
    <3>2. label \in Running \union Ended /\ label \in Working /\ pc[c] \in Working
      BY <1>11 DEF ValidateEnvelope, Running, Working
    <3> QED
      BY <1>11, <3>1, <3>2, GotoTypes
      DEF ValidateEnvelope, TypeOK, DeliveriesLeft, tableVars, brokerVars
  <2>2. CASE EndProcess(c, "failed")
    <3>1. "failed" \in Ended
      BY DEF Ended
    <3> QED
      BY <1>11, <2>2, <3>1, EndProcessTypes
      DEF ValidateEnvelope, TypeOK, DeliveriesLeft, tableVars, brokerVars
  <2> QED
    BY <1>11, <2>1, <2>2 DEF ValidateEnvelope
<1>12. ASSUME NEW c \in Consumers, InsertRows(c) PROVE TypeOK' /\ DeliveriesLeft'
  <2>1. PICK label \in {"completing", "inserted"} : Goto(c, label)
    BY <1>12 DEF InsertRows
  <2>2. /\ label \in Running \union Ended /\ label \in Working /\ pc[c] \in Working
        /\ UNCHANGED batch
    BY <1>12 DEF InsertRows, Running, Working
  <2> QED
    BY <1>12, <2>1, <2>2, GotoTypes
    DEF InsertRows, TypeOK, DeliveriesLeft, tableVars, brokerVars
<1>13. ASSUME NEW c \in Consumers, CommitRows(c) PROVE TypeOK' /\ DeliveriesLeft'
  <2>1. /\ pc[c] \in Working /\ UNCHANGED batch /\ Goto(c, "completing")
        /\ "completing" \in Running \union Ended /\ "completing" \in Working
    BY <1>13 DEF CommitRows, Running, Working
  <2>2. processed' \subseteq Events /\ fulfilments' \in [Events -> Nat]
    BY <1>13, <2>1, CurrentTypes, WriteRowsTypes DEF CommitRows
  <2> QED
    BY <1>13, <2>1, <2>2, GotoTypes DEF CommitRows, TypeOK, DeliveriesLeft, brokerVars
<1>14. ASSUME NEW c \in Consumers, FulfilOrderFails(c) PROVE TypeOK' /\ DeliveriesLeft'
  <2>1. /\ pc[c] \in Working /\ UNCHANGED batch /\ Goto(c, "abandoning")
        /\ "abandoning" \in Running \union Ended /\ "abandoning" \in Working
    BY <1>14 DEF FulfilOrderFails, Running, Working
  <2>2. processed' \subseteq Events /\ fulfilments' \in [Events -> Nat]
    <3>1. UNCHANGED tableVars \/ WriteRows(CurrentEvent(c))
      BY <1>14 DEF FulfilOrderFails
    <3> QED
      BY <2>1, <3>1, CurrentTypes, WriteRowsTypes DEF TypeOK, tableVars
  <2> QED
    BY <1>14, <2>1, <2>2, GotoTypes DEF FulfilOrderFails, TypeOK, DeliveriesLeft, brokerVars
<1>15. ASSUME NEW c \in Consumers, SettleMessage(c) PROVE TypeOK' /\ DeliveriesLeft'
  <2>1. pc[c] \in Working
    BY <1>15 DEF SettleMessage, Working
  <2>2. PICK outcome \in {"active", "completed", "dead"} :
          /\ Settled(Current(c), outcome)
          /\ outcome = "active" => deliveries[Current(c)] < MaxDeliveryCount
    BY <1>15, <2>1, SettlementOutcome DEF SettleMessage
  <2>3. Current(c) \in Messages /\ Tail(batch[c]) \in Seq(Messages)
    BY <2>1, CurrentTypes
  <2>4. DeliveriesLeft'
    BY <2>2, <2>3, SettledKeepsDeliveries
  <2>5. PICK label \in Running \union Ended :
          /\ Goto(c, label)
          /\ Tail(batch[c]) # <<>> <=> label \in Working
    BY <1>15 DEF SettleMessage, NextMessage, Running, Working
  <2>6. batch' = [batch EXCEPT ![c] = Tail(batch[c])]
    BY <1>15 DEF SettleMessage, NextMessage
  <2>7. /\ pc' \in [Consumers -> Running \union Ended]
        /\ batch' \in [Consumers -> Seq(Messages)]
        /\ \A d \in Consumers : batch'[d] # <<>> <=> pc'[d] \in Working
    BY <2>3, <2>5, <2>6, ConsumerTypes
  <2> QED
    BY <1>15, <2>2, <2>3, <2>4, <2>7, SettledEffect DEF SettleMessage, TypeOK, tableVars
<1>16. ASSUME NEW c \in Consumers, SettleMessageFails(c) PROVE TypeOK' /\ DeliveriesLeft'
  <2>1. pc[c] \in Working /\ EndProcess(c, "failed") /\ "failed" \in Ended
    BY <1>16 DEF SettleMessageFails, Working, Ended
  <2>2. /\ pc' \in [Consumers -> Running \union Ended]
        /\ batch' \in [Consumers -> Seq(Messages)]
        /\ shutdown' \in [Consumers -> BOOLEAN]
        /\ \A d \in Consumers : batch'[d] # <<>> <=> pc'[d] \in Working
    BY <2>1, EndProcessTypes
  <2>3. CASE UNCHANGED brokerVars
    BY <1>16, <2>2, <2>3
    DEF SettleMessageFails, TypeOK, DeliveriesLeft, tableVars, brokerVars
  <2>4. CASE Settlement(c)
    <3>1. PICK outcome \in {"active", "completed", "dead"} :
            /\ Settled(Current(c), outcome)
            /\ outcome = "active" => deliveries[Current(c)] < MaxDeliveryCount
      BY <2>1, <2>4, SettlementOutcome
    <3>2. Current(c) \in Messages
      BY <2>1, CurrentTypes
    <3>3. DeliveriesLeft'
      BY <3>1, <3>2, SettledKeepsDeliveries
    <3> QED
      BY <1>16, <2>2, <3>1, <3>2, <3>3, SettledEffect
      DEF SettleMessageFails, TypeOK, tableVars
  <2> QED
    BY <1>16, <2>3, <2>4 DEF SettleMessageFails
<1>17. CASE UNCHANGED vars
  BY <1>17 DEF vars, brokerVars, tableVars, TypeOK, DeliveriesLeft
<1> QED
  BY <1>1, <1>2, <1>3, <1>4, <1>5, <1>6, <1>7, <1>8, <1>9, <1>10, <1>11, <1>12, <1>13,
     <1>14, <1>15, <1>16, <1>17 DEF Next, Proceed

\* Every variable has its type in every state, and a consumer carries messages
\* exactly while it works on a batch.
THEOREM Typing == Spec => []TypeOK
<1>1. Init => TypeOK /\ DeliveriesLeft
  BY FulfilmentAssumption DEF Init, TypeOK, DeliveriesLeft, Running, Ended, Working
<1>2. TypeOK /\ DeliveriesLeft /\ [Next]_vars => TypeOK' /\ DeliveriesLeft'
  BY TypeOKStep
<1> QED
  BY <1>1, <1>2, PTL DEF Spec

-----------------------------------------------------------------------------
(* The inductive invariant *)

\* A step of consumer c that writes no table, and ends where settle_message knows
\* nothing of its message yet, does not disturb what is known of any message.
LEMMA KnowledgeKept ==
  ASSUME TypeOK, ConsumerKnows, InsertsExclusive, UNCHANGED tableVars,
         NEW c \in Consumers,
         pc' = [pc EXCEPT ![c] = pc'[c]],
         batch' = [batch EXCEPT ![c] = batch'[c]],
         pc'[c] \notin {"inserting", "inserted", "completing", "abandoning", "rejecting"}
  PROVE  ConsumerKnows' /\ InsertsExclusive'
<1>1. \A d \in Consumers \ {c} : pc'[d] = pc[d] /\ batch'[d] = batch[d]
  BY DEF TypeOK
<1>2. ConsumerKnows'
  BY <1>1 DEF ConsumerKnows, Current, CurrentEvent, tableVars
<1>3. InsertsExclusive'
  BY <1>1 DEF InsertsExclusive, InsertedBy, Current, CurrentEvent
<1> QED
  BY <1>2, <1>3

\* A step that changes no message keeps the promises made about messages.
LEMMA MessagesKept ==
  ASSUME UNCHANGED <<state, deliveries>>, processed \subseteq processed',
         CompletedWasFulfilled, DeadOnlyAfterBudget
  PROVE  CompletedWasFulfilled' /\ DeadOnlyAfterBudget'
  BY DEF CompletedWasFulfilled, DeadOnlyAfterBudget

\* Handing messages out completes and dead-letters none.
LEMMA LockingKeepsMessages ==
  ASSUME TypeOK, DeliveriesLeft, CompletedWasFulfilled, DeadOnlyAfterBudget,
         UNCHANGED tableVars,
         NEW h \in Consumers \union {None}, NEW ms \in SUBSET Messages, LockFor(h, ms)
  PROVE  CompletedWasFulfilled' /\ DeadOnlyAfterBudget'
<1>1. ASSUME NEW m \in Messages, state'[m] \in {"completed", "dead"}
      PROVE  state'[m] = state[m] /\ deliveries'[m] = deliveries[m]
  BY <1>1, LockForEffect
<1> QED
  BY <1>1 DEF CompletedWasFulfilled, DeadOnlyAfterBudget, tableVars

\* A settlement that is true of its message, and in time for a dead one, keeps the
\* promises made about messages.
LEMMA SettlingKeepsMessages ==
  ASSUME TypeOK, CompletedWasFulfilled, DeadOnlyAfterBudget, UNCHANGED tableVars,
         NEW m \in Messages, NEW outcome \in {"active", "completed", "dead"},
         Settled(m, outcome),
         outcome = "completed" => BodyOf[m] = "valid" /\ EventOf[m] \in processed,
         outcome = "dead" => BodyOf[m] = "invalid" \/ deliveries[m] = MaxDeliveryCount
  PROVE  CompletedWasFulfilled' /\ DeadOnlyAfterBudget'
<1>1. ASSUME NEW n \in Messages
      PROVE  /\ state'[n] = "completed" => BodyOf[n] = "valid" /\ EventOf[n] \in processed'
             /\ state'[n] = "dead" /\ BodyOf[n] = "valid" => deliveries'[n] = MaxDeliveryCount
  <2>1. CASE n = m
    BY <2>1, SettledEffect DEF tableVars
  <2>2. CASE n # m
    BY <2>2, SettledEffect DEF tableVars, CompletedWasFulfilled, DeadOnlyAfterBudget
  <2> QED
    BY <2>1, <2>2
<1> QED
  BY <1>1 DEF CompletedWasFulfilled, DeadOnlyAfterBudget

\* After a step of consumer c, no process has forgotten a locked message if no lock
\* was given to another one and c has not.
LEMMA LocksCarriedStep ==
  ASSUME TypeOK, LocksCarried, NEW c \in Consumers,
         pc' = [pc EXCEPT ![c] = pc'[c]],
         batch' = [batch EXCEPT ![c] = batch'[c]],
         \A d \in Consumers \ {c}, m \in Messages : LockHeld(d, m)' => LockHeld(d, m),
         \A m \in Messages :
            pc'[c] \in Running \union {"stopped"} /\ LockHeld(c, m)' =>
                \E i \in 1 .. Len(batch'[c]) : batch'[c][i] = m
  PROVE  LocksCarried'
<1>1. \A d \in Consumers \ {c} : pc'[d] = pc[d] /\ batch'[d] = batch[d]
  BY DEF TypeOK
<1>2. ASSUME NEW d \in Consumers, NEW m \in Messages,
             pc'[d] \in Running \union {"stopped"}, LockHeld(d, m)'
      PROVE  \E i \in 1 .. Len(batch'[d]) : batch'[d][i] = m
  <2>1. CASE d = c
    BY <1>2, <2>1
  <2>2. CASE d # c
    BY <1>1, <1>2, <2>2 DEF LocksCarried
  <2> QED
    BY <2>1, <2>2
<1> QED
  BY <1>2 DEF LocksCarried

\* A consumer that carries no message holds no lock.
LEMMA IdleHoldsNoLock ==
  ASSUME TypeOK, LocksCarried, NEW c \in Consumers, NEW m \in Messages,
         pc[c] \in {"loop", "polling", "stopped"}
  PROVE  ~ LockHeld(c, m)
<1>1. pc[c] \notin Working /\ pc[c] \in Running \union {"stopped"}
  BY DEF Working, Running
<1>2. batch[c] = <<>>
  BY <1>1 DEF TypeOK
<1> QED
  BY <1>1, <1>2 DEF LocksCarried

\* A message that is settled is held by nobody; the other locks are as they were.
LEMMA SettledFreesLock ==
  ASSUME TypeOK, NEW m \in Messages, NEW outcome \in {"active", "completed", "dead"},
         Settled(m, outcome), NEW d \in Consumers, NEW n \in Messages, LockHeld(d, n)'
  PROVE  n # m /\ LockHeld(d, n)
  BY SettledEffect, FulfilmentAssumption DEF LockHeld

\* A running consumer that moves on with its batch has forgotten no lock.
LEMMA LocksCarriedAlong ==
  ASSUME TypeOK, LocksCarried, UNCHANGED <<state, holder, batch>>,
         NEW c \in Consumers, pc[c] \in Running, NEW label, Goto(c, label)
  PROVE  LocksCarried'
  BY DEF TypeOK, LocksCarried, LockHeld, Goto

\* The commit of rows that are not there yet keeps the two tables in step.
LEMMA CommitKeepsTables ==
  ASSUME TypeOK, TablesAgree, NEW e \in Events, e \notin processed, WriteRows(e)
  PROVE  TablesAgree' /\ processed' = processed \union {e}
  BY DEF TypeOK, TablesAgree, WriteRows

\* It disturbs nobody else: no other open transaction has inserted these rows, and
\* the one that commits goes where a committed event is all it has to know.
LEMMA CommitKeepsKnowledge ==
  ASSUME TypeOK, ConsumerKnows, InsertsExclusive, UNCHANGED batch,
         NEW c \in Consumers, pc[c] = "inserted",
         processed' = processed \union {CurrentEvent(c)},
         NEW label \in {"completing", "abandoning"}, Goto(c, label)
  PROVE  ConsumerKnows' /\ InsertsExclusive'
<1>1. /\ pc'[c] = label
      /\ \A d \in Consumers \ {c} : pc'[d] = pc[d]
      /\ \A d \in Consumers : Current(d)' = Current(d) /\ CurrentEvent(d)' = CurrentEvent(d)
  BY DEF TypeOK, Goto, Current, CurrentEvent
<1>2. \A d \in Consumers \ {c} : pc[d] = "inserted" => CurrentEvent(d) # CurrentEvent(c)
  BY DEF InsertsExclusive, InsertedBy
<1>3. ConsumerKnows'
  BY <1>1, <1>2 DEF ConsumerKnows
<1>4. InsertsExclusive'
  BY <1>1 DEF InsertsExclusive, InsertedBy
<1> QED
  BY <1>3, <1>4

\* A settlement tells the broker what is so, and frees the lock of its message only.
LEMMA SettlementKeepsMessages ==
  ASSUME TypeOK, CompletedWasFulfilled, DeadOnlyAfterBudget, ConsumerKnows,
         UNCHANGED tableVars, NEW c \in Consumers, pc[c] \in Working, Settlement(c)
  PROVE  /\ CompletedWasFulfilled' /\ DeadOnlyAfterBudget'
         /\ \A d \in Consumers, n \in Messages :
              LockHeld(d, n)' => n # Current(c) /\ LockHeld(d, n)
<1>1. PICK outcome \in {"active", "completed", "dead"} :
        /\ Settled(Current(c), outcome)
        /\ outcome = "completed" <=> pc[c] = "completing"
        /\ outcome = "dead" => \/ pc[c] = "rejecting"
                               \/ deliveries[Current(c)] = MaxDeliveryCount
  BY SettlementOutcome
<1>2. Current(c) \in Messages
  BY CurrentTypes
<1>3. /\ pc[c] = "completing" =>
            BodyOf[Current(c)] = "valid" /\ EventOf[Current(c)] \in processed
      /\ pc[c] = "rejecting" => BodyOf[Current(c)] = "invalid"
  BY DEF ConsumerKnows, CurrentEvent
<1>4. CompletedWasFulfilled' /\ DeadOnlyAfterBudget'
  BY <1>1, <1>2, <1>3, SettlingKeepsMessages
<1>5. \A d \in Consumers, n \in Messages :
        LockHeld(d, n)' => n # Current(c) /\ LockHeld(d, n)
  BY <1>1, <1>2, SettledFreesLock
<1> QED
  BY <1>4, <1>5

\* No message goes back to before it arrived.
LEMMA ArrivedStays ==
  ASSUME TypeOK, [Next]_vars, NEW m \in Messages, state[m] # "absent"
  PROVE  state'[m] # "absent"
<1>1. ASSUME NEW n \in Messages, Enqueue(n) \/ LockExpires(n) PROVE state'[m] # "absent"
  BY <1>1 DEF Enqueue, LockExpires, Returned, Settled, TypeOK
<1>2. ASSUME NEW h, NEW ms, LockFor(h, ms) PROVE state'[m] # "absent"
  BY <1>2 DEF LockFor
<1>3. ASSUME NEW c \in Consumers, Receive(c) \/ ReceiveFails(c) PROVE state'[m] # "absent"
  BY <1>2, <1>3 DEF Receive, ReceiveFails
<1>4. ASSUME NEW c \in Consumers, Settlement(c) PROVE state'[m] # "absent"
  BY <1>4 DEF Settlement, Returned, Settled, TypeOK
<1>5. ASSUME NEW c \in Consumers, SettleMessage(c) \/ SettleMessageFails(c)
      PROVE  state'[m] # "absent"
  BY <1>4, <1>5 DEF SettleMessage, SettleMessageFails, brokerVars
<1>6. ASSUME UNCHANGED state PROVE state'[m] # "absent"
  BY <1>6
<1> QED
  BY <1>1, <1>3, <1>5, <1>6
  DEF Next, Proceed, vars, brokerVars, StartConsumer, RequestShutdown, Crash, StopLoop,
      BeginReceive, ReceiveNothing, ValidateEnvelope, InsertRows, CommitRows, FulfilOrderFails

\* What one consumer newly carries or processes has arrived as well.
LEMMA ArrivalsKept ==
  ASSUME TypeOK, OnlyArrivals, [Next]_vars, NEW c \in Consumers, NEW rest \in Seq(Messages),
         batch' = [batch EXCEPT ![c] = rest],
         \A i \in 1 .. Len(rest) :
            state'[rest[i]] # "absent" \/ \E j \in 1 .. Len(batch[c]) : rest[i] = batch[c][j],
         \A e \in processed' \ processed : pc[c] \in Working /\ e = CurrentEvent(c)
  PROVE  OnlyArrivals'
<1>1. \A d \in Consumers : batch[d] \in Seq(Messages)
  BY DEF TypeOK
<1>2. \A d \in Consumers : \A i \in 1 .. Len(batch[d]) : state'[batch[d][i]] # "absent"
  BY <1>1, ArrivedStays DEF OnlyArrivals
<1>3. ASSUME NEW d \in Consumers, NEW i \in 1 .. Len(batch'[d])
      PROVE  state'[batch'[d][i]] # "absent"
  BY <1>2, <1>3 DEF TypeOK
<1>4. \A e \in processed : \E m \in Messages : EventOf[m] = e /\ state'[m] # "absent"
  BY ArrivedStays DEF OnlyArrivals
<1>5. ASSUME pc[c] \in Working
      PROVE  \E m \in Messages : EventOf[m] = CurrentEvent(c) /\ state'[m] # "absent"
  <2>1. Current(c) \in Messages /\ 1 \in 1 .. Len(batch[c]) /\ Current(c) = batch[c][1]
    BY <1>1, <1>5, CurrentTypes DEF Current
  <2> QED
    BY <1>2, <2>1 DEF CurrentEvent
<1> QED
  BY <1>3, <1>4, <1>5 DEF OnlyArrivals

\* Only arrivals are carried and processed after a step if they were before it.
LEMMA OnlyArrivalsStep ==
  ASSUME TypeOK, OnlyArrivals, [Next]_vars PROVE OnlyArrivals'
<1>1. \A d \in Consumers : batch[d] \in Seq(Messages)
  BY DEF TypeOK
<1>2. ASSUME UNCHANGED <<batch, processed>> PROVE OnlyArrivals'
  <2>1. ASSUME NEW d \in Consumers, NEW i \in 1 .. Len(batch[d])
        PROVE  state'[batch[d][i]] # "absent"
    BY <1>1, <2>1, ArrivedStays DEF OnlyArrivals
  <2>2. \A e \in processed : \E m \in Messages : EventOf[m] = e /\ state'[m] # "absent"
    BY ArrivedStays DEF OnlyArrivals
  <2> QED
    BY <1>2, <2>1, <2>2 DEF OnlyArrivals
<1>3. ASSUME NEW c \in Consumers, UNCHANGED processed,
             batch' = [batch EXCEPT ![c] = <<>>]
      PROVE  OnlyArrivals'
  <2>1. <<>> \in Seq(Messages) /\ 1 .. Len(<<>>) = {}
    OBVIOUS
  <2> DEFINE rest == <<>>
  <2>2. rest \in Seq(Messages) /\ \A i \in 1 .. Len(rest) : FALSE
    BY <2>1
  <2>3. batch' = [batch EXCEPT ![c] = rest] /\ \A e \in processed' \ processed : FALSE
    BY <1>3
  <2> HIDE DEF rest
  <2> QED
    BY <2>2, <2>3, ArrivalsKept
<1>4. ASSUME NEW c \in Consumers, NEW label, EndProcess(c, label), UNCHANGED processed
      PROVE  OnlyArrivals'
  BY <1>3, <1>4 DEF EndProcess
<1>5. ASSUME NEW c \in Consumers, Receive(c) PROVE OnlyArrivals'
  <2>1. PICK ms \in Seq(Messages) :
          /\ LockFor(c, {ms[i] : i \in 1 .. Len(ms)})
          /\ batch' = [batch EXCEPT ![c] = ms]
    BY <1>5, ReceivedBatch
  <2>2. \A i \in 1 .. Len(ms) : state'[ms[i]] # "absent"
    BY <2>1 DEF LockFor
  <2>3. UNCHANGED processed
    BY <1>5 DEF Receive, tableVars
  <2> QED
    BY <2>1, <2>2, <2>3, ArrivalsKept
<1>6. ASSUME NEW c \in Consumers, CommitRows(c) \/ FulfilOrderFails(c) PROVE OnlyArrivals'
  <2>1. /\ batch[c] \in Seq(Messages) /\ batch' = [batch EXCEPT ![c] = batch[c]]
        /\ \A i \in 1 .. Len(batch[c]) : \E j \in 1 .. Len(batch[c]) : batch[c][i] = batch[c][j]
    BY <1>6 DEF CommitRows, FulfilOrderFails, TypeOK
  <2>2. \A e \in processed' \ processed : pc[c] \in Working /\ e = CurrentEvent(c)
    BY <1>6 DEF CommitRows, FulfilOrderFails, WriteRows, tableVars, Working
  <2> QED
    BY <2>1, <2>2, ArrivalsKept
<1>7. ASSUME NEW c \in Consumers, SettleMessage(c) PROVE OnlyArrivals'
  <2>1. /\ pc[c] \in Working /\ UNCHANGED processed
        /\ batch' = [batch EXCEPT ![c] = Tail(batch[c])]
    BY <1>7 DEF SettleMessage, NextMessage, tableVars, Working
  <2>2. batch[c] # <<>>
    BY <2>1, CurrentTypes
  <2>3. /\ Tail(batch[c]) \in Seq(Messages)
        /\ \A i \in 1 .. Len(Tail(batch[c])) :
             i + 1 \in 1 .. Len(batch[c]) /\ Tail(batch[c])[i] = batch[c][i + 1]
    BY <1>1, <2>2
  <2> QED
    BY <2>1, <2>3, ArrivalsKept
<1>8. ASSUME NEW c \in Consumers,
             Crash(c) \/ StopLoop(c) \/ ValidateEnvelope(c) \/ SettleMessageFails(c)
      PROVE  OnlyArrivals'
  <2>1. UNCHANGED processed /\ (UNCHANGED batch \/ \E label : EndProcess(c, label))
    BY <1>8 DEF Crash, StopLoop, ValidateEnvelope, SettleMessageFails, tableVars
  <2> QED
    BY <1>2, <1>4, <2>1
<1>9. ASSUME NEW c \in Consumers,
             \/ StartConsumer(c) \/ RequestShutdown(c) \/ BeginReceive(c)
             \/ ReceiveNothing(c) \/ ReceiveFails(c) \/ InsertRows(c)
      PROVE  OnlyArrivals'
  BY <1>2, <1>9 DEF StartConsumer, RequestShutdown, BeginReceive, ReceiveNothing, ReceiveFails,
     InsertRows, tableVars
<1>10. ASSUME NEW m \in Messages, Enqueue(m) \/ LockExpires(m) PROVE OnlyArrivals'
  BY <1>2, <1>10 DEF Enqueue, LockExpires, tableVars
<1>11. CASE UNCHANGED vars
  BY <1>2, <1>11 DEF vars, tableVars
<1> QED
  BY <1>5, <1>6, <1>7, <1>8, <1>9, <1>10, <1>11 DEF Next, Proceed

\* Every step preserves the inductive invariant.
LEMMA InvariantStep ==
  ASSUME FulfilmentInvariant, [Next]_vars PROVE FulfilmentInvariant'
<1> USE FulfilmentAssumption DEF FulfilmentInvariant
<1>0. TypeOK' /\ DeliveriesLeft' /\ OnlyArrivals'
  BY TypeOKStep, OnlyArrivalsStep
<1>1. ASSUME NEW m \in Messages, Enqueue(m) PROVE FulfilmentInvariant'
  <2>1. CompletedWasFulfilled' /\ DeadOnlyAfterBudget'
    BY <1>1 DEF Enqueue, TypeOK, tableVars, CompletedWasFulfilled, DeadOnlyAfterBudget
  <2>2. TablesAgree' /\ ConsumerKnows' /\ InsertsExclusive'
    BY <1>1 DEF Enqueue, tableVars, TablesAgree, ConsumerKnows, InsertsExclusive, InsertedBy,
       Current, CurrentEvent
  <2>3. LocksCarried'
    BY <1>1 DEF Enqueue, TypeOK, LocksCarried, LockHeld
  <2> QED
    BY <1>0, <2>1, <2>2, <2>3
<1>2. ASSUME NEW m \in Messages, LockExpires(m) PROVE FulfilmentInvariant'
  <2>1. PICK outcome \in {"active", "completed", "dead"} :
          /\ Settled(m, outcome)
          /\ outcome # "completed"
          /\ outcome = "dead" => deliveries[m] = MaxDeliveryCount
    BY <1>2, ReturnedOutcome DEF LockExpires
  <2>2. CompletedWasFulfilled' /\ DeadOnlyAfterBudget'
    BY <1>2, <2>1, SettlingKeepsMessages DEF LockExpires
  <2>3. TablesAgree' /\ ConsumerKnows' /\ InsertsExclusive'
    BY <1>2 DEF LockExpires, tableVars, TablesAgree, ConsumerKnows, InsertsExclusive, InsertedBy,
       Current, CurrentEvent
  <2>4. LocksCarried'
    <3>1. \A d \in Consumers, n \in Messages : LockHeld(d, n)' => LockHeld(d, n)
      BY <2>1, SettledFreesLock
    <3> QED
      BY <1>2, <3>1 DEF LockExpires, LocksCarried
  <2> QED
    BY <1>0, <2>2, <2>3, <2>4
<1>3. ASSUME NEW c \in Consumers, StartConsumer(c) PROVE FulfilmentInvariant'
  <2>1. /\ pc' = [pc EXCEPT ![c] = pc'[c]] /\ pc'[c] = "loop"
        /\ batch' = [batch EXCEPT ![c] = batch'[c]]
    BY <1>3 DEF StartConsumer, Goto, TypeOK
  <2>2. CompletedWasFulfilled' /\ DeadOnlyAfterBudget'
    BY <1>3, MessagesKept DEF StartConsumer, tableVars
  <2>3. ConsumerKnows' /\ InsertsExclusive'
    BY <1>3, <2>1, KnowledgeKept DEF StartConsumer
  <2>4. TablesAgree'
    BY <1>3 DEF StartConsumer, tableVars, TablesAgree
  <2>5. /\ \A d \in Consumers \ {c}, m \in Messages : LockHeld(d, m)' => LockHeld(d, m)
        /\ \A m \in Messages : ~ LockHeld(c, m)'
    BY <1>3 DEF StartConsumer, LockHeld, TypeOK
  <2>6. LocksCarried'
    BY <2>1, <2>5, LocksCarriedStep
  <2> QED
    BY <1>0, <2>2, <2>3, <2>4, <2>6
<1>4. ASSUME NEW c \in Consumers, RequestShutdown(c) PROVE FulfilmentInvariant'
  BY <1>0, <1>4 DEF RequestShutdown, brokerVars, tableVars, TablesAgree, CompletedWasFulfilled,
     DeadOnlyAfterBudget, ConsumerKnows, InsertsExclusive, InsertedBy, Current, CurrentEvent,
     LocksCarried, LockHeld
<1>5. ASSUME NEW c \in Consumers, Crash(c) \/ StopLoop(c) PROVE FulfilmentInvariant'
  <2>1. PICK label \in {"crashed", "stopped"} :
          /\ EndProcess(c, label)
          /\ label = "stopped" => pc[c] = "loop"
    BY <1>5 DEF Crash, StopLoop
  <2>2. UNCHANGED <<brokerVars, tableVars>>
    BY <1>5 DEF Crash, StopLoop
  <2>3. /\ pc' = [pc EXCEPT ![c] = pc'[c]] /\ pc'[c] = label
        /\ batch' = [batch EXCEPT ![c] = batch'[c]]
    BY <2>1 DEF EndProcess, Goto, TypeOK
  <2>4. CompletedWasFulfilled' /\ DeadOnlyAfterBudget'
    BY <2>2, MessagesKept DEF brokerVars, tableVars
  <2>5. ConsumerKnows' /\ InsertsExclusive'
    BY <2>2, <2>3, KnowledgeKept
  <2>6. TablesAgree'
    BY <2>2 DEF tableVars, TablesAgree
  <2>7. \A d \in Consumers, m \in Messages : LockHeld(d, m)' => LockHeld(d, m)
    BY <2>2 DEF brokerVars, LockHeld
  <2>8. \A m \in Messages : pc'[c] \in Running \union {"stopped"} => ~ LockHeld(c, m)'
    BY <2>1, <2>3, <2>7, IdleHoldsNoLock DEF Running, Working
  <2>9. LocksCarried'
    BY <2>3, <2>7, <2>8, LocksCarriedStep
  <2> QED
    BY <1>0, <2>4, <2>5, <2>6, <2>9
<1>6. ASSUME NEW c \in Consumers, BeginReceive(c) \/ ReceiveNothing(c)
      PROVE  FulfilmentInvariant'
  <2>1. /\ pc[c] \in {"loop", "polling"}
        /\ UNCHANGED <<brokerVars, tableVars, batch>>
    BY <1>6 DEF BeginReceive, ReceiveNothing
  <2>2. /\ pc' = [pc EXCEPT ![c] = pc'[c]] /\ pc'[c] \in {"loop", "polling"}
        /\ batch' = [batch EXCEPT ![c] = batch'[c]]
    BY <1>6, <2>1 DEF BeginReceive, ReceiveNothing, Goto, TypeOK
  <2>3. CompletedWasFulfilled' /\ DeadOnlyAfterBudget'
    BY <2>1, MessagesKept DEF brokerVars, tableVars
  <2>4. ConsumerKnows' /\ InsertsExclusive'
    BY <2>1, <2>2, KnowledgeKept
  <2>5. TablesAgree'
    BY <2>1 DEF tableVars, TablesAgree
  <2>6. \A d \in Consumers, m \in Messages : LockHeld(d, m)' => LockHeld(d, m)
    BY <2>1 DEF brokerVars, LockHeld
  <2>7. LocksCarried'
    BY <2>1, <2>2, <2>6, IdleHoldsNoLock, LocksCarriedStep
  <2> QED
    BY <1>0, <2>3, <2>4, <2>5, <2>7
<1>7. ASSUME NEW c \in Consumers, Receive(c) PROVE FulfilmentInvariant'
  <2>1. PICK ms \in Seq(Messages) :
          /\ {ms[i] : i \in 1 .. Len(ms)} \subseteq Active
          /\ LockFor(c, {ms[i] : i \in 1 .. Len(ms)})
          /\ batch' = [batch EXCEPT ![c] = ms]
    BY <1>7, ReceivedBatch
  <2> DEFINE S == {ms[i] : i \in 1 .. Len(ms)}
  <2>2. S \in SUBSET Messages /\ LockFor(c, S)
    BY <2>1 DEF Active
  <2>3. /\ pc' = [pc EXCEPT ![c] = pc'[c]] /\ pc'[c] = "settling"
        /\ batch' = [batch EXCEPT ![c] = batch'[c]] /\ batch'[c] = ms
        /\ UNCHANGED tableVars
    BY <1>7, <2>1 DEF Receive, Goto, TypeOK
  <2>4. CompletedWasFulfilled' /\ DeadOnlyAfterBudget'
    BY <2>2, <2>3, LockingKeepsMessages
  <2>5. ConsumerKnows' /\ InsertsExclusive'
    BY <2>3, KnowledgeKept
  <2>6. TablesAgree'
    BY <2>3 DEF tableVars, TablesAgree
  <2> HIDE DEF S
  <2>7. /\ \A d \in Consumers \ {c}, m \in Messages : LockHeld(d, m)' => LockHeld(d, m)
        /\ \A m \in Messages : LockHeld(c, m)' => m \in S \/ LockHeld(c, m)
    BY <2>2, LockForEffect DEF LockHeld
  <2>8. \A m \in Messages : LockHeld(c, m)' => \E i \in 1 .. Len(batch'[c]) : batch'[c][i] = m
    <3>1. \A m \in Messages : ~ LockHeld(c, m)
      BY <1>7, IdleHoldsNoLock DEF Receive
    <3> QED
      BY <2>3, <2>7, <3>1 DEF S
  <2>9. LocksCarried'
    BY <2>3, <2>7, <2>8, LocksCarriedStep
  <2> QED
    BY <1>0, <2>4, <2>5, <2>6, <2>9
<1>8. ASSUME NEW c \in Consumers, ReceiveFails(c) PROVE FulfilmentInvariant'
  <2>1. PICK ms \in SUBSET Active : LockFor(None, ms)
    BY <1>8 DEF ReceiveFails
  <2>2. ms \in SUBSET Messages
    BY DEF Active
  <2>3. /\ pc' = [pc EXCEPT ![c] = pc'[c]] /\ pc'[c] = "loop"
        /\ batch' = [batch EXCEPT ![c] = batch'[c]]
        /\ UNCHANGED tableVars
    BY <1>8 DEF ReceiveFails, Goto, TypeOK
  <2>4. CompletedWasFulfilled' /\ DeadOnlyAfterBudget'
    BY <2>1, <2>2, <2>3, LockingKeepsMessages
  <2>5. ConsumerKnows' /\ InsertsExclusive'
    BY <2>3, KnowledgeKept
  <2>6. TablesAgree'
    BY <2>3 DEF tableVars, TablesAgree
  <2>7. \A d \in Consumers, n \in Messages : LockHeld(d, n)' => LockHeld(d, n)
    BY <2>1, <2>2, LockForEffect DEF LockHeld
  <2>8. LocksCarried'
    BY <1>8, <2>3, <2>7, IdleHoldsNoLock, LocksCarriedStep DEF ReceiveFails
  <2> QED
    BY <1>0, <2>4, <2>5, <2>6, <2>8
<1>9. ASSUME NEW c \in Consumers, ValidateEnvelope(c) PROVE FulfilmentInvariant'
  <2>1. pc[c] = "settling" /\ UNCHANGED <<brokerVars, tableVars>>
    BY <1>9 DEF ValidateEnvelope
  <2>2. CompletedWasFulfilled' /\ DeadOnlyAfterBudget'
    BY <2>1, MessagesKept DEF brokerVars, tableVars
  <2>3. TablesAgree'
    BY <2>1 DEF tableVars, TablesAgree
  <2>4. CASE EndProcess(c, "failed")
    <3>1. /\ pc' = [pc EXCEPT ![c] = pc'[c]] /\ pc'[c] = "failed"
          /\ batch' = [batch EXCEPT ![c] = batch'[c]]
      BY <2>4 DEF EndProcess, Goto, TypeOK
    <3>2. ConsumerKnows' /\ InsertsExclusive'
      BY <2>1, <3>1, KnowledgeKept
    <3>3. \A d \in Consumers, m \in Messages : LockHeld(d, m)' => LockHeld(d, m)
      BY <2>1 DEF brokerVars, LockHeld
    <3>4. LocksCarried'
      BY <3>1, <3>3, LocksCarriedStep DEF Running, Working
    <3> QED
      BY <1>0, <2>2, <2>3, <3>2, <3>4
  <2>5. CASE \E label \in {"inserting", "rejecting"} :
               /\ Goto(c, label) /\ UNCHANGED <<batch, shutdown>>
               /\ BodyOf[Current(c)] = IF label = "inserting" THEN "valid" ELSE "invalid"
    <3>1. PICK label \in {"inserting", "rejecting"} :
            /\ Goto(c, label) /\ UNCHANGED <<batch, shutdown>>
            /\ BodyOf[Current(c)] = IF label = "inserting" THEN "valid" ELSE "invalid"
      BY <2>5
    <3>2. /\ pc'[c] = label /\ \A d \in Consumers \ {c} : pc'[d] = pc[d]
          /\ \A d \in Consumers : Current(d)' = Current(d) /\ CurrentEvent(d)' = CurrentEvent(d)
      BY <3>1 DEF TypeOK, Goto, Current, CurrentEvent
    <3>3. ConsumerKnows'
      BY <2>1, <3>1, <3>2 DEF ConsumerKnows, tableVars
    <3>4. InsertsExclusive'
      BY <3>2 DEF InsertsExclusive, InsertedBy
    <3>5. LocksCarried'
      BY <2>1, <3>1, LocksCarriedAlong DEF brokerVars, Running, Working
    <3> QED
      BY <1>0, <2>2, <2>3, <3>3, <3>4, <3>5
  <2> QED
    BY <1>9, <2>4, <2>5 DEF ValidateEnvelope
<1>10. ASSUME NEW c \in Consumers, InsertRows(c) PROVE FulfilmentInvariant'
  <2>1. pc[c] = "inserting" /\ UNCHANGED <<brokerVars, tableVars, batch>>
    BY <1>10 DEF InsertRows
  <2>2. PICK label \in {"completing", "inserted"} :
          /\ Goto(c, label)
          /\ label = "completing" <=> CurrentEvent(c) \in processed
    BY <1>10 DEF InsertRows
  <2>3. /\ pc'[c] = label /\ \A d \in Consumers \ {c} : pc'[d] = pc[d]
        /\ \A d \in Consumers : Current(d)' = Current(d) /\ CurrentEvent(d)' = CurrentEvent(d)
    BY <2>1, <2>2 DEF TypeOK, Goto, Current, CurrentEvent
  <2>4. CompletedWasFulfilled' /\ DeadOnlyAfterBudget'
    BY <2>1, MessagesKept DEF brokerVars, tableVars
  <2>5. TablesAgree'
    BY <2>1 DEF tableVars, TablesAgree
  <2>6. ConsumerKnows'
    BY <2>1, <2>2, <2>3 DEF ConsumerKnows, tableVars
  <2>7. InsertsExclusive'
    <3>1. \A d \in Consumers : pc[d] = "inserted" => CurrentEvent(d) # CurrentEvent(c)
      BY <1>10 DEF InsertRows, InsertedBy
    <3> QED
      BY <2>3, <3>1 DEF InsertsExclusive, InsertedBy
  <2>8. LocksCarried'
    BY <2>1, <2>2, LocksCarriedAlong DEF brokerVars, Running, Working
  <2> QED
    BY <1>0, <2>4, <2>5, <2>6, <2>7, <2>8
<1>11. ASSUME NEW c \in Consumers, CommitRows(c) PROVE FulfilmentInvariant'
  <2>1. /\ pc[c] = "inserted" /\ WriteRows(CurrentEvent(c)) /\ Goto(c, "completing")
        /\ UNCHANGED <<brokerVars, batch>>
    BY <1>11 DEF CommitRows
  <2>2. CurrentEvent(c) \in Events /\ CurrentEvent(c) \notin processed
    BY <2>1, CurrentTypes DEF ConsumerKnows, Working
  <2>3. TablesAgree' /\ processed' = processed \union {CurrentEvent(c)}
    BY <2>1, <2>2, CommitKeepsTables
  <2>4. CompletedWasFulfilled' /\ DeadOnlyAfterBudget'
    BY <2>1, <2>3, MessagesKept DEF brokerVars
  <2>5. ConsumerKnows' /\ InsertsExclusive'
    BY <2>1, <2>3, CommitKeepsKnowledge
  <2>6. LocksCarried'
    BY <2>1, LocksCarriedAlong DEF brokerVars, Running, Working
  <2> QED
    BY <1>0, <2>3, <2>4, <2>5, <2>6
<1>12. ASSUME NEW c \in Consumers, FulfilOrderFails(c) PROVE FulfilmentInvariant'
  <2>1. /\ pc[c] \in {"inserting", "inserted"} /\ Goto(c, "abandoning")
        /\ UNCHANGED <<brokerVars, batch>>
    BY <1>12 DEF FulfilOrderFails
  <2>2. LocksCarried'
    BY <2>1, LocksCarriedAlong DEF brokerVars, Running, Working
  <2>3. CASE UNCHANGED tableVars
    <3>1. /\ pc'[c] = "abandoning" /\ \A d \in Consumers \ {c} : pc'[d] = pc[d]
          /\ \A d \in Consumers : Current(d)' = Current(d) /\ CurrentEvent(d)' = CurrentEvent(d)
      BY <2>1 DEF TypeOK, Goto, Current, CurrentEvent
    <3>2. CompletedWasFulfilled' /\ DeadOnlyAfterBudget'
      BY <2>1, <2>3, MessagesKept DEF brokerVars, tableVars
    <3>3. TablesAgree'
      BY <2>3 DEF tableVars, TablesAgree
    <3>4. ConsumerKnows'
      BY <2>1, <2>3, <3>1 DEF ConsumerKnows, tableVars
    <3>5. InsertsExclusive'
      BY <3>1 DEF InsertsExclusive, InsertedBy
    <3> QED
      BY <1>0, <2>2, <3>2, <3>3, <3>4, <3>5
  <2>4. CASE pc[c] = "inserted" /\ WriteRows(CurrentEvent(c))
    <3>1. CurrentEvent(c) \in Events /\ CurrentEvent(c) \notin processed
      BY <2>4, CurrentTypes DEF ConsumerKnows, Working
    <3>2. TablesAgree' /\ processed' = processed \union {CurrentEvent(c)}
      BY <2>4, <3>1, CommitKeepsTables
    <3>3. CompletedWasFulfilled' /\ DeadOnlyAfterBudget'
      BY <2>1, <3>2, MessagesKept DEF brokerVars
    <3>4. ConsumerKnows' /\ InsertsExclusive'
      BY <2>1, <2>4, <3>2, CommitKeepsKnowledge
    <3> QED
      BY <1>0, <2>2, <3>2, <3>3, <3>4
  <2> QED
    BY <1>12, <2>3, <2>4 DEF FulfilOrderFails
<1>13. ASSUME NEW c \in Consumers, SettleMessage(c) PROVE FulfilmentInvariant'
  <2>1. /\ pc[c] \in Working /\ pc[c] \in Running /\ UNCHANGED tableVars
        /\ Settlement(c) /\ NextMessage(c)
    BY <1>13 DEF SettleMessage, Working, Running
  <2>2. /\ pc' = [pc EXCEPT ![c] = pc'[c]] /\ pc'[c] \in {"loop", "settling"}
        /\ batch' = [batch EXCEPT ![c] = batch'[c]] /\ batch'[c] = Tail(batch[c])
    BY <2>1 DEF NextMessage, Goto, TypeOK
  <2>3. /\ CompletedWasFulfilled' /\ DeadOnlyAfterBudget'
        /\ \A d \in Consumers, n \in Messages :
             LockHeld(d, n)' => n # Current(c) /\ LockHeld(d, n)
    BY <2>1, SettlementKeepsMessages
  <2>4. ConsumerKnows' /\ InsertsExclusive'
    BY <2>1, <2>2, KnowledgeKept
  <2>5. TablesAgree'
    BY <2>1 DEF tableVars, TablesAgree
  <2>6. ASSUME NEW n \in Messages, LockHeld(c, n)'
        PROVE  \E i \in 1 .. Len(batch'[c]) : batch'[c][i] = n
    <3>1. n # Head(batch[c]) /\ LockHeld(c, n)
      BY <2>3, <2>6 DEF Current
    <3>2. PICK i \in 1 .. Len(batch[c]) : batch[c][i] = n
      BY <2>1, <3>1 DEF LocksCarried
    <3>3. batch[c] \in Seq(Messages) /\ batch[c] # <<>>
      BY <2>1, CurrentTypes
    <3>4. i # 1
      BY <3>1, <3>2, <3>3
    <3>5. i - 1 \in 1 .. Len(Tail(batch[c])) /\ Tail(batch[c])[i - 1] = n
      BY <3>2, <3>3, <3>4
    <3> QED
      BY <2>2, <3>5
  <2>7. LocksCarried'
    BY <2>2, <2>3, <2>6, LocksCarriedStep
  <2> QED
    BY <1>0, <2>3, <2>4, <2>5, <2>7
<1>14. ASSUME NEW c \in Consumers, SettleMessageFails(c) PROVE FulfilmentInvariant'
  <2>1. pc[c] \in Working /\ UNCHANGED tableVars /\ EndProcess(c, "failed")
    BY <1>14 DEF SettleMessageFails, Working
  <2>2. /\ pc' = [pc EXCEPT ![c] = pc'[c]] /\ pc'[c] = "failed"
        /\ batch' = [batch EXCEPT ![c] = batch'[c]]
    BY <2>1 DEF EndProcess, Goto, TypeOK
  <2>3. /\ CompletedWasFulfilled' /\ DeadOnlyAfterBudget'
        /\ \A d \in Consumers, n \in Messages : LockHeld(d, n)' => LockHeld(d, n)
    <3>1. CASE UNCHANGED brokerVars
      BY <2>1, <3>1, MessagesKept DEF brokerVars, tableVars, LockHeld
    <3>2. CASE Settlement(c)
      BY <2>1, <3>2, SettlementKeepsMessages
    <3> QED
      BY <1>14, <3>1, <3>2 DEF SettleMessageFails
  <2>4. ConsumerKnows' /\ InsertsExclusive'
    BY <2>1, <2>2, KnowledgeKept
  <2>5. TablesAgree'
    BY <2>1 DEF tableVars, TablesAgree
  <2>6. LocksCarried'
    BY <2>2, <2>3, LocksCarriedStep DEF Running, Working
  <2> QED
    BY <1>0, <2>3, <2>4, <2>5, <2>6
<1>15. CASE UNCHANGED vars
  BY <1>0, <1>15 DEF vars, brokerVars, tableVars, TablesAgree, CompletedWasFulfilled,
     DeadOnlyAfterBudget, ConsumerKnows, InsertsExclusive, InsertedBy, Current, CurrentEvent,
     LocksCarried, LockHeld
<1> QED
  BY <1>1, <1>2, <1>3, <1>4, <1>5, <1>6, <1>7, <1>8, <1>9, <1>10, <1>11, <1>12, <1>13,
     <1>14, <1>15 DEF Next, Proceed

\* Whatever consumers, transactions, broker calls and locks do, the inductive
\* invariant holds in every state.
THEOREM InvariantHolds == Spec => []FulfilmentInvariant
<1>1. Init => FulfilmentInvariant
  <2> SUFFICES ASSUME Init PROVE FulfilmentInvariant
    OBVIOUS
  <2>1. TypeOK /\ DeliveriesLeft
    BY FulfilmentAssumption DEF Init, TypeOK, DeliveriesLeft, Running, Ended, Working
  <2>2. TablesAgree /\ CompletedWasFulfilled /\ DeadOnlyAfterBudget
    BY DEF Init, TablesAgree, CompletedWasFulfilled, DeadOnlyAfterBudget
  <2>3. ConsumerKnows /\ InsertsExclusive /\ LocksCarried /\ OnlyArrivals
    BY DEF Init, ConsumerKnows, InsertsExclusive, LocksCarried, LockHeld, OnlyArrivals
  <2> QED
    BY <2>1, <2>2, <2>3 DEF FulfilmentInvariant
<1>2. FulfilmentInvariant /\ [Next]_vars => FulfilmentInvariant'
  BY InvariantStep
<1> QED
  BY <1>1, <1>2, PTL DEF Spec

\* An order is fulfilled exactly once if its event was processed and not at all
\* otherwise, for any number of consumers and copies (fulfil_order).
THEOREM FulfilledOnce == Spec => []TablesAgree
<1>1. FulfilmentInvariant => TablesAgree
  BY DEF FulfilmentInvariant
<1> QED
  BY <1>1, InvariantHolds, PTL

\* No failure makes a consumer report an event it has not fulfilled (settle_message).
THEOREM CompletionIsTruthful == Spec => []CompletedWasFulfilled
<1>1. FulfilmentInvariant => CompletedWasFulfilled
  BY DEF FulfilmentInvariant
<1> QED
  BY <1>1, InvariantHolds, PTL

\* A valid message is dead-lettered by its budget alone, whatever the budget is.
THEOREM DeadLettersSpentBudget == Spec => []DeadOnlyAfterBudget
<1>1. FulfilmentInvariant => DeadOnlyAfterBudget
  BY DEF FulfilmentInvariant
<1> QED
  BY <1>1, InvariantHolds, PTL

\* A consumer that stopped of itself has settled its batch (run_consumer_loop): a
\* lock it held would be on a message it carries, and it carries none.
THEOREM StopsWithoutLock == Spec => []StoppedHoldsNoLock
<1>1. FulfilmentInvariant => StoppedHoldsNoLock
  BY IdleHoldsNoLock DEF FulfilmentInvariant, StoppedHoldsNoLock
<1> QED
  BY <1>1, InvariantHolds, PTL

-----------------------------------------------------------------------------
(* The refinement of ExactlyOnce *)

Done == {m \in Messages : state[m] = "completed"}

\* The commit of new rows is the one effect an event ever has.
LEMMA CommitTakesEffect ==
  ASSUME TypeOK, TablesAgree, NEW e \in Events, e \notin processed,
         WriteRows(e), UNCHANGED state
  PROVE  E!ExactlyOnceNext
<1>1. fulfilments[e] = 0
  BY DEF TablesAgree
<1>2. fulfilments' = [fulfilments EXCEPT ![e] = 1]
  BY <1>1 DEF WriteRows
<1>3. E!TakeEffect(e)
  BY <1>1, <1>2 DEF E!TakeEffect
<1> QED
  BY <1>3 DEF E!ExactlyOnceNext

\* A settlement completes its message after the event took effect, or no message.
LEMMA SettlementReports ==
  ASSUME FulfilmentInvariant, NEW c \in Consumers, pc[c] \in Working,
         LockHeld(c, Current(c)), Settlement(c), UNCHANGED tableVars
  PROVE  E!ExactlyOnceNext \/ UNCHANGED E!exactlyOnceVars
<1> USE DEF FulfilmentInvariant
<1>1. PICK outcome \in {"active", "completed", "dead"} :
        /\ Settled(Current(c), outcome)
        /\ outcome = "completed" <=> pc[c] = "completing"
  BY SettlementOutcome
<1>2. Current(c) \in Messages /\ CurrentEvent(c) \in Events
  BY CurrentTypes
<1>3. /\ state'[Current(c)] = outcome
      /\ \A n \in Messages \ {Current(c)} : state'[n] = state[n]
  BY <1>1, <1>2, SettledEffect
<1>4. state[Current(c)] # "completed"
  BY DEF LockHeld
<1>5. CASE outcome = "completed"
  <2>1. fulfilments[EventOf[Current(c)]] = 1
    BY <1>1, <1>2, <1>5 DEF ConsumerKnows, TablesAgree, CurrentEvent
  <2>2. Done' = Done \union {Current(c)}
    BY <1>2, <1>3, <1>5 DEF Done
  <2>3. \E m \in Messages : E!ReportDone(m)
    BY <1>2, <2>1, <2>2 DEF E!ReportDone, Done, tableVars
  <2> QED
    BY <2>3 DEF E!ExactlyOnceNext
<1>6. CASE outcome # "completed"
  <2>1. Done' = Done
    BY <1>3, <1>4, <1>6 DEF Done
  <2> QED
    BY <2>1 DEF E!exactlyOnceVars, Done, tableVars
<1> QED
  BY <1>5, <1>6

\* Every step of the service is a step of exactly-once processing or none.
LEMMA ExactlyOnceStep ==
  ASSUME FulfilmentInvariant, [Next]_vars
  PROVE  E!ExactlyOnceNext \/ UNCHANGED E!exactlyOnceVars
<1> USE DEF FulfilmentInvariant
<1>1. ASSUME UNCHANGED tableVars,
             \A m \in Messages : state'[m] = "completed" <=> state[m] = "completed"
      PROVE  UNCHANGED E!exactlyOnceVars
  BY <1>1 DEF E!exactlyOnceVars, tableVars
<1>2. ASSUME NEW m \in Messages, Enqueue(m) PROVE UNCHANGED E!exactlyOnceVars
  BY <1>1, <1>2 DEF Enqueue, TypeOK
<1>3. ASSUME NEW m \in Messages, LockExpires(m) PROVE UNCHANGED E!exactlyOnceVars
  <2>1. PICK outcome \in {"active", "completed", "dead"} :
          Settled(m, outcome) /\ outcome # "completed"
    BY <1>3, ReturnedOutcome DEF LockExpires
  <2>2. state[m] = "locked" /\ UNCHANGED tableVars
    BY <1>3 DEF LockExpires
  <2> QED
    BY <1>1, <2>1, <2>2, SettledEffect
<1>4. ASSUME NEW h \in Consumers \union {None}, NEW ms \in SUBSET Messages,
             LockFor(h, ms), UNCHANGED tableVars
      PROVE  UNCHANGED E!exactlyOnceVars
  BY <1>1, <1>4, LockForEffect
<1>5. ASSUME NEW c \in Consumers, Receive(c) PROVE UNCHANGED E!exactlyOnceVars
  <2>1. PICK ms \in SUBSET Messages : LockFor(c, ms)
    BY <1>5, ReceivedBatch DEF Active
  <2> QED
    BY <1>4, <1>5, <2>1 DEF Receive
<1>6. ASSUME NEW c \in Consumers, ReceiveFails(c) PROVE UNCHANGED E!exactlyOnceVars
  <2>1. PICK ms \in SUBSET Messages : LockFor(None, ms)
    BY <1>6 DEF ReceiveFails, Active
  <2> QED
    BY <1>4, <1>6, <2>1 DEF ReceiveFails
<1>7. ASSUME NEW c \in Consumers, CommitRows(c) PROVE E!ExactlyOnceNext
  <2>1. pc[c] = "inserted" /\ WriteRows(CurrentEvent(c)) /\ UNCHANGED state
    BY <1>7 DEF CommitRows, brokerVars
  <2> QED
    BY <2>1, CurrentTypes, CommitTakesEffect DEF ConsumerKnows, Working
<1>8. ASSUME NEW c \in Consumers, FulfilOrderFails(c)
      PROVE  E!ExactlyOnceNext \/ UNCHANGED E!exactlyOnceVars
  <2>1. UNCHANGED state
    BY <1>8 DEF FulfilOrderFails, brokerVars
  <2>2. CASE UNCHANGED tableVars
    BY <1>1, <2>1, <2>2
  <2>3. CASE pc[c] = "inserted" /\ WriteRows(CurrentEvent(c))
    BY <2>1, <2>3, CurrentTypes, CommitTakesEffect DEF ConsumerKnows, Working
  <2> QED
    BY <1>8, <2>2, <2>3 DEF FulfilOrderFails
<1>9. ASSUME NEW c \in Consumers, SettleMessage(c)
      PROVE  E!ExactlyOnceNext \/ UNCHANGED E!exactlyOnceVars
  BY <1>9, SettlementReports DEF SettleMessage, Working
<1>10. ASSUME NEW c \in Consumers, SettleMessageFails(c)
       PROVE  E!ExactlyOnceNext \/ UNCHANGED E!exactlyOnceVars
  <2>1. CASE UNCHANGED brokerVars
    BY <1>1, <1>10, <2>1 DEF SettleMessageFails, brokerVars
  <2>2. CASE LockHeld(c, Current(c)) /\ Settlement(c)
    BY <1>10, <2>2, SettlementReports DEF SettleMessageFails, Working
  <2> QED
    BY <1>10, <2>1, <2>2 DEF SettleMessageFails
<1>11. ASSUME UNCHANGED <<brokerVars, tableVars>> \/ UNCHANGED <<state, tableVars>>
       PROVE  UNCHANGED E!exactlyOnceVars
  BY <1>1, <1>11 DEF brokerVars
<1> QED
  BY <1>2, <1>3, <1>5, <1>6, <1>7, <1>8, <1>9, <1>10, <1>11
  DEF Next, Proceed, StartConsumer, RequestShutdown, Crash, StopLoop, BeginReceive,
      ReceiveNothing, ValidateEnvelope, InsertRows, vars

\* The consumers implement exactly-once processing of at-least-once delivery, for
\* any number of consumers, messages and deliveries and any failures.
THEOREM FulfilmentImplementsExactlyOnce == Spec => ImplementsExactlyOnce
<1>1. Init => E!ExactlyOnceInit
  BY DEF Init, E!ExactlyOnceInit
<1>2. FulfilmentInvariant /\ [Next]_vars => [E!ExactlyOnceNext]_E!exactlyOnceVars
  BY ExactlyOnceStep
<1> QED
  BY <1>1, <1>2, InvariantHolds, PTL DEF Spec, ImplementsExactlyOnce, E!ExactlyOnceSpec
=============================================================================
