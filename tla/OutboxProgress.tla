--------------------------- MODULE OutboxProgress ---------------------------
(***************************************************************************)
(* Liveness of the outbox.  Module Outbox ends with its clock; here time   *)
(* never ends: once the clock is at MaxClock, a tick shifts every time in  *)
(* the table and in the processes one back instead, which changes no       *)
(* comparison between two of them.  Processes never run out either: one    *)
(* that ended is replaced by a new life, which takes over its place in     *)
(* Workers, while the row leases of the old one pass to Retired, a life    *)
(* that is over and stands for all such.                                   *)
(***************************************************************************)
EXTENDS Outbox, FiniteSets

CONSTANTS
    Retired,            \* the owner of what ended processes have leased
    Refused,            \* events the broker may refuse for ever
    SaturatedAttempts   \* attempts past which the backoff no longer grows

ASSUME ProgressAssumption ==
    /\ Retired \in Workers
    /\ Refused \subseteq Events
    /\ SaturatedAttempts \in Nat \ {0}
    /\ backoff_delay(SaturatedAttempts) = MaxBackoff
    /\ IsFiniteSet(Events) /\ Cardinality(Events) < MaxClock

Processes == Workers \ {Retired}

-----------------------------------------------------------------------------
(* Time without end *)

Shift(t, floor) ==
    IF t = None THEN None ELSE IF t > floor THEN t - 1 ELSE floor

\* Rows due in the past keep their order, the only thing LockDueRow reads of it.
Rank(e) == Cardinality({f \in Events : Placed(f) /\ row[f].nextAt < row[e].nextAt})

\* What no action reads is forgotten: last_attempt_at, the time of a claim and the
\* copies.  An attempt count is read by backoff_delay alone.
Age ==
    /\ \A w \in Workers : now[w] # None => now[w] >= Cardinality(Events)
    /\ row' = [e \in Events |->
                 IF ~ Placed(e) THEN None
                 ELSE [row[e] EXCEPT
                         !.nextAt = Shift(@, Rank(e)),
                         !.leaseEnd = Shift(@, 0),
                         !.lastAt = None,
                         !.attempts = AtMost(@, SaturatedAttempts)]]
    /\ now' = [w \in Workers |-> Shift(now[w], 0)]
    /\ claimed' = [w \in Workers |->
                     IF claimed[w] = None THEN None
                     ELSE [claimed[w] EXCEPT
                             !.claimedAt = 0,
                             !.attempts = AtMost(@, SaturatedAttempts)]]
    /\ copies' = [e \in Events |-> 0]
    /\ UNCHANGED <<clock, pc, tries, shutdown>>

\* Init at MaxClock.
ProgressInit ==
    /\ clock = MaxClock
    /\ row = [e \in Events |-> None]
    /\ pc = [w \in Workers |-> "off"]
    /\ now = [w \in Workers |-> None]
    /\ claimed = [w \in Workers |-> None]
    /\ tries = [w \in Workers |-> 0]
    /\ shutdown = [w \in Workers |-> FALSE]
    /\ copies = [e \in Events |-> 0]

\* A supervisor starts the process again; the new one draws an owner of its own.
Replace(w) ==
    /\ pc[w] \in {"stopped", "crashed"}
    /\ Goto(w, "off")
    /\ row' = [e \in Events |->
                 IF Placed(e) /\ row[e].owner = w
                 THEN [row[e] EXCEPT !.owner = Retired] ELSE row[e]]
    /\ UNCHANGED <<clock, now, claimed, tries, shutdown, copies>>

-----------------------------------------------------------------------------
Interrupted(w) == RequestShutdown(w) \/ Crash(w)

TransactionFails(w) == CommitClaimUnseen(w) \/ ClaimFails(w) \/ SettleFails(w)

ProgressNext ==
    \/ \E e \in Events : place_order(e)
    \/ \E w \in Processes :
         \/ LoopStep(w) \/ ClaimStep(w) \/ PublishStep(w) \/ SettleStep(w)
         \/ Replace(w)
    \/ Age

\* What a running process does by itself.
Proceed(w) == StopLoop(w) \/ ClaimStep(w) \/ PublishStep(w) \/ SettleStep(w)

\* The worker's lease on the event it carries has not been taken over.
Owns(w) == row[claimed[w].event].owner = w

\* Processes go on, are started and replaced, and time passes.  An event that is
\* not refused for ever is accepted once it is sent again and again under a lease
\* of its sender's own, and an accepted one is settled now and then before another
\* process takes it over.
ProgressSpec ==
    /\ ProgressInit /\ [][ProgressNext]_vars
    /\ WF_vars(Age)
    /\ \A w \in Processes :
         /\ WF_vars(Proceed(w))
         /\ WF_vars(StartWorker(w))
         /\ WF_vars(Replace(w))
         /\ SF_vars(mark_published(w) /\ Owns(w))
         /\ \A e \in Events \ Refused :
              SF_vars(SendAcknowledged(w) /\ claimed[w].event = e /\ Owns(w))

-----------------------------------------------------------------------------
(* Properties *)

\* Crashes, shutdowns and failing transactions come to an end.
Calm ==
    <>[][\A w \in Processes : ~ Interrupted(w) /\ ~ TransactionFails(w)]_vars

\* However the outbox was left - a row leased to a process that is gone, or to one
\* whose settlement failed, an event the broker refuses at every attempt in front
\* of it - every committed event the broker is willing to take is published in the
\* end (due_event_statement: expired leases, and ORDER BY next_attempt_at).
EveryEventIsPublished ==
    Calm => \A e \in Events \ Refused : Placed(e) ~> (Placed(e) /\ row[e].published)

\* A process that is asked to stop does stop (run_publisher_loop,
\* sleep_unless_shutdown), also with an event under way that the broker refuses
\* or a database that fails at every attempt to settle it.
ShutdownEndsProcess == \A w \in Processes : shutdown[w] ~> pc[w] \notin Running
=============================================================================
