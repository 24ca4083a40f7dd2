----------------------------- MODULE FaultRunner -----------------------------
(***************************************************************************)
(* The chaos fault runner: chaos/runner.py, the recovery record of         *)
(* chaos/state.py, the steps and checks of chaos/environment.py, the       *)
(* catalogue check of chaos/catalogue.py and the commands of               *)
(* chaos/__main__.py.                                                      *)
(*                                                                         *)
(* A member of Runners is a terminal in which `run` and `revert` are       *)
(* called one after the other.  Statuses other than Active, and a stopped  *)
(* service, are "Disabled".  A symptom is what a fault's check looks for:  *)
(* it may appear while an entity is disabled and may outlast it, which is  *)
(* why the runner does not rely on it alone.                               *)
(***************************************************************************)
EXTENDS Naturals, Sequences

CONSTANTS
    Runners,        \* terminals, each with at most one command under way
    Entities,       \* topics, subscriptions and compose services
    Faults,         \* fault ids
    Plans,          \* the catalogue: fault id -> its inject and revert steps
    None,
    RevertsAlone    \* whether the operator reverts only when no other command is under way

Steps == [entity : Entities, status : {"Active", "Disabled"}]

ASSUME FaultRunnerAssumption ==
    /\ Plans \in [Faults -> [inject : Seq(Steps), revert : Seq(Steps)]]
    /\ None \notin Faults \union Steps
    /\ None \notin {"error", "interrupt"}
    /\ RevertsAlone \in BOOLEAN

VARIABLES
    file,       \* the fault id in the state file, None when there is no file
    status,     \* of each entity
    symptom,    \* whether each fault's check would match
    late,       \* an interrupted step that may still take effect, None if there is none
    struck,     \* entities last changed by such a step
    pc,         \* where the command in each terminal is, "off" if there is none
    fault,      \* the fault it works on
    step,       \* index of the next step of its plan
    failures,   \* whether a revert step failed (RecoveryReport.failures)
    raised,     \* what ended the try block of run: an "error", an "interrupt" or None
    outcome     \* what the last command in each terminal reported

worldVars == <<status, symptom, late, struck>>
runnerVars == <<pc, fault, step, failures, raised, outcome>>
vars == <<file, worldVars, runnerVars>>

-----------------------------------------------------------------------------
(* The catalogue *)

\* revert_must_restore_every_disabled_entity
restores_every_disabled_entity(plan) ==
    \A i \in DOMAIN plan.inject :
        plan.inject[i].status # "Active" =>
            \E j \in DOMAIN plan.revert :
                plan.revert[j] = [entity |-> plan.inject[i].entity, status |-> "Active"]

\* load_catalogue raises, and no command runs, unless every fault is accepted.
CatalogueLoads == \A f \in Faults : restores_every_disabled_entity(Plans[f])

-----------------------------------------------------------------------------
(* The entities and what can be observed of them *)

AllActive == \A e \in Entities : status[e] = "Active"

Affects(f, e) == \E i \in DOMAIN Plans[f].inject : Plans[f].inject[i].entity = e

SymptomAppears(f) ==
    /\ ~ symptom[f]
    /\ \E e \in Entities : Affects(f, e) /\ status[e] # "Active"
    /\ symptom' = [symptom EXCEPT ![f] = TRUE]
    /\ UNCHANGED <<file, status, late, struck, runnerVars>>

\* The backlog drains once nothing is disabled.
SymptomFades(f) ==
    /\ symptom[f]
    /\ AllActive
    /\ symptom' = [symptom EXCEPT ![f] = FALSE]
    /\ UNCHANGED <<file, status, late, struck, runnerVars>>

Apply(s) ==
    /\ status' = [status EXCEPT ![s.entity] = s.status]
    /\ struck' = struck \ {s.entity}
    /\ UNCHANGED <<symptom, late>>

\* run_command does not stop the process it started, and a request to the broker
\* cannot be called back: a step left unfinished may take effect at once, later or
\* not at all.  One such step at a time is a bound of the model.
ApplyUnfinished(s) ==
    \/ UNCHANGED worldVars
    \/ Apply(s)
    \/ late = None /\ late' = s /\ UNCHANGED <<status, symptom, struck>>

LateEffect ==
    /\ late # None
    /\ status' = [status EXCEPT ![late.entity] = late.status]
    /\ struck' = struck \union {late.entity}
    /\ late' = None
    /\ UNCHANGED <<file, symptom, runnerVars>>

-----------------------------------------------------------------------------
Init ==
    /\ file = None
    /\ status = [e \in Entities |-> "Active"]
    /\ symptom = [f \in Faults |-> FALSE]
    /\ late = None
    /\ struck = {}
    /\ pc = [r \in Runners |-> "off"]
    /\ fault = [r \in Runners |-> None]
    /\ step = [r \in Runners |-> 0]
    /\ failures = [r \in Runners |-> FALSE]
    /\ raised = [r \in Runners |-> None]
    /\ outcome = [r \in Runners |-> None]

Goto(r, label) == pc' = [pc EXCEPT ![r] = label]

End(r, report) ==
    /\ Goto(r, "off")
    /\ outcome' = [outcome EXCEPT ![r] = report]
    /\ fault' = [fault EXCEPT ![r] = None]
    /\ step' = [step EXCEPT ![r] = 0]
    /\ failures' = [failures EXCEPT ![r] = FALSE]
    /\ raised' = [raised EXCEPT ![r] = None]

\* The command ends and tells the operator what it left behind: "refused",
\* "recovered", "retained" (the state file) or "failed".  Of an interrupted one
\* asyncio.run makes a KeyboardInterrupt, and main returns 130 without a word: the
\* notes on the CancelledError reach nobody.
Finish(r, report) == End(r, IF raised[r] = "interrupt" THEN "interrupted" ELSE report)

Begin(r, f, label) ==
    /\ Goto(r, label)
    /\ fault' = [fault EXCEPT ![r] = f]
    /\ outcome' = [outcome EXCEPT ![r] = None]
    /\ UNCHANGED <<step, failures, raised>>

MayStart(r) ==
    /\ pc[r] = "off"
    /\ CatalogueLoads

Plan(r) == Plans[fault[r]]

-----------------------------------------------------------------------------
(* FaultRunner.run up to the end of its try block *)

\* A recorded obligation blocks the run before anything else is looked at.
StartRun(r, f) ==
    /\ MayStart(r)
    /\ IF file = None THEN Begin(r, f, "precheck") ELSE Finish(r, "refused")
    /\ UNCHANGED <<file, worldVars>>

Precheck(r) ==
    /\ pc[r] = "precheck"
    /\ IF symptom[fault[r]]
       THEN Finish(r, "refused")
       ELSE Goto(r, "recording") /\ UNCHANGED <<fault, step, failures, raised, outcome>>
    /\ UNCHANGED <<file, worldVars>>

PrecheckRaises(r) ==
    /\ pc[r] = "precheck"
    /\ Finish(r, "refused")
    /\ UNCHANGED <<file, worldVars>>

BeginInjection(r) ==
    /\ Goto(r, "injecting")
    /\ step' = [step EXCEPT ![r] = 1]
    /\ UNCHANGED <<worldVars, fault, failures, raised, outcome>>

record_Replaces(r) ==
    /\ pc[r] = "recording"
    /\ file' = fault[r]
    /\ BeginInjection(r)

\* os.link creates the file or fails because it is there.
record(r) ==
    /\ pc[r] = "recording"
    /\ IF file = None
       THEN file' = fault[r] /\ BeginInjection(r)
       ELSE Finish(r, "refused") /\ UNCHANGED <<file, worldVars>>

RecordFails_Ignored(r) ==
    /\ pc[r] = "recording"
    /\ BeginInjection(r)
    /\ UNCHANGED file

\* Writing the file fails, before or after the link: the exception leaves run
\* before its try block.
RecordFails(r) ==
    /\ pc[r] = "recording"
    /\ UNCHANGED file \/ (file = None /\ file' = fault[r])
    /\ Finish(r, "failed")
    /\ UNCHANGED worldVars

BeginRecovery(r, cause) ==
    /\ Goto(r, "recovering")
    /\ step' = [step EXCEPT ![r] = 1]
    /\ raised' = [raised EXCEPT ![r] = cause]
    /\ UNCHANGED <<file, fault, failures, outcome>>

Injecting(r) == pc[r] = "injecting" /\ step[r] <= Len(Plan(r).inject)

NextStep(r) ==
    /\ step' = [step EXCEPT ![r] = @ + 1]
    /\ UNCHANGED <<file, pc, fault, raised, outcome>>

InjectStep(r) ==
    /\ Injecting(r)
    /\ Apply(Plan(r).inject[step[r]])
    /\ NextStep(r)
    /\ UNCHANGED failures

\* A step raises: `except BaseException` recovers at once.
InjectStepFails(r) ==
    /\ Injecting(r)
    /\ ApplyUnfinished(Plan(r).inject[step[r]])
    /\ BeginRecovery(r, "error")

\* The wait and the injection check; InjectionNotDetected is raised in the try.
ObserveInjection(r) ==
    /\ pc[r] = "injecting" /\ ~ Injecting(r)
    /\ BeginRecovery(r, IF symptom[fault[r]] THEN None ELSE "error")
    /\ UNCHANGED worldVars

ObservationFails(r) ==
    /\ pc[r] = "injecting" /\ ~ Injecting(r)
    /\ BeginRecovery(r, "error")
    /\ UNCHANGED worldVars

-----------------------------------------------------------------------------
(* The revert command: main loads the state, FaultRunner.revert loads it again *)

StartRevert(r) ==
    /\ MayStart(r)
    /\ RevertsAlone => \A s \in Runners : pc[s] = "off"
    /\ IF file = None THEN Finish(r, "refused") ELSE Begin(r, file, "reverting")
    /\ UNCHANGED <<file, worldVars>>

revert_OnlyWithSymptom(r) ==
    /\ pc[r] = "reverting"
    /\ IF file = fault[r] /\ symptom[fault[r]]
       THEN BeginRecovery(r, None)
       ELSE Finish(r, "refused") /\ UNCHANGED file
    /\ UNCHANGED worldVars

revert(r) ==
    /\ pc[r] = "reverting"
    /\ IF file = fault[r]
       THEN BeginRecovery(r, None)
       ELSE Finish(r, "refused") /\ UNCHANGED file
    /\ UNCHANGED worldVars

-----------------------------------------------------------------------------
(* _recover, and what follows it *)

Reverting(r) == pc[r] = "recovering" /\ step[r] <= Len(Plan(r).revert)

Reverted(r) == pc[r] = "recovering" /\ ~ Reverting(r)

RevertStep(r) ==
    /\ Reverting(r)
    /\ Apply(Plan(r).revert[step[r]])
    /\ NextStep(r)
    /\ UNCHANGED failures

RevertStepFails_Forgotten(r) ==
    /\ Reverting(r)
    /\ ApplyUnfinished(Plan(r).revert[step[r]])
    /\ NextStep(r)
    /\ UNCHANGED failures

\* A failing step is noted and the others are still applied.
RevertStepFails(r) ==
    /\ Reverting(r)
    /\ ApplyUnfinished(Plan(r).revert[step[r]])
    /\ NextStep(r)
    /\ failures' = [failures EXCEPT ![r] = TRUE]

RecoveryVerified_SymptomOnly(r) ==
    /\ Reverted(r)
    /\ ~ symptom[fault[r]]
    /\ Goto(r, "clearing")
    /\ UNCHANGED <<file, worldVars, fault, step, failures, raised, outcome>>

\* The recovery check does not show the symptom and no step failed: clear.
RecoveryVerified(r) ==
    /\ Reverted(r)
    /\ ~ failures[r] /\ ~ symptom[fault[r]]
    /\ Goto(r, "clearing")
    /\ UNCHANGED <<file, worldVars, fault, step, failures, raised, outcome>>

RecoveryUnverified_Clears(r) ==
    /\ Reverted(r)
    /\ failures[r] \/ symptom[fault[r]]
    /\ file' = None
    /\ Finish(r, "retained")
    /\ UNCHANGED worldVars

\* A step failed, or the symptom is still there: the state is kept.
RecoveryUnverified(r) ==
    /\ Reverted(r)
    /\ failures[r] \/ symptom[fault[r]]
    /\ Finish(r, "retained")
    /\ UNCHANGED <<file, worldVars>>

RecoveryCheckRaises(r) ==
    /\ Reverted(r)
    /\ Finish(r, "retained")
    /\ UNCHANGED <<file, worldVars>>

\* clear: load and compare the fault id, then unlink.
clear(r) ==
    /\ pc[r] = "clearing"
    /\ IF file = fault[r]
       THEN Goto(r, "unlinking") /\ UNCHANGED <<fault, step, failures, raised, outcome>>
       ELSE Finish(r, "failed")
    /\ UNCHANGED <<file, worldVars>>

\* A file that is gone by now is reported as an error.
Unlink(r) ==
    /\ pc[r] = "unlinking"
    /\ file' = None
    /\ Finish(r, IF raised[r] # None \/ file = None THEN "failed" ELSE "recovered")
    /\ UNCHANGED worldVars

\* The unlink raises, or the sync of the directory after it.
UnlinkFails(r) ==
    /\ pc[r] = "unlinking"
    /\ UNCHANGED file \/ file' = None
    /\ Finish(r, "failed")
    /\ UNCHANGED worldVars

-----------------------------------------------------------------------------
\* Ctrl-C cancels the task.  In the try block of run `except BaseException` recovers;
\* what is synchronous from the check on goes on, and is cancelled as it is left.
Interrupt(r) ==
    \/ /\ pc[r] = "injecting"
       /\ IF Injecting(r) THEN ApplyUnfinished(Plan(r).inject[step[r]]) ELSE UNCHANGED worldVars
       /\ BeginRecovery(r, "interrupt")
    \/ /\ pc[r] \in {"clearing", "unlinking"} /\ raised[r] # "interrupt"
       /\ raised' = [raised EXCEPT ![r] = "interrupt"]
       /\ UNCHANGED <<file, worldVars, pc, fault, step, failures, outcome>>

\* SIGKILL anywhere, or Ctrl-C while a check or a revert step is awaited outside the
\* try block: the except clauses of _recover do not catch it, and nothing is printed.
\* A step under way may still take effect.
Die(r) ==
    /\ pc[r] # "off"
    /\ \/ UNCHANGED worldVars
       \/ Injecting(r) /\ ApplyUnfinished(Plan(r).inject[step[r]])
       \/ Reverting(r) /\ ApplyUnfinished(Plan(r).revert[step[r]])
    /\ End(r, "died")
    /\ UNCHANGED file

Proceed(r) ==
    \/ Precheck(r) \/ record(r) \/ InjectStep(r) \/ ObserveInjection(r)
    \/ revert(r) \/ RevertStep(r) \/ RecoveryVerified(r) \/ RecoveryUnverified(r)
    \/ clear(r) \/ Unlink(r)

Fail(r) ==
    \/ PrecheckRaises(r) \/ RecordFails(r) \/ InjectStepFails(r) \/ ObservationFails(r)
    \/ RevertStepFails(r) \/ RecoveryCheckRaises(r) \/ UnlinkFails(r)
    \/ Interrupt(r) \/ Die(r)

Next ==
    \/ \E r \in Runners :
         (\E f \in Faults : StartRun(r, f)) \/ StartRevert(r) \/ Proceed(r) \/ Fail(r)
    \/ \E f \in Faults : SymptomAppears(f) \/ SymptomFades(f)
    \/ LateEffect

Spec == Init /\ [][Next]_vars

\* A command that is under way goes on or fails, the operator tries a revert again
\* and again, and a symptom fades once nothing is disabled.
FairSpec ==
    /\ Spec
    /\ \A r \in Runners : WF_vars(Proceed(r) \/ Fail(r))
    /\ SF_vars(\E r \in Runners : StartRevert(r))
    /\ \A f \in Faults : WF_vars(SymptomFades(f))

-----------------------------------------------------------------------------
(* Properties *)

\* Every variable has its type; a terminal works on a fault exactly while a command
\* is under way, and recovers when its try block has raised.
TypeOK ==
    /\ file \in Faults \union {None}
    /\ status \in [Entities -> {"Active", "Disabled"}]
    /\ symptom \in [Faults -> BOOLEAN]
    /\ late \in Steps \union {None}
    /\ struck \subseteq Entities
    /\ pc \in [Runners -> {"off", "precheck", "recording", "injecting", "reverting",
                           "recovering", "clearing", "unlinking"}]
    /\ fault \in [Runners -> Faults \union {None}]
    /\ step \in [Runners -> Nat]
    /\ failures \in [Runners -> BOOLEAN]
    /\ raised \in [Runners -> {None, "error", "interrupt"}]
    /\ outcome \in [Runners -> {None, "refused", "recovered", "retained", "failed",
                                "interrupted", "died"}]
    /\ \A r \in Runners :
         /\ fault[r] = None <=> pc[r] = "off"
         /\ raised[r] # None => pc[r] \in {"recovering", "clearing", "unlinking"}

\* Whatever dies or fails, in the middle of a plan too, an entity is disabled only
\* while the state file names a fault whose revert enables it again (FaultState,
\* FaultRunner.run): the only damage without an obligation to repair it is that
\* of a step which was interrupted and took effect later.
ObligationCoversDamage ==
    \A e \in Entities : status[e] # "Active" /\ e \notin struck =>
        /\ file # None
        /\ \E j \in DOMAIN Plans[file].revert :
             Plans[file].revert[j] = [entity |-> e, status |-> "Active"]

\* A recovery record is never replaced by another (FaultStateStore.record), even
\* by a command that found no file when it started.
RecordIsNeverReplaced == [][file # None => file' \in {file, None}]_vars

\* "A recovery obligation left before fault injection begins" (FaultState): a run
\* injects only while its own record is there.
InjectsUnderItsRecord ==
    \A r \in Runners : pc[r] = "injecting" => file = fault[r]

\* A plan is carried out from its first step.
StepsStarted ==
    \A r \in Runners : pc[r] \in {"injecting", "recovering"} => step[r] >= 1

\* A command that is under way was let in by load_catalogue.
CommandsLoadTheCatalogue == (\E r \in Runners : pc[r] # "off") => CatalogueLoads

\* A command that acts on its fault's record, and may change entities or the record.
Owns(r) == pc[r] \in {"injecting", "reverting", "recovering", "clearing", "unlinking"}

\* The record is that of the one command that acts on it.
OneOwner ==
    \A r \in Runners : Owns(r) =>
        /\ file = fault[r]
        /\ \A s \in Runners : Owns(s) => s = r

\* A recovery without a failed step has the steps still before it that enable what is
\* disabled, and none left to enable once it is verified.
RepairsAhead ==
    \A r \in Runners, e \in Entities :
        status[e] # "Active" /\ e \notin struck =>
            /\ pc[r] = "recovering" /\ ~ failures[r] =>
                 \E j \in DOMAIN Plan(r).revert :
                     /\ j >= step[r]
                     /\ Plan(r).revert[j] = [entity |-> e, status |-> "Active"]
            /\ pc[r] \notin {"clearing", "unlinking"}

\* What the catalogue check does not ask: a revert step that disables an entity is
\* followed by one that enables it.
RevertsEndActive ==
    \A f \in Faults : \A i \in DOMAIN Plans[f].revert :
        Plans[f].revert[i].status # "Active" =>
            \E j \in DOMAIN Plans[f].revert :
                /\ j > i
                /\ Plans[f].revert[j] =
                     [entity |-> Plans[f].revert[i].entity, status |-> "Active"]

\* What every step preserves when reverts have their turn and end by enabling.
RunnerInvariant ==
    /\ TypeOK
    /\ StepsStarted
    /\ CommandsLoadTheCatalogue
    /\ OneOwner
    /\ ObligationCoversDamage
    /\ RepairsAhead

\* The fault's obligation is gone and what it disabled is active again.
Restored(f) ==
    /\ file' = None
    /\ \A e \in Entities \ struck : Affects(f, e) => status[e] = "Active"

\* What a command tells the operator is so (_report, _report_failure): after
\* "reverted and healthy" there is no record and every entity of the fault is
\* active, and after "state retained" the record of that fault is there to revert.
\* Exit status 130 alone leaves the operator with one of the two.
ReportsAreTrue ==
    [][\A r \in Runners : pc[r] # "off" /\ pc'[r] = "off" =>
         /\ outcome'[r] = "recovered" => Restored(fault[r])
         /\ outcome'[r] = "retained" => file' = fault[r]
         /\ outcome'[r] = "interrupted" => Restored(fault[r]) \/ file' = fault[r]]_vars

\* "The one sentence saying whether the environment was restored" (_report_failure):
\* a command that has applied its revert and keeps the record says so as it ends.
RecoveryIsReported ==
    [][\A r \in Runners :
         Reverted(r) /\ pc'[r] = "off" /\ outcome'[r] # "died" => outcome'[r] = "retained"]_vars

\* "Presence means the fault's complete revert must be applied and verified"
\* (FaultState), and it can be: once commands stop failing and dying, a record left
\* by any history of runs and reverts is cleared by reverting again and again,
\* although each revert is held up by a symptom that lags behind.
RecoveryEnds ==
    <>[][\A r \in Runners : ~ Fail(r)]_vars => (file # None ~> file = None)

\* "A fault that disables something must re-enable it" (catalogue.py): once the
\* obligation is cleared every entity is active again, late effects aside.
NoObligationMeansRestored ==
    file = None => \A e \in Entities \ struck : status[e] = "Active"
=============================================================================
