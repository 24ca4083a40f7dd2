--------------------------- MODULE FaultRunnerProofs ---------------------------
(***************************************************************************)
(* Theorems about FaultRunner for every set of terminals, entities and     *)
(* faults and every catalogue, checked by TLAPS.                           *)
(***************************************************************************)
EXTENDS FaultRunner, TLAPS

-----------------------------------------------------------------------------
(* Types *)

WorldTypes ==
    /\ status \in [Entities -> {"Active", "Disabled"}]
    /\ symptom \in [Faults -> BOOLEAN]
    /\ late \in Steps \union {None}
    /\ struck \subseteq Entities

RunnerTypes ==
    /\ pc \in [Runners -> {"off", "precheck", "recording", "injecting", "reverting",
                           "recovering", "clearing", "unlinking"}]
    /\ fault \in [Runners -> Faults \union {None}]
    /\ step \in [Runners -> Nat]
    /\ failures \in [Runners -> BOOLEAN]
    /\ raised \in [Runners -> {None, "error", "interrupt"}]
    /\ outcome \in [Runners -> {None, "refused", "recovered", "retained", "failed",
                                "interrupted", "died"}]
    /\ \A r \in Runners :
         /\ fault[r] = None <=> pc[r] = "off"
         /\ raised[r] # None => pc[r] \in {"recovering", "clearing", "unlinking"}
    /\ StepsStarted

\* TypeOK, and what makes it inductive, in the parts that the actions change.
LEMMA TypesSplit ==
  TypeOK /\ StepsStarted <=> file \in Faults \union {None} /\ WorldTypes /\ RunnerTypes
  BY DEF TypeOK, WorldTypes, RunnerTypes

\* The step a command is at is one of its fault's plan.
LEMMA PlannedStep ==
  ASSUME TypeOK, StepsStarted, NEW r \in Runners
  PROVE  /\ pc[r] # "off" => fault[r] \in Faults
         /\ Injecting(r) => /\ step[r] \in DOMAIN Plan(r).inject
                            /\ Plan(r).inject[step[r]] \in Steps
         /\ Reverting(r) => /\ step[r] \in DOMAIN Plan(r).revert
                            /\ Plan(r).revert[step[r]] \in Steps
<1>1. pc[r] # "off" => fault[r] \in Faults
  BY DEF TypeOK
<1>2. ASSUME pc[r] # "off"
      PROVE  Plan(r).inject \in Seq(Steps) /\ Plan(r).revert \in Seq(Steps)
  BY <1>1, <1>2, FaultRunnerAssumption DEF Plan
<1>3. step[r] \in Nat /\ (pc[r] \in {"injecting", "recovering"} => step[r] >= 1)
  BY DEF TypeOK, StepsStarted
<1>4. ASSUME Injecting(r)
      PROVE  step[r] \in DOMAIN Plan(r).inject /\ Plan(r).inject[step[r]] \in Steps
  BY <1>2, <1>3, <1>4 DEF Injecting
<1>5. ASSUME Reverting(r)
      PROVE  step[r] \in DOMAIN Plan(r).revert /\ Plan(r).revert[step[r]] \in Steps
  BY <1>2, <1>3, <1>5 DEF Reverting
<1> QED
  BY <1>1, <1>4, <1>5

\* What a step changes, and what of it stays when it is left unfinished.
LEMMA ApplyTypes ==
  ASSUME WorldTypes, NEW s \in Steps, Apply(s) PROVE WorldTypes'
<1>1. s.entity \in Entities /\ s.status \in {"Active", "Disabled"}
  BY DEF Steps
<1> QED
  BY <1>1 DEF WorldTypes, Apply

LEMMA ApplyUnfinishedTypes ==
  ASSUME WorldTypes, NEW s \in Steps, ApplyUnfinished(s) PROVE WorldTypes'
<1>1. CASE UNCHANGED worldVars
  BY <1>1 DEF WorldTypes, worldVars
<1>2. CASE Apply(s)
  BY <1>2, ApplyTypes
<1>3. CASE late' = s /\ UNCHANGED <<status, symptom, struck>>
  BY <1>3 DEF WorldTypes
<1> QED
  BY <1>1, <1>2, <1>3 DEF ApplyUnfinished

\* The end of a command.
LEMMA EndTypes ==
  ASSUME RunnerTypes, NEW r \in Runners,
         NEW report \in {"refused", "recovered", "retained", "failed", "interrupted", "died"},
         End(r, report)
  PROVE  RunnerTypes'
  BY FaultRunnerAssumption DEF RunnerTypes, End, Goto, StepsStarted

LEMMA FinishTypes ==
  ASSUME RunnerTypes, NEW r \in Runners,
         NEW report \in {"refused", "recovered", "retained", "failed"}, Finish(r, report)
  PROVE  RunnerTypes'
<1>1. CASE End(r, "interrupted")
  BY <1>1, EndTypes
<1>2. CASE End(r, report)
  BY <1>2, EndTypes
<1> QED
  BY <1>1, <1>2 DEF Finish

\* Its start, on a fault of the catalogue.
LEMMA BeginTypes ==
  ASSUME RunnerTypes, NEW r \in Runners, pc[r] = "off", NEW f \in Faults,
         NEW label \in {"precheck", "reverting"}, Begin(r, f, label)
  PROVE  RunnerTypes'
  BY FaultRunnerAssumption DEF RunnerTypes, Begin, Goto, StepsStarted

\* A move to another place of a command under way.
LEMMA MoveTypes ==
  ASSUME RunnerTypes, NEW r \in Runners, pc[r] # "off",
         NEW label \in {"recording", "injecting", "recovering", "clearing", "unlinking"},
         Goto(r, label),
         UNCHANGED <<fault, outcome>>,
         step' = step \/ step' = [step EXCEPT ![r] = 1],
         label \in {"injecting", "recovering"} => step'[r] = 1,
         failures' = failures, raised' \in [Runners -> {None, "error", "interrupt"}],
         label \in {"recording", "injecting"} => raised'[r] = None,
         \A s \in Runners \ {r} : raised'[s] = raised[s]
  PROVE  RunnerTypes'
<1>1. step' \in [Runners -> Nat]
  BY DEF RunnerTypes
<1>2. pc' = [pc EXCEPT ![r] = label]
  BY DEF Goto
<1> QED
  BY <1>1, <1>2 DEF RunnerTypes, StepsStarted

\* The step to the next place of a plan.
LEMMA NextStepTypes ==
  ASSUME RunnerTypes, NEW r \in Runners, NextStep(r), failures' \in [Runners -> BOOLEAN]
  PROVE  RunnerTypes'
<1>1. step' \in [Runners -> Nat] /\ \A s \in Runners : step'[s] >= step[s]
  BY DEF RunnerTypes, NextStep
<1>2. \A s \in Runners : step[s] \in Nat
  BY DEF RunnerTypes
<1> QED
  BY <1>1, <1>2 DEF RunnerTypes, NextStep, StepsStarted

\* Every step keeps the types.
LEMMA TypeOKStep ==
  ASSUME TypeOK, StepsStarted, [Next]_vars PROVE TypeOK' /\ StepsStarted'
<1>1. file \in Faults \union {None} /\ WorldTypes /\ RunnerTypes
  BY TypesSplit
<1>2. SUFFICES file' \in Faults \union {None} /\ WorldTypes' /\ RunnerTypes'
  BY DEF TypeOK, WorldTypes, RunnerTypes
<1> DEFINE Typed == file' \in Faults \union {None} /\ WorldTypes' /\ RunnerTypes'
<1>3. ASSUME UNCHANGED worldVars PROVE WorldTypes'
  BY <1>1, <1>3 DEF WorldTypes, worldVars
<1>4. ASSUME UNCHANGED runnerVars PROVE RunnerTypes'
  BY <1>1, <1>4 DEF RunnerTypes, runnerVars, StepsStarted
<1>5. ASSUME NEW r \in Runners, NEW f \in Faults, StartRun(r, f) PROVE Typed
  <2>1. Begin(r, f, "precheck") \/ Finish(r, "refused")
    BY <1>5 DEF StartRun
  <2>2. pc[r] = "off"
    BY <1>5 DEF StartRun, MayStart
  <2>3. RunnerTypes'
    BY <1>1, <2>1, <2>2, BeginTypes, FinishTypes
  <2> QED
    BY <1>1, <1>3, <1>5, <2>3 DEF StartRun
<1>6. ASSUME NEW r \in Runners, Precheck(r) \/ PrecheckRaises(r) PROVE Typed
  <2>1. CASE Finish(r, "refused")
    BY <1>1, <1>3, <1>6, <2>1, FinishTypes DEF Precheck, PrecheckRaises
  <2>2. CASE Goto(r, "recording") /\ UNCHANGED <<fault, step, failures, raised, outcome>>
    <3>1. pc[r] = "precheck"
      BY <1>6 DEF Precheck, PrecheckRaises
    <3>2. raised' \in [Runners -> {None, "error", "interrupt"}] /\ raised'[r] = None
      BY <1>1, <2>2, <3>1 DEF RunnerTypes
    <3>3. RunnerTypes'
      BY <1>1, <2>2, <3>1, <3>2, MoveTypes
    <3> QED
      BY <1>1, <1>3, <1>6, <3>3 DEF Precheck, PrecheckRaises
  <2> QED
    BY <1>6, <2>1, <2>2 DEF Precheck, PrecheckRaises
<1>7. ASSUME NEW r \in Runners, record(r) PROVE Typed
  <2>1. pc[r] # "off" /\ fault[r] \in Faults
    BY <1>7, PlannedStep DEF record
  <2>2. CASE Finish(r, "refused") /\ UNCHANGED <<file, worldVars>>
    BY <1>1, <1>3, <2>2, FinishTypes
  <2>3. CASE file' = fault[r] /\ BeginInjection(r)
    <3>1. /\ step'[r] = 1 /\ raised' \in [Runners -> {None, "error", "interrupt"}]
          /\ raised' = raised /\ raised[r] = None
      BY <1>1, <1>7, <2>3 DEF record, BeginInjection, RunnerTypes
    <3>2. RunnerTypes'
      BY <1>1, <2>1, <2>3, <3>1, MoveTypes DEF BeginInjection
    <3> QED
      BY <1>3, <2>1, <2>3, <3>2 DEF BeginInjection
  <2> QED
    BY <1>7, <2>2, <2>3 DEF record
<1>8. ASSUME NEW r \in Runners, RecordFails(r) PROVE Typed
  <2>1. fault[r] \in Faults
    BY <1>8, PlannedStep DEF RecordFails
  <2>2. RunnerTypes'
    BY <1>1, <1>8, FinishTypes DEF RecordFails
  <2> QED
    BY <1>1, <1>3, <1>8, <2>1, <2>2 DEF RecordFails
<1>9. ASSUME NEW r \in Runners, pc[r] # "off", NEW cause \in {None, "error", "interrupt"},
             BeginRecovery(r, cause)
      PROVE  RunnerTypes' /\ file' \in Faults \union {None}
  <2>1. /\ step'[r] = 1 /\ raised' \in [Runners -> {None, "error", "interrupt"}]
        /\ \A s \in Runners \ {r} : raised'[s] = raised[s]
    BY <1>1, <1>9 DEF BeginRecovery, RunnerTypes
  <2> QED
    BY <1>1, <1>9, <2>1, MoveTypes DEF BeginRecovery
<1>10. ASSUME NEW r \in Runners, InjectStep(r) PROVE Typed
  <2>1. WorldTypes'
    BY <1>1, <1>10, PlannedStep, ApplyTypes DEF InjectStep
  <2>2. RunnerTypes'
    BY <1>1, <1>10, NextStepTypes DEF InjectStep, RunnerTypes
  <2> QED
    BY <1>1, <1>10, <2>1, <2>2 DEF InjectStep, NextStep
<1>11. ASSUME NEW r \in Runners, InjectStepFails(r) PROVE Typed
  <2>1. WorldTypes'
    BY <1>1, <1>11, PlannedStep, ApplyUnfinishedTypes DEF InjectStepFails
  <2> QED
    BY <1>9, <1>11, <2>1 DEF InjectStepFails, Injecting
<1>12. ASSUME NEW r \in Runners, ObserveInjection(r) PROVE Typed
  <2>1. PICK cause \in {None, "error"} : BeginRecovery(r, cause)
    BY <1>12 DEF ObserveInjection
  <2> QED
    BY <1>3, <1>9, <1>12, <2>1 DEF ObserveInjection
<1>13. ASSUME NEW r \in Runners, ObservationFails(r) PROVE Typed
  BY <1>3, <1>9, <1>13 DEF ObservationFails
<1>14. ASSUME NEW r \in Runners, StartRevert(r) PROVE Typed
  <2>1. CASE Finish(r, "refused")
    BY <1>1, <1>3, <1>14, <2>1, FinishTypes DEF StartRevert
  <2>2. CASE file \in Faults /\ Begin(r, file, "reverting")
    BY <1>1, <1>3, <1>14, <2>2, BeginTypes DEF StartRevert, MayStart
  <2> QED
    BY <1>1, <1>14, <2>1, <2>2 DEF StartRevert
<1>15. ASSUME NEW r \in Runners, revert(r) PROVE Typed
  <2>1. CASE Finish(r, "refused") /\ UNCHANGED file
    BY <1>1, <1>3, <1>15, <2>1, FinishTypes DEF revert
  <2>2. CASE BeginRecovery(r, None)
    BY <1>3, <1>9, <1>15, <2>2 DEF revert
  <2> QED
    BY <1>15, <2>1, <2>2 DEF revert
<1>16. ASSUME NEW r \in Runners, RevertStep(r) PROVE Typed
  <2>1. WorldTypes'
    BY <1>1, <1>16, PlannedStep, ApplyTypes DEF RevertStep
  <2>2. RunnerTypes'
    BY <1>1, <1>16, NextStepTypes DEF RevertStep, RunnerTypes
  <2> QED
    BY <1>1, <1>16, <2>1, <2>2 DEF RevertStep, NextStep
<1>17. ASSUME NEW r \in Runners, RevertStepFails(r) PROVE Typed
  <2>1. WorldTypes'
    BY <1>1, <1>17, PlannedStep, ApplyUnfinishedTypes DEF RevertStepFails
  <2>2. failures' \in [Runners -> BOOLEAN]
    BY <1>1, <1>17 DEF RevertStepFails, RunnerTypes
  <2>3. RunnerTypes'
    BY <1>1, <1>17, <2>2, NextStepTypes DEF RevertStepFails
  <2> QED
    BY <1>1, <1>17, <2>1, <2>3 DEF RevertStepFails, NextStep
<1>18. ASSUME NEW r \in Runners, NEW label \in {"clearing", "unlinking"}, pc[r] # "off",
              Goto(r, label), UNCHANGED <<file, worldVars, fault, step, failures, raised, outcome>>
       PROVE  Typed
  <2>1. raised' \in [Runners -> {None, "error", "interrupt"}]
    BY <1>1, <1>18 DEF RunnerTypes
  <2>2. RunnerTypes'
    BY <1>1, <1>18, <2>1, MoveTypes
  <2> QED
    BY <1>1, <1>3, <1>18, <2>2
<1>19. ASSUME NEW r \in Runners, RecoveryVerified(r) PROVE Typed
  BY <1>18, <1>19 DEF RecoveryVerified, Reverted
<1>20. ASSUME NEW r \in Runners, RecoveryUnverified(r) \/ RecoveryCheckRaises(r) PROVE Typed
  BY <1>1, <1>3, <1>20, FinishTypes DEF RecoveryUnverified, RecoveryCheckRaises
<1>21. ASSUME NEW r \in Runners, clear(r) PROVE Typed
  <2>1. CASE Finish(r, "failed")
    BY <1>1, <1>3, <1>21, <2>1, FinishTypes DEF clear
  <2>2. CASE Goto(r, "unlinking") /\ UNCHANGED <<fault, step, failures, raised, outcome>>
    BY <1>18, <1>21, <2>2 DEF clear
  <2> QED
    BY <1>21, <2>1, <2>2 DEF clear
<1>22. ASSUME NEW r \in Runners, Unlink(r) \/ UnlinkFails(r) PROVE Typed
  <2>1. PICK report \in {"failed", "recovered"} : Finish(r, report)
    BY <1>22 DEF Unlink, UnlinkFails
  <2>2. RunnerTypes'
    BY <1>1, <2>1, FinishTypes
  <2> QED
    BY <1>1, <1>3, <1>22, <2>2 DEF Unlink, UnlinkFails
<1>23. ASSUME NEW r \in Runners, Die(r) PROVE Typed
  <2>1. WorldTypes'
    BY <1>1, <1>3, <1>23, PlannedStep, ApplyUnfinishedTypes DEF Die
  <2> QED
    BY <1>1, <1>23, <2>1, EndTypes DEF Die
<1>24. ASSUME NEW f \in Faults, SymptomAppears(f) \/ SymptomFades(f) PROVE Typed
  <2>1. WorldTypes'
    BY <1>1, <1>24 DEF SymptomAppears, SymptomFades, WorldTypes
  <2> QED
    BY <1>1, <1>4, <1>24, <2>1 DEF SymptomAppears, SymptomFades
<1>25. CASE LateEffect
  <2>1. late \in Steps
    BY <1>1, <1>25 DEF LateEffect, WorldTypes
  <2>2. late.entity \in Entities /\ late.status \in {"Active", "Disabled"}
    BY <2>1 DEF Steps
  <2>3. WorldTypes'
    BY <1>1, <1>25, <2>2 DEF LateEffect, WorldTypes
  <2> QED
    BY <1>1, <1>4, <1>25, <2>3 DEF LateEffect
<1>26. CASE UNCHANGED vars
  BY <1>1, <1>3, <1>4, <1>26 DEF vars
<1>27. ASSUME NEW r \in Runners, Interrupt(r) PROVE Typed
  <2>1. CASE /\ pc[r] = "injecting"
             /\ (Injecting(r) /\ ApplyUnfinished(Plan(r).inject[step[r]])) \/ UNCHANGED worldVars
             /\ BeginRecovery(r, "interrupt")
    <3>1. WorldTypes'
      BY <1>1, <1>3, <2>1, PlannedStep, ApplyUnfinishedTypes
    <3> QED
      BY <1>9, <2>1, <3>1
  <2>2. CASE /\ pc[r] \in {"clearing", "unlinking"}
             /\ raised' = [raised EXCEPT ![r] = "interrupt"]
             /\ UNCHANGED <<file, worldVars, pc, fault, step, failures, outcome>>
    <3>1. RunnerTypes'
      BY <1>1, <2>2 DEF RunnerTypes, StepsStarted
    <3> QED
      BY <1>1, <1>3, <2>2, <3>1
  <2> QED
    BY <1>27, <2>1, <2>2 DEF Interrupt
<1> QED
  BY <1>5, <1>6, <1>7, <1>8, <1>10, <1>11, <1>12, <1>13, <1>14, <1>15, <1>16, <1>17, <1>19,
     <1>20, <1>21, <1>22, <1>23, <1>24, <1>25, <1>26, <1>27 DEF Next, Proceed, Fail

\* Every variable has its type, whatever the catalogue and whenever a revert is called.
THEOREM Typing == Spec => []TypeOK
<1>1. Init => TypeOK /\ StepsStarted
  BY FaultRunnerAssumption DEF Init, TypeOK, StepsStarted
<1>2. TypeOK /\ StepsStarted /\ [Next]_vars => TypeOK' /\ StepsStarted'
  BY TypeOKStep
<1> QED
  BY <1>1, <1>2, PTL DEF Spec

-----------------------------------------------------------------------------
(* The record *)

\* A recovery record is never replaced by another (FaultStateStore.record): a file is
\* created only where there is none, whatever other commands do meanwhile.
THEOREM RecordIsKept == Spec => RecordIsNeverReplaced
<1>1. ASSUME [Next]_vars, file # None PROVE file' \in {file, None}
  BY <1>1 DEF Next, Proceed, Fail, vars, StartRun, Precheck, PrecheckRaises, record, RecordFails,
     InjectStep, InjectStepFails, ObserveInjection, ObservationFails, BeginRecovery, NextStep,
     StartRevert, revert, RevertStep, RevertStepFails, RecoveryVerified, RecoveryUnverified,
     RecoveryCheckRaises, clear, Unlink, UnlinkFails, Interrupt, Die, SymptomAppears,
     SymptomFades, LateEffect
<1>2. [Next]_vars => [file # None => file' \in {file, None}]_vars
  BY <1>1
<1> QED
  BY <1>2, PTL DEF Spec, RecordIsNeverReplaced

-----------------------------------------------------------------------------
(* Commands and their damage *)

Damaged(e) == status[e] # "Active" /\ e \notin struck

\* A command moves itself only.
LEMMA OthersStay ==
  ASSUME TypeOK, NEW r \in Runners,
         (\E f \in Faults : StartRun(r, f)) \/ StartRevert(r) \/ Proceed(r) \/ Fail(r)
  PROVE  \A s \in Runners \ {r} :
           /\ pc'[s] = pc[s] /\ fault'[s] = fault[s]
           /\ step'[s] = step[s] /\ failures'[s] = failures[s]
<1> DEFINE Stay == \A s \in Runners \ {r} :
                     /\ pc'[s] = pc[s] /\ fault'[s] = fault[s]
                     /\ step'[s] = step[s] /\ failures'[s] = failures[s]
<1>1. CASE (\E f \in Faults : StartRun(r, f)) \/ StartRevert(r)
  BY <1>1 DEF StartRun, StartRevert, Begin, Finish, End, Goto, TypeOK
<1>2. CASE Precheck(r) \/ PrecheckRaises(r) \/ record(r) \/ RecordFails(r)
  BY <1>2 DEF Precheck, PrecheckRaises, record, RecordFails, BeginInjection, Finish, End, Goto, TypeOK
<1>3. ASSUME NEW b, BeginRecovery(r, b) PROVE Stay
  BY <1>3 DEF BeginRecovery, Goto, TypeOK
<1>4. CASE InjectStepFails(r) \/ ObserveInjection(r) \/ ObservationFails(r)
  BY <1>3, <1>4 DEF InjectStepFails, ObserveInjection, ObservationFails
<1>5. CASE InjectStep(r) \/ RevertStep(r) \/ RevertStepFails(r)
  BY <1>5 DEF InjectStep, RevertStep, RevertStepFails, NextStep, TypeOK
<1>6. CASE revert(r)
  BY <1>6 DEF revert, BeginRecovery, Finish, End, Goto, TypeOK
<1>7. CASE RecoveryVerified(r) \/ RecoveryUnverified(r) \/ RecoveryCheckRaises(r)
  BY <1>7 DEF RecoveryVerified, RecoveryUnverified, RecoveryCheckRaises, Finish, End, Goto, TypeOK
<1>8. CASE clear(r) \/ Unlink(r) \/ UnlinkFails(r) \/ Die(r)
  BY <1>8 DEF clear, Unlink, UnlinkFails, Die, Finish, End, Goto, TypeOK
<1>9. CASE Interrupt(r)
  BY <1>3, <1>9 DEF Interrupt
<1> QED
  BY <1>1, <1>2, <1>4, <1>5, <1>6, <1>7, <1>8, <1>9 DEF Proceed, Fail

\* A step damages what it disables and repairs what it enables.
LEMMA ApplyDamage ==
  ASSUME TypeOK, NEW s \in Steps, Apply(s), NEW e \in Entities, Damaged(e)'
  PROVE  (e # s.entity /\ Damaged(e)) \/ (e = s.entity /\ s.status = "Disabled")
<1>1. s.entity \in Entities /\ s.status \in {"Active", "Disabled"}
  BY DEF Steps
<1> QED
  BY <1>1 DEF Apply, Damaged, TypeOK

LEMMA ApplyUnfinishedDamage ==
  ASSUME TypeOK, NEW s \in Steps, ApplyUnfinished(s), NEW e \in Entities, Damaged(e)'
  PROVE  Damaged(e) \/ (e = s.entity /\ s.status = "Disabled")
<1>1. CASE UNCHANGED <<status, struck>>
  BY <1>1 DEF Damaged
<1>2. CASE Apply(s)
  BY <1>2, ApplyDamage
<1> QED
  BY <1>1, <1>2 DEF ApplyUnfinished, worldVars

\* A fault's revert enables whatever a step of its plan disables.
LEMMA PlanRestores ==
  ASSUME CatalogueLoads, RevertsEndActive, NEW f \in Faults, NEW e \in Entities,
         \/ \E i \in DOMAIN Plans[f].inject :
              Plans[f].inject[i].entity = e /\ Plans[f].inject[i].status = "Disabled"
         \/ \E i \in DOMAIN Plans[f].revert :
              Plans[f].revert[i].entity = e /\ Plans[f].revert[i].status = "Disabled"
  PROVE  \E j \in DOMAIN Plans[f].revert :
           Plans[f].revert[j] = [entity |-> e, status |-> "Active"]
<1>1. CASE \E i \in DOMAIN Plans[f].inject :
             Plans[f].inject[i].entity = e /\ Plans[f].inject[i].status = "Disabled"
  <2>1. restores_every_disabled_entity(Plans[f])
    BY DEF CatalogueLoads
  <2> QED
    BY <1>1, <2>1 DEF restores_every_disabled_entity
<1>2. CASE \E i \in DOMAIN Plans[f].revert :
             Plans[f].revert[i].entity = e /\ Plans[f].revert[i].status = "Disabled"
  BY <1>2 DEF RevertsEndActive
<1> QED
  BY <1>1, <1>2

\* What lets the obligation cover the damage after a step of the owner's plan.
LEMMA StepKeepsObligation ==
  ASSUME TypeOK, OneOwner, ObligationCoversDamage, CatalogueLoads, RevertsEndActive,
         NEW r \in Runners, Owns(r), UNCHANGED file, NEW s \in Steps,
         \/ \E i \in DOMAIN Plan(r).inject : Plan(r).inject[i] = s
         \/ \E i \in DOMAIN Plan(r).revert : Plan(r).revert[i] = s,
         \A e \in Entities : Damaged(e)' =>
            Damaged(e) \/ (e = s.entity /\ s.status = "Disabled")
  PROVE  ObligationCoversDamage'
<1>1. file = fault[r] /\ file \in Faults /\ file # None
  BY FaultRunnerAssumption DEF OneOwner, Owns, TypeOK
<1>2. ASSUME NEW e \in Entities, Damaged(e)'
      PROVE  \E j \in DOMAIN Plans[file].revert :
               Plans[file].revert[j] = [entity |-> e, status |-> "Active"]
  <2>1. CASE Damaged(e)
    BY <2>1 DEF Damaged, ObligationCoversDamage
  <2>2. CASE e = s.entity /\ s.status = "Disabled"
    BY <1>1, <2>2, PlanRestores DEF Plan
  <2> QED
    BY <1>2, <2>1, <2>2
<1> QED
  BY <1>1, <1>2 DEF ObligationCoversDamage, Damaged

\* A step that damages nothing and leaves the record there keeps the obligation.
LEMMA ObligationKept ==
  ASSUME ObligationCoversDamage, UNCHANGED file,
         \A e \in Entities : Damaged(e)' => Damaged(e)
  PROVE  ObligationCoversDamage'
  BY DEF ObligationCoversDamage, Damaged

\* The record stays its owner's if no command comes to own it.
LEMMA OwnerKept ==
  ASSUME OneOwner, UNCHANGED file,
         \A s \in Runners : Owns(s)' => Owns(s) /\ fault'[s] = fault[s]
  PROVE  OneOwner'
  BY DEF OneOwner

\* Nobody owns a record that is not there.
LEMMA NoRecordNoOwner ==
  ASSUME TypeOK, OneOwner, file = None, NEW r \in Runners PROVE ~ Owns(r)
  BY FaultRunnerAssumption DEF TypeOK, OneOwner, Owns

\* Recovery is the owner's business.
LEMMA OwnerRepairs ==
  ASSUME NEW r \in Runners, \A s \in Runners \ {r} : ~ Owns(s)',
         \A e \in Entities : Damaged(e)' =>
            /\ pc'[r] = "recovering" /\ ~ failures'[r] =>
                 \E j \in DOMAIN Plan(r)'.revert :
                     /\ j >= step'[r]
                     /\ Plan(r)'.revert[j] = [entity |-> e, status |-> "Active"]
            /\ pc'[r] \notin {"clearing", "unlinking"}
  PROVE  RepairsAhead'
<1>1. \A s \in Runners \ {r} : pc'[s] \notin {"recovering", "clearing", "unlinking"}
  BY DEF Owns
<1> QED
  BY <1>1 DEF RepairsAhead, Damaged

\* A recovery begins with all of the obligation ahead of it.
LEMMA RecoveryBegins ==
  ASSUME TypeOK', OneOwner', ObligationCoversDamage', NEW r \in Runners,
         pc'[r] = "recovering", step'[r] = 1
  PROVE  RepairsAhead'
<1>1. Owns(r)' /\ file' = fault'[r] /\ file' \in Faults
  BY DEF Owns, OneOwner, TypeOK
<1>2. \A s \in Runners \ {r} : ~ Owns(s)'
  BY <1>1 DEF OneOwner
<1>3. Plans[file'].revert \in Seq(Steps)
  BY <1>1, FaultRunnerAssumption
<1>4. \A j \in DOMAIN Plans[file'].revert : j >= 1
  BY <1>3
<1>5. ASSUME NEW e \in Entities, Damaged(e)'
      PROVE  \E j \in DOMAIN Plan(r)'.revert :
               /\ j >= step'[r]
               /\ Plan(r)'.revert[j] = [entity |-> e, status |-> "Active"]
  BY <1>1, <1>4, <1>5 DEF ObligationCoversDamage, Damaged, Plan
<1> QED
  BY <1>2, <1>5, OwnerRepairs

\* Nothing is disabled once a recovery without a failed step is at its end.
LEMMA RepairedAtEnd ==
  ASSUME TypeOK, RepairsAhead, NEW r \in Runners, Reverted(r), ~ failures[r],
         NEW e \in Entities
  PROVE  ~ Damaged(e)
<1>1. step[r] \in Nat /\ fault[r] \in Faults /\ pc[r] = "recovering"
  BY DEF TypeOK, Reverted
<1>2. Plan(r).revert \in Seq(Steps) /\ step[r] > Len(Plan(r).revert)
  BY <1>1, FaultRunnerAssumption DEF Plan, Reverted, Reverting
<1>3. \A j \in DOMAIN Plan(r).revert : ~ (j >= step[r])
  BY <1>1, <1>2
<1> QED
  BY <1>1, <1>3 DEF RepairsAhead, Damaged

-----------------------------------------------------------------------------
(* The inductive invariant *)

\* No command runs on a catalogue that does not load.
LEMMA CatalogueStep ==
  ASSUME CommandsLoadTheCatalogue, [Next]_vars PROVE CommandsLoadTheCatalogue'
<1> SUFFICES ASSUME NEW r \in Runners, pc'[r] # "off", \A s \in Runners : pc[s] = "off"
             PROVE  CatalogueLoads
  BY DEF CommandsLoadTheCatalogue
<1>1. ASSUME NEW s \in Runners, NEW f \in Faults, StartRun(s, f) PROVE CatalogueLoads
  BY <1>1 DEF StartRun, MayStart
<1>2. ASSUME NEW s \in Runners, StartRevert(s) PROVE CatalogueLoads
  BY <1>2 DEF StartRevert, MayStart
<1>3. ASSUME NEW s \in Runners, Proceed(s) PROVE FALSE
  BY <1>3 DEF Proceed, Precheck, record, InjectStep, Injecting, ObserveInjection, revert,
     RevertStep, Reverting, RecoveryVerified, RecoveryUnverified, Reverted, clear, Unlink
<1>4. ASSUME NEW s \in Runners, Fail(s) PROVE FALSE
  BY <1>4 DEF Fail, PrecheckRaises, RecordFails, InjectStepFails, Injecting, ObservationFails,
     RevertStepFails, Reverting, RecoveryCheckRaises, Reverted, UnlinkFails, Interrupt, Die
<1>5. ASSUME UNCHANGED pc PROVE FALSE
  BY <1>5
<1> QED
  BY <1>1, <1>2, <1>3, <1>4, <1>5
  DEF Next, SymptomAppears, SymptomFades, LateEffect, vars, runnerVars

\* What the rest of the invariant says of the record and of the damage.
Covered == OneOwner /\ ObligationCoversDamage /\ RepairsAhead

\* Nothing disabled, nothing to cover.
LEMMA NothingDamaged ==
  ASSUME \A e \in Entities : ~ Damaged(e)'
  PROVE  ObligationCoversDamage' /\ RepairsAhead'
  BY DEF ObligationCoversDamage, RepairsAhead, Damaged

\* A command that ends, or has not come to the record yet, leaves all as it was.
LEMMA NonOwnerStep ==
  ASSUME Covered, NEW r \in Runners, ~ Owns(r)', UNCHANGED file,
         \A s \in Runners \ {r} :
            /\ pc'[s] = pc[s] /\ fault'[s] = fault[s]
            /\ step'[s] = step[s] /\ failures'[s] = failures[s],
         \A e \in Entities : Damaged(e)' => Damaged(e)
  PROVE  Covered'
<1> USE DEF Covered
<1>1. OneOwner'
  <2>1. \A s \in Runners : Owns(s)' => Owns(s) /\ fault'[s] = fault[s]
    BY DEF Owns
  <2> QED
    BY <2>1, OwnerKept
<1>2. ObligationCoversDamage'
  BY ObligationKept
<1>3. RepairsAhead'
  <2>1. pc'[r] \notin {"recovering", "clearing", "unlinking"}
    BY DEF Owns
  <2>2. \A s \in Runners \ {r} : Plan(s)' = Plan(s)
    BY DEF Plan
  <2> QED
    BY <2>1, <2>2 DEF RepairsAhead, Damaged
<1> QED
  BY <1>1, <1>2, <1>3

\* An owner that moves stays the only one.
LEMMA OwnerMoves ==
  ASSUME OneOwner, NEW r \in Runners, Owns(r), UNCHANGED file,
         \A s \in Runners \ {r} : pc'[s] = pc[s],
         Owns(r)' => fault'[r] = fault[r]
  PROVE  OneOwner' /\ \A s \in Runners \ {r} : ~ Owns(s)'
<1>1. \A s \in Runners \ {r} : ~ Owns(s) /\ ~ Owns(s)'
  BY DEF OneOwner, Owns
<1>2. \A s \in Runners : Owns(s)' => Owns(s) /\ fault'[s] = fault[s]
  BY <1>1
<1> QED
  BY <1>1, <1>2, OwnerKept

\* The commands of a terminal keep record and damage together.
LEMMA CommandStep ==
  ASSUME RevertsAlone, RevertsEndActive, RunnerInvariant, TypeOK', NEW r \in Runners,
         (\E f \in Faults : StartRun(r, f)) \/ StartRevert(r) \/ Proceed(r) \/ Fail(r)
  PROVE  Covered'
<1> USE DEF RunnerInvariant
<1>1. \A s \in Runners \ {r} :
        /\ pc'[s] = pc[s] /\ fault'[s] = fault[s]
        /\ step'[s] = step[s] /\ failures'[s] = failures[s]
  BY OthersStay
<1>2. ASSUME UNCHANGED <<file, worldVars>>, ~ Owns(r)' PROVE Covered'
  <2>1. \A e \in Entities : Damaged(e)' => Damaged(e)
    BY <1>2 DEF Damaged, worldVars
  <2> QED
    BY <1>1, <1>2, <2>1, NonOwnerStep DEF Covered
<1>3. ASSUME NEW report, Finish(r, report) PROVE ~ Owns(r)' /\ pc'[r] = "off"
  BY <1>3 DEF Finish, End, Goto, TypeOK, Owns
<1>4. ASSUME NEW label, Goto(r, label) PROVE pc'[r] = label
  BY <1>4 DEF Goto, TypeOK
<1>5. ASSUME NEW f \in Faults, StartRun(r, f) PROVE Covered'
  <2>1. ~ Owns(r)'
    BY <1>5 DEF StartRun, Begin, Finish, End, Goto, TypeOK, Owns
  <2> QED
    BY <1>2, <1>5, <2>1 DEF StartRun
<1>6. ASSUME Precheck(r) \/ PrecheckRaises(r) PROVE Covered'
  <2>1. ~ Owns(r)'
    BY <1>6 DEF Precheck, PrecheckRaises, Finish, End, Goto, TypeOK, Owns
  <2> QED
    BY <1>2, <1>6, <2>1 DEF Precheck, PrecheckRaises
<1>7. ASSUME file = None PROVE \A e \in Entities : ~ Damaged(e)
  BY <1>7 DEF ObligationCoversDamage, Damaged
<1>8. ASSUME file = None, file' = fault[r], UNCHANGED worldVars,
             Owns(r)' => fault'[r] = fault[r]
      PROVE  Covered'
  <2>1. \A s \in Runners : ~ Owns(s)
    BY <1>8, NoRecordNoOwner
  <2>2. \A s \in Runners \ {r} : ~ Owns(s)'
    BY <1>1, <2>1 DEF Owns
  <2>3. OneOwner'
    BY <1>8, <2>2 DEF OneOwner
  <2>4. \A e \in Entities : ~ Damaged(e)'
    BY <1>7, <1>8 DEF Damaged, worldVars
  <2> QED
    BY <2>3, <2>4, NothingDamaged DEF Covered
<1>9. ASSUME record(r) PROVE Covered'
  <2>1. CASE file = None
    <3>1. file' = fault[r] /\ BeginInjection(r)
      BY <1>9, <2>1 DEF record
    <3> QED
      BY <1>8, <2>1, <3>1 DEF BeginInjection
  <2>2. CASE file # None
    BY <1>2, <1>3, <1>9, <2>2 DEF record
  <2> QED
    BY <2>1, <2>2
<1>10. ASSUME RecordFails(r) PROVE Covered'
  <2>1. ~ Owns(r)' /\ UNCHANGED worldVars
    BY <1>3, <1>10 DEF RecordFails
  <2> QED
    BY <1>2, <1>8, <1>10, <2>1 DEF RecordFails
<1>11. ASSUME Owns(r), UNCHANGED file, Owns(r)' => fault'[r] = fault[r]
       PROVE  OneOwner' /\ \A s \in Runners \ {r} : ~ Owns(s)'
  BY <1>1, <1>11, OwnerMoves
<1>12. ASSUME pc[r] # "off" PROVE CatalogueLoads
  BY <1>12 DEF CommandsLoadTheCatalogue
<1>13. ASSUME Injecting(r) \/ Reverting(r), UNCHANGED file,
              NEW s \in Steps,
              \/ Injecting(r) /\ s = Plan(r).inject[step[r]]
              \/ Reverting(r) /\ s = Plan(r).revert[step[r]],
              Apply(s) \/ ApplyUnfinished(s)
       PROVE  ObligationCoversDamage'
  <2>1. Owns(r) /\ pc[r] # "off"
    BY <1>13 DEF Injecting, Reverting, Owns
  <2>2. \A e \in Entities : Damaged(e)' =>
           Damaged(e) \/ (e = s.entity /\ s.status = "Disabled")
    BY <1>13, ApplyDamage, ApplyUnfinishedDamage
  <2>3. \/ \E i \in DOMAIN Plan(r).inject : Plan(r).inject[i] = s
        \/ \E i \in DOMAIN Plan(r).revert : Plan(r).revert[i] = s
    BY <1>13, PlannedStep
  <2> QED
    BY <1>12, <1>13, <2>1, <2>2, <2>3, StepKeepsObligation
<1>14. ASSUME InjectStep(r) PROVE Covered'
  <2>1. /\ Injecting(r) /\ Apply(Plan(r).inject[step[r]])
        /\ UNCHANGED <<file, pc, fault>>
    BY <1>14 DEF InjectStep, NextStep
  <2>2. ObligationCoversDamage'
    BY <1>13, <2>1, PlannedStep
  <2>3. OneOwner' /\ \A s \in Runners \ {r} : ~ Owns(s)'
    BY <1>11, <2>1 DEF Injecting, Owns
  <2>4. RepairsAhead'
    BY <2>1, <2>3, OwnerRepairs DEF Injecting
  <2> QED
    BY <2>2, <2>3, <2>4 DEF Covered
<1>15. ASSUME NEW b, BeginRecovery(r, b), Owns(r), ObligationCoversDamage' PROVE Covered'
  <2>1. pc'[r] = "recovering" /\ step'[r] = 1 /\ UNCHANGED <<file, fault>>
    BY <1>15 DEF BeginRecovery, Goto, TypeOK
  <2>2. OneOwner'
    BY <1>11, <1>15, <2>1
  <2> QED
    BY <1>15, <2>1, <2>2, RecoveryBegins DEF Covered
<1>16. ASSUME InjectStepFails(r) PROVE Covered'
  <2>1. /\ Injecting(r) /\ ApplyUnfinished(Plan(r).inject[step[r]])
        /\ BeginRecovery(r, "error") /\ UNCHANGED file /\ Owns(r)
    BY <1>16 DEF InjectStepFails, BeginRecovery, Injecting, Owns
  <2>2. ObligationCoversDamage'
    BY <1>13, <2>1, PlannedStep
  <2> QED
    BY <1>15, <2>1, <2>2
<1>17. ASSUME UNCHANGED <<file, worldVars>> PROVE ObligationCoversDamage'
  BY <1>17, ObligationKept DEF Damaged, worldVars
<1>18. ASSUME ObserveInjection(r) \/ ObservationFails(r) PROVE Covered'
  <2>1. PICK b : BeginRecovery(r, b)
    BY <1>18 DEF ObserveInjection, ObservationFails
  <2>2. Owns(r) /\ UNCHANGED <<file, worldVars>>
    BY <1>18 DEF ObserveInjection, ObservationFails, BeginRecovery, Owns
  <2> QED
    BY <1>15, <1>17, <2>1, <2>2
<1>19. ASSUME StartRevert(r) PROVE Covered'
  <2>1. UNCHANGED <<file, worldVars>> /\ \A s \in Runners : pc[s] = "off"
    BY <1>19 DEF StartRevert
  <2>2. CASE Finish(r, "refused")
    BY <1>2, <1>3, <2>1, <2>2
  <2>3. CASE Begin(r, file, "reverting")
    <3>1. pc'[r] = "reverting" /\ fault'[r] = file
      BY <2>3 DEF Begin, Goto, TypeOK
    <3>2. \A s \in Runners \ {r} : ~ Owns(s)'
      BY <1>1, <2>1 DEF Owns
    <3>3. OneOwner'
      BY <2>1, <3>1, <3>2 DEF OneOwner
    <3>4. RepairsAhead'
      BY <3>1, <3>2, OwnerRepairs
    <3> QED
      BY <1>17, <2>1, <3>3, <3>4 DEF Covered
  <2> QED
    BY <1>19, <2>2, <2>3 DEF StartRevert
<1>20. ASSUME revert(r) PROVE Covered'
  <2>1. CASE BeginRecovery(r, None)
    <3>1. Owns(r) /\ UNCHANGED <<file, worldVars>>
      BY <1>20, <2>1 DEF revert, BeginRecovery, Owns
    <3> QED
      BY <1>15, <1>17, <2>1, <3>1
  <2>2. CASE Finish(r, "refused") /\ UNCHANGED file
    BY <1>2, <1>3, <1>20, <2>2 DEF revert
  <2> QED
    BY <1>20, <2>1, <2>2 DEF revert
<1>21. ASSUME RevertStep(r) PROVE Covered'
  <2> DEFINE s == Plan(r).revert[step[r]]
  <2>1. /\ Reverting(r) /\ Apply(s) /\ s \in Steps /\ step[r] \in DOMAIN Plan(r).revert
        /\ UNCHANGED <<file, pc, fault, failures>>
    BY <1>21, PlannedStep DEF RevertStep, NextStep
  <2>2. step[r] \in Nat /\ step'[r] = step[r] + 1
    BY <1>21 DEF RevertStep, NextStep, TypeOK
  <2>3. ObligationCoversDamage'
    BY <1>13, <2>1
  <2>4. OneOwner' /\ \A t \in Runners \ {r} : ~ Owns(t)'
    BY <1>11, <2>1 DEF Reverting, Owns
  <2>5. pc[r] = "recovering" /\ fault[r] \in Faults /\ Plan(r)' = Plan(r)
    BY <2>1, PlannedStep DEF Reverting, Plan
  <2>6. DOMAIN Plan(r).revert \subseteq Nat
    BY <2>5, FaultRunnerAssumption DEF Plan
  <2>7. ASSUME NEW e \in Entities, Damaged(e)', ~ failures[r]
        PROVE  \E j \in DOMAIN Plan(r).revert :
                  /\ j >= step[r] + 1
                  /\ Plan(r).revert[j] = [entity |-> e, status |-> "Active"]
    <3>1. CASE e # s.entity /\ Damaged(e)
      <4>1. PICK j \in DOMAIN Plan(r).revert :
              /\ j >= step[r]
              /\ Plan(r).revert[j] = [entity |-> e, status |-> "Active"]
        BY <2>5, <2>7, <3>1 DEF RepairsAhead, Damaged
      <4>2. j # step[r]
        BY <3>1, <4>1
      <4> QED
        BY <2>2, <2>6, <4>1, <4>2
    <3>2. CASE e = s.entity /\ s.status = "Disabled"
      <4>1. PICK j \in DOMAIN Plan(r).revert :
              /\ j > step[r]
              /\ Plan(r).revert[j] = [entity |-> e, status |-> "Active"]
        BY <2>1, <2>5, <3>2 DEF RevertsEndActive, Plan
      <4> QED
        BY <2>2, <2>6, <4>1
    <3> QED
      BY <2>1, <2>7, <3>1, <3>2, ApplyDamage
  <2>8. RepairsAhead'
    BY <2>1, <2>2, <2>4, <2>5, <2>7, OwnerRepairs
  <2> QED
    BY <2>3, <2>4, <2>8 DEF Covered
<1>22. ASSUME RevertStepFails(r) PROVE Covered'
  <2>1. /\ Reverting(r) /\ ApplyUnfinished(Plan(r).revert[step[r]])
        /\ UNCHANGED <<file, pc, fault>> /\ failures'[r]
    BY <1>22 DEF RevertStepFails, NextStep, TypeOK
  <2>2. ObligationCoversDamage'
    BY <1>13, <2>1, PlannedStep
  <2>3. OneOwner' /\ \A s \in Runners \ {r} : ~ Owns(s)'
    BY <1>11, <2>1 DEF Reverting, Owns
  <2>4. RepairsAhead'
    BY <2>1, <2>3, OwnerRepairs DEF Reverting
  <2> QED
    BY <2>2, <2>3, <2>4 DEF Covered
<1>23. ASSUME UNCHANGED <<file, fault, worldVars>>, Owns(r),
              \A e \in Entities : ~ Damaged(e)
       PROVE  Covered'
  <2>1. \A e \in Entities : ~ Damaged(e)'
    BY <1>23 DEF Damaged, worldVars
  <2> QED
    BY <1>11, <1>23, <2>1, NothingDamaged DEF Covered
<1>24. ASSUME RecoveryVerified(r) PROVE Covered'
  <2>1. UNCHANGED <<file, fault, worldVars>> /\ Owns(r)
    BY <1>24 DEF RecoveryVerified, Reverted, Owns
  <2>2. \A e \in Entities : ~ Damaged(e)
    BY <1>24, RepairedAtEnd DEF RecoveryVerified
  <2> QED
    BY <1>23, <2>1, <2>2
<1>25. ASSUME RecoveryUnverified(r) \/ RecoveryCheckRaises(r) PROVE Covered'
  BY <1>2, <1>3, <1>25 DEF RecoveryUnverified, RecoveryCheckRaises
<1>26. ASSUME pc[r] \in {"clearing", "unlinking"} PROVE \A e \in Entities : ~ Damaged(e)
  BY <1>26 DEF RepairsAhead, Damaged
<1>27. ASSUME clear(r) PROVE Covered'
  <2>1. CASE Finish(r, "failed")
    BY <1>2, <1>3, <1>27, <2>1 DEF clear
  <2>2. CASE UNCHANGED fault
    BY <1>23, <1>26, <1>27, <2>2 DEF clear, Owns
  <2> QED
    BY <1>27, <2>1, <2>2 DEF clear
<1>28. ASSUME Unlink(r) \/ UnlinkFails(r) PROVE Covered'
  <2>1. ~ Owns(r)' /\ UNCHANGED worldVars /\ pc[r] = "unlinking" /\ Owns(r)
    BY <1>28 DEF Unlink, UnlinkFails, Finish, End, Goto, TypeOK, Owns
  <2>2. CASE UNCHANGED file
    BY <1>2, <2>1, <2>2
  <2>3. CASE file' = None
    <3>1. \A s \in Runners : ~ Owns(s)'
      BY <1>1, <2>1 DEF OneOwner, Owns
    <3>2. \A e \in Entities : ~ Damaged(e)'
      BY <1>26, <2>1 DEF Damaged, worldVars
    <3> QED
      BY <3>1, <3>2, NothingDamaged DEF Covered, OneOwner
  <2> QED
    BY <1>28, <2>2, <2>3 DEF Unlink, UnlinkFails
<1>29. ASSUME Die(r) PROVE Covered'
  <2>1. UNCHANGED file /\ pc'[r] = "off" /\ ~ Owns(r)'
    BY <1>29 DEF Die, End, Goto, TypeOK, Owns
  <2>2. CASE UNCHANGED worldVars
    BY <1>2, <2>1, <2>2
  <2>3. CASE \/ Injecting(r) /\ ApplyUnfinished(Plan(r).inject[step[r]])
             \/ Reverting(r) /\ ApplyUnfinished(Plan(r).revert[step[r]])
    <3>1. ObligationCoversDamage'
      BY <1>13, <2>1, <2>3, PlannedStep
    <3>2. OneOwner' /\ \A s \in Runners \ {r} : ~ Owns(s)'
      BY <1>11, <2>1, <2>3 DEF Injecting, Reverting, Owns
    <3>3. RepairsAhead'
      BY <2>1, <3>2, OwnerRepairs
    <3> QED
      BY <3>1, <3>2, <3>3 DEF Covered
  <2> QED
    BY <1>29, <2>2, <2>3 DEF Die
<1>30. ASSUME Interrupt(r) PROVE Covered'
  <2>1. CASE Injecting(r) /\ ApplyUnfinished(Plan(r).inject[step[r]])
             /\ BeginRecovery(r, "interrupt")
    <3>1. UNCHANGED file /\ Owns(r)
      BY <2>1 DEF BeginRecovery, Injecting, Owns
    <3>2. ObligationCoversDamage'
      BY <1>13, <2>1, <3>1, PlannedStep
    <3> QED
      BY <1>15, <2>1, <3>1, <3>2
  <2>2. CASE pc[r] = "injecting" /\ UNCHANGED worldVars /\ BeginRecovery(r, "interrupt")
    <3>1. UNCHANGED file /\ Owns(r)
      BY <2>2 DEF BeginRecovery, Owns
    <3> QED
      BY <1>15, <1>17, <2>2, <3>1
  <2>3. CASE pc[r] \in {"clearing", "unlinking"} /\ UNCHANGED <<file, worldVars, pc, fault>>
    BY <1>23, <1>26, <2>3 DEF Owns
  <2> QED
    BY <1>30, <2>1, <2>2, <2>3 DEF Interrupt
<1> QED
  BY <1>5, <1>6, <1>9, <1>10, <1>14, <1>16, <1>18, <1>19, <1>20, <1>21, <1>22, <1>24, <1>25,
     <1>27, <1>28, <1>29, <1>30 DEF Proceed, Fail

\* Every step preserves the inductive invariant.
LEMMA InvariantStep ==
  ASSUME RevertsAlone, RevertsEndActive, RunnerInvariant, [Next]_vars
  PROVE  RunnerInvariant'
<1>1. TypeOK' /\ StepsStarted'
  BY TypeOKStep DEF RunnerInvariant
<1>2. CommandsLoadTheCatalogue'
  BY CatalogueStep DEF RunnerInvariant
<1>3. ASSUME UNCHANGED <<file, runnerVars>>, \A e \in Entities : Damaged(e)' => Damaged(e)
      PROVE  Covered'
  <2>1. OneOwner'
    BY <1>3, OwnerKept DEF RunnerInvariant, Owns, runnerVars
  <2>2. ObligationCoversDamage'
    BY <1>3, ObligationKept DEF RunnerInvariant
  <2>3. RepairsAhead'
    BY <1>3 DEF RunnerInvariant, RepairsAhead, Damaged, Plan, runnerVars
  <2> QED
    BY <2>1, <2>2, <2>3 DEF Covered
<1>4. ASSUME NEW f \in Faults, SymptomAppears(f) \/ SymptomFades(f) PROVE Covered'
  BY <1>3, <1>4 DEF SymptomAppears, SymptomFades, Damaged
<1>5. ASSUME LateEffect PROVE Covered'
  <2>1. late \in Steps
    BY <1>5 DEF LateEffect, RunnerInvariant, TypeOK
  <2>2. late.entity \in Entities
    BY <2>1 DEF Steps
  <2>3. \A e \in Entities : Damaged(e)' => Damaged(e)
    BY <1>5, <2>2 DEF LateEffect, Damaged, RunnerInvariant, TypeOK
  <2>4. UNCHANGED <<file, runnerVars>>
    BY <1>5 DEF LateEffect
  <2> QED
    BY <1>3, <2>3, <2>4
<1>6. ASSUME UNCHANGED vars PROVE Covered'
  <2>1. UNCHANGED <<file, runnerVars>> /\ UNCHANGED <<status, struck>>
    BY <1>6 DEF vars, worldVars
  <2>2. \A e \in Entities : Damaged(e)' => Damaged(e)
    BY <2>1 DEF Damaged
  <2> QED
    BY <1>3, <2>1, <2>2
<1>7. ASSUME NEW r \in Runners,
             (\E f \in Faults : StartRun(r, f)) \/ StartRevert(r) \/ Proceed(r) \/ Fail(r)
      PROVE  Covered'
  <2>1. TypeOK'
    BY <1>1
  <2> QED
    BY <1>7, <2>1, CommandStep
<1>8. Covered'
  BY <1>4, <1>5, <1>6, <1>7 DEF Next
<1> QED
  BY <1>1, <1>2, <1>8 DEF RunnerInvariant, Covered

\* Reverts that take their turn are enough for the record to have one owner.
LEMMA OwnerStep ==
  ASSUME RevertsAlone, TypeOK, OneOwner, [Next]_vars PROVE OneOwner'
<1>1. ASSUME UNCHANGED <<file, pc, fault>> PROVE OneOwner'
  BY <1>1, OwnerKept DEF Owns
<1>2. ASSUME NEW r \in Runners,
             (\E f \in Faults : StartRun(r, f)) \/ StartRevert(r) \/ Proceed(r) \/ Fail(r)
      PROVE  OneOwner'
  <2>1. \A s \in Runners \ {r} : pc'[s] = pc[s] /\ fault'[s] = fault[s]
    BY <1>2, OthersStay
  <2>17. ASSUME NEW report, End(r, report) PROVE ~ Owns(r)'
    BY <2>17 DEF End, Goto, TypeOK, Owns
  <2>2. ASSUME NEW report, Finish(r, report) PROVE ~ Owns(r)'
    BY <2>2, <2>17 DEF Finish
  <2>3. ASSUME UNCHANGED file, Owns(r)' => Owns(r) /\ fault'[r] = fault[r] PROVE OneOwner'
    <3>1. \A s \in Runners : Owns(s)' => Owns(s) /\ fault'[s] = fault[s]
      BY <2>1, <2>3 DEF Owns
    <3> QED
      BY <2>3, <3>1, OwnerKept
  <2>4. ASSUME file = None, file' = fault[r], Owns(r)' => fault'[r] = fault[r] PROVE OneOwner'
    <3>1. \A s \in Runners \ {r} : ~ Owns(s)'
      BY <2>1, <2>4, NoRecordNoOwner DEF Owns
    <3> QED
      BY <2>4, <3>1 DEF OneOwner
  <2>5. CASE (\E f \in Faults : StartRun(r, f)) \/ Precheck(r) \/ PrecheckRaises(r)
    <3>1. ~ Owns(r)' /\ UNCHANGED file
      BY <2>5 DEF StartRun, Precheck, PrecheckRaises, Begin, Finish, End, Goto, TypeOK, Owns
    <3> QED
      BY <2>3, <3>1
  <2>6. CASE record(r)
    <3>1. CASE file = None
      BY <2>4, <2>6, <3>1 DEF record, BeginInjection
    <3>2. CASE file # None
      BY <2>2, <2>3, <2>6, <3>2 DEF record
    <3> QED
      BY <3>1, <3>2
  <2>7. CASE RecordFails(r)
    BY <2>2, <2>3, <2>4, <2>7 DEF RecordFails
  <2>8. ASSUME Owns(r), UNCHANGED <<file, fault>> PROVE OneOwner'
    BY <2>3, <2>8
  <2>9. CASE InjectStep(r) \/ RevertStep(r) \/ RevertStepFails(r)
    BY <2>8, <2>9 DEF InjectStep, RevertStep, RevertStepFails, NextStep, Injecting, Reverting, Owns
  <2>10. CASE InjectStepFails(r) \/ ObserveInjection(r) \/ ObservationFails(r) \/ Interrupt(r)
    BY <2>8, <2>10
    DEF InjectStepFails, ObserveInjection, ObservationFails, Interrupt, BeginRecovery,
        Injecting, Owns
  <2>11. CASE StartRevert(r)
    <3>1. UNCHANGED file /\ \A s \in Runners : pc[s] = "off"
      BY <2>11 DEF StartRevert
    <3>2. CASE Finish(r, "refused")
      BY <2>2, <2>3, <3>1, <3>2
    <3>3. CASE Begin(r, file, "reverting")
      <4>1. fault'[r] = file
        BY <3>3 DEF Begin, TypeOK
      <4>2. \A s \in Runners \ {r} : ~ Owns(s)'
        BY <2>1, <3>1 DEF Owns
      <4> QED
        BY <3>1, <4>1, <4>2 DEF OneOwner
    <3> QED
      BY <2>11, <3>2, <3>3 DEF StartRevert
  <2>12. CASE revert(r)
    <3>1. CASE BeginRecovery(r, None)
      BY <2>8, <2>12, <3>1 DEF revert, BeginRecovery, Owns
    <3>2. CASE Finish(r, "refused") /\ UNCHANGED file
      BY <2>2, <2>3, <3>2
    <3> QED
      BY <2>12, <3>1, <3>2 DEF revert
  <2>13. CASE RecoveryVerified(r)
    BY <2>8, <2>13 DEF RecoveryVerified, Reverted, Owns
  <2>14. CASE RecoveryUnverified(r) \/ RecoveryCheckRaises(r) \/ Die(r)
    BY <2>2, <2>3, <2>14, <2>17 DEF RecoveryUnverified, RecoveryCheckRaises, Die
  <2>15. CASE clear(r)
    <3>1. CASE Finish(r, "failed")
      BY <2>2, <2>3, <2>15, <3>1 DEF clear
    <3>2. CASE UNCHANGED fault
      BY <2>8, <2>15, <3>2 DEF clear, Owns
    <3> QED
      BY <2>15, <3>1, <3>2 DEF clear
  <2>16. CASE Unlink(r) \/ UnlinkFails(r)
    <3>1. Owns(r) /\ ~ Owns(r)'
      BY <2>2, <2>16 DEF Unlink, UnlinkFails, Owns
    <3>2. \A s \in Runners : ~ Owns(s)'
      BY <2>1, <3>1 DEF OneOwner, Owns
    <3> QED
      BY <3>2 DEF OneOwner
  <2> QED
    BY <1>2, <2>5, <2>6, <2>7, <2>9, <2>10, <2>11, <2>12, <2>13, <2>14, <2>15, <2>16
    DEF Proceed, Fail
<1> QED
  BY <1>1, <1>2
  DEF Next, vars, runnerVars, SymptomAppears, SymptomFades, LateEffect

\* While no revert begins beside another command, the record on disk is that of the one
\* command that acts on it.
THEOREM RecordHasOneOwner == ASSUME RevertsAlone PROVE Spec => []OneOwner
<1>1. Init => OneOwner
  BY DEF Init, OneOwner, Owns
<1>2. TypeOK /\ OneOwner /\ [Next]_vars => OneOwner'
  BY OwnerStep
<1> QED
  BY <1>1, <1>2, Typing, PTL DEF Spec

\* "A recovery obligation left before fault injection begins" (FaultState): a run
\* injects only while its own record is there.
THEOREM InjectionIsRecorded == ASSUME RevertsAlone PROVE Spec => []InjectsUnderItsRecord
<1>1. OneOwner => InjectsUnderItsRecord
  BY DEF OneOwner, Owns, InjectsUnderItsRecord
<1> QED
  BY <1>1, RecordHasOneOwner, PTL

-----------------------------------------------------------------------------
(* What the record is worth *)

\* Reverts that take their turn and end by enabling keep record and damage together.
THEOREM InvariantHolds ==
  ASSUME RevertsAlone, RevertsEndActive PROVE Spec => []RunnerInvariant
<1>1. Init => RunnerInvariant
  <2>1. Init => TypeOK
    BY FaultRunnerAssumption DEF Init, TypeOK
  <2>2. Init => StepsStarted /\ CommandsLoadTheCatalogue /\ OneOwner
    BY DEF Init, StepsStarted, CommandsLoadTheCatalogue, OneOwner, Owns
  <2>3. Init => ObligationCoversDamage /\ RepairsAhead
    BY DEF Init, ObligationCoversDamage, RepairsAhead
  <2> QED
    BY <2>1, <2>2, <2>3 DEF RunnerInvariant
<1>2. RunnerInvariant /\ [Next]_vars => RunnerInvariant'
  BY InvariantStep
<1> QED
  BY <1>1, <1>2, PTL DEF Spec

\* Whatever dies or fails, an entity is disabled only while the state file names a
\* fault whose revert enables it again, the late effect of an interrupted step aside.
THEOREM DamageIsRecorded ==
  ASSUME RevertsAlone, RevertsEndActive PROVE Spec => []ObligationCoversDamage
<1>1. RunnerInvariant => ObligationCoversDamage
  BY DEF RunnerInvariant
<1> QED
  BY <1>1, InvariantHolds, PTL

\* "A fault that disables something must re-enable it" (catalogue.py): the promise that
\* load_catalogue does not keep for every catalogue it accepts holds for those whose
\* reverts end by enabling.
THEOREM ClearedMeansRestored ==
  ASSUME RevertsAlone, RevertsEndActive PROVE Spec => []NoObligationMeansRestored
<1>1. ObligationCoversDamage => NoObligationMeansRestored
  BY DEF ObligationCoversDamage, NoObligationMeansRestored
<1> QED
  BY <1>1, DamageIsRecorded, PTL

\* What a command says of the record and of the entities as it ends.
Truthful ==
    \A r \in Runners : pc[r] # "off" /\ pc'[r] = "off" =>
         /\ outcome'[r] = "recovered" => Restored(fault[r])
         /\ outcome'[r] = "retained" => file' = fault[r]
         /\ outcome'[r] = "interrupted" => Restored(fault[r]) \/ file' = fault[r]

LEMMA ReportStep ==
  ASSUME RunnerInvariant, [Next]_vars PROVE Truthful
<1> SUFFICES ASSUME NEW r \in Runners, pc[r] # "off", pc'[r] = "off",
                    outcome'[r] \in {"recovered", "retained", "interrupted"}
             PROVE  /\ outcome'[r] = "recovered" => Restored(fault[r])
                    /\ outcome'[r] = "retained" => file' = fault[r]
                    /\ outcome'[r] = "interrupted" => Restored(fault[r]) \/ file' = fault[r]
  BY DEF Truthful
<1> USE DEF RunnerInvariant
<1>1. ASSUME NEW report, Finish(r, report)
      PROVE  IF raised[r] = "interrupt" THEN outcome'[r] = "interrupted" ELSE outcome'[r] = report
  BY <1>1 DEF Finish, End, TypeOK
<1>2. ASSUME NEW label, Goto(r, label) PROVE label = "off"
  BY <1>2 DEF Goto, TypeOK
<1>3. CASE Unlink(r) \/ UnlinkFails(r)
  <2>1. /\ file' \in {file, None} /\ pc[r] = "unlinking" /\ Owns(r)
        /\ outcome'[r] # "retained" /\ (outcome'[r] = "recovered" => file' = None)
    BY <1>1, <1>3 DEF Unlink, UnlinkFails, Owns
  <2>2. \A e \in Entities \ struck : status[e] = "Active"
    BY <2>1 DEF RepairsAhead
  <2>3. file = fault[r]
    BY <2>1 DEF OneOwner
  <2> QED
    BY <2>1, <2>2, <2>3 DEF Restored
<1>4. CASE RecoveryUnverified(r) \/ RecoveryCheckRaises(r) \/ clear(r)
  <2>1. UNCHANGED file /\ Owns(r) /\ outcome'[r] # "recovered"
    BY <1>1, <1>2, <1>4 DEF RecoveryUnverified, RecoveryCheckRaises, clear, Reverted, Owns
  <2> QED
    BY <2>1 DEF OneOwner
<1>5. CASE Precheck(r) \/ PrecheckRaises(r) \/ record(r) \/ RecordFails(r) \/ revert(r)
  <2>1. pc[r] \in {"precheck", "recording", "reverting"}
    BY <1>5 DEF Precheck, PrecheckRaises, record, RecordFails, revert
  <2>2. raised[r] = None
    BY <2>1 DEF TypeOK
  <2> QED
    BY <1>1, <1>2, <1>5, <2>2, FaultRunnerAssumption
    DEF Precheck, PrecheckRaises, record, RecordFails, BeginInjection, revert, BeginRecovery
<1>6. CASE \/ InjectStep(r) \/ InjectStepFails(r) \/ ObserveInjection(r) \/ ObservationFails(r)
           \/ RevertStep(r) \/ RevertStepFails(r) \/ RecoveryVerified(r) \/ Interrupt(r)
  BY <1>2, <1>6 DEF InjectStep, InjectStepFails, ObserveInjection, ObservationFails, RevertStep,
     RevertStepFails, RecoveryVerified, Interrupt, NextStep, BeginRecovery
<1>10. CASE Die(r)
  BY <1>10 DEF Die, End, TypeOK
<1>7. ASSUME NEW s \in Runners, s # r,
             (\E f \in Faults : StartRun(s, f)) \/ StartRevert(s) \/ Proceed(s) \/ Fail(s)
      PROVE  FALSE
  BY <1>7, OthersStay
<1>8. CASE (\E f \in Faults : StartRun(r, f)) \/ StartRevert(r)
  BY <1>8 DEF StartRun, StartRevert, MayStart
<1>9. ASSUME UNCHANGED pc PROVE FALSE
  BY <1>9
<1> QED
  BY <1>3, <1>4, <1>5, <1>6, <1>7, <1>8, <1>9, <1>10
  DEF Next, Proceed, Fail, vars, runnerVars, SymptomAppears, SymptomFades, LateEffect

\* What a command tells the operator is so (_report, _report_failure): "recovered" with
\* no record and every entity active, "retained" with the record of its fault, and one
\* of the two behind the silence of an interrupted one.
THEOREM ReportsHold ==
  ASSUME RevertsAlone, RevertsEndActive PROVE Spec => ReportsAreTrue
<1>1. RunnerInvariant /\ [Next]_vars => [Truthful]_vars
  BY ReportStep
<1> QED
  BY <1>1, InvariantHolds, PTL DEF Spec, ReportsAreTrue, Truthful
=============================================================================
