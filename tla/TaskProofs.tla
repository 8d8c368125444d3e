----------------------------- MODULE TaskProofs -----------------------------
(***************************************************************************)
(* A task and the budget it runs on.  The saga of a task, for any plan,    *)
(* budget and outcomes (TaskSaga); the ledger that admits and books it,    *)
(* for any tenants, tasks, estimates, costs and caps (TenantBudget).       *)
(* They are two specifications, and each theorem is about one of them.     *)
(***************************************************************************)
EXTENDS TaskSaga, TenantBudget, FiniteSums

-----------------------------------------------------------------------------
(* TaskWorkflow.                                                           *)

Early == {"start", "planning", "announcing", "pricing", "rejecting"}
Late  == {"unwinding", "completing", "done", "threw"}

-----------------------------------------------------------------------------
(* The inductive invariant, in parts.                                      *)

\* Before the loop nothing has been dispatched.
EarlyInv ==
  pc \in Early =>
    /\ wave = {} /\ skipped = {}
    /\ \A s \in Steps : waveOf[s] = 0 /\ results[s] = "none"

\* A child runs only inside the awaited wave; a result comes from a child
\* that has returned.
ChildInv ==
  /\ pc \notin {"wave", "exhausted", "threw"} => wave = {}
  /\ \A s \in Steps :
       /\ waveOf[s] <= waveNo
       /\ child[s] = "idle" <=> waveOf[s] = 0
       /\ child[s] \in {"preflight", "executing"} => s \in wave /\ pc = "wave"
       /\ child[s] = "returned" => out[s] # "none"
       /\ waveOf[s] # 0 => s \in wave \/ results[s] # "none"
       /\ results[s] # "none" => child[s] = "returned" /\ s \notin wave
       /\ s \in wave /\ pc = "exhausted" => child[s] = "idle"
       /\ s \in wave /\ pc = "wave" => waveOf[s] = waveNo

\* A dispatched step depends only on steps of earlier waves that completed.
DepsInv ==
  \A s \in Steps : waveOf[s] # 0 \/ s \in wave =>
    \A d \in plan.deps[s] :
      results[d] = "completed" /\ (waveOf[s] # 0 => waveOf[d] < waveOf[s])

\* The recorded writes are exactly the entries still on the stack, the
\* compensated and the failed ones, and these are disjoint; nothing is
\* compensated before the unwind.
StackInv ==
  /\ RecordedWrites = stack \cup compensated \cup failedComps
  /\ stack \cap (compensated \cup failedComps) = {}
  /\ compensated \cap failedComps = {}
  /\ pc \notin Late => compensated = {} /\ failedComps = {}

\* A result is returned with the stack empty, or with every write kept by a
\* task whose steps all completed and that was not cancelled in time.
EndInv ==
  pc \in {"completing", "done"} =>
    stack = {} \/ (AllCompleted /\ status # "cancelled")

SagaInv == TypeOK /\ EarlyInv /\ ChildInv /\ DepsInv /\ StackInv /\ UnwindOrder /\ EndInv

-----------------------------------------------------------------------------
(* Type correctness.                                                       *)

\* A set of steps is finite, so its cardinality is a natural number.
LEMMA StepSetsFinite ==
  ASSUME NEW S \in SUBSET Steps PROVE IsFiniteSet(S) /\ Cardinality(S) \in Nat
<1>1. IsFiniteSet(Steps)
  BY FS_Interval, ConstantsAssumption DEF Steps
<1>2. IsFiniteSet(S)
  BY <1>1, FS_Subset
<1>3. QED
  BY <1>2, FS_CardinalityType

\* The initial state is well typed.
LEMMA InitTypeOK == Init => TypeOK
<1> SUFFICES ASSUME Init PROVE TypeOK
  OBVIOUS
<1>1. cancelled \in BOOLEAN /\ book \in BOOLEAN /\ budgetStop \in BOOLEAN
  BY Zenon DEF Init
<1>2. waveOf \in [Steps -> Nat] /\ waveNo \in Nat
  BY DEF Init
<1>3. QED
  BY <1>1, <1>2 DEF Init, TypeOK

\* Every action keeps the types.
LEMMA NextTypeOK ==
  ASSUME TypeOK, [Next]_vars PROVE TypeOK'
<1> USE ConstantsAssumption DEF TypeOK, vars, sagaVars, childVars, waveVars,
       planVars
<1>1. CASE SnapshotPrincipal
  BY <1>1 DEF SnapshotPrincipal
<1>2. CASE PlanTask
  BY <1>2 DEF PlanTask
<1>3. CASE EmitPlanned
  <2>1. CASE log' = log \cup {"task.planned"} /\ pc' = "pricing"
    BY <1>3, <2>1 DEF EmitPlanned
  <2>2. CASE UNCHANGED log /\ pc' = "threw"
    BY <1>3, <2>2 DEF EmitPlanned
  <2>3. QED
    BY <1>3, <2>1, <2>2 DEF EmitPlanned, Emit
<1>4. CASE GetPriceBook
  <2>1. CASE book' = TRUE /\ pc' = "loop"
    BY <1>4, <2>1 DEF GetPriceBook
  <2>2. CASE UNCHANGED book /\ pc' \in {"loop", "rejecting"}
    BY <1>4, <2>2 DEF GetPriceBook
  <2>3. QED
    BY <1>4, <2>1, <2>2 DEF GetPriceBook
<1>5. CASE FailClosedAfterPlanned
  BY <1>5 DEF FailClosedAfterPlanned, Emit
<1>6. CASE StopAtLoopHead
  BY <1>6 DEF StopAtLoopHead
<1>7. CASE NothingReady
  BY <1>7 DEF NothingReady
<1>8. CASE DispatchWave
  BY <1>8, Ready \in SUBSET Steps, StepSetsFinite DEF DispatchWave, Launch,
     Ready, Unresolved
<1>9. CASE ExhaustBudget
  BY <1>9 DEF ExhaustBudget, Admitted, Ready, Unresolved
<1>10. CASE DispatchAdmitted
  BY <1>10, wave \in SUBSET Steps, StepSetsFinite DEF DispatchAdmitted, Launch
<1>11. CASE NothingAdmitted
  BY <1>11 DEF NothingAdmitted
<1>12. CASE JoinWave
  BY <1>12 DEF JoinWave
<1>13. CASE BeginUnwind
  BY <1>13 DEF BeginUnwind, Emit, Trigger
<1>14. CASE SkipUnwind
  BY <1>14 DEF SkipUnwind, Trigger, FinalStatus, Synthesized
<1>15. CASE FinishUnwind
  BY <1>15 DEF FinishUnwind, Emit, FinalStatus, Synthesized
<1>16. CASE CompleteTask
  <2>1. CASE log' = log \cup {"task.completed"} /\ pc' = "done"
    BY <1>16, <2>1 DEF CompleteTask
  <2>2. CASE UNCHANGED log /\ pc' = "threw"
    BY <1>16, <2>2 DEF CompleteTask
  <2>3. QED
    BY <1>16, <2>1, <2>2 DEF CompleteTask, Emit
<1>17. CASE RequestCancel
  BY <1>17 DEF RequestCancel
<1>18. CASE Closed
  BY <1>18 DEF Closed
<1>19. ASSUME NEW s \in Steps, SkipDependent(s) PROVE TypeOK'
  BY <1>19 DEF SkipDependent
<1>20. ASSUME NEW s \in Steps, SkipForBudget(s) PROVE TypeOK'
  BY <1>20 DEF SkipForBudget
<1>21. ASSUME NEW s \in Steps, PreflightFails(s) PROVE TypeOK'
  BY <1>21 DEF PreflightFails
<1>22. ASSUME NEW s \in Steps, BeginExecute(s) PROVE TypeOK'
  BY <1>22 DEF BeginExecute
<1>23. ASSUME NEW s \in Steps, EndExecute(s) PROVE TypeOK'
  BY <1>23 DEF EndExecute
<1>24. ASSUME NEW s \in Steps, DeliverCancel(s) PROVE TypeOK'
  BY <1>24 DEF DeliverCancel
<1>25. ASSUME NEW s \in Steps, SkipCancelled(s) PROVE TypeOK'
  BY <1>25 DEF SkipCancelled
<1>26. ASSUME NEW s \in Steps, RunCompensator(s) PROVE TypeOK'
  <2>1. tokens' \in Nat
    BY <1>26 DEF RunCompensator
  <2>2. pc' \in {"unwinding", "threw"} /\ log' \subseteq log \cup {"compensation.step_failed"}
    BY <1>26 DEF RunCompensator, Emit
  <2>3. /\ stack' \subseteq Steps /\ compensated' \subseteq Steps /\ failedComps' \subseteq Steps
        /\ UNCHANGED <<cancelled, planVars, waveVars, childVars, results, skipped,
                       budgetStop, trigger, status>>
    BY <1>26 DEF RunCompensator
  <2>4. QED
    BY <2>1, <2>2, <2>3 DEF childVars, waveVars, planVars
<1>27. CASE UNCHANGED vars
  BY <1>27
<1>28. QED
  BY <1>1, <1>2, <1>3, <1>4, <1>5, <1>6, <1>7, <1>8, <1>9, <1>10, <1>11, <1>12,
     <1>13, <1>14, <1>15, <1>16, <1>17, <1>18, <1>19, <1>20, <1>21, <1>22,
     <1>23, <1>24, <1>25, <1>26, <1>27 DEF Next, System, Preamble, Loop, Child,
     Ending

\* Dependencies are steps of the plan.
LEMMA DepsAreSteps == ASSUME TypeOK PROVE \A s \in Steps : plan.deps[s] \subseteq Steps
  BY ConstantsAssumption DEF TypeOK, NoPlan

\* The state of the task stays well typed, for every plan and budget.
THEOREM TypeCorrect == Spec => []TypeOK
<1>1. TypeOK /\ [Next]_vars => TypeOK'
  BY NextTypeOK
<1>2. QED
  BY InitTypeOK, <1>1, PTL DEF Spec

-----------------------------------------------------------------------------
(* The parts of the inductive invariant, one lemma each.                   *)

\* The invariant holds initially.
LEMMA InitSagaInv == Init => SagaInv
<1> SUFFICES ASSUME Init PROVE SagaInv
  OBVIOUS
<1>1. RecordedWrites = {}
  BY DEF Init, RecordedWrites
<1>2. QED
  BY InitTypeOK, <1>1 DEF Init, SagaInv, EarlyInv, ChildInv, DepsInv, StackInv,
     UnwindOrder, EndInv, Early, Late

\* Nothing is dispatched before the loop.
LEMMA NextEarlyInv ==
  ASSUME SagaInv, TypeOK', [Next]_vars PROVE EarlyInv'
<1> USE DEF SagaInv, TypeOK, EarlyInv, Early, vars, sagaVars, childVars, waveVars,
       planVars
<1>1. CASE SnapshotPrincipal
  BY <1>1 DEF SnapshotPrincipal
<1>2. CASE PlanTask
  BY <1>2 DEF PlanTask
<1>3. CASE EmitPlanned
  BY <1>3 DEF EmitPlanned, Emit
<1>4. CASE GetPriceBook
  BY <1>4 DEF GetPriceBook
<1>5. CASE FailClosedAfterPlanned
  BY <1>5 DEF FailClosedAfterPlanned, Emit
<1>6. CASE StopAtLoopHead
  BY <1>6 DEF StopAtLoopHead
<1>7. CASE NothingReady
  BY <1>7 DEF NothingReady, InLoop
<1>8. CASE DispatchWave
  BY <1>8 DEF DispatchWave, Launch, Ready, Unresolved, InLoop
<1>9. CASE ExhaustBudget
  BY <1>9 DEF ExhaustBudget, Admitted, Ready, Unresolved, InLoop
<1>10. CASE DispatchAdmitted
  BY <1>10 DEF DispatchAdmitted, Launch, Unresolved
<1>11. CASE NothingAdmitted
  BY <1>11 DEF NothingAdmitted
<1>12. CASE JoinWave
  BY <1>12 DEF JoinWave
<1>13. CASE BeginUnwind
  BY <1>13 DEF BeginUnwind, Emit, LoopOver
<1>14. CASE SkipUnwind
  BY <1>14 DEF SkipUnwind, LoopOver
<1>15. CASE FinishUnwind
  BY <1>15 DEF FinishUnwind, Emit
<1>16. CASE CompleteTask
  BY <1>16 DEF CompleteTask, Emit
<1>17. CASE RequestCancel
  BY <1>17 DEF RequestCancel
<1>18. CASE Closed
  BY <1>18 DEF Closed
<1>19. ASSUME NEW s \in Steps, SkipDependent(s) PROVE EarlyInv'
  BY <1>19 DEF SkipDependent, InLoop
<1>20. ASSUME NEW s \in Steps, SkipForBudget(s) PROVE EarlyInv'
  BY <1>20 DEF SkipForBudget, Unresolved
<1>21. ASSUME NEW s \in Steps, PreflightFails(s) PROVE EarlyInv'
  BY <1>21 DEF PreflightFails
<1>22. ASSUME NEW s \in Steps, BeginExecute(s) PROVE EarlyInv'
  BY <1>22 DEF BeginExecute
<1>23. ASSUME NEW s \in Steps, EndExecute(s) PROVE EarlyInv'
  BY <1>23 DEF EndExecute
<1>24. ASSUME NEW s \in Steps, DeliverCancel(s) PROVE EarlyInv'
  BY <1>24 DEF DeliverCancel
<1>25. ASSUME NEW s \in Steps, SkipCancelled(s) PROVE EarlyInv'
  BY <1>25 DEF SkipCancelled
<1>26. ASSUME NEW s \in Steps, RunCompensator(s) PROVE EarlyInv'
  BY <1>26 DEF RunCompensator, Emit
<1>27. CASE UNCHANGED vars
  BY <1>27
<1>28. QED
  BY <1>1, <1>2, <1>3, <1>4, <1>5, <1>6, <1>7, <1>8, <1>9, <1>10, <1>11, <1>12,
     <1>13, <1>14, <1>15, <1>16, <1>17, <1>18, <1>19, <1>20, <1>21, <1>22,
     <1>23, <1>24, <1>25, <1>26, <1>27 DEF Next, System, Preamble, Loop, Child,
     Ending

\* Children run only inside the awaited wave.
LEMMA NextChildInv ==
  ASSUME SagaInv, TypeOK', [Next]_vars PROVE ChildInv'
<1> USE DEF SagaInv, TypeOK, ChildInv, vars, sagaVars, childVars, waveVars, planVars
<1>1. CASE SnapshotPrincipal
  BY <1>1 DEF SnapshotPrincipal
<1>2. CASE PlanTask
  BY <1>2 DEF PlanTask
<1>3. CASE EmitPlanned
  BY <1>3 DEF EmitPlanned, Emit
<1>4. CASE GetPriceBook
  BY <1>4 DEF GetPriceBook
<1>5. CASE FailClosedAfterPlanned
  BY <1>5 DEF FailClosedAfterPlanned, Emit
<1>6. CASE StopAtLoopHead
  BY <1>6 DEF StopAtLoopHead
<1>7. CASE NothingReady
  BY <1>7 DEF NothingReady, InLoop
<1>8. CASE DispatchWave
  BY <1>8 DEF DispatchWave, Launch, Ready, Unresolved, InLoop
<1>9. CASE ExhaustBudget
  BY <1>9 DEF ExhaustBudget, Admitted, Ready, Unresolved, InLoop
<1>10. CASE DispatchAdmitted
  BY <1>10 DEF DispatchAdmitted, Launch, Unresolved
<1>11. CASE NothingAdmitted
  BY <1>11 DEF NothingAdmitted
<1>12. CASE JoinWave
  BY <1>12 DEF JoinWave
<1>13. CASE BeginUnwind
  BY <1>13 DEF BeginUnwind, Emit, LoopOver
<1>14. CASE SkipUnwind
  BY <1>14 DEF SkipUnwind, LoopOver
<1>15. CASE FinishUnwind
  BY <1>15 DEF FinishUnwind, Emit
<1>16. CASE CompleteTask
  BY <1>16 DEF CompleteTask, Emit
<1>17. CASE RequestCancel
  BY <1>17 DEF RequestCancel
<1>18. CASE Closed
  BY <1>18 DEF Closed
<1>19. ASSUME NEW s \in Steps, SkipDependent(s) PROVE ChildInv'
  BY <1>19 DEF SkipDependent, InLoop
<1>20. ASSUME NEW s \in Steps, SkipForBudget(s) PROVE ChildInv'
  BY <1>20 DEF SkipForBudget, Unresolved
<1>21. ASSUME NEW s \in Steps, PreflightFails(s) PROVE ChildInv'
  BY <1>21 DEF PreflightFails
<1>22. ASSUME NEW s \in Steps, BeginExecute(s) PROVE ChildInv'
  BY <1>22 DEF BeginExecute
<1>23. ASSUME NEW s \in Steps, EndExecute(s) PROVE ChildInv'
  BY <1>23 DEF EndExecute
<1>24. ASSUME NEW s \in Steps, DeliverCancel(s) PROVE ChildInv'
  BY <1>24 DEF DeliverCancel
<1>25. ASSUME NEW s \in Steps, SkipCancelled(s) PROVE ChildInv'
  BY <1>25 DEF SkipCancelled
<1>26. ASSUME NEW s \in Steps, RunCompensator(s) PROVE ChildInv'
  BY <1>26 DEF RunCompensator, Emit
<1>27. CASE UNCHANGED vars
  BY <1>27
<1>28. QED
  BY <1>1, <1>2, <1>3, <1>4, <1>5, <1>6, <1>7, <1>8, <1>9, <1>10, <1>11, <1>12,
     <1>13, <1>14, <1>15, <1>16, <1>17, <1>18, <1>19, <1>20, <1>21, <1>22,
     <1>23, <1>24, <1>25, <1>26, <1>27 DEF Next, System, Preamble, Loop, Child,
     Ending

\* Dispatched steps depend on completed steps of earlier waves.
LEMMA NextDepsInv ==
  ASSUME SagaInv, TypeOK', [Next]_vars PROVE DepsInv'
<1> USE DEF SagaInv, TypeOK, DepsInv, ChildInv, EarlyInv, Early, vars, sagaVars,
       childVars, waveVars, planVars
<1>1. CASE SnapshotPrincipal
  BY <1>1 DEF SnapshotPrincipal
<1>2. CASE PlanTask
  BY <1>2 DEF PlanTask
<1>3. CASE EmitPlanned
  BY <1>3 DEF EmitPlanned, Emit
<1>4. CASE GetPriceBook
  BY <1>4 DEF GetPriceBook
<1>5. CASE FailClosedAfterPlanned
  BY <1>5 DEF FailClosedAfterPlanned, Emit
<1>6. CASE StopAtLoopHead
  BY <1>6 DEF StopAtLoopHead
<1>7. CASE NothingReady
  BY <1>7 DEF NothingReady, InLoop
<1>8. CASE DispatchWave
  BY <1>8, DepsAreSteps DEF DispatchWave, Launch, Ready, Unresolved, InLoop
<1>9. CASE ExhaustBudget
  BY <1>9, DepsAreSteps DEF ExhaustBudget, Admitted, Ready, Unresolved, InLoop
<1>10. CASE DispatchAdmitted
  BY <1>10, DepsAreSteps DEF DispatchAdmitted, Launch
<1>11. CASE NothingAdmitted
  BY <1>11 DEF NothingAdmitted
<1>12. CASE JoinWave
  BY <1>12, DepsAreSteps DEF JoinWave
<1>13. CASE BeginUnwind
  BY <1>13 DEF BeginUnwind, Emit, LoopOver
<1>14. CASE SkipUnwind
  BY <1>14 DEF SkipUnwind, LoopOver
<1>15. CASE FinishUnwind
  BY <1>15 DEF FinishUnwind, Emit
<1>16. CASE CompleteTask
  BY <1>16 DEF CompleteTask, Emit
<1>17. CASE RequestCancel
  BY <1>17 DEF RequestCancel
<1>18. CASE Closed
  BY <1>18 DEF Closed
<1>19. ASSUME NEW s \in Steps, SkipDependent(s) PROVE DepsInv'
  BY <1>19 DEF SkipDependent, InLoop
<1>20. ASSUME NEW s \in Steps, SkipForBudget(s) PROVE DepsInv'
  BY <1>20 DEF SkipForBudget, Unresolved
<1>21. ASSUME NEW s \in Steps, PreflightFails(s) PROVE DepsInv'
  BY <1>21 DEF PreflightFails
<1>22. ASSUME NEW s \in Steps, BeginExecute(s) PROVE DepsInv'
  BY <1>22 DEF BeginExecute
<1>23. ASSUME NEW s \in Steps, EndExecute(s) PROVE DepsInv'
  BY <1>23 DEF EndExecute
<1>24. ASSUME NEW s \in Steps, DeliverCancel(s) PROVE DepsInv'
  BY <1>24 DEF DeliverCancel
<1>25. ASSUME NEW s \in Steps, SkipCancelled(s) PROVE DepsInv'
  BY <1>25 DEF SkipCancelled
<1>26. ASSUME NEW s \in Steps, RunCompensator(s) PROVE DepsInv'
  BY <1>26 DEF RunCompensator, Emit
<1>27. CASE UNCHANGED vars
  BY <1>27
<1>28. QED
  BY <1>1, <1>2, <1>3, <1>4, <1>5, <1>6, <1>7, <1>8, <1>9, <1>10, <1>11, <1>12,
     <1>13, <1>14, <1>15, <1>16, <1>17, <1>18, <1>19, <1>20, <1>21, <1>22,
     <1>23, <1>24, <1>25, <1>26, <1>27 DEF Next, System, Preamble, Loop, Child,
     Ending

\* A result is returned with the stack empty or whole.
LEMMA NextEndInv ==
  ASSUME SagaInv, TypeOK', [Next]_vars PROVE EndInv'
<1> USE DEF SagaInv, TypeOK, EndInv, AllCompleted, vars, sagaVars, childVars,
       waveVars, planVars
<1>1. CASE SnapshotPrincipal
  BY <1>1 DEF SnapshotPrincipal, EarlyInv, Early, StackInv, RecordedWrites
<1>2. CASE PlanTask
  BY <1>2 DEF PlanTask
<1>3. CASE EmitPlanned
  BY <1>3 DEF EmitPlanned, Emit
<1>4. CASE GetPriceBook
  BY <1>4 DEF GetPriceBook
<1>5. CASE FailClosedAfterPlanned
  BY <1>5 DEF FailClosedAfterPlanned, Emit, EarlyInv, Early, StackInv,
     RecordedWrites
<1>6. CASE StopAtLoopHead
  BY <1>6 DEF StopAtLoopHead
<1>7. CASE NothingReady
  BY <1>7 DEF NothingReady, InLoop
<1>8. CASE DispatchWave
  BY <1>8 DEF DispatchWave, Launch, Ready, Unresolved, InLoop
<1>9. CASE ExhaustBudget
  BY <1>9 DEF ExhaustBudget, Admitted, Ready, Unresolved, InLoop
<1>10. CASE DispatchAdmitted
  BY <1>10 DEF DispatchAdmitted, Launch, Unresolved
<1>11. CASE NothingAdmitted
  BY <1>11 DEF NothingAdmitted
<1>12. CASE JoinWave
  BY <1>12 DEF JoinWave
<1>13. CASE BeginUnwind
  BY <1>13 DEF BeginUnwind, Emit, LoopOver
<1>14. CASE SkipUnwind
  BY <1>14 DEF SkipUnwind, LoopOver, Trigger, FinalStatus, Synthesized
<1>15. CASE FinishUnwind
  BY <1>15 DEF FinishUnwind, Emit
<1>16. CASE CompleteTask
  BY <1>16 DEF CompleteTask, Emit
<1>17. CASE RequestCancel
  BY <1>17 DEF RequestCancel
<1>18. CASE Closed
  BY <1>18 DEF Closed
<1>19. ASSUME NEW s \in Steps, SkipDependent(s) PROVE EndInv'
  BY <1>19 DEF SkipDependent, InLoop
<1>20. ASSUME NEW s \in Steps, SkipForBudget(s) PROVE EndInv'
  BY <1>20 DEF SkipForBudget, Unresolved
<1>21. ASSUME NEW s \in Steps, PreflightFails(s) PROVE EndInv'
  BY <1>21 DEF PreflightFails
<1>22. ASSUME NEW s \in Steps, BeginExecute(s) PROVE EndInv'
  BY <1>22 DEF BeginExecute
<1>23. ASSUME NEW s \in Steps, EndExecute(s) PROVE EndInv'
  BY <1>23 DEF EndExecute
<1>24. ASSUME NEW s \in Steps, DeliverCancel(s) PROVE EndInv'
  BY <1>24 DEF DeliverCancel
<1>25. ASSUME NEW s \in Steps, SkipCancelled(s) PROVE EndInv'
  BY <1>25 DEF SkipCancelled
<1>26. ASSUME NEW s \in Steps, RunCompensator(s) PROVE EndInv'
  BY <1>26 DEF RunCompensator, Emit
<1>27. CASE UNCHANGED vars
  BY <1>27
<1>28. QED
  BY <1>1, <1>2, <1>3, <1>4, <1>5, <1>6, <1>7, <1>8, <1>9, <1>10, <1>11, <1>12,
     <1>13, <1>14, <1>15, <1>16, <1>17, <1>18, <1>19, <1>20, <1>21, <1>22,
     <1>23, <1>24, <1>25, <1>26, <1>27 DEF Next, System, Preamble, Loop, Child,
     Ending

\* The stack, the compensated and the failed entries are the recorded writes.
LEMMA NextStackInv ==
  ASSUME SagaInv, TypeOK', [Next]_vars PROVE StackInv'
<1> USE DEF SagaInv, TypeOK, StackInv, RecordedWrites, Late, vars, sagaVars,
       childVars, waveVars, planVars
<1>1. CASE SnapshotPrincipal
  BY <1>1 DEF SnapshotPrincipal
<1>2. CASE PlanTask
  BY <1>2 DEF PlanTask, EarlyInv, Early
<1>3. CASE EmitPlanned
  BY <1>3 DEF EmitPlanned, Emit
<1>4. CASE GetPriceBook
  BY <1>4 DEF GetPriceBook
<1>5. CASE FailClosedAfterPlanned
  BY <1>5 DEF FailClosedAfterPlanned, Emit
<1>6. CASE StopAtLoopHead
  BY <1>6 DEF StopAtLoopHead
<1>7. CASE NothingReady
  BY <1>7 DEF NothingReady, InLoop
<1>8. CASE DispatchWave
  BY <1>8 DEF DispatchWave, Launch, Ready, Unresolved, InLoop
<1>9. CASE ExhaustBudget
  BY <1>9 DEF ExhaustBudget, Admitted, Ready, Unresolved, InLoop
<1>10. CASE DispatchAdmitted
  BY <1>10 DEF DispatchAdmitted, Launch, Unresolved
<1>11. CASE NothingAdmitted
  BY <1>11 DEF NothingAdmitted
<1>12. CASE JoinWave
  <2>1. RecordedWrites' = RecordedWrites \cup {t \in wave : out[t] = "completed" /\ plan.kind[t] = "reversible"}
    BY <1>12 DEF JoinWave, ChildInv
  <2>2. stack' = stack \cup {t \in wave : out[t] = "completed" /\ plan.kind[t] = "reversible"}
    BY <1>12 DEF JoinWave
  <2>3. compensated = {} /\ failedComps = {} /\ UNCHANGED <<compensated, failedComps>> /\ pc' \notin Late
    BY <1>12 DEF JoinWave
  <2>4. QED
    BY <2>1, <2>2, <2>3
<1>13. CASE BeginUnwind
  BY <1>13 DEF BeginUnwind, Emit, LoopOver
<1>14. CASE SkipUnwind
  BY <1>14 DEF SkipUnwind, LoopOver
<1>15. CASE FinishUnwind
  BY <1>15 DEF FinishUnwind, Emit
<1>16. CASE CompleteTask
  BY <1>16 DEF CompleteTask, Emit
<1>17. CASE RequestCancel
  BY <1>17 DEF RequestCancel
<1>18. CASE Closed
  BY <1>18 DEF Closed
<1>19. ASSUME NEW s \in Steps, SkipDependent(s) PROVE StackInv'
  BY <1>19 DEF SkipDependent, InLoop
<1>20. ASSUME NEW s \in Steps, SkipForBudget(s) PROVE StackInv'
  BY <1>20 DEF SkipForBudget, Unresolved
<1>21. ASSUME NEW s \in Steps, PreflightFails(s) PROVE StackInv'
  BY <1>21 DEF PreflightFails
<1>22. ASSUME NEW s \in Steps, BeginExecute(s) PROVE StackInv'
  BY <1>22 DEF BeginExecute
<1>23. ASSUME NEW s \in Steps, EndExecute(s) PROVE StackInv'
  BY <1>23 DEF EndExecute
<1>24. ASSUME NEW s \in Steps, DeliverCancel(s) PROVE StackInv'
  BY <1>24 DEF DeliverCancel
<1>25. ASSUME NEW s \in Steps, SkipCancelled(s) PROVE StackInv'
  BY <1>25 DEF SkipCancelled
<1>26. ASSUME NEW s \in Steps, RunCompensator(s) PROVE StackInv'
  <2>1. RecordedWrites' = RecordedWrites /\ s \in stack /\ stack' = stack \ {s} /\ pc = "unwinding"
    BY <1>26 DEF RunCompensator, Top
  <2>2. pc' \in Late
    BY <1>26 DEF RunCompensator, Emit
  <2>3. \/ compensated' = compensated \cup {s} /\ failedComps' = failedComps
        \/ compensated' = compensated /\ failedComps' = failedComps \cup {s}
    BY <1>26 DEF RunCompensator
  <2>4. RecordedWrites = stack \cup compensated \cup failedComps
    OBVIOUS
  <2>5. RecordedWrites' = stack' \cup compensated' \cup failedComps'
    BY <2>1, <2>3, <2>4
  <2>6. QED
    BY <2>1, <2>2, <2>3, <2>5
<1>27. CASE UNCHANGED vars
  BY <1>27
<1>28. QED
  BY <1>1, <1>2, <1>3, <1>4, <1>5, <1>6, <1>7, <1>8, <1>9, <1>10, <1>11, <1>12,
     <1>13, <1>14, <1>15, <1>16, <1>17, <1>18, <1>19, <1>20, <1>21, <1>22,
     <1>23, <1>24, <1>25, <1>26, <1>27 DEF Next, System, Preamble, Loop, Child,
     Ending

\* A write goes back only after the writes that depend on it.
LEMMA NextUnwindOrder ==
  ASSUME SagaInv, TypeOK', [Next]_vars PROVE UnwindOrder'
<1> USE DEF SagaInv, TypeOK, UnwindOrder, StackInv, Late, vars, sagaVars, childVars,
       waveVars, planVars
<1>1. CASE SnapshotPrincipal
  BY <1>1 DEF SnapshotPrincipal
<1>2. CASE PlanTask
  BY <1>2 DEF PlanTask
<1>3. CASE EmitPlanned
  BY <1>3 DEF EmitPlanned, Emit
<1>4. CASE GetPriceBook
  BY <1>4 DEF GetPriceBook
<1>5. CASE FailClosedAfterPlanned
  BY <1>5 DEF FailClosedAfterPlanned, Emit
<1>6. CASE StopAtLoopHead
  BY <1>6 DEF StopAtLoopHead
<1>7. CASE NothingReady
  BY <1>7 DEF NothingReady, InLoop
<1>8. CASE DispatchWave
  BY <1>8 DEF DispatchWave, Launch, Ready, Unresolved, InLoop
<1>9. CASE ExhaustBudget
  BY <1>9 DEF ExhaustBudget, Admitted, Ready, Unresolved, InLoop
<1>10. CASE DispatchAdmitted
  BY <1>10 DEF DispatchAdmitted, Launch, Unresolved
<1>11. CASE NothingAdmitted
  BY <1>11 DEF NothingAdmitted
<1>12. CASE JoinWave
  BY <1>12 DEF JoinWave
<1>13. CASE BeginUnwind
  BY <1>13 DEF BeginUnwind, Emit, LoopOver
<1>14. CASE SkipUnwind
  BY <1>14 DEF SkipUnwind, LoopOver
<1>15. CASE FinishUnwind
  BY <1>15 DEF FinishUnwind, Emit
<1>16. CASE CompleteTask
  BY <1>16 DEF CompleteTask, Emit
<1>17. CASE RequestCancel
  BY <1>17 DEF RequestCancel
<1>18. CASE Closed
  BY <1>18 DEF Closed
<1>19. ASSUME NEW s \in Steps, SkipDependent(s) PROVE UnwindOrder'
  BY <1>19 DEF SkipDependent, InLoop
<1>20. ASSUME NEW s \in Steps, SkipForBudget(s) PROVE UnwindOrder'
  BY <1>20 DEF SkipForBudget, Unresolved
<1>21. ASSUME NEW s \in Steps, PreflightFails(s) PROVE UnwindOrder'
  BY <1>21 DEF PreflightFails
<1>22. ASSUME NEW s \in Steps, BeginExecute(s) PROVE UnwindOrder'
  BY <1>22 DEF BeginExecute
<1>23. ASSUME NEW s \in Steps, EndExecute(s) PROVE UnwindOrder'
  BY <1>23 DEF EndExecute
<1>24. ASSUME NEW s \in Steps, DeliverCancel(s) PROVE UnwindOrder'
  BY <1>24 DEF DeliverCancel
<1>25. ASSUME NEW s \in Steps, SkipCancelled(s) PROVE UnwindOrder'
  BY <1>25 DEF SkipCancelled
<1>26. ASSUME NEW s \in Steps, RunCompensator(s) PROVE UnwindOrder'
  <2> SUFFICES ASSUME NEW b \in stack', NEW a \in plan.deps[b],
                      a \in compensated' \cup failedComps'
      PROVE FALSE
    BY <1>26 DEF RunCompensator
  <2>1. b \in stack /\ a \in Steps
    BY <1>26, DepsAreSteps DEF RunCompensator
  <2>2. a = s
    BY <1>26, <2>1 DEF RunCompensator
  <2>3. waveOf[b] # 0
    BY <2>1 DEF RecordedWrites, ChildInv
  <2>4. waveOf[a] < waveOf[b]
    BY <2>1, <2>3 DEF DepsInv
  <2>5. ~PushedAfter(b, s)
    BY <1>26, <2>1 DEF RunCompensator, Top
  <2>6. QED
    BY <2>2, <2>4, <2>5 DEF PushedAfter
<1>27. CASE UNCHANGED vars
  BY <1>27
<1>28. QED
  BY <1>1, <1>2, <1>3, <1>4, <1>5, <1>6, <1>7, <1>8, <1>9, <1>10, <1>11, <1>12,
     <1>13, <1>14, <1>15, <1>16, <1>17, <1>18, <1>19, <1>20, <1>21, <1>22,
     <1>23, <1>24, <1>25, <1>26, <1>27 DEF Next, System, Preamble, Loop, Child,
     Ending

\* SagaInv is inductive.
LEMMA NextSagaInv == SagaInv /\ [Next]_vars => SagaInv'
<1> SUFFICES ASSUME SagaInv, [Next]_vars PROVE SagaInv'
  OBVIOUS
<1>1. TypeOK'
  BY NextTypeOK DEF SagaInv
<1>2. QED
  BY <1>1, NextEarlyInv, NextChildInv, NextDepsInv, NextStackInv,
     NextUnwindOrder, NextEndInv
  DEF SagaInv

\* The inductive invariant holds throughout.
THEOREM SagaInvariant == Spec => []SagaInv
  BY InitSagaInv, NextSagaInv, PTL DEF Spec

\* Writes are undone dependents first, for every plan and every mix of
\* failures, cancels and budget stops of the wave loop.
THEOREM UnwindOrderHolds == Spec => []UnwindOrder
<1>1. SagaInv => UnwindOrder
  BY DEF SagaInv
<1>2. QED
  BY <1>1, SagaInvariant, PTL

\* No write is in flight once the unwind or the report has begun.
THEOREM NothingInFlightHolds == Spec => []NothingInFlight
<1>1. SagaInv => NothingInFlight
  BY DEF SagaInv, ChildInv, NothingInFlight, TypeOK
<1>2. QED
  BY <1>1, SagaInvariant, PTL

\* A returned result leaves no recorded write unsettled.
THEOREM WritesSettledHolds == Spec => []WritesSettled
<1>1. SagaInv => WritesSettled
  BY DEF SagaInv, StackInv, EndInv, WritesSettled
<1>2. QED
  BY <1>1, SagaInvariant, PTL

\* The unwind is sound for plans, budgets and interleavings of any size: every
\* recorded write is settled, dependents first, with nothing still writing.
THEOREM UnwindSound == Spec => []UnwindIsSound
<1>1. TypeOK /\ WritesSettled /\ UnwindOrder /\ NothingInFlight => UnwindIsSound
  BY DEF UnwindIsSound
<1>2. QED
  BY <1>1, TypeCorrect, WritesSettledHolds, UnwindOrderHolds,
     NothingInFlightHolds, PTL

-----------------------------------------------------------------------------
(* The report and the budget: a second inductive invariant, on top of the  *)
(* first.                                                                  *)

\* A skipped step was never dispatched and has no result.
GapInv == \A s \in skipped : results[s] = "none" /\ s \notin wave /\ waveOf[s] = 0

\* The loop is left with every step accounted for, except by a cancel, whose
\* gaps are written next; a budget stop is final, and at least one step it
\* refused has no result.
LoopInv ==
  /\ pc = "drained" => cancelled \/ Unresolved = {}
  /\ pc = "gaps" => cancelled
  /\ pc \in {"unwinding", "completing"} => Unresolved = {}
  /\ budgetStop => pc \notin Early \cup {"loop", "skipping"}
  /\ budgetStop /\ pc = "wave" => Unresolved = wave
  /\ budgetStop => \E s \in Steps : s \notin wave /\ results[s] = "none"

\* A status is set last; the unwind has a reason that rules out "completed".
ReasonInv ==
  /\ status # "none" => pc \in {"completing", "done", "threw"}
  /\ pc \notin Late => trigger = "none"
  /\ pc = "unwinding" => trigger # "none" /\ (cancelled \/ ~AllCompleted)
  /\ CompletedIsWhole

\* An enforced cost budget has its price book, and the truncated wave that
\* waits for the gaps' audits fits what is left of the budget.
SpendInv ==
  /\ pc \notin Early \cup Terminal /\ budget.cost # Unlimited => book
  /\ pc = "exhausted" /\ wave # {} =>
       /\ ~SpendExhausted
       /\ budget.steps # Unlimited =>
            stepsDispatched + Cardinality(wave) <= budget.steps

ReportInv == GapInv /\ LoopInv /\ ReasonInv /\ SpendInv

\* A nonempty set of naturals has a least element.
LEMMA LeastElement ==
  ASSUME NEW S \in SUBSET Nat, S # {}
  PROVE  \E m \in S : \A k \in S : m <= k
<1> DEFINE R == OpToRel(<, Nat)
<1>1. IsWellFoundedOn(R, Nat)
  BY NatLessThanWellFounded
<1>2. PICK m \in S : \A k \in S : ~(<<k, m>> \in R)
  <2> HIDE DEF R
  <2> QED BY <1>1, WFMin
<1>3. ASSUME NEW k \in S PROVE m <= k
  <2>1. k < m => <<k, m>> \in R
    BY DEF OpToRel
  <2> HIDE DEF R
  <2>2. QED
    BY <1>2, <2>1
<1>4. QED
  BY <1>3

\* A nonempty set of steps has a greatest element.
LEMMA GreatestStep ==
  ASSUME NEW S \in SUBSET Steps, S # {}
  PROVE  \E m \in S : \A k \in S : k <= m
<1> USE ConstantsAssumption DEF Steps
<1> DEFINE T == {N - k : k \in S}
<1>1. T \in SUBSET Nat /\ T # {}
  <2>1. PICK e \in S : TRUE
    OBVIOUS
  <2>2. N - e \in T
    BY <2>1
  <2>3. \A k \in S : N - k \in Nat
    OBVIOUS
  <2>4. QED
    BY <2>2, <2>3
<1>2. PICK t \in T : \A u \in T : t <= u
  <2> HIDE DEF T
  <2> QED BY <1>1, LeastElement
<1>3. PICK m \in S : t = N - m
  OBVIOUS
<1>4. ASSUME NEW k \in S PROVE k <= m
  <2>1. N - k \in T
    OBVIOUS
  <2>2. N - m <= N - k
    BY <1>2, <1>3, <2>1
  <2>3. QED
    BY <2>2
<1>5. QED
  BY <1>4

\* When no unresolved step is ready and none depends on a bad step, no step is
\* unresolved: a least unresolved step would have all its dependencies
\* completed.
LEMMA NothingReadyMeansResolved ==
  ASSUME TypeOK, Dependents = {}, Ready = {} PROVE Unresolved = {}
<1> SUFFICES ASSUME Unresolved # {} PROVE FALSE
  OBVIOUS
<1>1. Unresolved \in SUBSET Nat
  BY ConstantsAssumption DEF Unresolved, Steps
<1>2. PICK m \in Unresolved : \A k \in Unresolved : m <= k
  BY <1>1, LeastElement
<1>3. m \in Steps /\ plan.deps[m] \subseteq 1..(m - 1)
  BY PlansAssumption DEF Unresolved, TypeOK, NoPlan
<1>4. \A d \in plan.deps[m] : d \in Steps /\ d < m
  BY <1>3, ConstantsAssumption DEF Steps
<1>5. \A d \in plan.deps[m] : results[d] = "completed"
  <2> TAKE d \in plan.deps[m]
  <2>1. d \notin Unresolved
    BY <1>1, <1>2, <1>4, ConstantsAssumption DEF Steps
  <2>2. d \notin skipped /\ results[d] # "failed"
    BY <1>2 DEF Dependents, HasBadDep
  <2>3. QED
    BY <1>4, <2>1, <2>2 DEF Unresolved, TypeOK
<1>6. QED
  BY <1>2, <1>5 DEF Ready

\* The budget gate admits no more steps than max_steps leaves, and none once
\* the tokens or the dollars are spent.
LEMMA AdmittedFits ==
  ASSUME TypeOK, Admitted # {}
  PROVE  /\ ~SpendExhausted
         /\ budget.steps # Unlimited =>
              stepsDispatched + Cardinality(Admitted) <= budget.steps
<1>1. Admitted \in SUBSET Steps /\ Ready \in SUBSET Steps
  BY DEF Admitted, Ready, Unresolved
<1>2. PICK m \in Admitted : \A k \in Admitted : k <= m
  BY <1>1, GreatestStep
<1>3. WithinBudget(m)
  BY DEF Admitted
<1> DEFINE Below == {t \in Ready : t < m}
<1>4. Admitted \in SUBSET (Below \cup {m})
  BY <1>1, <1>2, ConstantsAssumption DEF Admitted, Steps
<1>5. Below \in SUBSET Steps /\ m \notin Below
  <2>1. Below \subseteq Ready
    OBVIOUS
  <2>2. m \in Nat
    BY <1>1, <1>2, ConstantsAssumption DEF Steps
  <2>3. m \notin Below
    BY <2>2
  <2>4. Below \in SUBSET Steps
    <3> HIDE DEF Below
    <3> QED BY <1>1, <2>1
  <2>5. QED
    BY <2>3, <2>4
<1> HIDE DEF Below
<1>6. IsFiniteSet(Below) /\ Cardinality(Below) \in Nat /\ Cardinality(Admitted) \in Nat
  BY <1>1, <1>5, StepSetsFinite
<1>7. IsFiniteSet(Below \cup {m}) /\ Cardinality(Below \cup {m}) = Cardinality(Below) + 1
  BY <1>5, <1>6, FS_AddElement
<1>8. Cardinality(Admitted) <= Cardinality(Below) + 1
  BY <1>4, <1>7, FS_Subset
<1>9. budget.steps # Unlimited =>
        budget.steps \in Nat /\ stepsDispatched + Cardinality(Below) < budget.steps
  BY <1>3, ConstantsAssumption DEF WithinBudget, Below, TypeOK
<1>10. stepsDispatched \in Nat
  BY DEF TypeOK
<1>11. QED
  BY <1>3, <1>6, <1>8, <1>9, <1>10 DEF WithinBudget

\* A skipped step stays undispatched: a wave holds unresolved steps only.
LEMMA NextGapInv ==
  ASSUME SagaInv, ReportInv, TypeOK', [Next]_vars PROVE GapInv'
<1> USE DEF SagaInv, ReportInv, TypeOK, GapInv, vars, sagaVars, childVars, waveVars,
       planVars
<1>1. CASE SnapshotPrincipal
  BY <1>1 DEF SnapshotPrincipal
<1>2. CASE PlanTask
  BY <1>2 DEF PlanTask
<1>3. CASE EmitPlanned
  BY <1>3 DEF EmitPlanned, Emit
<1>4. CASE GetPriceBook
  BY <1>4 DEF GetPriceBook
<1>5. CASE FailClosedAfterPlanned
  BY <1>5 DEF FailClosedAfterPlanned, Emit
<1>6. CASE StopAtLoopHead
  BY <1>6 DEF StopAtLoopHead
<1>7. CASE NothingReady
  BY <1>7 DEF NothingReady, InLoop
<1>8. CASE DispatchWave
  BY <1>8 DEF DispatchWave, Launch, Ready, Unresolved, InLoop
<1>9. CASE ExhaustBudget
  BY <1>9 DEF ExhaustBudget, Admitted, Ready, Unresolved, InLoop
<1>10. CASE DispatchAdmitted
  BY <1>10 DEF DispatchAdmitted, Launch, Unresolved
<1>11. CASE NothingAdmitted
  BY <1>11 DEF NothingAdmitted
<1>12. CASE JoinWave
  BY <1>12 DEF JoinWave
<1>13. CASE BeginUnwind
  BY <1>13 DEF BeginUnwind, Emit, LoopOver
<1>14. CASE SkipUnwind
  BY <1>14 DEF SkipUnwind, LoopOver
<1>15. CASE FinishUnwind
  BY <1>15 DEF FinishUnwind, Emit
<1>16. CASE CompleteTask
  BY <1>16 DEF CompleteTask, Emit
<1>17. CASE RequestCancel
  BY <1>17 DEF RequestCancel
<1>18. CASE Closed
  BY <1>18 DEF Closed
<1>19. ASSUME NEW s \in Steps, SkipDependent(s) PROVE GapInv'
  BY <1>19 DEF SkipDependent, InLoop, Dependents, Unresolved, ChildInv
<1>20. ASSUME NEW s \in Steps, SkipForBudget(s) PROVE GapInv'
  BY <1>20 DEF SkipForBudget, Unresolved, ChildInv
<1>21. ASSUME NEW s \in Steps, PreflightFails(s) PROVE GapInv'
  BY <1>21 DEF PreflightFails
<1>22. ASSUME NEW s \in Steps, BeginExecute(s) PROVE GapInv'
  BY <1>22 DEF BeginExecute
<1>23. ASSUME NEW s \in Steps, EndExecute(s) PROVE GapInv'
  BY <1>23 DEF EndExecute
<1>24. ASSUME NEW s \in Steps, DeliverCancel(s) PROVE GapInv'
  BY <1>24 DEF DeliverCancel
<1>25. ASSUME NEW s \in Steps, SkipCancelled(s) PROVE GapInv'
  BY <1>25 DEF SkipCancelled, Unresolved, ChildInv
<1>26. ASSUME NEW s \in Steps, RunCompensator(s) PROVE GapInv'
  BY <1>26 DEF RunCompensator, Emit
<1>27. CASE UNCHANGED vars
  BY <1>27
<1>28. QED
  BY <1>1, <1>2, <1>3, <1>4, <1>5, <1>6, <1>7, <1>8, <1>9, <1>10, <1>11, <1>12,
     <1>13, <1>14, <1>15, <1>16, <1>17, <1>18, <1>19, <1>20, <1>21, <1>22,
     <1>23, <1>24, <1>25, <1>26, <1>27 DEF Next, System, Preamble, Loop, Child,
     Ending

\* The loop is left with every step accounted for, except by a cancel.
LEMMA NextLoopInv ==
  ASSUME SagaInv, ReportInv, TypeOK', [Next]_vars PROVE LoopInv'
<1> USE DEF SagaInv, ReportInv, TypeOK, LoopInv, Unresolved, Early, vars, sagaVars,
       childVars, waveVars, planVars
<1>1. CASE SnapshotPrincipal
  BY <1>1 DEF SnapshotPrincipal
<1>2. CASE PlanTask
  BY <1>2 DEF PlanTask
<1>3. CASE EmitPlanned
  BY <1>3 DEF EmitPlanned, Emit
<1>4. CASE GetPriceBook
  BY <1>4 DEF GetPriceBook
<1>5. CASE FailClosedAfterPlanned
  BY <1>5 DEF FailClosedAfterPlanned, Emit
<1>6. CASE StopAtLoopHead
  BY <1>6 DEF StopAtLoopHead
<1>7. CASE NothingReady
  BY <1>7, NothingReadyMeansResolved DEF NothingReady, InLoop
<1>8. CASE DispatchWave
  BY <1>8 DEF DispatchWave, Launch, Ready, Unresolved, InLoop
<1>9. CASE ExhaustBudget
  BY <1>9 DEF ExhaustBudget, Admitted, Ready, Unresolved, InLoop
<1>10. CASE DispatchAdmitted
  BY <1>10 DEF DispatchAdmitted, Launch, Unresolved
<1>11. CASE NothingAdmitted
  BY <1>11 DEF NothingAdmitted
<1>12. CASE JoinWave
  BY <1>12 DEF JoinWave, ChildInv
<1>13. CASE BeginUnwind
  BY <1>13 DEF BeginUnwind, Emit, LoopOver
<1>14. CASE SkipUnwind
  BY <1>14 DEF SkipUnwind, LoopOver
<1>15. CASE FinishUnwind
  BY <1>15 DEF FinishUnwind, Emit
<1>16. CASE CompleteTask
  BY <1>16 DEF CompleteTask, Emit
<1>17. CASE RequestCancel
  BY <1>17 DEF RequestCancel
<1>18. CASE Closed
  BY <1>18 DEF Closed
<1>19. ASSUME NEW s \in Steps, SkipDependent(s) PROVE LoopInv'
  BY <1>19 DEF SkipDependent, InLoop
<1>20. ASSUME NEW s \in Steps, SkipForBudget(s) PROVE LoopInv'
  BY <1>20 DEF SkipForBudget, Unresolved
<1>21. ASSUME NEW s \in Steps, PreflightFails(s) PROVE LoopInv'
  BY <1>21 DEF PreflightFails
<1>22. ASSUME NEW s \in Steps, BeginExecute(s) PROVE LoopInv'
  BY <1>22 DEF BeginExecute
<1>23. ASSUME NEW s \in Steps, EndExecute(s) PROVE LoopInv'
  BY <1>23 DEF EndExecute
<1>24. ASSUME NEW s \in Steps, DeliverCancel(s) PROVE LoopInv'
  BY <1>24 DEF DeliverCancel
<1>25. ASSUME NEW s \in Steps, SkipCancelled(s) PROVE LoopInv'
  BY <1>25 DEF SkipCancelled
<1>26. ASSUME NEW s \in Steps, RunCompensator(s) PROVE LoopInv'
  BY <1>26 DEF RunCompensator, Emit
<1>27. CASE UNCHANGED vars
  BY <1>27
<1>28. QED
  BY <1>1, <1>2, <1>3, <1>4, <1>5, <1>6, <1>7, <1>8, <1>9, <1>10, <1>11, <1>12,
     <1>13, <1>14, <1>15, <1>16, <1>17, <1>18, <1>19, <1>20, <1>21, <1>22,
     <1>23, <1>24, <1>25, <1>26, <1>27 DEF Next, System, Preamble, Loop, Child,
     Ending

\* A status is set last, and "completed" only with no reason to unwind.
LEMMA NextReasonInv ==
  ASSUME SagaInv, ReportInv, TypeOK', [Next]_vars PROVE ReasonInv'
<1> USE DEF SagaInv, ReportInv, TypeOK, ReasonInv, CompletedIsWhole, AllCompleted,
       Late, vars, sagaVars, childVars, waveVars, planVars
<1>1. CASE SnapshotPrincipal
  BY <1>1 DEF SnapshotPrincipal
<1>2. CASE PlanTask
  BY <1>2 DEF PlanTask
<1>3. CASE EmitPlanned
  BY <1>3 DEF EmitPlanned, Emit
<1>4. CASE GetPriceBook
  BY <1>4 DEF GetPriceBook
<1>5. CASE FailClosedAfterPlanned
  BY <1>5 DEF FailClosedAfterPlanned, Emit
<1>6. CASE StopAtLoopHead
  BY <1>6 DEF StopAtLoopHead
<1>7. CASE NothingReady
  BY <1>7 DEF NothingReady, InLoop
<1>8. CASE DispatchWave
  BY <1>8 DEF DispatchWave, Launch, Ready, Unresolved, InLoop
<1>9. CASE ExhaustBudget
  BY <1>9 DEF ExhaustBudget, Admitted, Ready, Unresolved, InLoop
<1>10. CASE DispatchAdmitted
  BY <1>10 DEF DispatchAdmitted, Launch, Unresolved
<1>11. CASE NothingAdmitted
  BY <1>11 DEF NothingAdmitted
<1>12. CASE JoinWave
  BY <1>12 DEF JoinWave
<1>13. CASE BeginUnwind
  BY <1>13 DEF BeginUnwind, Emit, LoopOver, Trigger, LoopInv
<1>14. CASE SkipUnwind
  BY <1>14 DEF SkipUnwind, LoopOver, Trigger, FinalStatus, Synthesized, WithAnswer,
         LoopInv, StackInv
<1>15. CASE FinishUnwind
  BY <1>15 DEF FinishUnwind, Emit, FinalStatus, Synthesized, WithAnswer
<1>16. CASE CompleteTask
  BY <1>16 DEF CompleteTask, Emit
<1>17. CASE RequestCancel
  BY <1>17 DEF RequestCancel
<1>18. CASE Closed
  BY <1>18 DEF Closed
<1>19. ASSUME NEW s \in Steps, SkipDependent(s) PROVE ReasonInv'
  BY <1>19 DEF SkipDependent, InLoop
<1>20. ASSUME NEW s \in Steps, SkipForBudget(s) PROVE ReasonInv'
  BY <1>20 DEF SkipForBudget, Unresolved
<1>21. ASSUME NEW s \in Steps, PreflightFails(s) PROVE ReasonInv'
  BY <1>21 DEF PreflightFails
<1>22. ASSUME NEW s \in Steps, BeginExecute(s) PROVE ReasonInv'
  BY <1>22 DEF BeginExecute
<1>23. ASSUME NEW s \in Steps, EndExecute(s) PROVE ReasonInv'
  BY <1>23 DEF EndExecute
<1>24. ASSUME NEW s \in Steps, DeliverCancel(s) PROVE ReasonInv'
  BY <1>24 DEF DeliverCancel
<1>25. ASSUME NEW s \in Steps, SkipCancelled(s) PROVE ReasonInv'
  BY <1>25 DEF SkipCancelled
<1>26. ASSUME NEW s \in Steps, RunCompensator(s) PROVE ReasonInv'
  BY <1>26 DEF RunCompensator, Emit
<1>27. CASE UNCHANGED vars
  BY <1>27
<1>28. QED
  BY <1>1, <1>2, <1>3, <1>4, <1>5, <1>6, <1>7, <1>8, <1>9, <1>10, <1>11, <1>12,
     <1>13, <1>14, <1>15, <1>16, <1>17, <1>18, <1>19, <1>20, <1>21, <1>22,
     <1>23, <1>24, <1>25, <1>26, <1>27 DEF Next, System, Preamble, Loop, Child,
     Ending

\* What is left of the budget still covers the wave that waits for the audits.
LEMMA NextSpendInv ==
  ASSUME SagaInv, ReportInv, TypeOK', [Next]_vars PROVE SpendInv'
<1> USE ConstantsAssumption DEF SagaInv, ReportInv, TypeOK, SpendInv,
       SpendExhausted, Early, Terminal, vars, sagaVars, childVars, waveVars,
       planVars
<1>1. CASE SnapshotPrincipal
  BY <1>1 DEF SnapshotPrincipal
<1>2. CASE PlanTask
  BY <1>2 DEF PlanTask
<1>3. CASE EmitPlanned
  BY <1>3 DEF EmitPlanned, Emit
<1>4. CASE GetPriceBook
  BY <1>4 DEF GetPriceBook
<1>5. CASE FailClosedAfterPlanned
  BY <1>5 DEF FailClosedAfterPlanned, Emit
<1>6. CASE StopAtLoopHead
  BY <1>6 DEF StopAtLoopHead
<1>7. CASE NothingReady
  BY <1>7 DEF NothingReady, InLoop
<1>8. CASE DispatchWave
  BY <1>8 DEF DispatchWave, Launch, Ready, Unresolved, InLoop
<1>9. CASE ExhaustBudget
  BY <1>9, AdmittedFits DEF ExhaustBudget, Admitted, Ready, Unresolved, InLoop
<1>10. CASE DispatchAdmitted
  BY <1>10 DEF DispatchAdmitted, Launch, Unresolved
<1>11. CASE NothingAdmitted
  BY <1>11 DEF NothingAdmitted
<1>12. CASE JoinWave
  BY <1>12 DEF JoinWave
<1>13. CASE BeginUnwind
  BY <1>13 DEF BeginUnwind, Emit, LoopOver
<1>14. CASE SkipUnwind
  BY <1>14 DEF SkipUnwind, LoopOver
<1>15. CASE FinishUnwind
  BY <1>15 DEF FinishUnwind, Emit
<1>16. CASE CompleteTask
  BY <1>16 DEF CompleteTask, Emit
<1>17. CASE RequestCancel
  BY <1>17 DEF RequestCancel
<1>18. CASE Closed
  BY <1>18 DEF Closed
<1>19. ASSUME NEW s \in Steps, SkipDependent(s) PROVE SpendInv'
  BY <1>19 DEF SkipDependent, InLoop
<1>20. ASSUME NEW s \in Steps, SkipForBudget(s) PROVE SpendInv'
  BY <1>20 DEF SkipForBudget, Unresolved
<1>21. ASSUME NEW s \in Steps, PreflightFails(s) PROVE SpendInv'
  BY <1>21 DEF PreflightFails
<1>22. ASSUME NEW s \in Steps, BeginExecute(s) PROVE SpendInv'
  BY <1>22 DEF BeginExecute
<1>23. ASSUME NEW s \in Steps, EndExecute(s) PROVE SpendInv'
  BY <1>23 DEF EndExecute
<1>24. ASSUME NEW s \in Steps, DeliverCancel(s) PROVE SpendInv'
  BY <1>24 DEF DeliverCancel
<1>25. ASSUME NEW s \in Steps, SkipCancelled(s) PROVE SpendInv'
  BY <1>25 DEF SkipCancelled
<1>26. ASSUME NEW s \in Steps, RunCompensator(s) PROVE SpendInv'
  BY <1>26 DEF RunCompensator, Emit
<1>27. CASE UNCHANGED vars
  BY <1>27
<1>28. QED
  BY <1>1, <1>2, <1>3, <1>4, <1>5, <1>6, <1>7, <1>8, <1>9, <1>10, <1>11, <1>12,
     <1>13, <1>14, <1>15, <1>16, <1>17, <1>18, <1>19, <1>20, <1>21, <1>22,
     <1>23, <1>24, <1>25, <1>26, <1>27 DEF Next, System, Preamble, Loop, Child,
     Ending

\* The second invariant holds initially.
LEMMA InitReportInv == Init => ReportInv
<1> SUFFICES ASSUME Init PROVE ReportInv
  OBVIOUS
<1>1. pc = "start" /\ status = "none" /\ trigger = "none" /\ skipped = {}
  BY DEF Init
<1>2. ~budgetStop
  BY Zenon DEF Init
<1>3. QED
  BY <1>1, <1>2 DEF ReportInv, GapInv, LoopInv, ReasonInv, SpendInv,
         CompletedIsWhole, Early, Late, Terminal

\* The second invariant is inductive given the first.
LEMMA NextReportInv == SagaInv /\ ReportInv /\ [Next]_vars => ReportInv'
<1> SUFFICES ASSUME SagaInv, ReportInv, [Next]_vars PROVE ReportInv'
  OBVIOUS
<1>1. TypeOK'
  BY NextTypeOK DEF SagaInv
<1>2. QED
  BY <1>1, NextGapInv, NextLoopInv, NextReasonInv, NextSpendInv DEF ReportInv

\* The second inductive invariant holds throughout.
THEOREM ReportInvariant == Spec => []ReportInv
  BY InitReportInv, NextReportInv, SagaInvariant, PTL DEF Spec

\* The report of runTaskBody is true for every plan and budget: each step has
\* a result or a gap, never both, and a task that says "completed" kept all its
\* writes and compensated none.
THEOREM ReportTrue == Spec => []ReportIsTrue
<1>1. ReportInv => ReportIsTrue
  BY DEF ReportInv, GapInv, LoopInv, ReasonInv, ReportIsTrue, EveryStepAccounted
<1>2. QED
  BY <1>1, ReportInvariant, PTL

\* Only the two dispatching actions reach the wait for a wave.
LEMMA OnlyDispatchOpensWave ==
  ASSUME TypeOK, Next, pc # "wave", pc' = "wave" PROVE DispatchWave \/ DispatchAdmitted
<1> USE DEF vars, planVars, waveVars
<1>1. Preamble => FALSE
  BY DEF Preamble, SnapshotPrincipal, PlanTask, EmitPlanned, GetPriceBook,
     FailClosedAfterPlanned, Emit
<1>2. Ending => FALSE
  BY DEF Ending, BeginUnwind, SkipUnwind, FinishUnwind, CompleteTask, SkipCancelled,
     RunCompensator, Emit
<1>3. \A s \in Steps : Child(s) \/ DeliverCancel(s) => FALSE
  BY DEF Child, PreflightFails, BeginExecute, EndExecute, DeliverCancel
<1>4. RequestCancel \/ Closed => FALSE
  BY DEF RequestCancel, Closed
<1>5. Loop => DispatchWave \/ DispatchAdmitted
  BY DEF Loop, StopAtLoopHead, NothingReady, ExhaustBudget, NothingAdmitted,
         JoinWave, SkipDependent, SkipForBudget
<1>6. QED
  BY <1>1, <1>2, <1>3, <1>4, <1>5 DEF Next, System

\* A wave is dispatched with tokens, dollars and steps left.
LEMMA WaveFitsBudget ==
  ASSUME TypeOK, SpendInv, Next, pc # "wave", pc' = "wave"
  PROVE  /\ budget.tokens # Unlimited => tokens < budget.tokens
         /\ budget.cost # Unlimited => tokens * Rate < budget.cost
         /\ budget.steps # Unlimited => stepsDispatched' <= budget.steps
<1>1. ~SpendExhausted /\ (budget.cost # Unlimited => book)
      /\ (budget.steps # Unlimited => stepsDispatched' <= budget.steps)
  <2>1. CASE DispatchWave
    <3>1. Admitted # {} /\ stepsDispatched' = stepsDispatched + Cardinality(Admitted)
      BY <2>1 DEF DispatchWave, Launch
    <3>2. budget.cost # Unlimited => book
      BY <2>1 DEF DispatchWave, InLoop, SpendInv, Early, Terminal
    <3>3. QED
      BY <3>1, <3>2, AdmittedFits
  <2>2. CASE DispatchAdmitted
    <3>1. pc = "exhausted" /\ wave # {} /\ stepsDispatched' = stepsDispatched + Cardinality(wave)
      BY <2>2 DEF DispatchAdmitted, Launch
    <3>2. QED
      BY <3>1 DEF SpendInv, Early, Terminal
  <2>3. QED
    BY <2>1, <2>2, OnlyDispatchOpensWave
<1>2. tokens \in Nat /\ tokens * Rate \in Nat
  BY ConstantsAssumption DEF TypeOK
<1>3. /\ budget.tokens # Unlimited => budget.tokens \in Nat
      /\ budget.cost # Unlimited => budget.cost \in Nat
  BY ConstantsAssumption DEF TypeOK
<1> DEFINE price == tokens * Rate
<1>4. ~SpendExhausted =>
        /\ budget.tokens # Unlimited => ~(tokens >= budget.tokens)
        /\ budget.cost # Unlimited /\ book => ~(price >= budget.cost)
  BY DEF SpendExhausted
<1> HIDE DEF price
<1>5. /\ budget.tokens # Unlimited => tokens < budget.tokens
      /\ budget.cost # Unlimited => price < budget.cost
  BY <1>1, <1>2, <1>3, <1>4 DEF price
<1>6. QED
  BY <1>1, <1>5 DEF price

\* Every wave leaves with budget to spend, the truncated wave too: the gate
\* decides before the gaps' audits and still holds after them.
THEOREM BudgetRespected == Spec => DispatchWithinBudget
<1>1. SagaInv /\ ReportInv /\ [Next]_vars =>
        [pc # "wave" /\ pc' = "wave" =>
           /\ budget.tokens # Unlimited => tokens < budget.tokens
           /\ budget.cost # Unlimited => tokens * Rate < budget.cost
           /\ budget.steps # Unlimited => stepsDispatched' <= budget.steps]_vars
  BY WaveFitsBudget DEF SagaInv, ReportInv
<1>2. QED
  BY <1>1, SagaInvariant, ReportInvariant, PTL DEF Spec, DispatchWithinBudget

-----------------------------------------------------------------------------
(* TaskWorkflow implements the saga contract, step by step.                *)

fates == [s \in Steps |-> Fate(s)]
resolution == <<plan, results, skipped, compensated, failedComps>>

\* The contract's view changes only with the resolution of some step.
LEMMA FatesUnchanged ==
  ASSUME UNCHANGED resolution PROVE UNCHANGED <<fates, plan.deps>>
<1>1. \A s \in Steps : Fate(s)' = Fate(s)
  BY DEF resolution, Fate
<1>2. QED
  BY <1>1 DEF resolution, fates

\* An action that resolves nothing and stays in its phase is a stutter.
LEMMA StutterStep ==
  ASSUME UNCHANGED resolution, Phase' = Phase PROVE UNCHANGED Contract!vars
  BY FatesUnchanged DEF fates, Contract!vars

\* An action that resolves nothing and fails the workflow is an abort.
LEMMA AbortStep ==
  ASSUME UNCHANGED resolution, pc' = "threw" PROVE Contract!Next
<1>1. Phase' = "aborted"
  BY DEF Phase
<1>2. QED
  BY <1>1, FatesUnchanged DEF fates, Contract!Next, Contract!Abort

\* The writes the contract calls applied are the ones still on the stack.
LEMMA AppliedIsStack ==
  ASSUME TypeOK, StackInv PROVE Contract!Applied = stack
<1>1. \A s \in Steps : Fate(s) = "applied" <=> s \in stack
  BY DEF Fate, StackInv, RecordedWrites, TypeOK
<1>2. QED
  BY <1>1 DEF Contract!Applied, TypeOK

\* A step whose gap is written moves from open to lost.
LEMMA SkipStep ==
  ASSUME SagaInv, NEW s \in Unresolved, skipped' = skipped \cup {s}, Phase = "forward",
         Phase' \in {"forward", "aborted"}, compensated = {}, failedComps = {},
         UNCHANGED <<plan, results, compensated, failedComps>>
  PROVE  Contract!Next
<1>1. s \in Steps /\ results[s] = "none" /\ s \notin skipped
  BY DEF Unresolved
<1>2. \A t \in Steps : t # s => Fate(t)' = Fate(t)
  BY DEF Fate
<1>3. Fate(s) = "open" /\ Fate(s)' = "lost"
  BY <1>1 DEF Fate
<1>4. \A t \in Steps : Fate(t) \in {"open", "clean", "applied", "lost"}
  BY DEF Fate
<1>5. \A t \in Steps : fates[t] = Fate(t) /\ fates'[t] = Fate(t)'
  BY DEF fates
<1> HIDE DEF fates
<1>6. /\ \A t \in Steps : fates[t] # "open" => fates'[t] = fates[t]
      /\ \A t \in Steps : fates'[t] \in {"open", "clean", "applied", "lost"}
      /\ \A t \in Steps : ~(fates[t] = "open" /\ fates'[t] \in {"clean", "applied"})
  BY <1>1, <1>2, <1>3, <1>4, <1>5
<1>7. QED
  BY <1>6 DEF fates, Contract!Next, Contract!Advance

\* The join decides the steps of the wave, each after the steps it depends on.
LEMMA JoinAdvances ==
  ASSUME SagaInv, ReportInv, JoinWave PROVE Contract!Next
<1> USE DEF SagaInv, ReportInv, TypeOK, planVars
<1>1. /\ compensated = {} /\ failedComps = {}
      /\ UNCHANGED <<plan, skipped, compensated, failedComps>>
      /\ results' = [s \in Steps |-> IF s \in wave THEN out[s] ELSE results[s]]
      /\ Phase = "forward" /\ Phase' = "forward"
  BY DEF JoinWave, StackInv, Late, Phase
<1>2. \A s \in Steps : s \notin wave => Fate(s)' = Fate(s)
  BY <1>1 DEF Fate
<1>3. \A s \in wave : results[s] = "none" /\ s \notin skipped
  BY DEF GapInv, ChildInv
<1>4. \A s \in wave : Fate(s) = "open"
  BY <1>1, <1>3 DEF Fate
<1>5. \A s \in Steps : Fate(s)' \in {"open", "clean", "applied", "lost"}
  BY <1>1 DEF Fate
<1>6. \A s \in wave : \A d \in plan.deps[s] : d \in Steps /\ results[d] = "completed"
  BY DepsAreSteps DEF DepsInv
<1>7. \A s \in wave : \A d \in plan.deps[s] : d \in Steps /\ Fate(d) \in {"clean", "applied"}
  BY <1>1, <1>6 DEF Fate
<1>8. \A s \in Steps : fates[s] = Fate(s) /\ fates'[s] = Fate(s)'
  BY DEF fates
<1> HIDE DEF fates
<1>9. /\ \A s \in Steps : fates[s] # "open" => fates'[s] = fates[s]
      /\ \A s \in Steps : fates'[s] \in {"open", "clean", "applied", "lost"}
      /\ \A s \in Steps : fates[s] = "open" /\ fates'[s] \in {"clean", "applied"} =>
           \A d \in plan.deps[s] : fates[d] \in {"clean", "applied"}
  BY <1>2, <1>4, <1>5, <1>7, <1>8
<1>10. QED
  BY <1>1, <1>9 DEF fates, Contract!Next, Contract!Advance

\* A compensator takes the top of the stack back, or records it as stuck.
LEMMA CompensatorTakesBack ==
  ASSUME SagaInv, NEW s \in Steps, RunCompensator(s) PROVE Contract!Next
<1> USE DEF SagaInv, TypeOK, planVars
<1>1. /\ s \in stack /\ Phase = "backward" /\ UNCHANGED <<plan, results, skipped>>
      /\ s \notin compensated \cup failedComps
      /\ ~\E t \in stack : PushedAfter(t, s)
  BY DEF RunCompensator, Top, Phase, StackInv
<1>2. \/ compensated' = compensated \cup {s} /\ failedComps' = failedComps /\ Phase' = Phase
      \/ /\ compensated' = compensated /\ failedComps' = failedComps \cup {s}
         /\ Phase' \in {Phase, "aborted"}
  BY DEF RunCompensator, Emit, Phase
<1>3. s \in Contract!Applied
  BY <1>1, AppliedIsStack
<1>4. \A t \in Contract!Applied : s \notin plan.deps[t]
  <2> SUFFICES ASSUME NEW t \in stack, s \in plan.deps[t] PROVE FALSE
    BY AppliedIsStack
  <2>1. waveOf[t] # 0
    BY DEF StackInv, RecordedWrites, ChildInv
  <2>2. waveOf[s] < waveOf[t]
    BY <2>1 DEF DepsInv
  <2>3. QED
    BY <1>1, <2>2 DEF PushedAfter
<1>5. \A t \in Steps : t # s => Fate(t)' = Fate(t)
  BY <1>1, <1>2 DEF Fate
<1>6. \/ Fate(s)' = "undone" /\ Phase' = Phase
      \/ Fate(s)' = "stuck" /\ Phase' \in {Phase, "aborted"}
  BY <1>1, <1>2 DEF Fate
<1>7. \/ fates' = [fates EXCEPT ![s] = "undone"] /\ Phase' = Phase
      \/ fates' = [fates EXCEPT ![s] = "stuck"] /\ Phase' \in {Phase, "aborted"}
  BY <1>5, <1>6 DEF fates
<1>8. Contract!TakeBack(s)
  BY <1>1, <1>3, <1>4, <1>7 DEF fates, Contract!TakeBack
<1>9. QED
  BY <1>8 DEF Contract!Next

\* The unwind is left for good: what is kept is a whole task, what is taken
\* back leaves nothing applied.
LEMMA EndingConcludes ==
  ASSUME SagaInv, ReportInv, BeginUnwind \/ SkipUnwind \/ FinishUnwind PROVE Contract!Next
<1> USE DEF SagaInv, ReportInv, TypeOK, planVars
<1>1. UNCHANGED resolution /\ UNCHANGED <<fates, plan.deps>>
  <2>1. UNCHANGED resolution
    BY DEF BeginUnwind, SkipUnwind, FinishUnwind, resolution, sagaVars, planVars,
           childVars
  <2>2. QED
    BY <2>1, FatesUnchanged
<1>2. CASE pc' = "threw"
  BY <1>1, <1>2, AbortStep
<1>3. CASE BeginUnwind /\ pc' # "threw"
  <2>1. Phase = "forward" /\ Phase' = "backward"
    BY <1>3 DEF BeginUnwind, Emit, LoopOver, Phase
  <2>2. QED
    BY <1>1, <2>1 DEF fates, Contract!Next, Contract!TurnBack
<1>4. CASE SkipUnwind
  <2>1. Phase = "forward" /\ pc' = "completing" /\ trigger' = Trigger
        /\ UNCHANGED results /\ compensated = {} /\ failedComps = {}
    BY <1>4 DEF SkipUnwind, LoopOver, Phase, StackInv, Late
  <2>2. CASE Trigger = "none"
    <3>1. AllCompleted
      BY <2>2 DEF Trigger
    <3>2. Phase' = "kept"
      BY <2>1, <2>2, <3>1 DEF Phase, AllCompleted
    <3>3. \A s \in Steps : fates[s] \in {"clean", "applied"}
      BY <2>1, <3>1 DEF fates, Fate, AllCompleted
    <3>4. QED
      BY <1>1, <2>1, <3>2, <3>3 DEF fates, Contract!Next, Contract!Keep
  <2>3. CASE Trigger # "none"
    <3>1. Phase' = "unwound"
      BY <2>1, <2>3 DEF Phase
    <3>2. Contract!Applied = {}
      BY <1>4, <2>3, AppliedIsStack DEF SkipUnwind
    <3>3. QED
      BY <1>1, <2>1, <3>1, <3>2 DEF fates, Contract!Next, Contract!Conclude
  <2>4. QED
    BY <2>2, <2>3
<1>5. CASE FinishUnwind /\ pc' # "threw"
  <2>1. pc = "unwinding" /\ pc' = "completing" /\ trigger' = trigger /\ stack = {}
    BY <1>5 DEF FinishUnwind, Emit, sagaVars
  <2>2. Phase = "backward" /\ Phase' = "unwound"
    BY <2>1 DEF Phase, ReasonInv
  <2>3. Contract!Applied = {}
    BY <2>1, AppliedIsStack
  <2>4. QED
    BY <1>1, <2>2, <2>3 DEF fates, Contract!Next, Contract!Conclude
<1>6. QED
  BY <1>2, <1>3, <1>4, <1>5

\* Before the first wave: planning, or a task that ends with nothing applied.
LEMMA PreambleSteps ==
  ASSUME SagaInv, ReportInv, TypeOK', Preamble PROVE [Contract!Next]_(Contract!vars)
<1> USE DEF SagaInv, ReportInv, TypeOK, planVars, sagaVars, childVars, waveVars
<1>1. Phase = "forward" /\ \A s \in Steps : results[s] = "none"
  BY DEF Preamble, SnapshotPrincipal, PlanTask, EmitPlanned, GetPriceBook,
     FailClosedAfterPlanned, Phase, EarlyInv, Early
<1>2. ~AllCompleted
  BY <1>1, ConstantsAssumption DEF AllCompleted, Steps
<1>3. Contract!Applied = {}
  BY <1>1, AppliedIsStack DEF StackInv, RecordedWrites
<1>4. CASE PlanTask /\ pc' # "threw"
  <2>1. /\ \A s \in Steps : Fate(s)' = Fate(s)
        /\ Phase' = "forward"
    BY <1>1, <1>4 DEF PlanTask, Fate, Phase
  <2>2. plan'.deps \in [Steps -> SUBSET Steps]
    BY <1>4, ConstantsAssumption DEF PlanTask
  <2>3. QED
    BY <1>1, <1>3, <2>1, <2>2 DEF fates, Contract!Next, Contract!Plan
<1>5. CASE ~PlanTask \/ pc' = "threw"
  <2>1. UNCHANGED resolution
    BY <1>5 DEF Preamble, SnapshotPrincipal, PlanTask, EmitPlanned, GetPriceBook,
       FailClosedAfterPlanned, resolution
  <2>2. CASE pc' = "threw"
    BY <2>1, <2>2, AbortStep
  <2>3. CASE pc' = "done"
    <3>1. Phase' = "unwound"
      BY <1>2, <2>1, <2>3 DEF Phase, AllCompleted, resolution
    <3>2. QED
      BY <1>1, <1>3, <2>1, <3>1, FatesUnchanged DEF fates, Contract!Next,
             Contract!Conclude
  <2>4. CASE pc' \notin {"threw", "done"}
    <3>1. Phase' = "forward"
      BY <1>5, <2>4 DEF Preamble, SnapshotPrincipal, PlanTask, EmitPlanned,
             GetPriceBook, FailClosedAfterPlanned, Emit, Phase
    <3>2. QED
      BY <1>1, <2>1, <3>1, StutterStep
  <2>5. QED
    BY <2>2, <2>3, <2>4
<1>6. QED
  BY <1>4, <1>5

\* The wave loop up to the join: only gaps are new to the contract.
LEMMA LoopSteps ==
  ASSUME SagaInv, ReportInv, Loop PROVE [Contract!Next]_(Contract!vars)
<1> USE DEF SagaInv, ReportInv, TypeOK, planVars, sagaVars, childVars, waveVars
<1>1. CASE StopAtLoopHead \/ NothingReady \/ DispatchWave \/ ExhaustBudget
           \/ DispatchAdmitted \/ NothingAdmitted
  <2>1. UNCHANGED resolution /\ Phase = "forward" /\ Phase' = "forward"
    BY <1>1 DEF StopAtLoopHead, NothingReady, DispatchWave, ExhaustBudget,
           DispatchAdmitted, NothingAdmitted, Launch, InLoop, Phase, resolution
  <2>2. QED
    BY <2>1, StutterStep
<1>2. CASE JoinWave
  BY <1>2, JoinAdvances
<1>3. ASSUME NEW s \in Steps, SkipDependent(s) \/ SkipForBudget(s)
      PROVE  Contract!Next
  <2>1. /\ s \in Unresolved /\ skipped' = skipped \cup {s}
        /\ UNCHANGED <<plan, results, compensated, failedComps>>
    BY <1>3 DEF SkipDependent, SkipForBudget, Dependents
  <2>2. Phase = "forward" /\ Phase' \in {"forward", "aborted"}
        /\ compensated = {} /\ failedComps = {}
    BY <1>3 DEF SkipDependent, SkipForBudget, InLoop, Phase, StackInv, Late
  <2>3. QED
    BY <2>1, <2>2, SkipStep
<1>4. QED
  BY <1>1, <1>2, <1>3 DEF Loop

\* After the loop: the cancelled task's gaps, the unwind and the report.
LEMMA EndingSteps ==
  ASSUME SagaInv, ReportInv, Ending PROVE [Contract!Next]_(Contract!vars)
<1> USE DEF SagaInv, ReportInv, TypeOK, planVars, sagaVars, childVars, waveVars
<1>1. CASE BeginUnwind \/ SkipUnwind \/ FinishUnwind
  BY <1>1, EndingConcludes
<1>2. CASE CompleteTask
  <2>1. UNCHANGED resolution /\ pc = "completing" /\ pc' \in {"done", "threw"}
        /\ UNCHANGED trigger
    BY <1>2 DEF CompleteTask, Emit, resolution
  <2>2. pc' = "done" => Phase' = Phase
    BY <2>1 DEF Phase, AllCompleted, resolution
  <2>3. QED
    BY <2>1, <2>2, AbortStep, StutterStep
<1>3. ASSUME NEW s \in Steps, SkipCancelled(s) PROVE Contract!Next
  <2>1. /\ s \in Unresolved /\ skipped' = skipped \cup {s}
        /\ UNCHANGED <<plan, results, compensated, failedComps>>
    BY <1>3 DEF SkipCancelled
  <2>2. Phase = "forward" /\ Phase' \in {"forward", "aborted"}
        /\ compensated = {} /\ failedComps = {}
    BY <1>3 DEF SkipCancelled, Phase, StackInv, Late
  <2>3. QED
    BY <2>1, <2>2, SkipStep
<1>4. ASSUME NEW s \in Steps, RunCompensator(s) PROVE Contract!Next
  BY <1>4, CompensatorTakesBack
<1>5. QED
  BY <1>1, <1>2, <1>3, <1>4 DEF Ending

\* The children's own steps and an arriving cancel are invisible to the
\* contract.
LEMMA HiddenSteps ==
  ASSUME NEW s \in Steps, Child(s) \/ DeliverCancel(s) \/ RequestCancel \/ UNCHANGED vars
  PROVE  UNCHANGED Contract!vars
<1> USE DEF vars, planVars, sagaVars, childVars, waveVars
<1>1. UNCHANGED resolution /\ UNCHANGED <<pc, trigger>>
  BY DEF Child, PreflightFails, BeginExecute, EndExecute, DeliverCancel,
         RequestCancel, resolution
<1>2. Phase' = Phase
  BY <1>1 DEF Phase, AllCompleted, resolution
<1>3. QED
  BY <1>1, <1>2, StutterStep

\* Every step of the workflow is a step of the contract or leaves it as it is.
LEMMA StepImplements ==
  ASSUME SagaInv, ReportInv, [Next]_vars PROVE [Contract!Next]_(Contract!vars)
<1>1. TypeOK'
  BY NextTypeOK DEF SagaInv
<1>2. 1 \in Steps
  BY ConstantsAssumption DEF Steps
<1>3. QED
  BY <1>1, <1>2, PreambleSteps, LoopSteps, EndingSteps, HiddenSteps
  DEF Next, System, Closed

\* The task starts with every step open.
LEMMA InitImplements == Init => Contract!Init
<1> SUFFICES ASSUME Init PROVE Contract!Init
  OBVIOUS
<1>1. \A s \in Steps : Fate(s) = "open"
  BY DEF Init, Fate
<1>2. Phase = "forward" /\ plan.deps = [s \in Steps |-> {}]
  BY DEF Init, Phase, NoPlan
<1>3. QED
  BY <1>1, <1>2 DEF Contract!Init

\* TaskWorkflow implements the saga contract for every plan and budget: it
\* keeps a whole change or takes every applied write back, dependents first.
THEOREM SagaImplementsContract == Spec => ImplementsContract
  BY InitImplements, StepImplements, SagaInvariant, ReportInvariant, PTL
  DEF Spec, ImplementsContract, Contract!Spec

-----------------------------------------------------------------------------
(* The ledger of the tenants' budgets.                                     *)

\* A task runs only after its call has left admission.
CallBeforeRun ==
  \A k \in Tasks :
    phase[k] \in {"new", "reserving", "starting"} => run[k] = "none"

\* No completion names a task that never ran, and the task's own completion
\* carries what it cost.
MailTruthful ==
  \A m \in mail :
    /\ run[m.task] # "none"
    /\ m.subject = Owner[m.task] /\ m.tenant = m.subject =>
         run[m.task] = "finished" /\ m.cost = cost[m.task]

\* A call that is not past reserve holds nothing yet.
NotYetReserved ==
  \A k \in Tasks :
    phase[k] \in {"new", "reserving"} => reservation[k] = NoReservation

\* A reservation is its owner's and rests on a row that exists.
ReservationRooted ==
  \A k \in Tasks : reservation[k] # NoReservation =>
    /\ reservation[k].tenant = Owner[k]
    /\ row[reservation[k].tenant][reservation[k].period] # NoRow

MarkerIsBooking ==
  \A k \in Tasks : /\ booked[k] # "none" <=> k \in charged
                   /\ k \in charged => run[k] # "none"

\* The inductive invariant.
LedgerInv ==
  /\ BudgetTypeOK /\ CallBeforeRun /\ MailTruthful /\ NotYetReserved
  /\ ReservationRooted /\ OpenIsUncharged /\ MarkerIsBooking

-----------------------------------------------------------------------------
(* The ledger.                                                             *)

\* Giving an estimate back leaves a row a row and its spend alone.
LEMMA ReleasedRow ==
  ASSUME NEW r \in Row, NEW est
  PROVE  /\ Released(r, est) \in Row
         /\ Released(r, est).committed = r.committed
         /\ Released(r, est) # NoRow
BY BudgetAssumption DEF Released, Row

\* A booked row is a row, and its spend has grown by the cost.
LEMMA BookedRow ==
  ASSUME NEW r \in Row, NEW est, NEW actual \in Nat
  PROVE  /\ Spent(r, est, actual) \in Row /\ Spent(r, est, actual) # NoRow
         /\ Spent(r, est, actual).committed = r.committed + actual
<1>1. Released(r, est) \in Row /\ Released(r, est).committed = r.committed
  BY ReleasedRow
<1> QED BY <1>1, BudgetAssumption DEF Row, Spent

\* The row a reservation rests on.
LEMMA RowOfReservation ==
  ASSUME LedgerInv, NEW k \in Tasks, reservation[k] # NoReservation
  PROVE  /\ reservation[k] \in Reservation
         /\ reservation[k].tenant \in Tenants /\ reservation[k].period \in Periods
         /\ reservation[k].tenant = Owner[k]
         /\ row[reservation[k].tenant][reservation[k].period] \in Row
<1>1. reservation[k] \in Reservation
  BY DEF LedgerInv, BudgetTypeOK, LedgerTypes
<1> QED BY <1>1 DEF LedgerInv, BudgetTypeOK, LedgerTypes, ReservationRooted,
       Reservation

---------------------------------------------------------------------------
\* What a step of the database may do, one lemma for each transaction.

\* DbOK collects what every transaction re-establishes.
DbOK == LedgerTypes /\ ReservationRooted /\ OpenIsUncharged

LEMMA ReserveKeeps ==
  ASSUME LedgerInv, NEW k \in Tasks, phase[k] = "reserving",
         row[Owner[k]][call[k].period] # NoRow, ReserveTx(k)
  PROVE  /\ DbOK' /\ UNCHANGED <<charged, booked>>
         /\ \A j \in Tasks \ {k} : reservation'[j] = reservation[j]
         /\ \A t \in Tenants, p \in Periods : Committed(t, p)' = Committed(t, p)
<1> DEFINE t == Owner[k]  p == call[k].period  r == row[t][p]
<1>1. t \in Tenants /\ p \in Periods /\ call[k].est \in Nat
  BY BudgetAssumption DEF LedgerInv, BudgetTypeOK, CallTypes
<1>2. r \in Row
  BY <1>1 DEF LedgerInv, BudgetTypeOK, LedgerTypes
<1>3. [r EXCEPT !.reserved = @ + call[k].est] \in Row
  BY <1>1, <1>2 DEF Row
<1>4. [r EXCEPT !.reserved = @ + call[k].est] # NoRow
  BY <1>3, BudgetAssumption
<1>5. row' = [row EXCEPT ![t][p] = [r EXCEPT !.reserved = @ + call[k].est]]
  BY DEF ReserveTx
<1>6. [tenant |-> t, period |-> p, est |-> call[k].est, aged |-> FALSE]
        \in Reservation
  BY <1>1 DEF Reservation
<1>7. k \notin charged
  BY DEF LedgerInv, CallBeforeRun, MarkerIsBooking
<1>8. LedgerTypes'
  <2>1. row' \in [Tenants -> [Periods -> Row \cup {NoRow}]]
    BY <1>1, <1>3, <1>5 DEF LedgerInv, BudgetTypeOK, LedgerTypes
  <2>2. reservation' \in [Tasks -> Reservation \cup {NoReservation}]
    BY <1>6 DEF LedgerInv, BudgetTypeOK, LedgerTypes, ReserveTx
  <2>3. QED
    BY <2>1, <2>2 DEF LedgerInv, BudgetTypeOK, LedgerTypes, ReserveTx
<1>9. ReservationRooted'
  <2> SUFFICES ASSUME NEW j \in Tasks, reservation'[j] # NoReservation
               PROVE  /\ reservation'[j].tenant = Owner[j]
                      /\ row'[reservation'[j].tenant][reservation'[j].period] # NoRow
    BY DEF ReservationRooted
  <2>1. \A u \in Tenants, q \in Periods : row[u][q] # NoRow => row'[u][q] # NoRow
    BY <1>1, <1>4, <1>5 DEF LedgerInv, BudgetTypeOK, LedgerTypes
  <2>2. row'[t][p] # NoRow
    BY <1>1, <1>4, <1>5 DEF LedgerInv, BudgetTypeOK, LedgerTypes
  <2>3. CASE j = k
    BY <1>6, <2>2, <2>3 DEF LedgerInv, BudgetTypeOK, LedgerTypes, ReserveTx
  <2>4. CASE j # k
    <3>1. reservation'[j] = reservation[j]
      BY <2>4 DEF LedgerInv, BudgetTypeOK, LedgerTypes, ReserveTx
    <3>2. reservation[j] \in Reservation
      BY <3>1 DEF LedgerInv, BudgetTypeOK, LedgerTypes
    <3>3. QED
      BY <2>1, <3>1, <3>2 DEF LedgerInv, ReservationRooted, Reservation
  <2>5. QED
    BY <2>3, <2>4
<1>10. OpenIsUncharged'
  BY <1>7 DEF LedgerInv, OpenIsUncharged, ReserveTx, BudgetTypeOK, LedgerTypes
<1>11. ASSUME NEW u \in Tenants, NEW q \in Periods
       PROVE  Committed(u, q)' = Committed(u, q)
  <2>1. CASE u = t /\ q = p
    BY <1>1, <1>2, <1>4, <1>5, <2>1, BudgetAssumption
    DEF Committed, LedgerInv, BudgetTypeOK, LedgerTypes, Row
  <2>2. CASE ~(u = t /\ q = p)
    BY <1>1, <1>5, <2>2 DEF Committed, LedgerInv, BudgetTypeOK, LedgerTypes
  <2> QED BY <2>1, <2>2
<1> QED BY <1>8, <1>9, <1>10, <1>11 DEF DbOK, ReserveTx, LedgerInv, BudgetTypeOK,
       LedgerTypes

LEMMA ReleaseKeeps ==
  ASSUME LedgerInv, NEW k \in Tasks, ReleaseTx(k)
  PROVE  /\ DbOK' /\ UNCHANGED <<charged, booked>>
         /\ \A j \in Tasks : reservation'[j] \in {reservation[j], NoReservation}
         /\ \A t \in Tenants, p \in Periods : Committed(t, p)' = Committed(t, p)
<1> DEFINE res == reservation[k]
<1>1. CASE res # NoReservation /\ res.tenant = Owner[k]
  <2>1. /\ res.tenant \in Tenants /\ res.period \in Periods
        /\ row[res.tenant][res.period] \in Row
    BY <1>1, RowOfReservation
  <2>2. row' = [row EXCEPT ![res.tenant][res.period] =
                  Released(row[res.tenant][res.period], res.est)]
    BY <1>1, <2>1 DEF ReleaseTx, LedgerInv, BudgetTypeOK, LedgerTypes
  <2>3. reservation' = [reservation EXCEPT ![k] = NoReservation]
    BY <1>1 DEF ReleaseTx
  <2>4. LET b == Released(row[res.tenant][res.period], res.est) IN
        b \in Row /\ b # NoRow /\ b.committed = row[res.tenant][res.period].committed
    BY <2>1, ReleasedRow
  <2>5. LedgerTypes'
    BY <2>1, <2>2, <2>3, <2>4 DEF LedgerInv, BudgetTypeOK, LedgerTypes, ReleaseTx
  <2>6. ReservationRooted' /\ OpenIsUncharged'
    BY <2>1, <2>2, <2>3, <2>4
    DEF LedgerInv, BudgetTypeOK, LedgerTypes, ReservationRooted, OpenIsUncharged,
        ReleaseTx, Reservation
  <2>7. ASSUME NEW u \in Tenants, NEW q \in Periods
        PROVE  Committed(u, q)' = Committed(u, q)
    <3>1. CASE u = res.tenant /\ q = res.period
      BY <2>1, <2>2, <2>4, <3>1, BudgetAssumption
      DEF Committed, LedgerInv, BudgetTypeOK, LedgerTypes
    <3>2. CASE ~(u = res.tenant /\ q = res.period)
      BY <2>1, <2>2, <3>2 DEF Committed, LedgerInv, BudgetTypeOK, LedgerTypes
    <3> QED BY <3>1, <3>2
  <2> QED BY <2>3, <2>5, <2>6, <2>7
          DEF DbOK, ReleaseTx, LedgerInv, BudgetTypeOK, LedgerTypes
<1>2. CASE ~(res # NoReservation /\ res.tenant = Owner[k])
  BY <1>2 DEF ReleaseTx, DbOK, LedgerInv, BudgetTypeOK, LedgerTypes,
     ReservationRooted, OpenIsUncharged, Committed
<1> QED BY <1>1, <1>2

LEMMA ReapKeeps ==
  ASSUME LedgerInv, Reap
  PROVE  /\ DbOK' /\ UNCHANGED <<charged, booked>>
         /\ \A j \in Tasks : reservation'[j] \in {reservation[j], NoReservation}
         /\ \A t \in Tenants, p \in Periods : Committed(t, p)' = Committed(t, p)
<1> DEFINE gone(t, p) == Held(t, p) \cap Aged
<1>1. \A t \in Tenants, p \in Periods : gone(t, p) # {} => row[t][p] \in Row
  <2> SUFFICES ASSUME NEW t \in Tenants, NEW p \in Periods,
                      NEW k \in gone(t, p)
               PROVE  row[t][p] \in Row
    OBVIOUS
  <2>1. k \in Tasks /\ reservation[k] # NoReservation
        /\ reservation[k].tenant = t /\ reservation[k].period = p
    BY DEF Held
  <2> QED BY <2>1, RowOfReservation
<1>2. \A t \in Tenants, p \in Periods :
        row'[t][p] = IF gone(t, p) = {} THEN row[t][p]
          ELSE Released(row[t][p], SumFunctionOnSet(Estimate, gone(t, p)))
  BY DEF Reap
<1>3. \A t \in Tenants, p \in Periods :
        /\ row'[t][p] \in Row \cup {NoRow}
        /\ row'[t][p] = NoRow <=> row[t][p] = NoRow
        /\ row'[t][p] # NoRow => row'[t][p].committed = row[t][p].committed
  <2> SUFFICES ASSUME NEW t \in Tenants, NEW p \in Periods
               PROVE  /\ row'[t][p] \in Row \cup {NoRow}
                      /\ row'[t][p] = NoRow <=> row[t][p] = NoRow
                      /\ row'[t][p] # NoRow =>
                           row'[t][p].committed = row[t][p].committed
    OBVIOUS
  <2>1. CASE gone(t, p) = {}
    BY <1>2, <2>1 DEF LedgerInv, BudgetTypeOK, LedgerTypes
  <2>2. CASE gone(t, p) # {}
    <3>1. row[t][p] \in Row /\ row[t][p] # NoRow
      BY <1>1, <2>2, BudgetAssumption
    <3>2. PICK est : row'[t][p] = Released(row[t][p], est)
      BY <1>2, <2>2
    <3> QED BY <3>1, <3>2, ReleasedRow
  <2> QED BY <2>1, <2>2
<1>4. reservation' = [k \in Tasks |->
        IF k \in Aged THEN NoReservation ELSE reservation[k]]
  BY DEF Reap
<1>5. row' \in [Tenants -> [Periods -> Row \cup {NoRow}]]
  <2>1. row' = [t \in Tenants |-> [p \in Periods |-> row'[t][p]]]
    BY DEF Reap
  <2> QED BY <1>3, <2>1
<1>6. LedgerTypes'
  BY <1>4, <1>5 DEF LedgerInv, BudgetTypeOK, LedgerTypes, Reap
<1>7. ReservationRooted'
  BY <1>3, <1>4 DEF LedgerInv, BudgetTypeOK, LedgerTypes, ReservationRooted,
         Reservation
<1>8. OpenIsUncharged'
  BY <1>4 DEF LedgerInv, OpenIsUncharged, Reap
<1>9. \A t \in Tenants, p \in Periods : Committed(t, p)' = Committed(t, p)
  BY <1>3 DEF Committed
<1> QED BY <1>4, <1>6, <1>7, <1>8, <1>9 DEF DbOK, Reap

\* The marker, the spend and the reservation move together or not at all.
LEMMA ChargeKeeps ==
  ASSUME LedgerInv, NEW m \in mail, Apply(m), UNCHANGED run
  PROVE  /\ DbOK' /\ MarkerIsBooking'
         /\ \A j \in Tasks : reservation'[j] \in {reservation[j], NoReservation}
         /\ BookingStep
<1> DEFINE k == m.task  res == reservation[k]
<1>1. k \in Tasks /\ m.cost \in Nat /\ run[k] # "none"
  BY DEF LedgerInv, BudgetTypeOK, WorldTypes, MailTruthful, Completion
<1>2. CASE UNCHANGED db
  BY <1>2 DEF db, DbOK, LedgerInv, BudgetTypeOK, LedgerTypes, ReservationRooted,
     OpenIsUncharged, MarkerIsBooking, BookingStep, Committed
<1>3. CASE /\ res = NoReservation /\ charged' = charged \cup {k}
           /\ booked' = [booked EXCEPT ![k] = "uncapped"]
           /\ UNCHANGED <<row, reservation, peak>>
  <2>1. DbOK'
    BY <1>1, <1>3 DEF DbOK, LedgerInv, BudgetTypeOK, LedgerTypes,
       ReservationRooted, OpenIsUncharged
  <2>2. MarkerIsBooking'
    BY <1>1, <1>3 DEF LedgerInv, BudgetTypeOK, LedgerTypes, MarkerIsBooking
  <2>3. BookingStep
    BY <1>3 DEF BookingStep, Committed
  <2> QED BY <1>3, <2>1, <2>2, <2>3
<1>4. CASE /\ m.subject = m.tenant /\ k \notin charged
           /\ res # NoReservation /\ res.tenant = m.subject
           /\ Book(k, res, m.cost)
  <2>1. /\ res.tenant \in Tenants /\ res.period \in Periods
        /\ res.tenant = Owner[k] /\ row[res.tenant][res.period] \in Row
    BY <1>1, <1>4, RowOfReservation
  <2> DEFINE b == Spent(row[res.tenant][res.period], res.est, m.cost)
  <2>2. /\ b \in Row /\ b # NoRow
        /\ b.committed = row[res.tenant][res.period].committed + m.cost
    BY <1>1, <2>1, BookedRow
  <2>3. /\ row' = [row EXCEPT ![res.tenant][res.period] = b]
        /\ reservation' = [reservation EXCEPT ![k] = NoReservation]
        /\ charged' = charged \cup {k}
        /\ booked' = [booked EXCEPT ![k] = "committed"]
        /\ peak' = peak
    BY <1>4, <2>1 DEF Book, LedgerInv, BudgetTypeOK, LedgerTypes
  <2> HIDE DEF b
  <2>4. LedgerTypes'
    BY <1>1, <2>1, <2>2, <2>3 DEF LedgerInv, BudgetTypeOK, LedgerTypes
  <2>5. ReservationRooted'
    BY <1>1, <2>1, <2>2, <2>3
    DEF LedgerInv, BudgetTypeOK, LedgerTypes, ReservationRooted, Reservation
  <2>6. OpenIsUncharged'
    BY <1>1, <2>3 DEF LedgerInv, BudgetTypeOK, LedgerTypes, OpenIsUncharged
  <2>7. MarkerIsBooking'
    BY <1>1, <2>3 DEF LedgerInv, BudgetTypeOK, LedgerTypes, MarkerIsBooking
  <2>8. BookingStep
    <3> SUFFICES ASSUME NEW u \in Tenants, NEW q \in Periods,
                        Committed(u, q)' # Committed(u, q)
                 PROVE  k \in Held(u, q) /\ BookedBy(k, u, q)
      BY DEF BookingStep
    <3>1. u = res.tenant /\ q = res.period
      BY <2>1, <2>3 DEF Committed, LedgerInv, BudgetTypeOK, LedgerTypes
    <3>2. k \in Held(u, q)
      BY <1>1, <1>4, <3>1 DEF Held
    <3>3. run[k] = "finished" /\ m.cost = cost[k]
      BY <1>4, <2>1 DEF LedgerInv, MailTruthful
    <3>4. booked[k] = "none" /\ booked'[k] = "committed"
          /\ reservation'[k] = NoReservation
      BY <1>1, <1>4, <2>3 DEF LedgerInv, BudgetTypeOK, LedgerTypes, MarkerIsBooking
    <3>5. Committed(u, q)' = Committed(u, q) + cost[k]
      BY <2>1, <2>2, <2>3, <3>1, <3>3, BudgetAssumption
      DEF Committed, LedgerInv, BudgetTypeOK, LedgerTypes
    <3> QED BY <2>1, <3>1, <3>2, <3>3, <3>4, <3>5 DEF BookedBy
  <2> QED BY <1>1, <2>3, <2>4, <2>5, <2>6, <2>7, <2>8
          DEF DbOK, LedgerInv, BudgetTypeOK, LedgerTypes
<1> QED BY <1>2, <1>3, <1>4 DEF Apply, CommitCharge

\* A cap that is set or changed leaves spend and reservations alone.
LEMMA UpsertKeeps ==
  ASSUME LedgerInv, NEW t \in Tenants, UpsertCap(t)
  PROVE  /\ DbOK'
         /\ \A u \in Tenants, p \in Periods : Committed(u, p)' = Committed(u, p)
<1> DEFINE r == row[t][now]
           b == IF r = NoRow
                  THEN [cap |-> caps[t], committed |-> 0, reserved |-> 0]
                  ELSE [r EXCEPT !.cap = caps[t]]
<1>1. now \in Periods /\ caps[t] \in Nat /\ r \in Row \cup {NoRow}
      /\ peak[t][now] \in Nat
  BY BudgetAssumption
  DEF UpsertCap, LedgerInv, BudgetTypeOK, WorldTypes, LedgerTypes
<1>2. b \in Row /\ b # NoRow
  BY <1>1, BudgetAssumption DEF Row
<1>3. b.committed = IF r = NoRow THEN 0 ELSE r.committed
  BY <1>1 DEF Row
<1>4. row' = [row EXCEPT ![t][now] = b]
  BY <1>1 DEF UpsertCap, LedgerInv, BudgetTypeOK, LedgerTypes
<1> HIDE DEF b
<1>5. LedgerTypes'
  <2>1. row' \in [Tenants -> [Periods -> Row \cup {NoRow}]]
    BY <1>1, <1>2, <1>4 DEF LedgerInv, BudgetTypeOK, LedgerTypes
  <2>2. peak' \in [Tenants -> [Periods -> Nat]]
    BY <1>1 DEF UpsertCap, LedgerInv, BudgetTypeOK, LedgerTypes
  <2> QED BY <2>1, <2>2 DEF UpsertCap, LedgerInv, BudgetTypeOK, LedgerTypes
<1>6. ReservationRooted'
  BY <1>1, <1>2, <1>4 DEF UpsertCap, LedgerInv, BudgetTypeOK, LedgerTypes,
     ReservationRooted, Reservation
<1>7. OpenIsUncharged'
  BY DEF UpsertCap, LedgerInv, OpenIsUncharged
<1>8. ASSUME NEW u \in Tenants, NEW p \in Periods
      PROVE  Committed(u, p)' = Committed(u, p)
  <2>1. CASE u = t /\ p = now
    BY <1>1, <1>2, <1>3, <1>4, <2>1 DEF Committed, LedgerInv, BudgetTypeOK,
           LedgerTypes
  <2>2. CASE ~(u = t /\ p = now)
    BY <1>1, <1>4, <2>2 DEF Committed, LedgerInv, BudgetTypeOK, LedgerTypes
  <2> QED BY <2>1, <2>2
<1> QED BY <1>5, <1>6, <1>7, <1>8 DEF DbOK

LEMMA AgeKeeps ==
  ASSUME LedgerInv, NEW k \in Tasks, Age(k)
  PROVE  /\ DbOK'
         /\ \A j \in Tasks : reservation[j] = NoReservation =>
                               reservation'[j] = NoReservation
<1>1. reservation[k] \in Reservation
  BY RowOfReservation DEF Age
<1>2. [reservation[k] EXCEPT !.aged = TRUE] \in Reservation
      /\ reservation' = [reservation EXCEPT ![k] =
                           [reservation[k] EXCEPT !.aged = TRUE]]
  BY <1>1 DEF Age, Reservation, LedgerInv, BudgetTypeOK, LedgerTypes
<1> QED BY <1>1, <1>2 DEF Age, DbOK, LedgerInv, BudgetTypeOK, LedgerTypes,
        ReservationRooted, OpenIsUncharged, Reservation

---------------------------------------------------------------------------
\* The steps of a call up to the start change no table but through ReserveTx.
LEMMA IntakeKeeps ==
  ASSUME LedgerInv, NEW k \in Tasks, Intake(k)
  PROVE  LedgerInv' /\ BookingStep
<1> USE DEF db, gateway, world, config
<1>1. CASE RefuseEarly(k) \/ ReserveRefused(k) \/ GatewayCrash(k)
  <2>1. LedgerTypes' /\ ReservationRooted' /\ OpenIsUncharged' /\ BookingStep
    BY <1>1 DEF RefuseEarly, ReserveRefused, GatewayCrash, LedgerInv, BudgetTypeOK,
           LedgerTypes, ReservationRooted, OpenIsUncharged, BookingStep, Committed
  <2>2. CallTypes' /\ WorldTypes'
    BY <1>1 DEF RefuseEarly, ReserveRefused, GatewayCrash, LedgerInv, BudgetTypeOK,
           CallTypes, WorldTypes
  <2>3. CallBeforeRun' /\ NotYetReserved'
    BY <1>1 DEF RefuseEarly, ReserveRefused, GatewayCrash, LedgerInv, BudgetTypeOK,
           CallTypes, WorldTypes, CallBeforeRun, NotYetReserved
  <2>4. MailTruthful' /\ MarkerIsBooking'
    BY <1>1 DEF RefuseEarly, ReserveRefused, GatewayCrash, LedgerInv, BudgetTypeOK,
           LedgerTypes, WorldTypes, Completion, CallBeforeRun, MailTruthful,
           MarkerIsBooking
  <2> QED BY <2>1, <2>2, <2>3, <2>4 DEF LedgerInv, BudgetTypeOK
<1>2. CASE Submit(k)
  BY <1>2, BudgetAssumption DEF Submit, LedgerInv, BudgetTypeOK,
     LedgerTypes, CallTypes, WorldTypes, CallBeforeRun, MailTruthful,
     NotYetReserved, ReservationRooted, OpenIsUncharged, MarkerIsBooking,
     BookingStep, Committed
<1>3. CASE ReserveNoCap(k)
  BY <1>3 DEF ReserveNoCap, LedgerInv, BudgetTypeOK,
     LedgerTypes, CallTypes, WorldTypes, CallBeforeRun, MailTruthful,
     NotYetReserved, ReservationRooted, OpenIsUncharged, MarkerIsBooking,
     BookingStep, Committed
<1>4. CASE StartTask(k) \/ StartFails(k)
  <2>1. LedgerTypes' /\ ReservationRooted' /\ OpenIsUncharged' /\ BookingStep
    BY <1>4 DEF StartTask, StartFails, LedgerInv, BudgetTypeOK, LedgerTypes,
       ReservationRooted, OpenIsUncharged, BookingStep, Committed
  <2>2. CallTypes' /\ WorldTypes'
    BY <1>4 DEF StartTask, StartFails, LedgerInv, BudgetTypeOK, CallTypes,
       WorldTypes
  <2>3. CallBeforeRun' /\ NotYetReserved'
    BY <1>4 DEF StartTask, StartFails, LedgerInv, BudgetTypeOK, CallTypes,
       WorldTypes, CallBeforeRun, NotYetReserved
  <2>4. MailTruthful' /\ MarkerIsBooking'
    BY <1>4 DEF StartTask, StartFails, LedgerInv, BudgetTypeOK, LedgerTypes,
       WorldTypes, Completion, CallBeforeRun, MailTruthful, MarkerIsBooking
  <2> QED BY <2>1, <2>2, <2>3, <2>4 DEF LedgerInv, BudgetTypeOK
<1>5. CASE ReserveOk(k)
  <2>1. /\ DbOK' /\ UNCHANGED <<charged, booked>>
        /\ \A j \in Tasks \ {k} : reservation'[j] = reservation[j]
        /\ \A t \in Tenants, p \in Periods : Committed(t, p)' = Committed(t, p)
    BY <1>5, ReserveKeeps DEF ReserveOk
  <2>2. CallTypes' /\ WorldTypes'
    BY <1>5 DEF ReserveOk, LedgerInv, BudgetTypeOK, CallTypes, WorldTypes
  <2>3. CallBeforeRun' /\ MailTruthful' /\ MarkerIsBooking'
    BY <1>5, <2>1 DEF ReserveOk, LedgerInv, BudgetTypeOK, CallTypes, CallBeforeRun,
       MailTruthful, MarkerIsBooking
  <2>4. NotYetReserved'
    BY <1>5, <2>1 DEF ReserveOk, LedgerInv, BudgetTypeOK, CallTypes, NotYetReserved
  <2> QED BY <2>1, <2>2, <2>3, <2>4 DEF LedgerInv, BudgetTypeOK, DbOK, BookingStep
<1>6. CASE Release(k)
  <2>1. /\ DbOK' /\ UNCHANGED <<charged, booked>>
        /\ \A j \in Tasks : reservation'[j] \in {reservation[j], NoReservation}
        /\ \A t \in Tenants, p \in Periods : Committed(t, p)' = Committed(t, p)
    <3>1. CASE ReleaseTx(k)
      BY <3>1, ReleaseKeeps
    <3>2. CASE UNCHANGED db
      BY <3>2 DEF DbOK, LedgerInv, BudgetTypeOK, LedgerTypes, ReservationRooted,
         OpenIsUncharged, Committed
    <3> QED BY <1>6, <3>1, <3>2 DEF Release
  <2>2. CallTypes' /\ WorldTypes'
    BY <1>6 DEF Release, LedgerInv, BudgetTypeOK, CallTypes, WorldTypes
  <2>3. CallBeforeRun' /\ MailTruthful' /\ MarkerIsBooking'
    BY <1>6, <2>1 DEF Release, LedgerInv, BudgetTypeOK, CallTypes, CallBeforeRun,
       MailTruthful, MarkerIsBooking
  <2>4. NotYetReserved'
    BY <1>6, <2>1 DEF Release, LedgerInv, BudgetTypeOK, CallTypes, NotYetReserved
  <2> QED BY <2>1, <2>2, <2>3, <2>4 DEF LedgerInv, BudgetTypeOK, DbOK, BookingStep
<1> QED BY <1>1, <1>2, <1>3, <1>4, <1>5, <1>6 DEF Intake

\* The workflow's end, a stray completion, and the passage of time.
LEMMA WorldKeeps ==
  ASSUME LedgerInv,
         \/ \E k \in Tasks : Finish(k) \/ Stray(k)
         \/ ReloadCaps \/ Rollover
  PROVE  LedgerInv' /\ BookingStep
<1> USE DEF db, gateway, world, config
<1>1. LedgerTypes' /\ CallTypes' /\ NotYetReserved' /\ ReservationRooted'
      /\ OpenIsUncharged' /\ BookingStep
  BY DEF Finish, Stray, ReloadCaps, Rollover, LedgerInv, BudgetTypeOK, LedgerTypes,
     CallTypes, NotYetReserved, ReservationRooted, OpenIsUncharged,
     BookingStep, Committed
<1>2. ASSUME NEW k \in Tasks, Finish(k)
      PROVE  WorldTypes' /\ CallBeforeRun' /\ MailTruthful' /\ MarkerIsBooking'
  <2>1. PICK c \in Costs :
          /\ cost' = [cost EXCEPT ![k] = c]
          /\ mail' \in {mail, mail \cup {[task |-> k, subject |-> Owner[k],
                                          tenant |-> Owner[k], cost |-> c]}}
    BY <1>2 DEF Finish
  <2>2. /\ Owner[k] \in Tenants /\ c \in Nat
        /\ run[k] = "running" /\ run' = [run EXCEPT ![k] = "finished"]
    BY <1>2, <2>1, BudgetAssumption DEF Finish
  <2>3. WorldTypes'
    BY <1>2, <2>1, <2>2 DEF Finish, LedgerInv, BudgetTypeOK, WorldTypes, Completion
  <2>4. CallBeforeRun' /\ MarkerIsBooking'
    BY <1>2, <2>2 DEF Finish, LedgerInv, BudgetTypeOK, WorldTypes, CallBeforeRun,
       MarkerIsBooking
  <2>5. MailTruthful'
    <3> SUFFICES ASSUME NEW m \in mail'
                 PROVE  /\ run'[m.task] # "none"
                        /\ m.subject = Owner[m.task] /\ m.tenant = m.subject =>
                             run'[m.task] = "finished" /\ m.cost = cost'[m.task]
      BY DEF MailTruthful
    <3>1. CASE m \in mail
      <4>1. m.task \in Tasks
        BY <3>1 DEF LedgerInv, BudgetTypeOK, WorldTypes, Completion
      <4>2. m.task = k => ~(m.subject = Owner[m.task] /\ m.tenant = m.subject)
        BY <2>2, <3>1 DEF LedgerInv, MailTruthful
      <4> QED BY <2>1, <2>2, <3>1, <4>1, <4>2
              DEF LedgerInv, BudgetTypeOK, WorldTypes, MailTruthful
    <3>2. CASE m = [task |-> k, subject |-> Owner[k],
                    tenant |-> Owner[k], cost |-> c]
      BY <2>1, <2>2, <3>2 DEF LedgerInv, BudgetTypeOK, WorldTypes
    <3> QED BY <2>1, <3>1, <3>2
  <2> QED BY <2>3, <2>4, <2>5
<1>3. ASSUME NEW k \in Tasks, Stray(k)
      PROVE  WorldTypes' /\ CallBeforeRun' /\ MailTruthful' /\ MarkerIsBooking'
  <2>1. PICK s \in Tenants, t \in Tenants, c \in Costs :
          /\ <<s, t>> # <<Owner[k], Owner[k]>>
          /\ mail' = mail \cup {[task |-> k, subject |-> s, tenant |-> t,
                                 cost |-> c]}
    BY <1>3 DEF Stray
  <2>2. WorldTypes'
    BY <1>3, <2>1, BudgetAssumption
    DEF Stray, LedgerInv, BudgetTypeOK, WorldTypes, Completion
  <2>3. CallBeforeRun' /\ MarkerIsBooking'
    BY <1>3 DEF Stray, LedgerInv, CallBeforeRun, MarkerIsBooking
  <2>4. MailTruthful'
    BY <1>3, <2>1 DEF Stray, LedgerInv, MailTruthful
  <2> QED BY <2>2, <2>3, <2>4
<1>4. ASSUME ReloadCaps \/ Rollover
      PROVE  WorldTypes' /\ CallBeforeRun' /\ MailTruthful' /\ MarkerIsBooking'
  BY <1>4, BudgetAssumption DEF ReloadCaps, Rollover, LedgerInv, BudgetTypeOK,
     WorldTypes, Periods, CallBeforeRun, MailTruthful, MarkerIsBooking
<1> QED BY <1>1, <1>2, <1>3, <1>4 DEF LedgerInv, BudgetTypeOK

\* The consumer and the reaper.
LEMMA LedgerKeeps ==
  ASSUME LedgerInv,
         \/ \E m \in mail : Deliver(m) \/ DeliverUnacked(m)
         \/ \E t \in Tenants : UpsertCap(t)
         \/ \E k \in Tasks : Age(k)
         \/ Reap
  PROVE  LedgerInv' /\ BookingStep
<1> USE DEF gateway, world, config
<1>1. CallTypes' /\ CallBeforeRun'
  BY DEF Deliver, DeliverUnacked, UpsertCap, Age, Reap, LedgerInv, BudgetTypeOK,
     CallTypes, CallBeforeRun
<1>2. WorldTypes' /\ MailTruthful'
  BY DEF Deliver, DeliverUnacked, UpsertCap, Age, Reap, LedgerInv, BudgetTypeOK,
     WorldTypes, MailTruthful
<1>3. DbOK' /\ MarkerIsBooking' /\ BookingStep /\ NotYetReserved'
  <2>1. ASSUME NEW m \in mail, Deliver(m) \/ DeliverUnacked(m)
        PROVE  DbOK' /\ MarkerIsBooking' /\ BookingStep /\ NotYetReserved'
    <3>1. Apply(m) /\ UNCHANGED <<run, phase>>
      BY <2>1 DEF Deliver, DeliverUnacked
    <3> QED BY <3>1, ChargeKeeps DEF LedgerInv, NotYetReserved
  <2>2. ASSUME NEW t \in Tenants, UpsertCap(t)
        PROVE  DbOK' /\ MarkerIsBooking' /\ BookingStep /\ NotYetReserved'
    BY <2>2, UpsertKeeps DEF UpsertCap, LedgerInv, NotYetReserved,
       MarkerIsBooking, BookingStep
  <2>3. ASSUME NEW k \in Tasks, Age(k)
        PROVE  DbOK' /\ MarkerIsBooking' /\ BookingStep /\ NotYetReserved'
    BY <2>3, AgeKeeps DEF Age, LedgerInv, NotYetReserved,
       MarkerIsBooking, BookingStep, Committed
  <2>4. ASSUME Reap
        PROVE  DbOK' /\ MarkerIsBooking' /\ BookingStep /\ NotYetReserved'
    BY <2>4, ReapKeeps DEF Reap, LedgerInv, NotYetReserved,
       MarkerIsBooking, BookingStep
  <2> QED BY <2>1, <2>2, <2>3, <2>4
<1> QED BY <1>1, <1>2, <1>3 DEF LedgerInv, BudgetTypeOK, DbOK

---------------------------------------------------------------------------
LEMMA LedgerStep == LedgerInv /\ [BudgetNext]_budgetVars => LedgerInv' /\ BookingStep
<1> SUFFICES ASSUME LedgerInv, [BudgetNext]_budgetVars PROVE LedgerInv' /\ BookingStep
  OBVIOUS
<1>1. CASE UNCHANGED budgetVars
  BY <1>1 DEF budgetVars, db, gateway, world, config, LedgerInv, BudgetTypeOK,
     LedgerTypes, CallTypes, WorldTypes, CallBeforeRun, MailTruthful,
     NotYetReserved, ReservationRooted, OpenIsUncharged, MarkerIsBooking,
     BookingStep, Committed
<1>2. CASE BudgetNext
  BY <1>2, IntakeKeeps, WorldKeeps, LedgerKeeps DEF BudgetNext
<1> QED BY <1>1, <1>2

\* The inductive invariant holds of every behaviour of the ledger.
THEOREM LedgerInvariant == BudgetSpec => []LedgerInv
<1>1. BudgetInit => LedgerInv
  BY BudgetAssumption DEF BudgetInit, LedgerInv, BudgetTypeOK,
     LedgerTypes, CallTypes, WorldTypes, CallBeforeRun, MailTruthful, Periods,
     NotYetReserved, ReservationRooted, OpenIsUncharged, MarkerIsBooking
<1> QED BY <1>1, LedgerStep, PTL DEF BudgetSpec

\* Every table and every call keeps its type, for any tenants, tasks and caps.
THEOREM LedgerTypeCorrect == BudgetSpec => []BudgetTypeOK
<1>1. LedgerInv => BudgetTypeOK
  BY DEF LedgerInv
<1> QED BY <1>1, LedgerInvariant, PTL

\* A task that holds a reservation has not been charged: commitCharge deletes
\* the one when it inserts the other, and refuses foreign completions whole.
THEOREM OpenUncharged == BudgetSpec => []OpenIsUncharged
<1>1. LedgerInv => OpenIsUncharged
  BY DEF LedgerInv
<1> QED BY <1>1, LedgerInvariant, PTL

\* commitCharge books exactly once: committed moves only by the whole cost of
\* one finished task of the tenant, in the month of its reservation.
THEOREM BookedOnce == BudgetSpec => OneBooking
<1>1. LedgerInv /\ [BudgetNext]_budgetVars => [BookingStep]_budgetVars
  BY LedgerStep
<1> QED BY <1>1, LedgerInvariant, PTL DEF BudgetSpec, OneBooking

\* An open reservation is settled by its own task: every table is typed and no
\* task holds a reservation and a charge marker at once.
THEOREM OwnSettlement == BudgetSpec => []SettlesItsOwn
<1>1. BudgetTypeOK /\ OpenIsUncharged => SettlesItsOwn
  BY DEF SettlesItsOwn
<1> QED BY <1>1, LedgerTypeCorrect, OpenUncharged, PTL

-----------------------------------------------------------------------------
(* The sums: what the rows hold reserved, and what admission lets through. *)

Open(t, p) == SumFunctionOnSet(Estimate, Held(t, p))
Over(t, p) == SumFunctionOnSet(Overrun, BookedIn(t, p))

\* A row holds reserved what its open reservations hold back, and admission
\* has kept it below its highest cap but for the overruns.
ExactRow(t, p) ==
  IF row[t][p] = NoRow THEN Held(t, p) = {}
  ELSE /\ row[t][p].reserved = Open(t, p)
       /\ row[t][p].cap <= peak[t][p]
       /\ row[t][p].committed + row[t][p].reserved <= peak[t][p] + Over(t, p)

\* A reservation is what its call computed.
CallHeld ==
  \A k \in Tasks : reservation[k] # NoReservation =>
    reservation[k].est = call[k].est /\ reservation[k].period = call[k].period

\* Only a finished task's cost has been booked to a row.
BookedFinished == \A k \in Tasks : booked[k] = "committed" => run[k] = "finished"

ExactInv == (\A t \in Tenants, p \in Periods : ExactRow(t, p)) /\ CallHeld /\ BookedFinished

\* Reservations of a row are finitely many and hold back naturals.
LEMMA OpenType ==
  ASSUME LedgerTypes, NEW t, NEW p
  PROVE  /\ IsFiniteSet(Held(t, p)) /\ \A k \in Tasks : Estimate[k] \in Nat
         /\ Open(t, p) \in Nat /\ (Held(t, p) = {} => Open(t, p) = 0)
<1>1. Held(t, p) \in SUBSET Tasks /\ IsFiniteSet(Held(t, p))
  BY FS_Subset, BudgetAssumption DEF Held
<1>2. \A k \in Tasks : Estimate[k] \in Nat
  BY DEF LedgerTypes, Estimate, Reservation
<1>3. QED
  BY <1>1, <1>2, SumType DEF Open

LEMMA OverType ==
  ASSUME WorldTypes, CallTypes, NEW t, NEW p
  PROVE  /\ IsFiniteSet(BookedIn(t, p)) /\ \A k \in Tasks : Overrun[k] \in Nat
         /\ Over(t, p) \in Nat
<1>1. BookedIn(t, p) \in SUBSET Tasks /\ IsFiniteSet(BookedIn(t, p))
  BY FS_Subset, BudgetAssumption DEF BookedIn
<1>2. \A k \in Tasks : Overrun[k] \in Nat
  BY DEF WorldTypes, CallTypes, Overrun
<1>3. QED
  BY <1>1, <1>2, SumType DEF Over

\* A row's reservations that stay hold back what they held.
LEMMA OpenStays ==
  ASSUME LedgerTypes, LedgerTypes', NEW t, NEW p, Held(t, p)' = Held(t, p),
         \A k \in Held(t, p) : reservation'[k].est = reservation[k].est
  PROVE  Open(t, p)' = Open(t, p)
<1> DEFINE e == Estimate  f == Estimate'  H == Held(t, p)
<1>1. IsFiniteSet(H) /\ \A k \in H : e[k] \in Nat /\ e[k] = f[k]
  <2>1. H \subseteq Tasks /\ \A k \in H : reservation[k] # NoReservation
                                        /\ reservation'[k] # NoReservation
    BY DEF Held
  <2>2. QED
    BY <2>1, OpenType DEF Estimate
<1>2. Open(t, p) = SumFunctionOnSet(e, H) /\ Open(t, p)' = SumFunctionOnSet(f, H)
  BY DEF Open
<1> HIDE DEF e, f, H
<1>3. QED
  BY <1>1, <1>2, SumSame

\* A new reservation adds its estimate.
LEMMA OpenGains ==
  ASSUME LedgerTypes, LedgerTypes', NEW t, NEW p, NEW k \in Tasks,
         k \notin Held(t, p), Held(t, p)' = Held(t, p) \cup {k},
         \A j \in Held(t, p) : reservation'[j] = reservation[j]
  PROVE  Open(t, p)' = Open(t, p) + reservation'[k].est
<1> DEFINE e == Estimate  f == Estimate'  H == Held(t, p)
<1>1. IsFiniteSet(H) /\ \A j \in H : e[j] \in Nat /\ e[j] = f[j]
  <2>1. H \subseteq Tasks
    BY DEF Held
  <2>2. QED
    BY <2>1, OpenType DEF Estimate
<1>2. \A j \in H \cup {k} : f[j] \in Nat
  <2>1. f[k] \in Nat
    BY DEF LedgerTypes, Estimate, Reservation
  <2> HIDE DEF f
  <2>2. QED
    BY <1>1, <2>1
<1>3. f[k] = reservation'[k].est
  BY DEF Held, Estimate
<1>4. /\ Open(t, p) = SumFunctionOnSet(e, H)
      /\ Open(t, p)' = SumFunctionOnSet(f, H \cup {k})
  BY DEF Open
<1>5. k \notin H
  OBVIOUS
<1> HIDE DEF e, f, H
<1>6. SumFunctionOnSet(f, H \cup {k}) = f[k] + SumFunctionOnSet(f, H)
  BY <1>1, <1>2, <1>5, SumAdd
<1>7. SumFunctionOnSet(e, H) = SumFunctionOnSet(f, H)
  BY <1>1, SumSame
<1>8. SumFunctionOnSet(f, H) \in Nat /\ f[k] \in Nat
  BY <1>1, <1>2, SumType
<1>9. QED
  BY <1>3, <1>4, <1>6, <1>7, <1>8

\* Reservations that go take their estimates with them.
LEMMA OpenLoses ==
  ASSUME LedgerTypes, LedgerTypes', NEW t, NEW p, NEW G \in SUBSET Held(t, p),
         Held(t, p)' = Held(t, p) \ G,
         \A j \in Held(t, p) \ G : reservation'[j] = reservation[j]
  PROVE  /\ SumFunctionOnSet(Estimate, G) \in Nat /\ Open(t, p)' \in Nat
         /\ Open(t, p) = Open(t, p)' + SumFunctionOnSet(Estimate, G)
<1> DEFINE e == Estimate  f == Estimate'  H == Held(t, p)
<1>1. IsFiniteSet(H) /\ \A j \in H : e[j] \in Nat
  <2>1. H \subseteq Tasks
    BY DEF Held
  <2>2. QED
    BY <2>1, OpenType
<1>2. IsFiniteSet(G) /\ IsFiniteSet(H \ G)
  BY <1>1, FS_Subset
<1>3. \A j \in H \ G : e[j] = f[j]
  BY DEF Held, Estimate
<1>4. /\ Open(t, p) = SumFunctionOnSet(e, H)
      /\ Open(t, p)' = SumFunctionOnSet(f, H \ G)
  BY DEF Open
<1>5. G \in SUBSET H
  OBVIOUS
<1> HIDE DEF e, f, H
<1>6. SumFunctionOnSet(e, H) = SumFunctionOnSet(e, G) + SumFunctionOnSet(e, H \ G)
  BY <1>1, <1>5, SumSplit
<1>7. SumFunctionOnSet(e, H \ G) = SumFunctionOnSet(f, H \ G)
  BY <1>1, <1>2, <1>3, SumSame
<1>8. \A j \in G : e[j] \in Nat
  BY <1>1, <1>5
<1>9. \A j \in H \ G : e[j] \in Nat
  BY <1>1
<1>10. SumFunctionOnSet(e, G) \in Nat /\ SumFunctionOnSet(e, H \ G) \in Nat
  BY <1>2, <1>8, <1>9, SumType
<1>11. QED
  BY <1>4, <1>6, <1>7, <1>10 DEF e

\* The overruns of a row change with what is booked to it only.
LEMMA OverStays ==
  ASSUME WorldTypes, CallTypes, NEW t, NEW p, BookedIn(t, p)' = BookedIn(t, p),
         \A k \in BookedIn(t, p) : cost'[k] = cost[k] /\ call'[k] = call[k]
  PROVE  Over(t, p)' = Over(t, p)
<1> DEFINE e == Overrun  f == Overrun'  H == BookedIn(t, p)
<1>1. IsFiniteSet(H) /\ \A k \in H : e[k] \in Nat /\ e[k] = f[k]
  <2>1. H \subseteq Tasks
    BY DEF BookedIn
  <2>2. QED
    BY <2>1, OverType DEF Overrun
<1>2. Over(t, p) = SumFunctionOnSet(e, H) /\ Over(t, p)' = SumFunctionOnSet(f, H)
  BY DEF Over
<1> HIDE DEF e, f, H
<1>3. QED
  BY <1>1, <1>2, SumSame

\* A booking adds what the task cost above its estimate.
LEMMA OverGains ==
  ASSUME WorldTypes, CallTypes, NEW t, NEW p, NEW k \in Tasks, k \notin BookedIn(t, p),
         BookedIn(t, p)' = BookedIn(t, p) \cup {k}, UNCHANGED <<cost, call>>
  PROVE  Over(t, p)' = Over(t, p) + Overrun[k]
<1> DEFINE e == Overrun  H == BookedIn(t, p)
<1>1. IsFiniteSet(H) /\ \A j \in H \cup {k} : e[j] \in Nat
  <2>1. H \subseteq Tasks
    BY DEF BookedIn
  <2>2. QED
    BY <2>1, OverType
<1>2. /\ Over(t, p) = SumFunctionOnSet(e, H)
      /\ Over(t, p)' = SumFunctionOnSet(e, H \cup {k})
  BY DEF Over, Overrun
<1>3. k \notin H
  OBVIOUS
<1> HIDE DEF e, H
<1>4. SumFunctionOnSet(e, H \cup {k}) = e[k] + SumFunctionOnSet(e, H)
  BY <1>1, <1>3, SumAdd
<1>5. SumFunctionOnSet(e, H) \in Nat /\ e[k] \in Nat
  BY <1>1, SumType
<1>6. QED
  BY <1>2, <1>4, <1>5 DEF e

\* A row is exact again when its reservations, its spend and its overruns have
\* moved as a transaction moves them.
LEMMA RowStaysExact ==
  ASSUME LedgerTypes, NEW t \in Tenants, NEW p \in Periods, ExactRow(t, p),
         row'[t][p] = row[t][p], peak'[t][p] = peak[t][p],
         Held(t, p)' = Held(t, p), Open(t, p)' = Open(t, p), Over(t, p)' = Over(t, p)
  PROVE  ExactRow(t, p)'
BY DEF ExactRow

\* Nothing moves a row, its reservations or its overruns but the ledger's
\* transactions and the finish of a task that is not booked.
LEMMA QuietRows ==
  ASSUME LedgerInv, LedgerInv', ExactInv, UNCHANGED <<row, peak>>,
         \A k \in Tasks : reservation'[k] = reservation[k],
         \A k \in Tasks : booked'[k] = "committed" <=> booked[k] = "committed",
         \A k \in Tasks : booked[k] = "committed" \/ reservation[k] # NoReservation =>
           cost'[k] = cost[k] /\ call'[k] = call[k] /\ run'[k] = run[k]
  PROVE  ExactInv'
<1> USE DEF LedgerInv, BudgetTypeOK
<1>1. ASSUME NEW t \in Tenants, NEW p \in Periods PROVE ExactRow(t, p)'
  <2>1. Held(t, p)' = Held(t, p) /\ \A k \in Held(t, p) : reservation'[k] = reservation[k]
    BY DEF Held
  <2>2. BookedIn(t, p)' = BookedIn(t, p)
        /\ \A k \in BookedIn(t, p) : cost'[k] = cost[k] /\ call'[k] = call[k]
    BY DEF BookedIn
  <2>3. Open(t, p)' = Open(t, p)
    BY <2>1, OpenStays
  <2>4. Over(t, p)' = Over(t, p)
    BY <2>2, OverStays
  <2>5. QED
    BY <2>1, <2>3, <2>4, RowStaysExact DEF ExactInv
<1>2. CallHeld' /\ BookedFinished'
  BY DEF ExactInv, CallHeld, BookedFinished
<1>3. QED
  BY <1>1, <1>2 DEF ExactInv

\* reserve: the estimate that fits is added to the row.
LEMMA ReserveExact ==
  ASSUME LedgerInv, LedgerInv', ExactInv, NEW k \in Tasks, ReserveOk(k) PROVE ExactInv'
<1> USE DEF LedgerInv, BudgetTypeOK
<1>0. PICK t \in Tenants, p \in Periods, est \in Nat :
         t = Owner[k] /\ p = call[k].period /\ est = call[k].est
  BY BudgetAssumption DEF CallTypes
<1> DEFINE r == row[t][p]
           b == [r EXCEPT !.reserved = @ + est]
<1>1. /\ t \in Tenants /\ p \in Periods /\ est \in Nat /\ r \in Row /\ r # NoRow
      /\ r.committed + r.reserved + est <= r.cap
      /\ phase[k] = "reserving" /\ ReserveTx(k) /\ UNCHANGED <<call, cost, run>>
  BY <1>0, BudgetAssumption DEF ReserveOk, CallTypes, LedgerTypes, Fits, world
<1>2. /\ row' = [row EXCEPT ![t][p] = b]
      /\ reservation' = [reservation EXCEPT ![k] =
           [tenant |-> t, period |-> p, est |-> est, aged |-> FALSE]]
      /\ UNCHANGED <<charged, booked, peak>>
  BY <1>0, <1>1 DEF ReserveTx
<1>3. b \in Row /\ b # NoRow /\ b.committed = r.committed /\ b.cap = r.cap
      /\ b.reserved = r.reserved + est
  BY <1>1, BudgetAssumption DEF Row
<1>4. reservation[k] = NoReservation /\ \A u \in Tenants, q \in Periods : k \notin Held(u, q)
  BY <1>1 DEF NotYetReserved, Held
<1>5. /\ reservation'[k] # NoReservation /\ reservation'[k].tenant = t
      /\ reservation'[k].period = p /\ reservation'[k].est = est
      /\ \A j \in Tasks : j # k => reservation'[j] = reservation[j]
  <2>1. reservation'[k] = [tenant |-> t, period |-> p, est |-> est, aged |-> FALSE]
        /\ \A j \in Tasks : j # k => reservation'[j] = reservation[j]
    BY <1>2 DEF LedgerTypes
  <2>2. [tenant |-> t, period |-> p, est |-> est, aged |-> FALSE] \in Reservation
    BY <1>1 DEF Reservation
  <2>3. reservation'[k] # NoReservation
    BY <2>1, <2>2, BudgetAssumption
  <2>4. reservation'[k].tenant = t /\ reservation'[k].period = p /\ reservation'[k].est = est
    BY <2>1
  <2>5. QED
    BY <2>1, <2>3, <2>4
<1>6. ASSUME NEW u \in Tenants, NEW q \in Periods PROVE Over(u, q)' = Over(u, q)
  <2>1. BookedIn(u, q)' = BookedIn(u, q)
    BY <1>1, <1>2 DEF BookedIn
  <2>2. QED
    BY <1>1, <2>1, OverStays
<1> HIDE DEF b
<1>7. ASSUME NEW u \in Tenants, NEW q \in Periods, ~(u = t /\ q = p) PROVE ExactRow(u, q)'
  <2>1. Held(u, q)' = Held(u, q) /\ \A j \in Held(u, q) : reservation'[j] = reservation[j]
    BY <1>4, <1>5, <1>7 DEF Held
  <2>2. row'[u][q] = row[u][q]
    BY <1>1, <1>2, <1>7 DEF LedgerTypes
  <2>3. Open(u, q)' = Open(u, q)
    BY <2>1, OpenStays
  <2>4. QED
    BY <1>2, <1>6, <2>1, <2>2, <2>3, RowStaysExact DEF ExactInv
<1>8. ExactRow(t, p)'
  <2>1. Held(t, p)' = Held(t, p) \cup {k}
        /\ \A j \in Held(t, p) : reservation'[j] = reservation[j]
    BY <1>4, <1>5 DEF Held
  <2>2. Open(t, p)' = Open(t, p) + est
    BY <1>1, <1>4, <1>5, <2>1, OpenGains
  <2>3. row'[t][p] = b
    BY <1>1, <1>2 DEF LedgerTypes
  <2>4. Over(t, p) \in Nat /\ peak[t][p] \in Nat /\ r.cap \in Nat
        /\ r.committed \in Nat /\ r.reserved \in Nat
    BY <1>1, OverType DEF Row, LedgerTypes
  <2>5. /\ r.reserved = Open(t, p) /\ r.cap <= peak[t][p]
    BY <1>1 DEF ExactInv, ExactRow
  <2>6. /\ b.reserved = Open(t, p)' /\ b.cap <= peak[t][p]
        /\ b.committed + b.reserved <= peak[t][p] + Over(t, p)
    BY <1>1, <1>3, <2>2, <2>4, <2>5
  <2>7. QED
    BY <1>1, <1>2, <1>3, <1>6, <2>3, <2>6 DEF ExactRow
<1>9. CallHeld' /\ BookedFinished'
  BY <1>0, <1>1, <1>2, <1>5 DEF ExactInv, CallHeld, BookedFinished
<1>10. QED
  BY <1>7, <1>8, <1>9 DEF ExactInv

\* A row that gives estimates back holds less reserved by exactly that much:
\* GREATEST(0, ...) never cuts anything off.
LEMMA ReleasedExactly ==
  ASSUME NEW r \in Row, NEW est \in Nat, est <= r.reserved
  PROVE  /\ Released(r, est).reserved = r.reserved - est
         /\ Released(r, est).cap = r.cap
BY DEF Released, Row

\* Reservations G of a row go and their estimates are given back.
LEMMA GivenBackExact ==
  ASSUME LedgerInv, LedgerTypes', ExactInv, NEW t \in Tenants, NEW p \in Periods,
         NEW G \in SUBSET Held(t, p), G # {},
         Held(t, p)' = Held(t, p) \ G,
         \A j \in Held(t, p) \ G : reservation'[j] = reservation[j],
         row'[t][p] = Released(row[t][p], SumFunctionOnSet(Estimate, G)),
         UNCHANGED <<peak, booked, call, cost>>
  PROVE  ExactRow(t, p)'
<1> USE DEF LedgerInv, BudgetTypeOK
<1> DEFINE r == row[t][p]  n == SumFunctionOnSet(Estimate, G)
<1>1. r # NoRow /\ r \in Row
  <2>1. Held(t, p) # {}
    OBVIOUS
  <2>2. QED
    BY <2>1 DEF ExactInv, ExactRow, LedgerTypes
<1>2. n \in Nat /\ Open(t, p) = Open(t, p)' + n
  BY OpenLoses
<1>3. Open(t, p)' \in Nat
  BY OpenLoses
<1>4. /\ r.reserved = Open(t, p) /\ r.cap <= peak[t][p]
      /\ r.committed + r.reserved <= peak[t][p] + Over(t, p)
  BY <1>1 DEF ExactInv, ExactRow
<1>5. Over(t, p)' = Over(t, p)
  BY OverStays DEF BookedIn
<1>6. r.reserved \in Nat /\ r.committed \in Nat /\ peak[t][p] \in Nat /\ Over(t, p) \in Nat
  BY <1>1, OverType DEF Row, LedgerTypes
<1> HIDE DEF n
<1>7. n <= r.reserved
  BY <1>2, <1>3, <1>4
<1> DEFINE b == Released(r, n)
<1>8. /\ b # NoRow /\ b.committed = r.committed
      /\ b.reserved = r.reserved - n /\ b.cap = r.cap
  BY <1>1, <1>2, <1>7, ReleasedRow, ReleasedExactly
<1>9. row'[t][p] = b
  BY DEF n
<1> HIDE DEF b
<1>10. /\ b.reserved = Open(t, p)' /\ b.cap <= peak[t][p]
       /\ b.committed + b.reserved <= peak[t][p] + Over(t, p)
  BY <1>2, <1>3, <1>4, <1>6, <1>8
<1>11. QED
  BY <1>5, <1>8, <1>9, <1>10 DEF ExactRow

\* What one reservation holds back.
LEMMA SingleEstimate ==
  ASSUME LedgerTypes, NEW k \in Tasks, reservation[k] # NoReservation
  PROVE  SumFunctionOnSet(Estimate, {k}) = reservation[k].est
<1>1. IsFiniteSet({}) /\ k \notin {} /\ {} \cup {k} = {k}
      /\ \A j \in {} \cup {k} : Estimate[j] \in Nat
  BY FS_EmptySet, OpenType
<1>2. SumFunctionOnSet(Estimate, {k}) = Estimate[k] + SumFunctionOnSet(Estimate, {})
  BY <1>1, SumAdd
<1>3. SumFunctionOnSet(Estimate, {}) = 0 /\ Estimate[k] = reservation[k].est
  BY <1>1, SumType DEF Estimate
<1>4. Estimate[k] \in Nat
  BY <1>1
<1>5. QED
  BY <1>2, <1>3, <1>4

\* release: the caller's own estimate goes back to the month it was made in.
LEMMA ReleaseExact ==
  ASSUME LedgerInv, LedgerInv', ExactInv, NEW k \in Tasks, ReleaseTx(k),
         UNCHANGED <<call, cost, run>>
  PROVE  ExactInv'
<1> USE DEF LedgerInv, BudgetTypeOK
<1>1. CASE reservation[k] # NoReservation /\ reservation[k].tenant = Owner[k]
  <2>0. PICK t \in Tenants, p \in Periods, est \in Nat :
          t = reservation[k].tenant /\ p = reservation[k].period /\ est = reservation[k].est
    BY <1>1, RowOfReservation DEF Reservation
  <2>1. /\ row' = [row EXCEPT ![t][p] = Released(row[t][p], est)]
        /\ reservation' = [reservation EXCEPT ![k] = NoReservation]
        /\ UNCHANGED <<charged, booked, peak>>
    BY <1>1, <2>0 DEF ReleaseTx, LedgerTypes
  <2>2. k \in Held(t, p) /\ reservation'[k] = NoReservation
        /\ \A j \in Tasks : j # k => reservation'[j] = reservation[j]
    BY <1>1, <2>0, <2>1 DEF Held, LedgerTypes
  <2>3. ExactRow(t, p)'
    <3>1. Held(t, p)' = Held(t, p) \ {k}
          /\ \A j \in Held(t, p) \ {k} : reservation'[j] = reservation[j]
      BY <2>2 DEF Held
    <3>2. SumFunctionOnSet(Estimate, {k}) = est
      BY <1>1, <2>0, SingleEstimate
    <3>3. row'[t][p] = Released(row[t][p], SumFunctionOnSet(Estimate, {k}))
      BY <2>1, <3>2 DEF LedgerTypes
    <3>4. {k} \in SUBSET Held(t, p) /\ {k} # {}
      BY <2>2
    <3>5. QED
      BY <2>1, <3>1, <3>3, <3>4, GivenBackExact
  <2>4. ASSUME NEW u \in Tenants, NEW q \in Periods, ~(u = t /\ q = p)
        PROVE ExactRow(u, q)'
    <3>1. Held(u, q)' = Held(u, q) /\ \A j \in Held(u, q) : reservation'[j] = reservation[j]
      BY <2>0, <2>2, <2>4 DEF Held
    <3>2. row'[u][q] = row[u][q]
      BY <2>1, <2>4 DEF LedgerTypes
    <3>3. Open(u, q)' = Open(u, q)
      BY <3>1, OpenStays
    <3>4. Over(u, q)' = Over(u, q)
      BY <2>1, OverStays DEF BookedIn
    <3>5. QED
      BY <2>1, <3>1, <3>2, <3>3, <3>4, RowStaysExact DEF ExactInv
  <2>5. CallHeld' /\ BookedFinished'
    BY <2>1, <2>2 DEF ExactInv, CallHeld, BookedFinished
  <2>6. QED
    BY <2>3, <2>4, <2>5 DEF ExactInv
<1>2. CASE ~(reservation[k] # NoReservation /\ reservation[k].tenant = Owner[k])
  BY <1>2, QuietRows DEF ReleaseTx
<1>3. QED
  BY <1>1, <1>2

\* reapExpiredReservations: every row gives back what its aged ones held.
LEMMA ReapExact ==
  ASSUME LedgerInv, LedgerInv', ExactInv, Reap PROVE ExactInv'
<1> USE DEF LedgerInv, BudgetTypeOK
<1>1. /\ UNCHANGED <<peak, booked, call, cost, run>>
      /\ \A k \in Tasks : reservation'[k] = IF k \in Aged THEN NoReservation ELSE reservation[k]
  BY DEF Reap, gateway, world
<1>2. ASSUME NEW t \in Tenants, NEW p \in Periods PROVE ExactRow(t, p)'
  <2> DEFINE G == Held(t, p) \cap Aged
  <2>1. /\ G \in SUBSET Held(t, p) /\ Held(t, p)' = Held(t, p) \ G
        /\ \A j \in Held(t, p) \ G : reservation'[j] = reservation[j]
    BY <1>1 DEF Held, Aged
  <2>2. row'[t][p] = IF G = {} THEN row[t][p]
                     ELSE Released(row[t][p], SumFunctionOnSet(Estimate, G))
    BY DEF Reap
  <2> HIDE DEF G
  <2>3. CASE G # {}
    BY <1>1, <2>1, <2>2, <2>3, GivenBackExact
  <2>4. CASE G = {}
    <3>1. Held(t, p)' = Held(t, p) /\ \A j \in Held(t, p) : reservation'[j] = reservation[j]
      BY <2>1, <2>4
    <3>2. Open(t, p)' = Open(t, p)
      BY <3>1, OpenStays
    <3>3. Over(t, p)' = Over(t, p)
      BY <1>1, OverStays DEF BookedIn
    <3>4. QED
      BY <1>1, <2>2, <2>4, <3>1, <3>2, <3>3, RowStaysExact DEF ExactInv
  <2>5. QED
    BY <2>3, <2>4
<1>3. CallHeld' /\ BookedFinished'
  BY <1>1 DEF ExactInv, CallHeld, BookedFinished
<1>4. QED
  BY <1>2, <1>3 DEF ExactInv

\* commitCharge: the reservation of the booked task gives way to its cost.
LEMMA BookExact ==
  ASSUME LedgerInv, LedgerInv', ExactInv, NEW k \in Tasks, k \notin charged,
         reservation[k] # NoReservation, run[k] = "finished",
         Book(k, reservation[k], cost[k]), UNCHANGED <<call, cost, run>>
  PROVE  ExactInv'
<1> USE DEF LedgerInv, BudgetTypeOK
<1>0. PICK t \in Tenants, p \in Periods, est \in Nat, actual \in Nat :
        /\ t = reservation[k].tenant /\ p = reservation[k].period
        /\ est = reservation[k].est /\ actual = cost[k]
        /\ t = Owner[k] /\ p = call[k].period /\ est = call[k].est
        /\ row[t][p] \in Row
  <2>1. cost[k] \in Nat
    BY DEF WorldTypes
  <2>2. QED
    BY <2>1, RowOfReservation DEF Reservation, ExactInv, CallHeld
<1> DEFINE r == row[t][p]  b == Spent(r, est, actual)
<1>1. /\ row' = [row EXCEPT ![t][p] = b]
      /\ reservation' = [reservation EXCEPT ![k] = NoReservation]
      /\ booked' = [booked EXCEPT ![k] = "committed"]
      /\ UNCHANGED peak
  BY <1>0 DEF Book, LedgerTypes
<1>2. booked[k] = "none"
  BY DEF MarkerIsBooking, LedgerTypes
<1>3. k \in Held(t, p) /\ reservation'[k] = NoReservation
      /\ \A j \in Tasks : j # k => reservation'[j] = reservation[j]
  BY <1>0, <1>1 DEF Held, LedgerTypes
<1>4. ExactRow(t, p)'
  <2>1. Held(t, p)' = Held(t, p) \ {k} /\ {k} \in SUBSET Held(t, p)
        /\ \A j \in Held(t, p) \ {k} : reservation'[j] = reservation[j]
    BY <1>3 DEF Held
  <2>2. SumFunctionOnSet(Estimate, {k}) = est
    BY <1>0, SingleEstimate
  <2>3. Open(t, p) = Open(t, p)' + est /\ Open(t, p)' \in Nat
    BY <2>1, <2>2, OpenLoses
  <2>4. Over(t, p)' = Over(t, p) + Overrun[k]
    <3>1. k \notin BookedIn(t, p) /\ BookedIn(t, p)' = BookedIn(t, p) \cup {k}
      BY <1>0, <1>1, <1>2 DEF BookedIn, LedgerTypes
    <3>2. QED
      BY <3>1, OverGains
  <2>5. /\ r # NoRow /\ r.reserved = Open(t, p) /\ r.cap <= peak[t][p]
        /\ r.committed + r.reserved <= peak[t][p] + Over(t, p)
    BY <1>0, BudgetAssumption DEF ExactInv, ExactRow
  <2>6. Overrun[k] = IF actual > est THEN actual - est ELSE 0
    BY <1>0 DEF Overrun
  <2>7. r.reserved \in Nat /\ r.committed \in Nat /\ peak[t][p] \in Nat /\ Over(t, p) \in Nat
    BY <1>0, OverType DEF Row, LedgerTypes
  <2>8. est <= r.reserved
    BY <2>3, <2>5
  <2>9. Released(r, est) \in Row /\ Released(r, est).cap = r.cap
        /\ Released(r, est).reserved = r.reserved - est
    BY <1>0, <2>8, ReleasedRow, ReleasedExactly
  <2>10. b.reserved = r.reserved - est /\ b.cap = r.cap
    BY <2>9 DEF Spent, Row
  <2>11. b # NoRow /\ b.committed = r.committed + actual
    BY <1>0, BookedRow
  <2>12. row'[t][p] = b
    BY <1>1 DEF LedgerTypes
  <2> HIDE DEF b
  <2>13. Overrun[k] \in Nat /\ actual - est <= Overrun[k]
    BY <2>6
  <2>14. /\ b.reserved = Open(t, p)' /\ b.cap <= peak[t][p]
         /\ b.committed + b.reserved <= peak[t][p] + Over(t, p)'
    BY <2>3, <2>4, <2>5, <2>7, <2>8, <2>10, <2>11, <2>13
  <2>15. QED
    BY <1>1, <2>11, <2>12, <2>14 DEF ExactRow
<1>5. ASSUME NEW u \in Tenants, NEW q \in Periods, ~(u = t /\ q = p) PROVE ExactRow(u, q)'
  <2>1. Held(u, q)' = Held(u, q) /\ \A j \in Held(u, q) : reservation'[j] = reservation[j]
    BY <1>0, <1>3, <1>5 DEF Held
  <2>2. row'[u][q] = row[u][q]
    BY <1>1, <1>5 DEF LedgerTypes
  <2>3. Open(u, q)' = Open(u, q)
    BY <2>1, OpenStays
  <2>4. BookedIn(u, q)' = BookedIn(u, q)
    BY <1>0, <1>1, <1>2, <1>5 DEF BookedIn, LedgerTypes
  <2>5. Over(u, q)' = Over(u, q)
    BY <2>4, OverStays
  <2>6. QED
    BY <1>1, <2>1, <2>2, <2>3, <2>5, RowStaysExact DEF ExactInv
<1>6. CallHeld' /\ BookedFinished'
  BY <1>1, <1>3 DEF ExactInv, CallHeld, BookedFinished, LedgerTypes
<1>7. QED
  BY <1>4, <1>5, <1>6 DEF ExactInv

\* A completion, delivered any number of times, keeps the rows exact.
LEMMA ChargeExact ==
  ASSUME LedgerInv, LedgerInv', ExactInv, NEW m \in mail, Apply(m),
         UNCHANGED <<call, cost, run>>
  PROVE  ExactInv'
<1> USE DEF LedgerInv, BudgetTypeOK
<1> DEFINE k == m.task
<1>1. k \in Tasks
  BY DEF WorldTypes, Completion
<1>2. CASE UNCHANGED db
  BY <1>2, QuietRows DEF db
<1>3. CASE /\ k \notin charged /\ booked' = [booked EXCEPT ![k] = "uncapped"]
           /\ UNCHANGED <<row, reservation, peak>>
  <2>1. booked[k] # "committed"
    BY <1>1, <1>3 DEF MarkerIsBooking
  <2>2. \A j \in Tasks : booked'[j] = "committed" <=> booked[j] = "committed"
    BY <1>1, <1>3, <2>1 DEF LedgerTypes
  <2>3. QED
    BY <1>3, <2>2, QuietRows
<1>4. CASE /\ m.subject = m.tenant /\ k \notin charged
           /\ reservation[k] # NoReservation /\ reservation[k].tenant = m.subject
           /\ Book(k, reservation[k], m.cost)
  <2>1. reservation[k].tenant = Owner[k]
    BY <1>1, <1>4, RowOfReservation
  <2>2. run[k] = "finished" /\ m.cost = cost[k]
    BY <1>4, <2>1 DEF MailTruthful
  <2>3. QED
    BY <1>1, <1>4, <2>2, BookExact
<1>5. QED
  BY <1>2, <1>3, <1>4 DEF Apply, CommitCharge

\* upsertCaps: a new row starts empty, a changed cap moves the peak at most up.
LEMMA UpsertExact ==
  ASSUME LedgerInv, LedgerInv', ExactInv, NEW t \in Tenants, UpsertCap(t) PROVE ExactInv'
<1> USE DEF LedgerInv, BudgetTypeOK
<1>0. PICK p \in Periods, c \in Nat : p = now /\ c = caps[t]
  BY BudgetAssumption DEF UpsertCap, WorldTypes
<1> DEFINE r == row[t][p]
           b == IF r = NoRow THEN [cap |-> c, committed |-> 0, reserved |-> 0]
                ELSE [r EXCEPT !.cap = c]
           m == IF peak[t][p] >= c THEN peak[t][p] ELSE c
<1>1. /\ row' = [row EXCEPT ![t][p] = b] /\ peak' = [peak EXCEPT ![t][p] = m]
      /\ UNCHANGED <<reservation, booked, call, cost, run>>
  BY <1>0 DEF UpsertCap, LedgerTypes, gateway, world
<1>2. ASSUME NEW u \in Tenants, NEW q \in Periods
      PROVE  Held(u, q)' = Held(u, q) /\ Open(u, q)' = Open(u, q) /\ Over(u, q)' = Over(u, q)
  <2>1. Held(u, q)' = Held(u, q) /\ BookedIn(u, q)' = BookedIn(u, q)
    BY <1>1 DEF Held, BookedIn
  <2>2. QED
    BY <1>1, <2>1, OpenStays, OverStays
<1>3. ASSUME NEW u \in Tenants, NEW q \in Periods, ~(u = t /\ q = p) PROVE ExactRow(u, q)'
  <2>1. row'[u][q] = row[u][q] /\ peak'[u][q] = peak[u][q]
    BY <1>1, <1>3 DEF LedgerTypes
  <2>2. QED
    BY <1>2, <2>1, RowStaysExact DEF ExactInv
<1>4. ExactRow(t, p)'
  <2>1. row'[t][p] = b /\ peak'[t][p] = m
    BY <1>1 DEF LedgerTypes
  <2>2. peak[t][p] \in Nat /\ Over(t, p) \in Nat /\ r \in Row \cup {NoRow}
    BY OverType DEF LedgerTypes
  <2>3. m \in Nat /\ c <= m /\ peak[t][p] <= m
    BY <2>2
  <2> HIDE DEF m
  <2>4. CASE r = NoRow
    <3>1. b.cap = c /\ b.committed = 0 /\ b.reserved = 0
      BY <2>4
    <3>2. b \in Row /\ b # NoRow
      BY <2>4, BudgetAssumption DEF Row
    <3>3. Open(t, p) = 0
      BY <2>4, OpenType DEF ExactInv, ExactRow
    <3> HIDE DEF b
    <3>4. b.committed + b.reserved <= m + Over(t, p) /\ b.cap <= m
      BY <2>2, <2>3, <3>1
    <3>5. QED
      BY <1>2, <2>1, <3>1, <3>2, <3>3, <3>4 DEF ExactRow
  <2>5. CASE r # NoRow
    <3>1. r \in Row
      BY <2>2, <2>5
    <3>2. b.cap = c /\ b.committed = r.committed /\ b.reserved = r.reserved
      BY <2>5, <3>1 DEF Row
    <3>3. b \in Row /\ b # NoRow
      BY <2>5, <3>1, BudgetAssumption DEF Row
    <3>4. r.reserved = Open(t, p) /\ r.committed + r.reserved <= peak[t][p] + Over(t, p)
      BY <2>5 DEF ExactInv, ExactRow
    <3>5. r.reserved \in Nat /\ r.committed \in Nat
      BY <3>1 DEF Row
    <3> HIDE DEF b
    <3>6. b.committed + b.reserved <= m + Over(t, p) /\ b.cap <= m
      BY <2>2, <2>3, <3>2, <3>4, <3>5
    <3>7. QED
      BY <1>2, <2>1, <3>2, <3>3, <3>4, <3>6 DEF ExactRow
  <2>6. QED
    BY <2>4, <2>5
<1>5. CallHeld' /\ BookedFinished'
  BY <1>1 DEF ExactInv, CallHeld, BookedFinished
<1>6. QED
  BY <1>3, <1>4, <1>5 DEF ExactInv

\* Growing old changes neither what a reservation holds nor its row.
LEMMA AgeExact ==
  ASSUME LedgerInv, LedgerInv', ExactInv, NEW k \in Tasks, Age(k) PROVE ExactInv'
<1> USE DEF LedgerInv, BudgetTypeOK
<1>1. reservation[k] \in Reservation /\ reservation[k] # NoReservation
  BY RowOfReservation DEF Age
<1>2. reservation'[k] = [reservation[k] EXCEPT !.aged = TRUE]
      /\ \A j \in Tasks : j # k => reservation'[j] = reservation[j]
  BY DEF Age, LedgerTypes
<1>3. /\ reservation'[k] # NoReservation
      /\ \A j \in Tasks : reservation[j] # NoReservation =>
           /\ reservation'[j].tenant = reservation[j].tenant
           /\ reservation'[j].period = reservation[j].period
           /\ reservation'[j].est = reservation[j].est
  <2>1. [reservation[k] EXCEPT !.aged = TRUE] \in Reservation
    BY <1>1 DEF Reservation
  <2>2. reservation'[k] # NoReservation
    BY <1>2, <2>1, BudgetAssumption
  <2>3. /\ reservation'[k].tenant = reservation[k].tenant
        /\ reservation'[k].period = reservation[k].period
        /\ reservation'[k].est = reservation[k].est
    BY <1>1, <1>2 DEF Reservation
  <2>4. QED
    BY <1>2, <2>2, <2>3
<1>4. /\ \A j \in Tasks : reservation'[j] # NoReservation <=> reservation[j] # NoReservation
      /\ UNCHANGED <<row, peak, booked, call, cost, run>>
  BY <1>1, <1>2, <1>3 DEF Age, gateway, world
<1>5. ASSUME NEW u \in Tenants, NEW q \in Periods PROVE ExactRow(u, q)'
  <2>1. Held(u, q)' = Held(u, q)
    BY <1>3, <1>4 DEF Held
  <2>2. Open(u, q)' = Open(u, q)
    BY <1>3, <2>1, OpenStays DEF Held
  <2>3. Over(u, q)' = Over(u, q)
    BY <1>4, OverStays DEF BookedIn
  <2>4. QED
    BY <1>4, <2>1, <2>2, <2>3, RowStaysExact DEF ExactInv
<1>6. CallHeld' /\ BookedFinished'
  BY <1>3, <1>4 DEF ExactInv, CallHeld, BookedFinished
<1>7. QED
  BY <1>5, <1>6 DEF ExactInv

\* Every step of the gateway and the ledger keeps the rows exact.
LEMMA ExactStep == LedgerInv /\ ExactInv /\ [BudgetNext]_budgetVars => ExactInv'
<1> SUFFICES ASSUME LedgerInv, ExactInv, [BudgetNext]_budgetVars PROVE ExactInv'
  OBVIOUS
<1> USE DEF db, gateway, world, config
<1>1. LedgerInv'
  BY LedgerStep
<1>2. CASE UNCHANGED budgetVars
  BY <1>1, <1>2, QuietRows DEF budgetVars
<1>3. ASSUME NEW k \in Tasks, Intake(k) PROVE ExactInv'
  <2>1. CASE ReserveOk(k)
    BY <1>1, <2>1, ReserveExact
  <2>2. CASE Release(k)
    <3>1. UNCHANGED <<call, cost, run>> /\ (ReleaseTx(k) \/ UNCHANGED db)
      BY <2>2 DEF Release
    <3>2. CASE ReleaseTx(k)
      BY <1>1, <3>1, <3>2, ReleaseExact
    <3>3. CASE UNCHANGED db
      BY <1>1, <3>1, <3>3, QuietRows
    <3>4. QED
      BY <3>1, <3>2, <3>3
  <2>3. CASE \/ RefuseEarly(k) \/ ReserveRefused(k) \/ ReserveNoCap(k) \/ GatewayCrash(k)
    BY <1>1, <2>3, QuietRows DEF RefuseEarly, ReserveRefused, ReserveNoCap,
           GatewayCrash
  <2>4. CASE StartTask(k) \/ StartFails(k)
    <3>1. phase[k] = "starting" /\ UNCHANGED <<row, peak, reservation, booked, cost, call>>
          /\ \A j \in Tasks : j # k => run'[j] = run[j]
      BY <2>4 DEF StartTask, StartFails, LedgerInv, BudgetTypeOK, WorldTypes
    <3>2. run[k] = "none" /\ booked[k] # "committed"
      BY <3>1 DEF LedgerInv, CallBeforeRun, ExactInv, BookedFinished
    <3>3. CallHeld' /\ BookedFinished'
      BY <3>1, <3>2 DEF ExactInv, CallHeld, BookedFinished
    <3>4. ASSUME NEW t \in Tenants, NEW p \in Periods PROVE ExactRow(t, p)'
      <4>1. Held(t, p)' = Held(t, p) /\ BookedIn(t, p)' = BookedIn(t, p)
        BY <3>1 DEF Held, BookedIn
      <4>2. Open(t, p)' = Open(t, p) /\ Over(t, p)' = Over(t, p)
        BY <1>1, <3>1, <4>1, OpenStays, OverStays DEF LedgerInv, BudgetTypeOK
      <4>3. QED
        BY <3>1, <4>1, <4>2, RowStaysExact DEF LedgerInv, BudgetTypeOK, ExactInv
    <3>5. QED
      BY <3>3, <3>4 DEF ExactInv
  <2>5. CASE Submit(k)
    <3>1. phase[k] = "new" /\ UNCHANGED <<row, peak, reservation, booked, cost, run>>
          /\ \A j \in Tasks : j # k => call'[j] = call[j]
      BY <2>5 DEF Submit, LedgerInv, BudgetTypeOK, CallTypes
    <3>2. reservation[k] = NoReservation /\ booked[k] # "committed"
      BY <3>1 DEF LedgerInv, NotYetReserved, CallBeforeRun, ExactInv, BookedFinished
    <3>3. QED
      BY <1>1, <3>1, <3>2, QuietRows
  <2>6. QED
    BY <1>3, <2>1, <2>2, <2>3, <2>4, <2>5 DEF Intake
<1>4. ASSUME NEW k \in Tasks, Finish(k) PROVE ExactInv'
  <2>1. run[k] = "running" /\ run'[k] = "finished"
        /\ UNCHANGED <<row, peak, reservation, booked, call>>
        /\ \A j \in Tasks : j # k => run'[j] = run[j] /\ cost'[j] = cost[j]
    BY <1>4 DEF Finish, LedgerInv, BudgetTypeOK, WorldTypes
  <2>2. booked[k] # "committed"
    BY <2>1 DEF ExactInv, BookedFinished
  <2>3. ASSUME NEW t \in Tenants, NEW p \in Periods PROVE ExactRow(t, p)'
    <3>1. Held(t, p)' = Held(t, p) /\ BookedIn(t, p)' = BookedIn(t, p) /\ k \notin BookedIn(t, p)
      BY <2>1, <2>2 DEF Held, BookedIn
    <3>2. Open(t, p)' = Open(t, p)
      BY <1>1, <2>1, <3>1, OpenStays DEF LedgerInv, BudgetTypeOK
    <3>3. Over(t, p)' = Over(t, p)
      BY <2>1, <3>1, OverStays DEF LedgerInv, BudgetTypeOK, BookedIn
    <3>4. QED
      BY <2>1, <3>1, <3>2, <3>3, RowStaysExact DEF LedgerInv, BudgetTypeOK, ExactInv
  <2>4. CallHeld' /\ BookedFinished'
    BY <2>1, <2>2 DEF ExactInv, CallHeld, BookedFinished
  <2>5. QED
    BY <2>3, <2>4 DEF ExactInv
<1>5. ASSUME NEW k \in Tasks, Stray(k) PROVE ExactInv'
  BY <1>1, <1>5, QuietRows DEF Stray
<1>6. ASSUME NEW m \in mail, Deliver(m) \/ DeliverUnacked(m) PROVE ExactInv'
  <2>1. Apply(m) /\ UNCHANGED <<call, cost, run>>
    BY <1>6 DEF Deliver, DeliverUnacked
  <2>2. QED
    BY <1>1, <2>1, ChargeExact
<1>7. CASE ReloadCaps \/ Rollover
  BY <1>1, <1>7, QuietRows DEF ReloadCaps, Rollover
<1>8. QED
  BY <1>1, <1>2, <1>3, <1>4, <1>5, <1>6, <1>7, UpsertExact, AgeExact, ReapExact
     DEF BudgetNext

\* The rows stay exact through every behaviour of the ledger.
THEOREM ExactInvariant == BudgetSpec => []ExactInv
<1>1. BudgetInit => ExactInv
  <2> SUFFICES ASSUME BudgetInit PROVE ExactInv
    OBVIOUS
  <2>1. ASSUME NEW t \in Tenants, NEW p \in Periods PROVE ExactRow(t, p)
    BY DEF BudgetInit, ExactRow, Held
  <2>2. CallHeld /\ BookedFinished
    BY DEF BudgetInit, CallHeld, BookedFinished
  <2>3. QED
    BY <2>1, <2>2 DEF ExactInv
<1>2. QED
  BY <1>1, ExactStep, LedgerInvariant, PTL DEF BudgetSpec

\* The ledger is exact for any tenants, tasks, estimates, costs and caps:
\* reserved is the sum of the open reservations, so the conditional UPDATE of
\* reserve decides on the truth, and a row passes the highest cap it has had
\* by no more than its tasks' overruns.
THEOREM LedgerExact == BudgetSpec => []LedgerIsExact
<1>1. ExactInv => LedgerIsExact
  BY DEF ExactInv, ExactRow, LedgerIsExact, ReservedIsOpen, OverBudgetIsOverrun,
         Open, Over
<1>2. QED
  BY <1>1, ExactInvariant, PTL
=============================================================================
