------------------------------ MODULE TaskSaga ------------------------------
(***************************************************************************)
(* The TaskWorkflow of the orchestrator: a plan of steps is dispatched in  *)
(* waves of parallel AgentStepWorkflow children under a budget, and the    *)
(* completed writes are undone in reverse order when the task fails, runs  *)
(* out of budget or is cancelled.                                          *)
(*                                                                         *)
(* One action is one stretch of workflow code between two awaits, so a     *)
(* cancel request can fall exactly where the Temporal runtime can deliver  *)
(* it: while an activity or a child is outstanding.  A child is reduced to *)
(* three phases: its cancellable pre-dispatch phases, the shielded         *)
(* execute_capability, and returned.                                       *)
(***************************************************************************)
EXTENDS Integers, FiniteSets

CONSTANTS
  N,             \* number of steps of the plan
  Plans,         \* the plans planTask may return
  JudgeSampled,  \* steps whose route says judge_sample
  Budgets,       \* the budgets a task may be submitted with
  MaxUse,        \* bound on the tokens one execution reports
  Rate           \* price of one token in micros

Steps == 1..N
Unlimited == -1

\* What the routed agent declares of the capability: an R0/R1 capability, an
\* R2/R3 write with a compensator, or an R2/R3 write declared irreversible
\* (registration admits no other R2/R3 capability).
Kinds == {"read", "reversible", "irreversible"}

ASSUME ConstantsAssumption ==
  /\ N \in Nat \ {0}
  /\ Plans \subseteq [deps : [Steps -> SUBSET Steps], kind : [Steps -> Kinds]]
  /\ JudgeSampled \subseteq Steps
  /\ Budgets \subseteq [steps : Nat \cup {Unlimited},   \* max_steps
                        tokens : Nat \cup {Unlimited},  \* max_tokens
                        cost : Nat \cup {Unlimited}]    \* max_cost_usd, in micros
  /\ MaxUse \in Nat /\ Rate \in Nat

\* A step depends on earlier steps of the plan only.
ASSUME PlansAssumption == \A p \in Plans, s \in Steps : p.deps[s] \subseteq 1..(s - 1)

VARIABLES
  budget,          \* task.budget of the workflow's input
  pc,              \* where the task body waits
  cancelled,       \* cancellationRequested
  scope,           \* waveScope: none, open, cancelled
  plan,            \* what planTask returned
  book,            \* is a price book pinned
  wave,            \* steps of the current wave
  waveNo,          \* waves dispatched so far
  waveOf,          \* the wave a step was dispatched in, 0 if it was not
  child,           \* phase of each AgentStepWorkflow
  asked,           \* children that have received the cancel request
  out,             \* status each child returned to runStep
  answered,        \* completed steps whose output is an Answer envelope
  waveTokens,      \* tokens reported by the current wave, not tallied yet
  stepsDispatched, \* ledger.stepsDispatched
  tokens,          \* ledger.inputTokens + ledger.outputTokens
  results,         \* results map
  skipped,         \* keys of the skipped map
  budgetStop,      \* budgetStop is set
  stack,           \* compensation stack entries not unwound yet
  compensated,     \* entries whose compensator completed
  failedComps,     \* entries whose compensator failed
  trigger,         \* what started the unwind
  status,          \* status of the TaskResult
  log,             \* task-level audit events published
  wrote            \* reversible writes whose agent reported completed

sagaVars  == <<stack, compensated, failedComps, trigger>>
childVars == <<child, asked, out, answered, waveTokens, wrote>>
waveVars  == <<scope, wave, waveNo, waveOf, stepsDispatched>>
planVars  == <<budget, plan, book>>
vars == <<pc, cancelled, planVars, waveVars, childVars, tokens, results,
          skipped, budgetStop, sagaVars, status, log>>

NoPlan == [deps |-> [s \in Steps |-> {}], kind |-> [s \in Steps |-> "read"]]
Terminal == {"done", "threw"}

Init ==
  /\ budget \in Budgets
  /\ pc = "start" /\ cancelled = FALSE /\ scope = "none"
  /\ plan = NoPlan /\ book = FALSE
  /\ wave = {} /\ waveNo = 0 /\ waveOf = [s \in Steps |-> 0]
  /\ child = [s \in Steps |-> "idle"] /\ asked = {}
  /\ out = [s \in Steps |-> "none"] /\ answered = {} /\ waveTokens = 0
  /\ stepsDispatched = 0 /\ tokens = 0
  /\ results = [s \in Steps |-> "none"] /\ skipped = {} /\ budgetStop = FALSE
  /\ stack = {} /\ compensated = {} /\ failedComps = {}
  /\ trigger = "none" /\ status = "none" /\ log = {} /\ wrote = {}

\* An awaited emitAudit: published, or its three attempts fail and the
\* ActivityFailure propagates out of runTaskBody.
Emit(event, next) ==
  \/ log' = log \cup {event} /\ pc' = next
  \/ UNCHANGED log /\ pc' = "threw"

-----------------------------------------------------------------------------
(* Before the first wave.                                                  *)

\* No subject token, or the snapshot is refused: failed without any audit.
SnapshotPrincipal ==
  /\ pc = "start"
  /\ \/ pc' = "planning" /\ UNCHANGED status
     \/ pc' = "done" /\ status' = "failed"
  /\ UNCHANGED <<cancelled, planVars, waveVars, childVars, tokens, results,
                 skipped, budgetStop, sagaVars, log>>

PlanTask ==
  /\ pc = "planning"
  /\ \/ plan' \in Plans /\ pc' = "announcing"
     \/ UNCHANGED plan /\ pc' = "threw"
  /\ UNCHANGED <<cancelled, budget, book, waveVars, childVars, tokens, results,
                 skipped, budgetStop, sagaVars, status, log>>

EmitPlanned ==
  /\ pc = "announcing"
  /\ Emit("task.planned", "pricing")
  /\ UNCHANGED <<cancelled, planVars, waveVars, childVars, tokens, results,
                 skipped, budgetStop, sagaVars, status>>

\* Without a book an enforced cost budget rejects the task; otherwise cost
\* recording is off.
GetPriceBook ==
  /\ pc = "pricing"
  /\ \/ book' = TRUE /\ pc' = "loop"
     \/ UNCHANGED book /\ budget.cost # Unlimited /\ pc' = "rejecting"
     \/ UNCHANGED book /\ budget.cost = Unlimited /\ pc' = "loop"
  /\ UNCHANGED <<cancelled, budget, plan, waveVars, childVars, tokens, results,
                 skipped, budgetStop, sagaVars, status, log>>

FailClosedAfterPlanned ==
  /\ pc = "rejecting"
  /\ Emit("task.completed", "done")
  /\ status' = "failed"
  /\ UNCHANGED <<cancelled, planVars, waveVars, childVars, tokens, results,
                 skipped, budgetStop, sagaVars>>

-----------------------------------------------------------------------------
(* The wave loop.                                                          *)

Unresolved == {s \in Steps : results[s] = "none" /\ s \notin skipped}

\* The loop head checks isCancelled() once; the dependency skips that follow
\* await their audits without checking again.
InLoop == (pc = "loop" /\ ~cancelled) \/ pc = "skipping"

\* Mutant: a skipped dependency does not skip its dependents.
SkipsNotTransitive(s) == \E d \in plan.deps[s] : results[d] = "failed"

HasBadDep(s) == \E d \in plan.deps[s] : d \in skipped \/ results[d] = "failed"
Dependents == {s \in Unresolved : HasBadDep(s)}

SkipDependent(s) ==
  /\ InLoop
  /\ s \in Dependents
  /\ skipped' = skipped \cup {s}
  /\ pc' \in {"skipping", "threw"}
  /\ UNCHANGED <<cancelled, planVars, waveVars, childVars, tokens, results,
                 budgetStop, sagaVars, status, log>>

\* Mutant: a dependency that is still undecided counts as satisfied.
ReadyUnlessFailed == {s \in Unresolved : \A d \in plan.deps[s] : results[d] # "failed"}

Ready == {s \in Unresolved : \A d \in plan.deps[s] : results[d] = "completed"}

\* Mutant: the gate lets a step through when the spend equals the budget.
SpendExceeded ==
  \/ budget.tokens # Unlimited /\ tokens > budget.tokens
  \/ budget.cost # Unlimited /\ book /\ tokens * Rate > budget.cost

SpendExhausted ==
  \/ budget.tokens # Unlimited /\ tokens >= budget.tokens
  \/ budget.cost # Unlimited /\ book /\ tokens * Rate >= budget.cost

\* The budget gate walks the ready steps in plan order; the first refusal
\* ends the walk.
WithinBudget(s) ==
  /\ ~SpendExhausted
  /\ budget.steps # Unlimited =>
       stepsDispatched + Cardinality({t \in Ready : t < s}) < budget.steps
Admitted == {s \in Ready : WithinBudget(s)}

Launch(W) ==
  /\ wave' = W
  /\ waveNo' = waveNo + 1
  /\ waveOf' = [s \in Steps |-> IF s \in W THEN waveNo + 1 ELSE waveOf[s]]
  /\ stepsDispatched' = stepsDispatched + Cardinality(W)
  /\ child' = [s \in Steps |-> IF s \in W THEN "preflight" ELSE child[s]]
  /\ scope' = "open"
  /\ pc' = "wave"

NothingReady ==
  /\ InLoop /\ Dependents = {} /\ Ready = {}
  /\ pc' = "drained"
  /\ UNCHANGED <<cancelled, planVars, waveVars, childVars, tokens, results,
                 skipped, budgetStop, sagaVars, status, log>>

StopAtLoopHead ==
  /\ pc = "loop" /\ cancelled
  /\ pc' = "drained"
  /\ UNCHANGED <<cancelled, planVars, waveVars, childVars, tokens, results,
                 skipped, budgetStop, sagaVars, status, log>>

DispatchWave ==
  /\ InLoop /\ Dependents = {} /\ Ready # {} /\ Admitted = Ready
  /\ Launch(Ready)
  /\ UNCHANGED <<cancelled, planVars, asked, out, answered, waveTokens, wrote,
                 tokens, results, skipped, budgetStop, sagaVars, status, log>>

\* Exhaustion: the steps admitted before the refusal still run, every other
\* unresolved step is skipped first, each with an awaited audit.
ExhaustBudget ==
  /\ InLoop /\ Dependents = {} /\ Ready # {} /\ Admitted # Ready
  /\ budgetStop' = TRUE
  /\ wave' = Admitted
  /\ pc' = "exhausted"
  /\ UNCHANGED <<cancelled, planVars, scope, waveNo, waveOf, stepsDispatched,
                 childVars, tokens, results, skipped, sagaVars, status, log>>

SkipForBudget(s) ==
  /\ pc = "exhausted"
  /\ s \in Unresolved \ wave
  /\ skipped' = skipped \cup {s}
  /\ pc' \in {"exhausted", "threw"}
  /\ UNCHANGED <<cancelled, planVars, waveVars, childVars, tokens, results,
                 budgetStop, sagaVars, status, log>>

DispatchAdmitted ==
  /\ pc = "exhausted" /\ Unresolved = wave /\ wave # {}
  /\ Launch(wave)
  /\ UNCHANGED <<cancelled, planVars, asked, out, answered, waveTokens, wrote,
                 tokens, results, skipped, budgetStop, sagaVars, status, log>>

NothingAdmitted ==
  /\ pc = "exhausted" /\ Unresolved = {} /\ wave = {}
  /\ pc' = "drained"
  /\ UNCHANGED <<cancelled, planVars, waveVars, childVars, tokens, results,
                 skipped, budgetStop, sagaVars, status, log>>

-----------------------------------------------------------------------------
(* The children of a wave, and the join.                                   *)

\* Routing, kill switch, policy, approval or broker refuse, or throw: runStep
\* turns either into a failed result without executed metadata.
PreflightFails(s) ==
  /\ child[s] = "preflight"
  /\ child' = [child EXCEPT ![s] = "returned"]
  /\ out' = [out EXCEPT ![s] = "failed"]
  /\ UNCHANGED <<pc, cancelled, planVars, waveVars, asked, answered,
                 waveTokens, wrote, tokens, results, skipped, budgetStop,
                 sagaVars, status, log>>

\* step.dispatched is published and the shield is entered.
BeginExecute(s) ==
  /\ child[s] = "preflight"
  /\ child' = [child EXCEPT ![s] = "executing"]
  /\ UNCHANGED <<pc, cancelled, planVars, waveVars, asked, out, answered,
                 waveTokens, wrote, tokens, results, skipped, budgetStop,
                 sagaVars, status, log>>

\* The cancelled wave scope asks a child to cancel.  Before the shield the
\* child reports "step not executed"; inside it the request is only noted.
DeliverCancel(s) ==
  /\ scope = "cancelled" /\ s \in wave \ asked
  /\ child[s] \in {"preflight", "executing"}
  /\ asked' = asked \cup {s}
  /\ \/ /\ child[s] = "preflight"
        /\ child' = [child EXCEPT ![s] = "returned"]
        /\ out' = [out EXCEPT ![s] = "failed"]
     \/ child[s] = "executing" /\ UNCHANGED <<child, out>>
  /\ UNCHANGED <<pc, cancelled, planVars, waveVars, answered, waveTokens,
                 wrote, tokens, results, skipped, budgetStop, sagaVars,
                 status, log>>

\* After the shield a judge-sampled step awaits startChild in the child's own,
\* cancellable scope: if the cancel request has been delivered that throws and
\* the AgentStepWorkflow returns "task cancelled - step not executed".
JudgeStartCancelled(s) == s \in JudgeSampled /\ s \in asked

\* execute_capability ends: a completed result, a failed result, or (after
\* its retries) an exception.
EndExecute(s) ==
  /\ child[s] = "executing"
  /\ child' = [child EXCEPT ![s] = "returned"]
  /\ \/ \E u \in 0..MaxUse, answer \in BOOLEAN :
          /\ wrote' = IF plan.kind[s] = "reversible" THEN wrote \cup {s} ELSE wrote
          /\ \/ /\ JudgeStartCancelled(s)
                /\ out' = [out EXCEPT ![s] = "failed"]
                /\ UNCHANGED <<answered, waveTokens>>
             \/ /\ ~JudgeStartCancelled(s)
                /\ out' = [out EXCEPT ![s] = "completed"]
                /\ answered' = IF answer THEN answered \cup {s} ELSE answered
                /\ waveTokens' = waveTokens + u
     \/ \E u \in 0..MaxUse :
          /\ out' = [out EXCEPT ![s] = "failed"]
          /\ waveTokens' = waveTokens + u
          /\ UNCHANGED <<answered, wrote>>
  /\ UNCHANGED <<pc, cancelled, planVars, waveVars, asked, tokens, results,
                 skipped, budgetStop, sagaVars, status, log>>

\* Promise.all over runStep, which never throws; then the tally in wave order.
JoinWave ==
  /\ pc = "wave"
  /\ \A s \in wave : child[s] = "returned"
  /\ results' = [s \in Steps |-> IF s \in wave THEN out[s] ELSE results[s]]
  /\ tokens' = tokens + waveTokens
  /\ waveTokens' = 0
  /\ stack' = stack \cup {s \in wave : /\ out[s] = "completed"
                                       /\ plan.kind[s] = "reversible"}
  /\ scope' = "none" /\ wave' = {}
  /\ pc' = IF budgetStop \/ cancelled THEN "drained" ELSE "loop"
  /\ UNCHANGED <<cancelled, planVars, waveNo, waveOf, stepsDispatched, child,
                 asked, out, answered, wrote, skipped, budgetStop,
                 compensated, failedComps, trigger, status, log>>

\* The root scope's cancelRequested handler: the flag, and the open scope.
RequestCancel ==
  /\ pc \notin Terminal /\ ~cancelled
  /\ cancelled' = TRUE
  /\ scope' = IF scope = "open" THEN "cancelled" ELSE scope
  /\ UNCHANGED <<pc, planVars, wave, waveNo, waveOf, stepsDispatched,
                 childVars, tokens, results, skipped, budgetStop, sagaVars,
                 status, log>>

-----------------------------------------------------------------------------
(* After the loop: gaps, saga unwind, report.                              *)

SkipCancelled(s) ==
  /\ (pc = "drained" /\ cancelled) \/ pc = "gaps"
  /\ s \in Unresolved
  /\ skipped' = skipped \cup {s}
  /\ pc' \in {"gaps", "threw"}
  /\ UNCHANGED <<cancelled, planVars, waveVars, childVars, tokens, results,
                 budgetStop, sagaVars, status, log>>

AllCompleted == \A s \in Steps : results[s] = "completed"

Trigger == CASE cancelled -> "cancellation"
             [] ~cancelled /\ budgetStop -> "budget_exhausted"
             [] ~cancelled /\ ~budgetStop /\ ~AllCompleted -> "step_failure"
             [] OTHER -> "none"

\* synthesizeAnswer: only a completed step with an Answer envelope counts.
WithAnswer == {s \in answered : results[s] = "completed"}
Synthesized == CASE WithAnswer = {} -> "failed"
                 [] WithAnswer = Steps -> "completed"
                 [] OTHER -> "partial"

\* Mutant: the trigger decides the status.
StatusByTrigger == IF trigger = "cancellation" THEN "cancelled" ELSE Synthesized
FinalStatus == IF cancelled THEN "cancelled" ELSE Synthesized

\* The gaps are written; the trigger decides whether the stack is unwound.
LoopOver == \/ pc = "drained" /\ (cancelled => Unresolved = {})
            \/ pc = "gaps" /\ Unresolved = {}

BeginUnwind ==
  /\ LoopOver /\ Trigger # "none" /\ stack # {}
  /\ trigger' = Trigger
  /\ Emit("compensation.started", "unwinding")
  /\ UNCHANGED <<cancelled, planVars, waveVars, childVars, tokens, results,
                 skipped, budgetStop, stack, compensated, failedComps, status>>

SkipUnwind ==
  /\ LoopOver /\ (Trigger = "none" \/ stack = {})
  /\ trigger' = Trigger
  /\ status' = FinalStatus
  /\ pc' = "completing"
  /\ UNCHANGED <<cancelled, planVars, waveVars, childVars, tokens, results,
                 skipped, budgetStop, stack, compensated, failedComps, log>>

\* Entries are pushed wave by wave and, within a wave, in plan order; the
\* unwind takes them in reverse.
PushedAfter(t, s) == waveOf[t] > waveOf[s] \/ (waveOf[t] = waveOf[s] /\ t > s)
Top(s) == s \in stack /\ ~\E t \in stack : PushedAfter(t, s)

\* Mutant: a failed compensator ends the unwind.
RunCompensatorOrStop(s) ==
  /\ pc = "unwinding" /\ Top(s)
  /\ \E u \in 0..MaxUse : tokens' = tokens + u
  /\ \/ /\ compensated' = compensated \cup {s} /\ UNCHANGED <<failedComps, pc, log>>
        /\ stack' = stack \ {s}
     \/ /\ failedComps' = failedComps \cup {s} /\ UNCHANGED compensated /\ stack' = {}
        /\ Emit("compensation.step_failed", "unwinding")
  /\ UNCHANGED <<cancelled, planVars, waveVars, childVars, results, skipped,
                 budgetStop, trigger, status>>

\* One compensator child, with no budget gate and out of the cancel's reach.
RunCompensator(s) ==
  /\ pc = "unwinding" /\ Top(s)
  /\ stack' = stack \ {s}
  /\ \E u \in 0..MaxUse : tokens' = tokens + u
  /\ \/ compensated' = compensated \cup {s} /\ UNCHANGED <<failedComps, pc, log>>
     \/ /\ failedComps' = failedComps \cup {s} /\ UNCHANGED compensated
        /\ Emit("compensation.step_failed", "unwinding")
  /\ UNCHANGED <<cancelled, planVars, waveVars, childVars, results, skipped,
                 budgetStop, trigger, status>>

FinishUnwind ==
  /\ pc = "unwinding" /\ stack = {}
  /\ Emit("compensation.completed", "completing")
  /\ status' = IF pc' = "completing" THEN FinalStatus ELSE status
  /\ UNCHANGED <<cancelled, planVars, waveVars, childVars, tokens, results,
                 skipped, budgetStop, sagaVars>>

CompleteTask ==
  /\ pc = "completing"
  /\ Emit("task.completed", "done")
  /\ UNCHANGED <<cancelled, planVars, waveVars, childVars, tokens, results,
                 skipped, budgetStop, sagaVars, status>>

Closed == pc \in Terminal /\ UNCHANGED vars

-----------------------------------------------------------------------------

Preamble == SnapshotPrincipal \/ PlanTask \/ EmitPlanned \/ GetPriceBook
            \/ FailClosedAfterPlanned

Loop ==
  \/ StopAtLoopHead \/ NothingReady \/ DispatchWave \/ ExhaustBudget
  \/ DispatchAdmitted \/ NothingAdmitted \/ JoinWave
  \/ \E s \in Steps : SkipDependent(s) \/ SkipForBudget(s)

Child(s) == PreflightFails(s) \/ BeginExecute(s) \/ EndExecute(s)

Ending ==
  \/ BeginUnwind \/ SkipUnwind \/ FinishUnwind \/ CompleteTask
  \/ \E s \in Steps : SkipCancelled(s) \/ RunCompensator(s)

System == Preamble \/ Loop \/ Ending \/ \E s \in Steps : Child(s) \/ DeliverCancel(s)

Next == System \/ RequestCancel \/ Closed

Spec == Init /\ [][Next]_vars

\* Temporal re-drives a workflow until it closes, every activity and child has
\* a timeout, and an approval denies by default: the task's own steps are
\* never postponed for ever.  Nobody is obliged to cancel.
FairSpec == Spec /\ WF_vars(Preamble \/ Loop \/ Ending)
                 /\ \A s \in Steps : WF_vars(Child(s))
-----------------------------------------------------------------------------
(* Properties.                                                             *)

TypeOK ==
  /\ budget \in Budgets
  /\ pc \in {"start", "planning", "announcing", "pricing", "rejecting", "loop",
             "skipping", "exhausted", "wave", "drained", "gaps", "unwinding",
             "completing", "done", "threw"}
  /\ cancelled \in BOOLEAN /\ book \in BOOLEAN /\ budgetStop \in BOOLEAN
  /\ scope \in {"none", "open", "cancelled"}
  /\ plan \in Plans \cup {NoPlan}
  /\ waveNo \in Nat /\ waveOf \in [Steps -> Nat]
  /\ child \in [Steps -> {"idle", "preflight", "executing", "returned"}]
  /\ out \in [Steps -> {"none", "completed", "failed"}]
  /\ results \in [Steps -> {"none", "completed", "failed"}]
  /\ wave \subseteq Steps /\ asked \subseteq Steps /\ answered \subseteq Steps
  /\ skipped \subseteq Steps /\ wrote \subseteq Steps /\ stack \subseteq Steps
  /\ compensated \subseteq Steps /\ failedComps \subseteq Steps
  /\ waveTokens \in Nat /\ tokens \in Nat /\ stepsDispatched \in Nat
  /\ trigger \in {"none", "cancellation", "budget_exhausted", "step_failure"}
  /\ status \in {"none", "completed", "partial", "failed", "cancelled"}
  /\ log \subseteq {"task.planned", "task.completed", "compensation.started",
                    "compensation.step_failed", "compensation.completed"}

RecordedWrites ==
  {s \in Steps : results[s] = "completed" /\ plan.kind[s] = "reversible"}

\* When a task that was cancelled, or did not complete every step, returns its
\* result, each recorded reversible write has been compensated or is listed as
\* failed: no failing compensator, late cancel or budget stop strands another
\* entry of the stack.
WritesSettled ==
  pc = "done" /\ (status = "cancelled" \/ ~AllCompleted) =>
    /\ RecordedWrites \subseteq compensated \cup failedComps
    /\ compensated \cap failedComps = {}

\* A write is never undone while a write that depends on it is still on the
\* stack, across waves and whichever compensators fail.
UnwindOrder ==
  \A b \in stack : plan.deps[b] \cap (compensated \cup failedComps) = {}

\* The unwind and the report wait for the whole wave: nothing is compensated
\* or reported while some execute_capability of the task can still write.
NothingInFlight ==
  pc \in {"drained", "gaps", "unwinding", "completing", "done"} =>
    \A s \in Steps : child[s] \in {"idle", "returned"}

\* The report accounts for every step of the plan exactly once: a result or a
\* gap, whatever mix of failures, skips, budget stops and cancels led there.
EveryStepAccounted ==
  /\ pc = "completing" => Unresolved = {}
  /\ \A s \in skipped : results[s] = "none"

\* A task that reports completed kept all its writes and ran no compensator.
CompletedIsWhole ==
  status = "completed" =>
    AllCompleted /\ compensated \cup failedComps = {} /\ trigger = "none"

\* The unwind is sound: with the types, every recorded write settled, in
\* dependency order, and nothing of the task still writing meanwhile.
UnwindIsSound == TypeOK /\ WritesSettled /\ UnwindOrder /\ NothingInFlight

\* The report is true: every step accounted for once, and "completed" only for
\* a task that kept all its writes.
ReportIsTrue == EveryStepAccounted /\ CompletedIsWhole

\* Every wave is dispatched with budget left: the remaining tokens and dollars
\* forwarded to its steps are positive and max_steps is not exceeded, also for
\* the truncated wave that is dispatched after the exhausted steps' audits.
DispatchWithinBudget ==
  [][pc # "wave" /\ pc' = "wave" =>
       /\ budget.tokens # Unlimited => tokens < budget.tokens
       /\ budget.cost # Unlimited => tokens * Rate < budget.cost
       /\ budget.steps # Unlimited => stepsDispatched' <= budget.steps]_vars

\* A cancel accepted at any point of the execution, during the unwind too, is
\* what the returned result reports.
CancelReported ==
  (cancelled /\ pc \in {"loop", "skipping", "exhausted", "wave", "drained",
                        "gaps", "unwinding"})
    ~> (pc = "threw" \/ (pc = "done" /\ status = "cancelled"))

\* The task ends: no plan shape, failure, budget or cancel leaves it waiting.
Terminates == <>(pc \in Terminal)

\* A task always ends, and one that was cancelled says so.
TaskEndsHonestly == Terminates /\ CancelReported

\* What the saga promises, without waves, budgets and children.
Fate(s) == CASE s \in compensated -> "undone"
             [] s \in failedComps -> "stuck"
             [] s \notin compensated \cup failedComps /\ results[s] = "completed" ->
                  IF plan.kind[s] = "reversible" THEN "applied" ELSE "clean"
             [] s \notin compensated \cup failedComps /\ results[s] # "completed" ->
                  IF results[s] = "failed" \/ s \in skipped THEN "lost" ELSE "open"
Phase == CASE pc = "threw" -> "aborted"
           [] pc \in {"completing", "done"} ->
                IF trigger = "none" /\ AllCompleted THEN "kept" ELSE "unwound"
           [] pc = "unwinding" -> "backward"
           [] OTHER -> "forward"
Contract == INSTANCE SagaContract WITH phase <- Phase,
              fate <- [s \in Steps |-> Fate(s)], deps <- plan.deps

\* TaskWorkflow implements the saga contract.
ImplementsContract == Contract!Spec

-----------------------------------------------------------------------------
(* A statement of the repository's comments that the code breaks.          *)

\* "A task cancel that arrives mid-write lets the write finish and be recorded
\* - so the parent KNOWS the write happened and can unwind it".
CompletedWritesUnwound ==
  pc = "done" /\ status = "cancelled" => wrote \subseteq compensated \cup failedComps
=============================================================================
