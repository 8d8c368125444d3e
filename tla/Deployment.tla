----------------------------- MODULE Deployment -----------------------------
(***************************************************************************)
(* DeploymentWorkflow composed with the registry it drives: the controller *)
(* takes a candidate through shadow, gates and ramp steps to promotion,    *)
(* while publishers and operators send requests of their own.              *)
(*                                                                         *)
(* An action of the controller is the code between two awaits.  A registry *)
(* call is an activity with three attempts; an answer may be lost after    *)
(* the registry has done the work.  A request is taken to end before its   *)
(* caller's timeout does.  An audit that exhausts its attempts ends the    *)
(* workflow with an exception ("threw").                                   *)
(***************************************************************************)
EXTENDS Registry, DeploymentGates

CONSTANTS Candidate,    \* the version being deployed
          Approval,     \* does the candidate hold R2 or R3 capabilities?
          MaxAttempts,  \* attempts of an activity, 3 in the code
          MaxOps,       \* requests of operators and of the evaluation service
          MaxPublishes  \* requests of the agent's publisher

Ctl == "ctl"  Ops == "ops"  Pub == "pub"

ASSUME DeploymentAssumption ==
  /\ Clients = {Ctl, Ops, Pub} /\ Awaiting = {Ctl}
  /\ Candidate \in Versions \ {First}
  /\ Approval \in BOOLEAN /\ MaxAttempts \in Nat \ {0}
  /\ MaxOps \in Nat /\ MaxPublishes \in Nat

VARIABLES dpc,        \* where the workflow waits
          step,       \* i + 1: the ramp step
          rollbacks,  \* consecutive breaches
          incumbent,  \* the active version seen by beginDeployment, or none
          aborted,    \* the abort signal has arrived
          attempt,    \* failed attempts of the registry call in flight
          passed,     \* the ramp steps whose latest gate passed, 0 is shadow
          promoted,   \* this deployment has activated the candidate
          sent        \* requests sent by operators and publishers

depVars == <<dpc, step, rollbacks, incumbent, aborted, attempt, passed, promoted, sent>>
vars == <<regVars, depVars>>

None == "none"
Calls == {"to_shadow", "to_canary", "rollback", "demote", "promote", "retire"}
Ended == {"completed", "failed", "demoted", "threw"}

\* What evaluateGate can answer, computed by the evaluator over small windows.
CanaryVerdicts == {Canary(w, x, TRUE, q) : w, x \in Windows, q \in {NoQuality, Dropped}}
ShadowVerdicts == {Shadow(w, x, TRUE, q) : w, x \in Windows, q \in {NoQuality, Dropped}}

Init ==
  /\ InitRegistry
  /\ dpc = "start" /\ step = 1 /\ rollbacks = 0 /\ incumbent = None
  /\ aborted = FALSE /\ attempt = 0 /\ promoted = FALSE
  /\ passed = {}
  /\ sent = [c \in {Ops, Pub} |-> 0]

\* The request behind each call of the controller.
CallOf(p) ==
  CASE p = "to_shadow" -> Request("state", Candidate, "shadow", 0, "deploy")
    [] p = "to_canary" -> Request("state", Candidate, "canary", RampSteps[step], "deploy")
    [] p = "rollback"  -> Request("state", Candidate, "canary", RampSteps[step - 1], "deploy")
    [] p = "demote"    -> Request("state", Candidate, "shadow", 0, "deploy")
    [] p = "promote"   -> Request("promote", Candidate, "none", 0, "deploy")
    [] p = "retire"    -> Request("state", incumbent, "retired", 0, "deploy")

Judged(i, v) == IF v = "pass" THEN passed \cup {i} ELSE passed \ {i}

Goto(p) == dpc' = p /\ attempt' = 0

\* An awaited emitAudit: the workflow goes on, or ends with its exception.
EmitThen(p) == Goto(p) \/ Goto("threw")

-----------------------------------------------------------------------------
(* Registry calls.                                                         *)

CallRegistry ==
  /\ dpc \in Calls
  /\ Call(Ctl, CallOf(dpc))
  /\ UNCHANGED depVars

\* The attempt failed, or its answer was lost: the activity is retried, and
\* its third failure ends the workflow.
AttemptFails ==
  /\ dpc \in Calls /\ reply[Ctl] # "none"
  /\ reply' = [reply EXCEPT ![Ctl] = "none"]
  /\ \/ attempt + 1 < MaxAttempts /\ attempt' = attempt + 1 /\ UNCHANGED dpc
     \/ attempt + 1 = MaxAttempts /\ Goto("threw")
  /\ UNCHANGED <<row, flag, req, step, rollbacks, incumbent, aborted,
                 passed, promoted, sent>>

NextStep == IF dpc = "rollback" THEN step - 1 ELSE step

AttemptSucceeds ==
  /\ dpc \in Calls /\ reply[Ctl] = "ok"
  /\ reply' = [reply EXCEPT ![Ctl] = "none"]
  /\ CASE dpc = "to_shadow" -> EmitThen("shadow_soak")
       [] dpc = "to_canary" -> EmitThen("soak")
       [] dpc = "rollback"  -> EmitThen("ramp")
       [] dpc = "demote"    -> EmitThen("demoted")
       [] dpc = "promote"   -> EmitThen("drain")
       [] dpc = "retire"    -> EmitThen("completed")
  /\ step' = NextStep
  /\ UNCHANGED <<row, flag, req, rollbacks, incumbent, aborted,
                 passed, promoted, sent>>

-----------------------------------------------------------------------------
(* The workflow.                                                           *)

\* checkQualityFreeze is external to this module and fails closed; its activity
\* may exhaust its attempts.
CheckFreeze ==
  /\ dpc = "start"
  /\ Goto("preflight") \/ EmitThen("failed")
  /\ UNCHANGED <<regVars, step, rollbacks, incumbent, aborted, passed, promoted, sent>>

\* beginDeployment: a registered candidate with a baseline; the incumbent is
\* the row that the active filter returns, or none.
BeginDeployment ==
  /\ dpc = "preflight"
  /\ \/ /\ Exists(Candidate) /\ row[Candidate].card = "registered"
        /\ row[Candidate].baseline
        /\ incumbent' = IF Rows({"active"}) = {} THEN None
                        ELSE CHOOSE v \in Rows({"active"}) : TRUE
        /\ Goto("to_shadow")
     \/ Goto("threw") /\ UNCHANGED incumbent
  /\ UNCHANGED <<regVars, step, rollbacks, aborted, passed, promoted, sent>>

\* The shadow gate, repeated once when it could not measure.
ShadowGate ==
  /\ dpc \in {"shadow_soak", "shadow_again"}
  /\ \/ \E v \in ShadowVerdicts :
          /\ passed' = Judged(0, v)
          /\ \/ v = "insufficient_data" /\ dpc = "shadow_soak" /\ Goto("shadow_again")
             \/ v = "pass" /\ Goto("ramp")
             \/ /\ v # "pass" /\ ~(v = "insufficient_data" /\ dpc = "shadow_soak")
                /\ EmitThen("failed")
     \/ Goto("threw") /\ UNCHANGED passed
  /\ UNCHANGED <<regVars, step, rollbacks, incumbent, aborted, promoted, sent>>

\* Mutant: the abort flag is not read at the loop head.
RampDeaf ==
  /\ dpc = "ramp"
  /\ Goto(IF step > Len(RampSteps) THEN "approval" ELSE "to_canary")
  /\ UNCHANGED <<regVars, step, rollbacks, incumbent, aborted, passed, promoted, sent>>

\* The loop head.
Ramp ==
  /\ dpc = "ramp"
  /\ Goto(IF step > Len(RampSteps) THEN "approval"
          ELSE IF aborted THEN "demote" ELSE "to_canary")
  /\ UNCHANGED <<regVars, step, rollbacks, incumbent, aborted, passed, promoted, sent>>

\* Mutant: a gate that could not measure is tried again.
CanaryGateRetries ==
  /\ dpc = "soak"
  /\ \E v \in CanaryVerdicts :
       /\ passed' = Judged(step, v)
       /\ \/ v = "pass" /\ rollbacks' = 0 /\ step' = step + 1 /\ Goto("ramp")
          \/ v = "insufficient_data" /\ Goto("ramp") /\ UNCHANGED <<step, rollbacks>>
          \/ v = "fail" /\ Goto("demote") /\ UNCHANGED <<step, rollbacks>>
  /\ UNCHANGED <<regVars, incumbent, aborted, promoted, sent>>

\* After the soak: an abort demotes; a pass climbs; anything else rolls back
\* one step, or demotes at the first step or at the second breach in a row.
CanaryGate ==
  /\ dpc = "soak"
  /\ \/ aborted /\ Goto("demote") /\ UNCHANGED <<step, rollbacks, passed>>
     \/ /\ ~aborted
        /\ \E v \in CanaryVerdicts :
             /\ passed' = Judged(step, v)
             /\ \/ v = "pass" /\ rollbacks' = 0 /\ step' = step + 1 /\ Goto("ramp")
                \/ /\ v # "pass" /\ rollbacks' = rollbacks + 1
                   /\ Goto(IF step = 1 \/ rollbacks' >= 2 THEN "demote" ELSE "rollback")
                   /\ UNCHANGED step
     \/ ~aborted /\ Goto("threw") /\ UNCHANGED <<step, rollbacks, passed>>
  /\ UNCHANGED <<regVars, incumbent, aborted, promoted, sent>>

\* The owner's gate, for candidates that write (module Approval).
AwaitApproval ==
  /\ dpc = "approval"
  /\ Goto("refreeze") \/ (Approval /\ (Goto("demote") \/ Goto("threw")))
  /\ UNCHANGED <<regVars, step, rollbacks, incumbent, aborted, passed, promoted, sent>>

\* The freeze is checked again before the promotion.
RecheckFreeze ==
  /\ dpc = "refreeze"
  /\ Goto("promote") \/ Goto("demote") \/ Goto("threw")
  /\ UNCHANGED <<regVars, step, rollbacks, incumbent, aborted, passed, promoted, sent>>

Drain ==
  /\ dpc = "drain"
  /\ \/ incumbent # None /\ Goto("retire")
     \/ incumbent = None /\ EmitThen("completed")
  /\ UNCHANGED <<regVars, step, rollbacks, incumbent, aborted, passed, promoted, sent>>

AbortSignal ==
  /\ dpc \notin Ended /\ ~aborted
  /\ aborted' = TRUE
  /\ UNCHANGED <<regVars, dpc, step, rollbacks, incumbent, attempt, passed, promoted, sent>>

-----------------------------------------------------------------------------
(* The other callers.                                                      *)

\* An operator, or the evaluation service with its suspend scope.
OperatorCall ==
  /\ sent[Ops] < MaxOps
  /\ \E v \in Versions, to \in {"active", "shadow", "suspended", "retired"},
        scope \in {"admin", "suspend"} :
       /\ Exists(v)
       /\ scope = "suspend" => to = "suspended"
       /\ Call(Ops, Request("state", v, to, 0, scope))
  /\ sent' = [sent EXCEPT ![Ops] = @ + 1]
  /\ UNCHANGED <<dpc, step, rollbacks, incumbent, aborted, attempt, passed, promoted>>

PublisherCall ==
  /\ sent[Pub] < MaxPublishes
  /\ \E op \in {"register", "baseline"} :
       Call(Pub, Request(op, Candidate, "none", 0, "write"))
  /\ sent' = [sent EXCEPT ![Pub] = @ + 1]
  /\ UNCHANGED <<dpc, step, rollbacks, incumbent, aborted, attempt, passed, promoted>>

Registry(c) ==
  /\ Serve(c)
  /\ promoted' = (promoted \/ /\ c = Ctl /\ req[c].op = "promote"
                              /\ req'[c].at = "announce")
  /\ UNCHANGED <<dpc, step, rollbacks, incumbent, aborted, attempt, passed, sent>>

RegistryFails(c) == Fail(c) /\ UNCHANGED depVars

Workflow == \/ CallRegistry \/ AttemptFails \/ AttemptSucceeds \/ CheckFreeze
            \/ BeginDeployment \/ ShadowGate \/ Ramp \/ CanaryGate
            \/ AwaitApproval \/ RecheckFreeze \/ Drain

Next == \/ Workflow \/ AbortSignal \/ OperatorCall \/ PublisherCall
        \/ \E c \in Clients : Registry(c) \/ RegistryFails(c)

Spec == Init /\ [][Next]_vars

\* Temporal completes or fails every activity, and the registry answers.
FairSpec == Spec /\ WF_vars(Workflow) /\ \A c \in Clients : WF_vars(Registry(c))

-----------------------------------------------------------------------------
(* Properties.                                                             *)

RequestType ==
  [op : {"none", "register", "state", "promote", "baseline"}, v : Versions,
   to : States \cup {"none"}, ramp : Ramps,
   scope : {"none", "deploy", "admin", "suspend", "write"},
   at : {"none", "route", "read", "write", "demote", "candidate", "commit", "flag", "announce"},
   from : States \cup {"none"}, base : BOOLEAN, other : Versions, otherBase : BOOLEAN]

TypeOK ==
  /\ row \in [Versions -> Row \cup {NoRow}]
  /\ flag \in BOOLEAN
  /\ req \in [Clients -> RequestType]
  /\ reply \in [Clients -> {"none", "ok", "refused", "error"}]
  /\ dpc \in Calls \cup Ended \cup {"start", "preflight", "shadow_soak",
       "shadow_again", "ramp", "soak", "approval", "refreeze", "drain"}
  /\ step \in 1..(Len(RampSteps) + 1) /\ rollbacks \in 0..2
  /\ incumbent \in Versions \cup {None} /\ aborted \in BOOLEAN /\ attempt \in 0..(MaxAttempts - 1)
  /\ passed \subseteq 0..Len(RampSteps)
  /\ promoted \in BOOLEAN /\ sent \in [{Ops, Pub} -> Nat]

\* At any time, under any mix of promotions, suspensions and reinstatements,
\* one version is active at most and one is a candidate at most.
OneServing ==
  Cardinality(Rows({"active"})) <= 1 /\ Cardinality(Rows({"shadow", "canary"})) <= 1

\* The controller's promotion takes effect only when the shadow gate and the
\* latest gate of every ramp step passed, whatever was rolled back in between.
PromotionEarned ==
  [][promoted' /\ ~promoted => passed = 0..Len(RampSteps)]_vars

\* A deployment reported as completed has put the candidate in the incumbent's
\* place; one reported as failed or demoted never has.
ReportIsHonest ==
  /\ dpc = "completed" => promoted
  /\ dpc \in {"failed", "demoted"} => ~promoted

\* Once an abort has arrived, the controller climbs no further step and the
\* candidate's share of the traffic does not grow, but for a call to the
\* registry that was already under way.
AbortStopsRamp ==
  [][aborted /\ dpc \notin {"to_canary", "rollback"} /\ Exists(Candidate)
       => dpc' # "to_canary" /\ row'[Candidate].ramp <= row[Candidate].ramp]_vars

\* The agent's kill-switch flag is lowered only by an administrator who
\* reinstates a suspended version, even when a raced write of the controller
\* has put the suspended row back into service.
OnlyAdminLowersFlag ==
  [][flag /\ ~flag' => \E c \in Clients : /\ req[c].from = "suspended"
                                         /\ req[c].scope = "admin"
                                         /\ req'[c] # req[c]]_vars

\* A deployment ends, unless its gates pass and fail for ever in turn.
DeploymentEnds ==
  \/ <>(dpc \in Ended)
  \/ []<>(dpc = "soak" /\ passed \notin SUBSET {0})
     /\ []<>(dpc = "rollback")

\* Whenever a gate is read: a candidate it fails, it still fails after doing
\* worse in the same window.
GateIsMonotone == dpc \in {"shadow_soak", "soak"} => WorseStillFails

ManifestsUndo ==
  \A m \in Manifests : Accepts(m) =>
    \A i \in DOMAIN m : Writes(m[i]) =>
      \/ m[i].irreversible /\ m[i].comp = ""
      \/ /\ ~m[i].irreversible
         /\ \E j \in DOMAIN m : /\ m[j].name = m[i].comp /\ j # i
                                /\ m[j].risk \in {"R1", "R2"}
                                /\ \A k \in DOMAIN m : m[k].name = m[i].comp => k = j

\* Whenever a manifest is registered: every write an accepted manifest
\* declares can be undone by exactly one capability of it, itself a draft or
\* a reversible write, or is irreversible.
UndoIsUnambiguous == req[Pub].op = "register" => ManifestsUndo

\* A registry that deployments, publishers and operators share stays sound, and
\* so does what a deployment reports of it.
ReleaseIsSound ==
  TypeOK /\ OneServing /\ UndoIsUnambiguous /\ ReportIsHonest /\ GateIsMonotone

\* The ramp is earned step by step, and an abort ends the climbing.
RampIsEarned == PromotionEarned /\ AbortStopsRamp

=============================================================================
