----------------------------- MODULE AgentStep ------------------------------
(***************************************************************************)
(* AgentStepWorkflow: one dispatch of a plan step, a compensator or a      *)
(* probe.  It routes the step to a version of an agent, passes the kill    *)
(* switch and the policy decision, waits for a human approval when the     *)
(* decision asks for one, and then executes the capability in a shield     *)
(* that a task cancel cannot interrupt.                                    *)
(*                                                                         *)
(* One action is the code between two awaits.  Meanwhile operators and     *)
(* deployments move the routing set and the kill flags.                    *)
(***************************************************************************)
EXTENDS Integers, FiniteSets

CONSTANTS
  Cards,         \* registered agent versions that may serve the capability
  AgentOf,       \* the agent each of them is a version of
  PlanAgent,     \* planStep.agent_id, or AnyAgent
  Declaring,     \* versions whose manifest declares the capability
  MaxAttempts,   \* maximumAttempts of execute_capability
  MaxChanges     \* bound on the changes of routing and flags

Agents == {AgentOf[c] : c \in Cards}
AnyAgent == "any"
NoCard == "none"

\* Kill flags that matter here: the capability by name, an agent, the fleet
\* and a risk class that covers the capability.
Surgical == {"capability"} \cup Agents
Broad == {"fleet", "risk"}
Flags == Surgical \cup Broad

ASSUME ConstantsAssumption ==
  /\ NoCard \notin Cards /\ AgentOf \in [Cards -> Agents]
  /\ "capability" \notin Agents /\ Agents \cap Broad = {}
  /\ PlanAgent \in Agents \cup {AnyAgent}
  /\ Declaring \subseteq Cards
  /\ MaxAttempts \in Nat \ {0} /\ MaxChanges \in Nat

VARIABLES
  kind,       \* step, compensation or probe
  pin,        \* the version a compensator is pinned to
  tooDeep,    \* depth > MAX_DELEGATION_DEPTH
  pc,         \* what the workflow awaits
  card, route, mirror, judge,   \* what resolveRoute returned
  verdict,    \* decision.decision
  grounds,    \* what the minted token carries
  asked,      \* a cancel request has been delivered
  attempts,   \* attempts of execute_capability started
  effects,    \* history: an attempt reached the agent's tools
  finished,   \* history: execute_capability returned completed
  result,     \* status of the step result
  why,        \* which check ended the step
  executed,   \* the result carries the executed metadata
  mirrored,   \* a ShadowStepWorkflow was started
  active, canary, covered, shadow,   \* the registry's routing set
  flags,      \* kill flags in force
  changes,    \* changes of routing and flags so far
  fresh,      \* history: flags raised after the route or the grant
  settled     \* history: the routing has not changed since the grant

dispatchVars == <<kind, pin, tooDeep>>
routeVars    == <<card, route, mirror, judge>>
executeVars  == <<attempts, effects, finished>>
resultVars   == <<result, why, executed>>
routingVars  == <<active, canary, covered, shadow>>
worldVars    == <<routingVars, flags, changes>>
historyVars  == <<fresh, settled>>
vars == <<dispatchVars, pc, routeVars, verdict, grounds, asked, executeVars,
          resultVars, mirrored, worldVars, historyVars>>

\* At most one version is in shadow or canary, and it is not the active one.
OneCandidate(a, c, s) == NoCard \in {c, s} /\ a \notin {c, s} \ {NoCard}

Init ==
  /\ kind \in {"step", "compensation", "probe"}
  /\ pin \in IF kind = "compensation" THEN Cards ELSE {NoCard}
  /\ tooDeep \in BOOLEAN
  /\ pc = "start" /\ card = NoCard /\ route = "none" /\ mirror = NoCard
  /\ judge = FALSE /\ verdict = "none" /\ grounds = "none" /\ asked = FALSE
  /\ attempts = 0 /\ effects = FALSE /\ finished = FALSE
  /\ result = "none" /\ why = "none" /\ executed = FALSE /\ mirrored = FALSE
  /\ active \in Cards \cup {NoCard} /\ canary \in Cards \cup {NoCard}
  /\ shadow \in Cards \cup {NoCard} /\ covered \in BOOLEAN
  /\ OneCandidate(active, canary, shadow)
  /\ flags = {} /\ changes = 0 /\ fresh = {} /\ settled = FALSE

-----------------------------------------------------------------------------
(* Ends of the workflow.                                                   *)

Return(status, reason, meta) ==
  /\ pc' = "returned" /\ result' = status /\ why' = reason /\ executed' = meta

\* A failed() result, or an exception that runStep turns into one.
Fails(reason) == Return("failed", reason, FALSE)

\* An activity whose attempts are exhausted.
Throws == Fails("activity")

GoTo(next) == pc' = next /\ UNCHANGED resultVars

-----------------------------------------------------------------------------
(* Routing and the first kill-switch checkpoint.                           *)

DepthGuard ==
  /\ pc = "start"
  /\ IF tooDeep THEN Fails("depth") ELSE GoTo("routing")
  /\ UNCHANGED <<dispatchVars, routeVars, verdict, grounds, asked, executeVars,
                 mirrored, worldVars, historyVars>>

\* resolveRoute reads the routing set of the registry: a pinned version, the
\* active one only, the canary when the task's bucket is under its ramp, or
\* the active one with a shadow candidate to mirror.
Routed(pinned, activeOnly) ==
  CASE pinned # NoCard -> [card |-> pinned, route |-> "pinned", mirror |-> NoCard]
    [] pinned = NoCard /\ activeOnly ->
         [card |-> active, route |-> "active", mirror |-> NoCard]
    [] pinned = NoCard /\ ~activeOnly /\ canary # NoCard /\ covered ->
         [card |-> canary, route |-> "canary", mirror |-> NoCard]
    [] OTHER -> [card |-> active, route |-> "active", mirror |-> shadow]

ResolveRoute ==
  /\ pc = "routing"
  /\ LET r == Routed(pin, kind = "probe") IN
       \/ /\ r.card # NoCard /\ PlanAgent \in {AnyAgent, AgentOf[r.card]}
          /\ r.card \in Declaring
          /\ card' = r.card /\ route' = r.route /\ mirror' = r.mirror
          /\ judge' \in IF r.route = "pinned" THEN {FALSE} ELSE BOOLEAN
          /\ GoTo("prehalt")
       \/ /\ \/ r.card = NoCard /\ Fails("no_agent")
             \/ /\ r.card # NoCard /\ PlanAgent \notin {AnyAgent, AgentOf[r.card]}
                /\ Fails("wrong_agent")
             \/ /\ r.card # NoCard /\ PlanAgent \in {AnyAgent, AgentOf[r.card]}
                /\ r.card \notin Declaring /\ Fails("undeclared")
             \/ Throws
          /\ UNCHANGED routeVars
  /\ fresh' = {}
  /\ UNCHANGED <<dispatchVars, verdict, grounds, asked, executeVars, mirrored,
                 worldVars, settled>>

\* checkKillSwitch: named capability and agent flags block even a compensator,
\* fleet and risk flags do not.
Halted ==
  \/ {"capability", AgentOf[card]} \cap flags # {}
  \/ kind # "compensation" /\ Broad \cap flags # {}

CheckKillSwitch(next) ==
  IF Halted THEN Fails("halted") ELSE GoTo(next)

PreHalt ==
  /\ pc = "prehalt"
  /\ CheckKillSwitch("authorizing") \/ Throws
  /\ UNCHANGED <<dispatchVars, routeVars, verdict, grounds, asked, executeVars,
                 mirrored, worldVars, historyVars>>

-----------------------------------------------------------------------------
(* The policy decision and the approval gate.                              *)

\* A require-approval verdict on a compensator is a policy bug: fail closed.
AuthorizeDelegation ==
  /\ pc = "authorizing"
  /\ \/ /\ verdict' = "deny" /\ Fails("denied")
     \/ /\ verdict' = "require-approval"
        /\ IF kind = "compensation" THEN Fails("regated") ELSE GoTo("digesting")
     \/ /\ verdict' = "allow" /\ GoTo("brokering")
     \/ /\ Throws /\ UNCHANGED verdict
  /\ UNCHANGED <<dispatchVars, routeVars, grounds, asked, executeVars, mirrored,
                 worldVars, historyVars>>

DigestSubject ==
  /\ pc = "digesting"
  /\ GoTo("gate") \/ Throws
  /\ UNCHANGED <<dispatchVars, routeVars, verdict, grounds, asked, executeVars,
                 mirrored, worldVars, historyVars>>

\* The ApprovalWorkflow child closes: granted, denied or timed out, or failed.
GateCloses ==
  /\ pc = "gate"
  /\ \/ GoTo("rerouting")
     \/ Fails("approval")
     \/ Throws
  /\ fresh' = {} /\ settled' = TRUE
  /\ UNCHANGED <<dispatchVars, routeVars, verdict, grounds, asked, executeVars,
                 mirrored, worldVars>>

\* Mutant: the granted approval is used without routing again.
RerouteSkipped ==
  /\ pc = "rerouting"
  /\ GoTo("posthalt")
  /\ UNCHANGED <<dispatchVars, routeVars, verdict, grounds, asked, executeVars,
                 mirrored, worldVars, historyVars>>
\* Mutant: waits until the approved version is routed again.
RerouteWaits ==
  /\ pc = "rerouting"
  /\ GoTo(IF Routed(NoCard, FALSE).card = card THEN "posthalt" ELSE "rerouting")
  /\ UNCHANGED <<dispatchVars, routeVars, verdict, grounds, asked, executeVars,
                 mirrored, worldVars, historyVars>>
\* Neither a pin nor activeOnly is passed the second time.
Reroute ==
  /\ pc = "rerouting"
  /\ \/ IF Routed(NoCard, FALSE).card = card THEN GoTo("posthalt") ELSE Fails("changed")
     \/ Throws
  /\ UNCHANGED <<dispatchVars, routeVars, verdict, grounds, asked, executeVars,
                 mirrored, worldVars, historyVars>>

PostHalt ==
  /\ pc = "posthalt"
  /\ CheckKillSwitch("brokering") \/ Throws
  /\ UNCHANGED <<dispatchVars, routeVars, verdict, grounds, asked, executeVars,
                 mirrored, worldVars, historyVars>>

-----------------------------------------------------------------------------
(* Mint, dispatch, execute.                                                *)

BrokerToken ==
  /\ pc = "brokering"
  /\ \/ /\ GoTo("announcing")
        /\ grounds' = CASE verdict = "require-approval" -> "approval"
                        [] verdict # "require-approval" /\ kind = "compensation" ->
                             "compensation"
                        [] OTHER -> "capability"
     \/ Throws /\ UNCHANGED grounds
  /\ UNCHANGED <<dispatchVars, routeVars, verdict, asked, executeVars, mirrored,
                 worldVars, historyVars>>

EmitDispatched ==
  /\ pc = "announcing"
  /\ \/ GoTo(IF mirror # NoCard THEN "mirroring" ELSE "executing")
     \/ Throws
  /\ UNCHANGED <<dispatchVars, routeVars, verdict, grounds, asked, executeVars,
                 mirrored, worldVars, historyVars>>

StartShadow ==
  /\ pc = "mirroring"
  /\ GoTo("executing") /\ mirrored' = TRUE
  /\ UNCHANGED <<dispatchVars, routeVars, verdict, grounds, asked, executeVars,
                 worldVars, historyVars>>

\* One attempt of execute_capability: it returns a result, fails with a
\* retryable error while attempts are left, or ends in an exception.  Whatever
\* it answers, it may have reached the tools.
ExecuteCapability ==
  /\ pc = "executing"
  /\ attempts' = attempts + 1
  /\ \/ /\ effects' = TRUE /\ finished' = TRUE
        /\ pc' = "recording" /\ result' = "completed" /\ UNCHANGED <<why, executed>>
     \/ /\ effects' \in {effects, TRUE} /\ UNCHANGED finished
        /\ \/ /\ pc' = "recording" /\ result' = "failed" /\ UNCHANGED <<why, executed>>
           \/ /\ attempts' < MaxAttempts /\ GoTo("executing")
           \/ Fails("execute")
  /\ UNCHANGED <<dispatchVars, routeVars, verdict, grounds, asked, mirrored,
                 worldVars, historyVars>>

Judged == judge /\ route # "pinned"
Finish == Return(result, "done", TRUE)

\* Mutant: a failed step.completed audit is rethrown.
EmitCompletedRethrown ==
  /\ pc = "recording"
  /\ \/ IF Judged THEN GoTo("judging") ELSE Finish
     \/ Fails("execute")
  /\ UNCHANGED <<dispatchVars, routeVars, verdict, grounds, asked, executeVars,
                 mirrored, worldVars, historyVars>>
\* Published or not, the result is kept.
EmitCompleted ==
  /\ pc = "recording"
  /\ IF Judged THEN GoTo("judging") ELSE Finish
  /\ UNCHANGED <<dispatchVars, routeVars, verdict, grounds, asked, executeVars,
                 mirrored, worldVars, historyVars>>

\* Outside the shield again: a cancel that came during it is thrown here.
StartJudge ==
  /\ pc = "judging"
  /\ \/ ~asked /\ Finish
     \/ asked /\ Fails("cancelled")
  /\ UNCHANGED <<dispatchVars, routeVars, verdict, grounds, asked, executeVars,
                 mirrored, worldVars, historyVars>>

Shielded == {"executing", "recording"}

\* Mutant: the cancel is noted, and the step goes on to execute.
CancelNoted ==
  /\ kind # "compensation" /\ ~asked /\ pc # "returned"
  /\ asked' = TRUE /\ GoTo(pc)
  /\ UNCHANGED <<dispatchVars, routeVars, verdict, grounds, executeVars,
                 mirrored, worldVars, historyVars>>
\* The wave scope cancels this child; the scope of a compensator is never
\* cancelled.
Cancel ==
  /\ kind # "compensation" /\ ~asked /\ pc # "returned"
  /\ asked' = TRUE
  /\ IF pc \in Shielded THEN GoTo(pc) ELSE Fails("cancelled")
  /\ UNCHANGED <<dispatchVars, routeVars, verdict, grounds, executeVars,
                 mirrored, worldVars, historyVars>>

-----------------------------------------------------------------------------
(* Operators and deployments.                                              *)

\* A promotion, ramp, rollback, suspension or resume moves the routing set.
ChangeRouting ==
  /\ changes < MaxChanges /\ pc # "returned"
  /\ active' \in Cards \cup {NoCard} /\ canary' \in Cards \cup {NoCard}
  /\ shadow' \in Cards \cup {NoCard} /\ covered' \in BOOLEAN
  /\ OneCandidate(active', canary', shadow')
  /\ changes' = changes + 1 /\ settled' = FALSE
  /\ UNCHANGED <<dispatchVars, pc, routeVars, verdict, grounds, asked,
                 executeVars, resultVars, mirrored, flags, fresh>>

RaiseFlag ==
  /\ changes < MaxChanges /\ pc # "returned"
  /\ \E f \in Flags \ flags : flags' = flags \cup {f} /\ fresh' = fresh \cup {f}
  /\ changes' = changes + 1
  /\ UNCHANGED <<dispatchVars, pc, routeVars, verdict, grounds, asked,
                 executeVars, resultVars, mirrored, routingVars, settled>>

LiftFlag ==
  /\ changes < MaxChanges /\ pc # "returned"
  /\ \E f \in flags : flags' = flags \ {f} /\ fresh' = fresh \ {f}
  /\ changes' = changes + 1
  /\ UNCHANGED <<dispatchVars, pc, routeVars, verdict, grounds, asked,
                 executeVars, resultVars, mirrored, routingVars, settled>>

-----------------------------------------------------------------------------
Workflow ==
  \/ DepthGuard \/ ResolveRoute \/ PreHalt \/ AuthorizeDelegation
  \/ DigestSubject \/ GateCloses \/ Reroute \/ PostHalt \/ BrokerToken
  \/ EmitDispatched \/ StartShadow \/ ExecuteCapability \/ EmitCompleted
  \/ StartJudge
World == ChangeRouting \/ RaiseFlag \/ LiftFlag
Closed == pc = "returned" /\ UNCHANGED vars
Next == Workflow \/ Cancel \/ World \/ Closed

Spec == Init /\ [][Next]_vars

\* Temporal runs the workflow, its activities and the gate to an end.
FairSpec == Spec /\ WF_vars(Workflow)

-----------------------------------------------------------------------------
(* Properties.                                                             *)

Dispatched == {"announcing", "mirroring", "executing", "recording", "judging"}
Preflight == {"start", "routing", "prehalt", "authorizing", "digesting",
              "gate", "rerouting", "posthalt", "brokering"}

DispatchTypes ==
  /\ kind \in {"step", "compensation", "probe"} /\ pin \in Cards \cup {NoCard}
  /\ card \in Cards \cup {NoCard} /\ mirror \in Cards \cup {NoCard}
  /\ route \in {"none", "pinned", "active", "canary"}
  /\ verdict \in {"none", "allow", "deny", "require-approval"}
  /\ grounds \in {"none", "approval", "compensation", "capability"}
  /\ tooDeep \in BOOLEAN /\ judge \in BOOLEAN /\ mirrored \in BOOLEAN

ProgressTypes ==
  /\ pc \in Preflight \cup Dispatched \cup {"returned"}
  /\ asked \in BOOLEAN /\ attempts \in 0..MaxAttempts
  /\ effects \in BOOLEAN /\ finished \in BOOLEAN
  /\ result \in {"none", "completed", "failed"} /\ executed \in BOOLEAN
  /\ why \in {"none", "depth", "no_agent", "wrong_agent", "undeclared", "halted",
              "denied", "regated", "approval", "changed", "activity", "execute",
              "cancelled", "done"}

WorldTypes ==
  /\ active \in Cards \cup {NoCard} /\ canary \in Cards \cup {NoCard}
  /\ shadow \in Cards \cup {NoCard} /\ covered \in BOOLEAN
  /\ flags \subseteq Flags /\ fresh \subseteq flags
  /\ changes \in 0..MaxChanges /\ settled \in BOOLEAN

TypeOK == DispatchTypes /\ ProgressTypes /\ WorldTypes

\* The kill switch stops the step: a halt that was in force when the step was
\* routed, or when its approval was granted, and still is, lets nothing be
\* dispatched - except that a compensator passes fleet and risk halts.
HaltStopsDispatch ==
  pc \in Dispatched =>
    /\ {"capability", AgentOf[card]} \cap flags \subseteq fresh
    /\ kind # "compensation" => Broad \cap flags \subseteq fresh

\* What runs under an approval is what was approved: if the routing moved to
\* another version during the wait, the granted step is not dispatched.
ApprovalCoversWhatRuns ==
  pc \in Dispatched /\ verdict = "require-approval" /\ settled =>
    Routed(NoCard, FALSE).card = card

\* A write that policy gates is never dispatched without the grounds of a
\* granted approval, and a compensator neither waits for one nor carries them:
\* it runs the version that did the write, unmirrored and unjudged.
GroundsMatchDispatch ==
  /\ pc \in Dispatched => (verdict = "require-approval" <=> grounds = "approval")
  /\ kind = "compensation" =>
       /\ pc \notin {"gate", "rerouting"} /\ grounds # "approval"
       /\ pc \in Dispatched => card = pin /\ grounds = "compensation" /\ mirror = NoCard

\* A step that reports not executed (denied, halted, refused or cancelled
\* before the shield) has not touched the agent's tools.
RefusalIsHonest ==
  pc = "returned" /\ why \notin {"done", "execute"} /\ ~judge => ~effects

\* A completed execution reaches the task with its metadata, also when its
\* audit or a cancel fails around it (a judged step excepted).
CompletionIsReported ==
  pc = "returned" /\ finished /\ ~judge => result = "completed" /\ executed

\* What reaches the agent is grounded: not halted, the version the approver
\* saw, with the grounds its policy and its role demand.
DispatchIsGrounded == HaltStopsDispatch /\ ApprovalCoversWhatRuns /\ GroundsMatchDispatch

\* The step's outcome is honest in both directions: "not executed" never
\* touched a tool, and a completed execution is not lost.
OutcomeIsHonest == TypeOK /\ RefusalIsHonest /\ CompletionIsReported

\* The step always ends.
Returns == <>(pc = "returned")

\* The step as TaskSaga sees it.
StepPhase == CASE pc \in Preflight \cup {"announcing", "mirroring"} -> "preflight"
               [] pc \in Shielded \cup {"judging"} -> "executing"
               [] pc = "returned" -> "returned"
Contract == INSTANCE StepContract WITH
              phase <- StepPhase, out <- IF pc = "returned" THEN result ELSE "none",
              asked <- asked, sampled <- judge, ran <- finished

\* AgentStepWorkflow implements the child the task workflow is modelled with.
ImplementsStep == Contract!Spec
=============================================================================
