------------------------------- MODULE Policy -------------------------------
(***************************************************************************)
(* The policy decision point (apps/policy/src/pdp.ts) over the policies of *)
(* delegation, of the change tools and of knowledge search                 *)
(* (policies/*.cedar).  A request is an action and its context; the bundle *)
(* holds permits only, some annotated @decision("require-approval").       *)
(* Principal and resource always name the tenant of the request.           *)
(***************************************************************************)
EXTENDS FiniteSets

Approved(context, capability) ==
    context.approval.granted /\ context.approval.capability = capability

(* What pre-authorises a write: the approval of that very capability, or,  *)
(* for a withdrawal, the unwinding of a submission.                        *)
SubmitPaired(context) == Approved(context, "change.submit")
WithdrawPaired(context) ==
    Approved(context, "change.withdraw") \/ context.compensation = "change.submit"

Scoped(context, scope) == scope \in context.scopes

Delegates(context) == context.entityType = "User" /\ Scoped(context, "task:submit")
Calls(context, scope) == context.entityType = "Agent" /\ Scoped(context, scope)

(* The permits for an action whose conditions hold in a context.           *)
Determining(action, context) ==
    LET unwind == context.compensation # "none"
        Permits(id, of, condition) == {p \in {id} : action = of /\ condition}
    IN UNION {
         Permits("allow-r0-delegation", "delegate", Delegates(context) /\ context.risk = "R0"),
         Permits("allow-r1-delegation", "delegate", Delegates(context) /\ context.risk = "R1"),
         Permits("gate-r2-delegation", "delegate", Delegates(context) /\ context.risk = "R2" /\ ~unwind),
         Permits("permit-compensation", "delegate",
                 context.entityType = "User" /\ unwind /\ context.risk \in {"R1", "R2"}),
         Permits("allow-tool-itsm-change-get", "change_get", Calls(context, "itsm:change:read")),
         Permits("allow-tool-itsm-change-draft", "change_create_draft", Calls(context, "itsm:change:draft")),
         Permits("gate-tool-itsm-change-submit", "change_submit",
                 Calls(context, "itsm:change:submit") /\ ~SubmitPaired(context)),
         Permits("permit-tool-itsm-change-submit", "change_submit",
                 Calls(context, "itsm:change:submit") /\ SubmitPaired(context)),
         Permits("gate-tool-itsm-change-withdraw", "change_withdraw",
                 Calls(context, "itsm:change:withdraw") /\ ~WithdrawPaired(context)),
         Permits("permit-tool-itsm-change-withdraw", "change_withdraw",
                 Calls(context, "itsm:change:withdraw") /\ WithdrawPaired(context)),
         Permits("allow-tool-knowledge-search", "knowledge_search",
                 Scoped(context, "knowledge:search:read"))}

ApprovalPolicies ==
    {"gate-r2-delegation", "gate-tool-itsm-change-submit", "gate-tool-itsm-change-withdraw"}

(* No permit denies, as does an evaluation that fails; one annotated permit *)
(* among the determining ones turns the allow into require-approval.       *)
Authorize(action, context) ==
    IF Determining(action, context) = {} THEN "deny"
    ELSE IF Determining(action, context) \cap ApprovalPolicies # {} THEN "require-approval"
    ELSE "allow"
=============================================================================
