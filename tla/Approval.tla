------------------------------ MODULE Approval ------------------------------
(***************************************************************************)
(* The human approval gate: ApprovalWorkflow of the orchestrator, and the  *)
(* gateway route through which approvers decide.  The workflow waits for a *)
(* decision signal, escalates, and denies when the time is up; the gateway *)
(* describes and queries the workflow, checks the caller against the       *)
(* answer and signals, three calls between which the workflow moves on.    *)
(*                                                                         *)
(* Time is a clock of coarse ticks.  Timers fire on time; an audit may     *)
(* take up to AuditMax ticks, its retries included.                        *)
(***************************************************************************)
EXTENDS Integers, Sequences

CONSTANTS
  Principals,     \* principals that can sign a decision
  Subject,        \* subject.principal, who asked for the gated step
  Requests,       \* POST .../decision calls in flight
  Posts,          \* what a call may carry
  RawSignals,     \* signals sent past the gateway
  MaxRaw,         \* bound on the number of those
  EscalateAfter, DenyAfter,   \* escalate_after_s, deny_after_s
  AuditMax        \* bound on the ticks one awaited audit takes

Nobody == ""      \* an approver that is not a non-empty string
NoChain == "none" \* approver_chain absent or not an array

\* head is the first link of the approver_chain; digest says whether the
\* signal echoes the digest of the subject.
Signal == [decision : {"approve", "deny", "other"}, digest : BOOLEAN,
           approver : Principals \cup {Nobody},
           head : Principals \cup {NoChain}]
NoDecision == [decision |-> "other", digest |-> FALSE,
               approver |-> Nobody, head |-> NoChain]

\* wellFormed: the body passes the gateway's 400 checks.
Post == [decision : {"approve", "deny"}, digest : BOOLEAN, sub : Principals,
         tenant : BOOLEAN, wellFormed : BOOLEAN]

ASSUME ConstantsAssumption ==
  /\ Nobody \notin Principals /\ NoChain \notin Principals
  /\ Subject \in Principals
  /\ RawSignals \subseteq Signal /\ Posts \subseteq Post
  /\ MaxRaw \in Nat /\ AuditMax \in Nat
  /\ EscalateAfter \in Nat /\ DenyAfter \in Nat /\ EscalateAfter < DenyAfter

VARIABLES
  pc,          \* where ApprovalWorkflow waits, or closed
  now, due,    \* the clock, and when the current wait ends at the latest
  decision,    \* the accepted signal, or NoDecision
  escalated, rejected,
  latency,     \* latencyMs: the clock when the waiting ended
  outcome,     \* what the workflow returned, or how it ended without
  log,         \* approval events published
  delivered,   \* history: the signals the handler ran on, in order
  raws,        \* raw signals sent
  phase,       \* where each gateway call is
  post,        \* what it carries
  sawClosed,   \* what its describe call returned
  answer       \* its HTTP answer

gateVars    == <<pc, now, due, escalated, latency, outcome, log>>
signalVars  == <<decision, rejected, delivered>>
gatewayVars == <<phase, post, sawClosed, answer>>
vars == <<gateVars, signalVars, gatewayVars, raws>>

NoPost == [decision |-> "deny", digest |-> FALSE, sub |-> Subject,
           tenant |-> FALSE, wellFormed |-> FALSE]
Waiting == {"t1", "t2"}
Auditing == {"requested", "escalated", "timeout", "decided"}
Decided == decision # NoDecision

Init ==
  /\ pc = "requested" /\ now = 0 /\ due = AuditMax
  /\ decision = NoDecision /\ escalated = FALSE /\ rejected = 0
  /\ latency = 0 /\ outcome = "none" /\ log = {} /\ delivered = <<>>
  /\ raws = 0
  /\ phase = [r \in Requests |-> "idle"] /\ post = [r \in Requests |-> NoPost]
  /\ sawClosed = [r \in Requests |-> FALSE]
  /\ answer = [r \in Requests |-> "none"]

-----------------------------------------------------------------------------
(* ApprovalWorkflow.                                                       *)

\* The waiting is over: latencyMs is taken and the decision is read, once.
ReadDecision(hasDecision) ==
  /\ pc' = IF hasDecision THEN "decided" ELSE "timeout"
  /\ latency' = now /\ due' = now + AuditMax

\* await condition(decision !== undefined, limit).
AwaitDecision(wait, limit) ==
  IF Decided THEN ReadDecision(TRUE)
             ELSE pc' = wait /\ due' = now + limit /\ UNCHANGED latency

\* An audit whose three attempts fail ends the workflow; the event may have
\* reached the stream all the same.
AuditFails(event) ==
  /\ pc' = "closed" /\ outcome' = "failed"
  /\ log' \in {log, log \cup {event}}
  /\ UNCHANGED <<due, escalated, latency>>

Platform(type) == [type |-> type, actor |-> "orchestrator", head |-> Subject]

EmitRequested ==
  /\ pc = "requested"
  /\ \/ /\ log' = log \cup {Platform("requested")}
        /\ AwaitDecision("t1", EscalateAfter)
        /\ UNCHANGED <<escalated, outcome>>
     \/ AuditFails(Platform("requested"))
  /\ UNCHANGED <<now, signalVars, gatewayVars, raws>>

EscalateT1 ==
  /\ pc = "t1" /\ now = due
  /\ escalated' = TRUE /\ pc' = "escalated" /\ due' = now + AuditMax
  /\ UNCHANGED <<now, latency, outcome, log, signalVars, gatewayVars, raws>>

\* The second wait shortened by the escalation twice.
SecondWaitShort == IF DenyAfter < 2 * EscalateAfter THEN 0
                   ELSE DenyAfter - 2 * EscalateAfter
SecondWait == DenyAfter - EscalateAfter

EmitEscalated ==
  /\ pc = "escalated"
  /\ \/ /\ log' = log \cup {Platform("escalated")}
        /\ AwaitDecision("t2", SecondWait)
        /\ UNCHANGED <<escalated, outcome>>
     \/ AuditFails(Platform("escalated"))
  /\ UNCHANGED <<now, signalVars, gatewayVars, raws>>

\* The second wait without a time limit.
TimeoutT2Indefinite ==
  /\ pc = "t2" /\ Decided /\ ReadDecision(TRUE)
  /\ UNCHANGED <<now, escalated, outcome, log, signalVars, gatewayVars, raws>>
TimeoutT2 ==
  /\ pc = "t2" /\ now = due
  /\ ReadDecision(FALSE)
  /\ UNCHANGED <<now, escalated, outcome, log, signalVars, gatewayVars, raws>>

\* TIMEOUT => DENY, whatever the handler accepts during the audit.
EmitTimeout ==
  /\ pc = "timeout"
  /\ \/ /\ log' = log \cup {Platform("timeout")}
        /\ pc' = "closed" /\ outcome' = "timeout"
        /\ UNCHANGED <<due, escalated, latency>>
     \/ AuditFails(Platform("timeout"))
  /\ UNCHANGED <<now, signalVars, gatewayVars, raws>>

\* validatedApproverChain: the signal's chain only when it starts at the approver.
ChainHead(s) == IF s.head = s.approver THEN s.head ELSE s.approver

Granted == decision.decision = "approve"
DecisionEvent == [type |-> IF Granted THEN "granted" ELSE "denied",
                  actor |-> decision.approver, head |-> ChainHead(decision)]

EmitDecision ==
  /\ pc = "decided"
  /\ \/ /\ log' = log \cup {DecisionEvent} /\ pc' = "closed"
        /\ outcome' = IF Granted THEN "approved" ELSE "denied"
        /\ UNCHANGED <<due, escalated, latency>>
     \/ AuditFails(DecisionEvent)
  /\ UNCHANGED <<now, signalVars, gatewayVars, raws>>

Acceptable(s) ==
  /\ s.decision \in {"approve", "deny"}
  /\ s.approver # Nobody
  /\ s.approver # Subject
  /\ s.digest

\* A later valid decision replaces an earlier one.
LatestDecision(s) ==
  /\ delivered' = Append(delivered, s)
  /\ IF Acceptable(s)
       THEN decision' = s /\ UNCHANGED rejected
       ELSE UNCHANGED decision /\ rejected' = rejected + 1
  /\ IF Acceptable(s) /\ pc \in Waiting
       THEN ReadDecision(TRUE) ELSE UNCHANGED <<pc, latency, due>>
  /\ UNCHANGED <<now, escalated, outcome, log>>
\* The signal handler, and the condition it wakes in the same activation.
DecisionSignal(s) ==
  /\ delivered' = Append(delivered, s)
  /\ IF ~Decided /\ Acceptable(s)
       THEN decision' = s /\ UNCHANGED rejected
       ELSE UNCHANGED decision /\ rejected' = rejected + 1
  /\ IF ~Decided /\ Acceptable(s) /\ pc \in Waiting
       THEN ReadDecision(TRUE) ELSE UNCHANGED <<pc, latency, due>>
  /\ UNCHANGED <<now, escalated, outcome, log>>

\* The event of the audit the workflow awaits.
Pending == CASE pc = "decided" -> DecisionEvent
             [] pc \in Auditing \ {"decided"} -> Platform(pc)

\* The task that waits for the gate is cancelled, and the gate with it; an
\* audit that is under way may still be published.
CancelByParent ==
  /\ pc # "closed"
  /\ pc' = "closed" /\ outcome' = "cancelled"
  /\ \/ UNCHANGED log
     \/ pc \in Auditing /\ log' = log \cup {Pending}
  /\ UNCHANGED <<now, due, escalated, latency, signalVars, gatewayVars, raws>>

Tick ==
  /\ pc # "closed" /\ now < due
  /\ now' = now + 1
  /\ UNCHANGED <<pc, due, escalated, latency, outcome, log, signalVars,
                 gatewayVars, raws>>

-----------------------------------------------------------------------------
(* The gateway.                                                            *)

\* approvalStatusQuery, served for a closed workflow too.
Query == IF ~Decided THEN "pending" ELSE IF Granted THEN "granted" ELSE "denied"
\* TemporalApprovalGateway.status.
Status(closed) == IF closed /\ Query = "pending" THEN "timeout" ELSE Query

Answer(r, a) ==
  /\ answer' = [answer EXCEPT ![r] = a]
  /\ phase' = [phase EXCEPT ![r] = "answered"]

PostDecision(r) ==
  /\ phase[r] = "idle"
  /\ \E p \in Posts :
       /\ post' = [post EXCEPT ![r] = p]
       /\ IF p.wellFormed
            THEN phase' = [phase EXCEPT ![r] = "posted"] /\ UNCHANGED answer
            ELSE Answer(r, "bad_request")
  /\ UNCHANGED <<gateVars, signalVars, raws, sawClosed>>

Describe(r) ==
  /\ phase[r] = "posted"
  /\ sawClosed' = [sawClosed EXCEPT ![r] = (pc = "closed")]
  /\ phase' = [phase EXCEPT ![r] = "described"]
  /\ UNCHANGED <<gateVars, signalVars, raws, post, answer>>

\* Separation of duties left to the workflow.
RefusalNoSelf(p, status) ==
  CASE ~p.tenant -> "not_found"
    [] p.tenant /\ status # "pending" -> "already_decided"
    [] p.tenant /\ status = "pending" /\ ~p.digest -> "stale"
    [] OTHER -> "none"
\* The checks on the view, in their order.
Refusal(p, status) ==
  CASE ~p.tenant -> "not_found"
    [] p.tenant /\ status # "pending" -> "already_decided"
    [] p.tenant /\ status = "pending" /\ p.sub = Subject -> "forbidden"
    [] p.tenant /\ status = "pending" /\ p.sub # Subject /\ ~p.digest -> "stale"
    [] OTHER -> "none"

QueryAndCheck(r) ==
  /\ phase[r] = "described"
  /\ LET refusal == Refusal(post[r], Status(sawClosed[r])) IN
       IF refusal = "none"
         THEN phase' = [phase EXCEPT ![r] = "signalling"] /\ UNCHANGED answer
         ELSE Answer(r, refusal)
  /\ UNCHANGED <<gateVars, signalVars, raws, post, sawClosed>>

\* decide(): the claims are the caller's, so the chain starts at the approver.
SignalOf(p) == [decision |-> p.decision, digest |-> p.digest,
                approver |-> p.sub, head |-> p.sub]

\* The answer to the signal call can be lost after the signal was accepted.
SignalGate(r) ==
  /\ phase[r] = "signalling"
  /\ \/ /\ pc # "closed"
        /\ DecisionSignal(SignalOf(post[r]))
        /\ Answer(r, "accepted") \/ Answer(r, "error")
     \/ Answer(r, "error") /\ UNCHANGED <<gateVars, signalVars>>
  /\ UNCHANGED <<post, sawClosed, raws>>

\* A signal sent with raw Temporal access.
RawSignal ==
  /\ raws < MaxRaw /\ pc # "closed"
  /\ \E s \in RawSignals : DecisionSignal(s)
  /\ raws' = raws + 1
  /\ UNCHANGED gatewayVars

-----------------------------------------------------------------------------
Audit == EmitRequested \/ EmitEscalated \/ EmitTimeout \/ EmitDecision
Timer == EscalateT1 \/ TimeoutT2
Call(r) == PostDecision(r) \/ Describe(r) \/ QueryAndCheck(r) \/ SignalGate(r)
Idle == pc = "closed" /\ UNCHANGED vars

Next == Audit \/ Timer \/ CancelByParent \/ Tick \/ RawSignal
          \/ (\E r \in Requests : Call(r)) \/ Idle

Spec == Init /\ [][Next]_vars

\* Temporal completes or fails every activity and fires every timer.
FairSpec == Spec /\ WF_vars(Audit) /\ WF_vars(Timer) /\ WF_vars(Tick)

-----------------------------------------------------------------------------
(* Properties.                                                             *)

Events == [type : {"requested", "escalated", "timeout"},
           actor : {"orchestrator"}, head : {Subject}]
          \cup [type : {"granted", "denied"},
                actor : Principals \ {Subject}, head : Principals]

TypeOK ==
  /\ pc \in Waiting \cup Auditing \cup {"closed"}
  /\ now \in Nat /\ due \in Nat /\ latency \in Nat
  /\ decision \in Signal /\ escalated \in BOOLEAN /\ rejected \in Nat
  /\ outcome \in {"none", "approved", "denied", "timeout", "failed", "cancelled"}
  /\ log \subseteq Events /\ delivered \in Seq(Signal) /\ raws \in 0..MaxRaw
  /\ phase \in [Requests -> {"idle", "posted", "described", "signalling", "answered"}]
  /\ post \in [Requests -> Post]
  /\ sawClosed \in [Requests -> BOOLEAN]
  /\ answer \in [Requests -> {"none", "bad_request", "not_found", "already_decided",
                              "forbidden", "stale", "accepted", "error"}]

\* No path grants without an accepted signal: a granted outcome rests on a
\* decision of another principal about this very subject, and the published
\* grant names that principal, with a delegation chain that starts there.
GrantIsAuthorised ==
  outcome = "approved" =>
    /\ decision.decision = "approve" /\ decision.digest
    /\ decision.approver \in Principals \ {Subject}
    /\ [type |-> "granted", actor |-> decision.approver, head |-> decision.approver] \in log

\* FIRST VALID DECISION WINS, and every other signal is counted: whatever the
\* gateway calls and raw signals interleave to, the workflow holds the earliest
\* acceptable signal and obeys no later one.
FirstValidWins ==
  /\ Decided =>
       \E i \in 1..Len(delivered) :
         /\ delivered[i] = decision /\ Acceptable(decision)
         /\ \A j \in 1..(i - 1) : ~Acceptable(delivered[j])
  /\ ~Decided => \A i \in 1..Len(delivered) : ~Acceptable(delivered[i])
  /\ rejected = Len(delivered) - (IF Decided THEN 1 ELSE 0)

\* The ledger tells the outcome the step acted on: one terminal event, and
\* never the event of another verdict.
RecordMatchesOutcome ==
  LET verdicts == {e.type : e \in log} \cap {"granted", "denied", "timeout"} IN
  /\ outcome = "approved" => verdicts = {"granted"}
  /\ outcome = "denied" => verdicts = {"denied"}
  /\ outcome = "timeout" => verdicts = {"timeout"}
  /\ outcome = "none" => verdicts = {}

\* Deny by default is not early: the approvers have deny_after_s, although the
\* two waits and the audits between them are timed separately.
TimeoutNotEarly == pc = "timeout" \/ outcome = "timeout" => latency >= DenyAfter

\* The gate cannot hold its step longer than deny_after_s and its audits.
WaitIsBounded == now <= DenyAfter + 3 * AuditMax

\* A decision the gateway accepted is refused by the workflow only because
\* another one was there first: the checks on the stale view let nothing
\* through that the handler would count as invalid.
AcceptedIsDecided ==
  \A r \in Requests : answer[r] = "accepted" => Decided

\* The gate always closes: no missed signal, audit failure or race leaves the
\* gated step waiting.
GateCloses == <>(pc = "closed")

\* The gate's decision is sound: granted only on the first valid decision of
\* another principal, and recorded as it was returned.
DecisionIsSound == TypeOK /\ GrantIsAuthorised /\ FirstValidWins /\ RecordMatchesOutcome

\* The deadline is exact over the two waits and the audits between them.
DeadlineIsExact == TimeoutNotEarly /\ WaitIsBounded
=============================================================================
