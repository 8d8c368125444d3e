------------------------------ MODULE AgentRun ------------------------------
(***************************************************************************)
(* Steps of tasks as their agents carry them out: the orchestrator asks    *)
(* for the delegation, has the step's token minted and schedules the       *)
(* capability on a worker (apps/orchestrator/src/activities.ts and         *)
(* workflows.ts); the worker exchanges the token and calls a tool, or      *)
(* sends it to the LLM gateway, and turns what comes back into a result or *)
(* a failure that Temporal retries (packages/agent-sdk, tool-client and    *)
(* llm-client).  One token service and both gateways serve all of them,    *)
(* each with its own idea of the kill switch.                              *)
(***************************************************************************)
EXTENDS ToolGateway, LlmGateway

CONSTANTS Steps, LoadSet,
          Minter,          \* the token service among the watchers
          User,            \* the principal the tasks were submitted by
          MintAttempts, RunAttempts,
          NoToken          \* no token minted yet

ASSUME AgentRunAssumption ==
  /\ Minter \in Watchers /\ Callers = Steps \X (0..RunAttempts - 1) \X (0..1)
  /\ MintAttempts \in Nat \ {0} /\ RunAttempts \in Nat \ {0}

(* What a step is given: the task, the agent version it was routed to and  *)
(* the client its worker runs with, the capability with its class and what *)
(* it undoes, and the tool or the model that its handler turns to.         *)
StepLoad ==
    [task : STRING, start : {"authorizing", "done"}, agent : DOMAIN AgentOf, client : DOMAIN AgentOf,
     capability : STRING \ {"none"}, risk : DOMAIN Rank, undoes : STRING, shadow : BOOLEAN,
     scopes : SUBSET STRING, work : {"tool", "model"}, tool : STRING, valid : BOOLEAN,
     correlated : BOOLEAN, class : STRING]

(* The workers that poll an agent's queue run with a client of that agent, *)
(* if not of the same version.                                             *)
ASSUME LoadAssumption ==
  \A chosen \in LoadSet :
    /\ chosen.steps \in [Steps -> StepLoad]
    /\ \A s \in Steps : /\ IsAgent(chosen.steps[s].client)
                         /\ AgentOf[chosen.steps[s].client] = AgentOf[chosen.steps[s].agent]
    /\ chosen.scope.faults \in 0..MaxFaults
    /\ chosen.scope.outages \in 0..MaxLlmFaults

(* The catalogue the policies were written for: reads and drafts ask for   *)
(* no approval (deploy/dev/tool-servers.json).                             *)
ASSUME CatalogueAssumption ==
  \A t \in DOMAIN ToolRisk \cap {"change_get", "change_create_draft", "knowledge_search"} :
    ToolRisk[t] \in {"R0", "R1"}

VARIABLES load,      \* what this run has to do: a record per step
          scope,     \* what may happen around it: faults, outages on the
                     \* way to a model, ticks, flags put, model classes
                     \* taken off the card
          pc,        \* where each step is
          approved,  \* the steps a human approved
          token,     \* the token minted for each step
          tries,     \* attempts of the activity under way
          runs,      \* times the handler ran in this attempt
          slot,      \* the call each step waits for, or 0
          result     \* the step's outcome

stepVars == <<load, scope, pc, approved, token, tries, runs, slot, result>>
vars == <<switchVars, toolVars, llmVars, stepVars, now, faults>>

Jwks == {"key"}

Init ==
    /\ KillSwitchInit
    /\ ToolGatewayInit
    /\ LlmGatewayInit
    /\ \E chosen \in LoadSet :
         /\ load = chosen.steps
         /\ scope = chosen.scope
         /\ faults = MaxFaults - chosen.scope.faults
         /\ llmFaults = MaxLlmFaults - chosen.scope.outages
    /\ now = 0
    /\ pc = [s \in Steps |-> load[s].start]
    /\ approved = {}
    /\ token = [s \in Steps |-> NoToken]
    /\ tries = [s \in Steps |-> 0]
    /\ runs = [s \in Steps |-> 0]
    /\ slot = [s \in Steps |-> 0]
    /\ result = [s \in Steps |-> "none"]

(* The user as the orchestrator knew it when the task came in, at time 0.  *)
Snapshot == [sub |-> User, tenant |-> "acme", roles |-> {"tenant-user"},
             scopes |-> {"task:submit", "itsm:change:read", "itsm:change:draft",
                         "itsm:change:submit", "itsm:change:withdraw",
                         "knowledge:search:read"}]

OrchestratorClient == [principal |-> "svc:orchestrator", roles |-> {"platform", "broker"}]
WorkerClient(s) == [principal |-> load[s].client, roles |-> {"agent"}]

(* The grounds of the mint: every step names its capability; an approved   *)
(* one its approval, a compensator what it undoes, a shadow that it is one. *)
Grounds(s) ==
    [brokered |-> load[s].task,
     approval |-> IF s \in approved
                    THEN [step |-> s, capability |-> load[s].capability, approver |-> "user:approver"]
                    ELSE NoApproval,
     compensation |-> load[s].undoes,
     capability |-> [name |-> load[s].capability, risk |-> load[s].risk],
     deployment |-> IF load[s].shadow THEN "shadow" ELSE "none"]

Move(s, to) == pc' = [pc EXCEPT ![s] = to]
Finish(s, outcome) ==
    /\ Move(s, "done")
    /\ result' = [result EXCEPT ![s] = outcome]
    /\ tries' = [tries EXCEPT ![s] = 0]
    /\ runs' = [runs EXCEPT ![s] = 0]
    /\ slot' = [slot EXCEPT ![s] = 0]

(* authorizeDelegation: a gate suspends the step on a human; a shadow of a *)
(* gated capability is skipped.                                            *)
DelegationContext(s) ==
    [entityType |-> "User", scopes |-> Snapshot.scopes, risk |-> load[s].risk,
     approval |-> [granted |-> FALSE, capability |-> "none"], compensation |-> load[s].undoes]

AuthorizeStep(s) ==
    /\ pc[s] = "authorizing"
    /\ LET decision == Authorize("delegate", DelegationContext(s))
       IN IF decision = "allow" THEN Move(s, "minting") /\ UNCHANGED <<tries, runs, slot, result>>
          ELSE IF decision = "require-approval" /\ ~load[s].shadow
            THEN Move(s, "gated") /\ UNCHANGED <<tries, runs, slot, result>>
          ELSE Finish(s, IF load[s].shadow THEN "skipped" ELSE "failed")
    /\ UNCHANGED <<load, scope, approved, token, toolVars, faults>>

(* The ApprovalWorkflow ends one way or the other.                         *)
Decided(s) ==
    /\ pc[s] = "gated"
    /\ \/ /\ approved' = approved \cup {s}
          /\ Move(s, "minting")
          /\ UNCHANGED <<tries, runs, slot, result>>
       \/ Finish(s, "failed") /\ UNCHANGED approved
    /\ UNCHANGED <<load, scope, token, toolVars, faults>>

(* brokerToken is an activity: any answer but 2xx is an error, tried again *)
(* while attempts are left.                                                *)
Mintable(s) ==
    MayDelegate(OrchestratorClient, Snapshot, load[s].agent, Grounds(s), 0, View(Minter))

Minted(s) ==
    Delegate(OrchestratorClient, Snapshot, load[s].agent, AgentAudience(AgentOf[load[s].agent]),
             load[s].scopes, Grounds(s), 0, "key")

BrokerToken(s) ==
    /\ pc[s] = "minting"
    /\ Mintable(s)
    /\ token' = [token EXCEPT ![s] = Minted(s)]
    /\ Move(s, "running")
    /\ tries' = [tries EXCEPT ![s] = 0]
    /\ UNCHANGED <<load, scope, approved, runs, slot, result, toolVars, faults>>

BrokerTokenFails(s) ==
    /\ pc[s] = "minting"
    /\ \/ ~Mintable(s) /\ NoFault
       \/ Fault
    /\ IF tries[s] + 1 < MintAttempts
         THEN tries' = [tries EXCEPT ![s] = @ + 1] /\ UNCHANGED <<pc, runs, slot, result>>
         ELSE Finish(s, "failed")
    /\ UNCHANGED <<load, scope, approved, token, toolVars>>

(* A Retryable failure, and an attempt that ended with its worker, starts  *)
(* the activity again; a shadow has one attempt.                           *)
Attempted(s) == tries[s] + 1 < (IF load[s].shadow THEN 1 ELSE RunAttempts)

Again(s) ==
    IF Attempted(s)
      THEN /\ Move(s, "running")
           /\ tries' = [tries EXCEPT ![s] = @ + 1]
           /\ runs' = [runs EXCEPT ![s] = 0]
           /\ slot' = [slot EXCEPT ![s] = 0]
           /\ UNCHANGED result
      ELSE Finish(s, "failed")

(* The handler's tool call: first the exchange toward acp:tools with the   *)
(* worker's own client, then the request.                                  *)
CallTool(s) ==
    /\ pc[s] = "running"
    /\ load[s].work = "tool"
    /\ MayExchange(WorkerClient(s), token[s], load[s].client, View(Minter), Jwks)
    /\ LET bearer == Exchange(token[s], load[s].client, "acp:tools", {}, 0, "key")
       IN calls' = Append(calls, Call(s, load[s].task, bearer, load[s].tool, load[s].valid, load[s].correlated))
    /\ slot' = [slot EXCEPT ![s] = Len(calls) + 1]
    /\ Move(s, "calling")
    /\ NoFault
    /\ UNCHANGED <<load, scope, approved, token, tries, runs, result, loadedAt, quota, effects>>

(* The token service refuses the exchange: policy denied, for good.  When  *)
(* it cannot be reached the attempt is retried.                            *)
ExchangeRefused(s) ==
    /\ pc[s] = "running"
    /\ load[s].work = "tool"
    /\ \/ /\ ~MayExchange(WorkerClient(s), token[s], load[s].client, View(Minter), Jwks)
          /\ NoFault
          /\ Finish(s, "failed")
       \/ Fault /\ Again(s)
    /\ UNCHANGED <<load, scope, approved, token, toolVars>>

(* mapTransportError, parseResult: which answers are worth another attempt. *)
Retryable(answer) == answer \in {"rate_limited", "unavailable", "lost"}

(* The handler has its data.  An output that does not conform has the      *)
(* handler run once more, its tool calls included.                         *)
Conforms(s) ==
    \/ NoFault /\ Finish(s, "completed") /\ UNCHANGED <<load, scope, approved, token>>
    \/ /\ Fault
       /\ IF runs[s] = 0
            THEN /\ runs' = [runs EXCEPT ![s] = 1]
                 /\ slot' = [slot EXCEPT ![s] = 0]
                 /\ Move(s, "running")
                 /\ UNCHANGED <<tries, result>>
            ELSE Finish(s, "failed")
       /\ UNCHANGED <<load, scope, approved, token>>

Answered(s) == pc[s] = "calling" /\ slot[s] # 0 /\ calls[slot[s]].pc = "answered"

HearAnswer(s) ==
    /\ Answered(s)
    /\ calls[slot[s]].answer = "ok"
    /\ Conforms(s)
    /\ UNCHANGED toolVars

HearError(s) ==
    /\ Answered(s)
    /\ calls[slot[s]].answer # "ok"
    /\ IF Retryable(calls[slot[s]].answer) THEN Again(s) ELSE Finish(s, "failed")
    /\ NoFault
    /\ UNCHANGED <<load, scope, approved, token, toolVars>>

(* The client waits 15 s for a tool, as long as the gateway waits for the  *)
(* upstream, the activity has a timeout of its own and a worker may die:   *)
(* the call or the completion goes on without them.                        *)
AttemptLost(s) ==
    /\ pc[s] \in {"calling", "asking"}
    /\ Fault
    /\ Again(s)
    /\ UNCHANGED <<load, scope, approved, token, toolVars>>

(* A handler that asks its model: the step's token goes to the LLM gateway *)
(* as it is.  Every run of the handler in every attempt asks once.         *)
Asked(s) == <<s, tries[s], runs[s]>>

AskModel(s) ==
    /\ pc[s] = "running"
    /\ load[s].work = "model"
    /\ Request(Asked(s), load[s].class, load[s].valid)
    /\ Move(s, "asking")
    /\ UNCHANGED <<load, scope, approved, token, tries, runs, slot, result, toolVars, faults,
                   llmFaults, rpm, card, cached, revoked, latency>>

(* toCapabilityError: 429 and 5xx are retryable, the rest is not.          *)
RetryableStatus(status) == status = 429 \/ status >= 500

HearModel(s) ==
    /\ pc[s] = "asking"
    /\ llm[Asked(s)].pc = "answered"
    /\ llm' = [llm EXCEPT ![Asked(s)] = NoCompletion]
    /\ LET status == llm[Asked(s)].status
       IN \/ status = 200 /\ Conforms(s)
          \/ /\ status # 200
             /\ IF RetryableStatus(status) THEN Again(s) ELSE Finish(s, "failed")
             /\ NoFault
             /\ UNCHANGED <<load, scope, approved, token>>
    /\ UNCHANGED <<toolVars, llmFaults, rpm, card, cached, revoked, latency>>

Orchestrate(s) == AuthorizeStep(s) \/ Decided(s) \/ BrokerToken(s) \/ BrokerTokenFails(s)
Serve(s) == CallTool(s) \/ ExchangeRefused(s) \/ HearAnswer(s) \/ HearError(s) \/ AttemptLost(s)
Gate(c) == \/ Receive(c, Jwks) \/ Decide(c) \/ DecideFails(c) \/ Inform(c)
           \/ Broker(c, View(Minter), Jwks) \/ Forward(c) \/ ForwardFails(c)

(* Time passes for everyone: the limiters refill.                          *)
Tick ==
    /\ now < scope.ticks
    /\ \E s \in Steps : pc[s] # "done"
    /\ now' = now + 1
    /\ quota' = Refilled
    /\ rpm' = RpmRefilled
    /\ UNCHANGED <<switchVars, loadedAt, calls, effects, llmFaults, llm, card, cached, revoked, latency, stepVars, faults>>

StepAction(s) == (Orchestrate(s) \/ Serve(s)) /\ UNCHANGED <<switchVars, llmVars, now>>
CallAction(c) == Gate(c) /\ UNCHANGED <<switchVars, llmVars, stepVars, now>>
ModelAction(s) == (AskModel(s) \/ HearModel(s)) /\ UNCHANGED <<switchVars, now>>
CompletionAction(c) ==
    Complete(c, token[c[1]], Jwks) /\ UNCHANGED <<switchVars, toolVars, stepVars, now, faults>>

Environment ==
    \/ Tick
    \/ Crash /\ UNCHANGED <<llmVars, stepVars, now>>
    \/ Flip(scope.flags) /\ UNCHANGED <<toolVars, llmVars, stepVars, now, faults>>
    \/ (\E w \in Watchers : Deliver(w)) /\ UNCHANGED <<toolVars, llmVars, stepVars, now, faults>>
    \/ (\E k \in scope.classes : ChangeCard(k)) /\ UNCHANGED <<switchVars, toolVars, stepVars, now, faults>>

Next ==
    \/ \E s \in Steps : StepAction(s) \/ ModelAction(s)
    \/ \E c \in DOMAIN calls : CallAction(c)
    \/ \E c \in Callers : CompletionAction(c)
    \/ Environment

Spec == Init /\ [][Next]_vars

(* The processes go on: Temporal schedules, workers poll, gateways answer, *)
(* and the approval ends by its own timer.                                 *)
FairSpec == /\ Spec
            /\ WF_vars(\E s \in Steps : StepAction(s) \/ ModelAction(s))
            /\ WF_vars(\E c \in DOMAIN calls : CallAction(c))
            /\ WF_vars(\E c \in Callers : CompletionAction(c))

-----------------------------------------------------------------------------
(* The shape of the state: nothing waits for a call that was never made,   *)
(* and the limiters stay between empty and full.                           *)
TypeOK ==
    /\ \A w \in Watchers : heard[w] \in DOMAIN bucket
    /\ \A s \in Steps : /\ slot[s] \in 0..Len(calls)
                        /\ tries[s] <= MintAttempts + RunAttempts /\ runs[s] \in 0..1
                        /\ (pc[s] = "calling") = (slot[s] # 0)
                        /\ (pc[s] = "done") = (result[s] # "none" \/ load[s].start = "done")
                        /\ pc[s] = "asking" => llm[Asked(s)].class = load[s].class
    /\ \A c \in Callers : llm[c].binding \in 1..Bindings + 1
    /\ \A t \in DOMAIN quota : quota[t] \in 0..Burst
    /\ \A b \in 1..Bindings : rpm[b] \in 0..Rpm
    /\ \A e \in effects : e.call \in DOMAIN calls /\ calls[e.call].step = e.step

(* A worker that runs with the client of its own agent version: another's  *)
(* loses the claims, the shadow mark among them, at the exchange.          *)
OwnClient(s) == load[s].client = load[s].agent

(* No write above the class its step was authorised for, and no R2 write   *)
(* without a human's decision on that very step and capability: only the   *)
(* withdrawal of a submission goes without.  The decision crosses three    *)
(* services as a claim (tokens.ts buildApprovalClaim, core.ts              *)
(* deriveApproval, itsm.cedar) before the write.  A token without a        *)
(* capability claim is held to no class below R2 (core.ts:358-366): that   *)
(* of a worker with another version's client, which may draft on any step. *)
CapabilityFor(tool) ==
    IF tool = "change_submit" THEN "change.submit" ELSE "change.withdraw"

WritesAreGranted ==
    \A e \in effects :
        /\ \/ Rank[ToolRisk[e.tool]] <= Rank[load[e.step].risk]
           \/ ToolRisk[e.tool] = "R1" /\ ~OwnClient(e.step)
        /\ ToolRisk[e.tool] = "R2" =>
             \/ e.step \in approved /\ load[e.step].capability = CapabilityFor(e.tool)
             \/ e.tool = "change_withdraw" /\ load[e.step].undoes = "change.submit"

(* A shadow run writes nothing, whatever the tool and however the handler  *)
(* got there: the mark set by the shadow workflow reaches the gateway      *)
(* through the mint and the exchange, unless another version's client      *)
(* exchanged the token: its bearer carries no mark (tokens.ts exchange).   *)
ShadowNeverWrites ==
    \A e \in effects : load[e.step].shadow => ~OwnClient(e.step)

(* A write was let in by a gateway that had heard of no flag against the   *)
(* step's agent, capability or user, nor of a halt or a flag on its class  *)
(* unless it undoes something.                                             *)
StopsAtTheSwitch ==
    \A e \in effects :
        LET view == calls[e.call].saw
            step == load[e.step]
        IN /\ ~AgentSuspension(view, AgentOf[step.agent])
           /\ ~PrincipalDenied(view, User)
           /\ OwnClient(e.step) => /\ ~PrincipalDenied(view, step.agent)
                                   /\ ~CapabilitySuspension(view, step.capability)
           /\ step.undoes = NoCompensation =>
                ~FleetHalt(view) /\ ~RiskClassSuspension(view, ToolRisk[e.tool])

(* The limiter turns a call away only when calls that were allowed have    *)
(* used the tool's burst up: refused calls cost nobody anything.           *)
LimiterServesTheAllowed ==
    \A c \in DOMAIN calls :
        calls[c].answer = "rate_limited" =>
            Cardinality({d \in DOMAIN calls \ {c} : calls[d].tool = calls[c].tool /\ calls[d].admitted}) >= Burst

(* A step writes more than once only at the price of a fault: a lost       *)
(* answer, a dead worker, a restart or an output that had to be repaired.  *)
Spent == faults - (MaxFaults - scope.faults)

ExtraWritesAreFaults ==
    \A s \in Steps : Cardinality({e \in effects : e.step = s}) <= 1 + Spent

(* A step that reports a write did write.                                  *)
CompletedWasApplied ==
    \A s \in Steps :
        result[s] = "completed" /\ load[s].work = "tool" /\ Write(load[s].tool) =>
            \E e \in effects : e.step = s /\ e.tool = load[s].tool

(* What the broker asserted about a step arrives whole at the gateway, for *)
(* the agent it was asserted for, and widens nothing on the way; an        *)
(* exchange by anyone else carries none of it.                             *)
ClaimsTravelWhole ==
    \A c \in DOMAIN calls :
        LET bearer == calls[c].token
            step == calls[c].step
        IN /\ bearer.scopes \subseteq load[step].scopes \cap Snapshot.scopes
           /\ bearer.sub = User
           /\ bearer.claims = IF Actor(bearer) = load[step].agent THEN token[step].claims ELSE NoClaims

(* A completion turned away as rate limited met nothing but rate limits at *)
(* every provider binding, or ran out of time.                             *)
RateLimitedMeansAll ==
    \A c \in Callers :
        llm[c].pc = "answered" /\ llm[c].status = 429 =>
            /\ TerminalFaults(c) = {"rate_limited"}
            /\ \/ {llm[c].tried[i].binding : i \in DOMAIN llm[c].tried} = 1..Bindings
               \/ now >= llm[c].deadline

(* Writes are sound end to end: within the class and the approval of their *)
(* step, on claims that came through whole, suppressed for a shadow and    *)
(* stopped by the switch.                                                  *)
WritesAreSound ==
    TypeOK /\ WritesAreGranted /\ ShadowNeverWrites /\ StopsAtTheSwitch /\ ClaimsTravelWhole

(* Answers are true: what completed was applied, what was applied twice    *)
(* met a failure, and a limit is named only where one was met.             *)
AnswersAreTrue ==
    CompletedWasApplied /\ ExtraWritesAreFaults /\ LimiterServesTheAllowed /\ RateLimitedMeansAll

(* A model class taken off the agent's card is refused at the latest when  *)
(* the cached allowlist has aged out.  Its age counts from the gateway's   *)
(* having the card (allowlist.ts:66), not from the registry's reading of   *)
(* it, so that a card which was on its way during the change, and the older *)
(* one of two that overlap, serve for a full lifetime of the cache more:   *)
(* what is added is the longest such journey, which no timeout bounds.     *)
AllowlistIsRecent ==
    [][\A c \in Callers :
         llm[c].pc # "trying" /\ llm'[c].pc = "trying" =>
             LET class == llm[c].class
             IN class \in card \/ now < revoked[class] - 1 + AllowTtl + latency']_vars

(* Every step ends: no refusal, lost answer or restart leaves one waiting. *)
StepsEnd == <>(\A s \in Steps : pc[s] = "done")
=============================================================================
