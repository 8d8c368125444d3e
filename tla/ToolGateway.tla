---------------------------- MODULE ToolGateway -----------------------------
(***************************************************************************)
(* The tool gateway (apps/tool-gateway/src/core.ts): what happens to one   *)
(* tool call between the request that brings it and the envelope that      *)
(* answers it.  A call is a record of "calls"; it stays there when its     *)
(* client has given up on it, because the gateway does not notice.  Cedar, *)
(* the upstream's tool list, the credential broker and the upstream are    *)
(* awaited, so each is a step of its own.                                  *)
(***************************************************************************)
EXTENDS TokenService, Policy

CONSTANTS Gateway,       \* this gateway among the watchers
          ToolScope, ToolRisk,   \* the catalogue of tools
          Sunset,        \* when the deprecated ones leave it
          Exchanged,     \* tools of servers reached with an exchanged token
          Burst, Refill, \* rate limit: capacity and tokens regained per tick
          MaxFaults

(* What the parser of the catalogue guarantees of the one that was loaded: *)
(* a gateway with any other does not start.                                *)
Configured ==
    /\ DOMAIN ToolRisk = DOMAIN ToolScope
    /\ \A t \in DOMAIN ToolRisk : ToolRisk[t] \in DOMAIN Rank
    /\ Exchanged \subseteq DOMAIN ToolScope
    /\ Burst \in Nat \ {0} /\ Refill \in Nat

ASSUME ToolGatewayAssumption ==
  /\ Configured
  /\ DOMAIN Sunset \subseteq DOMAIN ToolScope
  /\ Gateway \in Watchers /\ MaxFaults \in Nat

VARIABLES faults,
          loadedAt,  \* when the catalogue was last read
          calls,     \* every tool call ever received, in order
          quota,     \* tokens left in the limiter's bucket of each tool
          effects    \* ghost: the writes the upstreams have carried out

toolVars == <<loadedAt, calls, quota, effects>>

(* A deprecated tool server is dropped when the catalogue is read at or     *)
(* after its sunset, and serves on until then.                             *)
Governed == {t \in DOMAIN ToolScope : t \in DOMAIN Sunset => loadedAt < Sunset[t]}

ToolGatewayInit ==
    /\ loadedAt = 0
    /\ calls = <<>>
    /\ quota = [t \in DOMAIN ToolScope |-> Burst]
    /\ effects = {}

Fault == faults < MaxFaults /\ faults' = faults + 1
NoFault == UNCHANGED faults

(* A request as the client sends it: the exchanged token, the tool and its *)
(* arguments, and whether the correlation headers name the step.           *)
Call(step, task, token, tool, valid, correlated) ==
    [pc |-> "arrived", step |-> step, task |-> task, token |-> token, tool |-> tool,
     valid |-> valid, correlated |-> correlated, answer |-> "none", admitted |-> FALSE,
     saw |-> {}]

Write(tool) == Rank[ToolRisk[tool]] >= Rank["R1"]

(* Claims the gateway derives from the verified token and the correlation. *)
DeriveApproval(call) ==
    LET a == call.token.claims.approval
    IN [granted |-> /\ a # NoApproval
                    /\ call.correlated
                    /\ call.token.claims.brokered = call.task
                    /\ a.step = call.step,
        capability |-> a.capability]

DeriveCompensation(call) ==
    IF call.correlated /\ call.token.claims.brokered = call.task
      THEN call.token.claims.compensation
      ELSE NoCompensation

Unwinds(call) == DeriveCompensation(call) # NoCompensation

(* resolveCaller: an agent's token must come from the orchestrator.        *)
ChainTerminatesAtOrchestrator(act) == act # <<>> /\ act[Len(act)] = "svc:orchestrator"

Accepts(call, jwks) ==
    /\ Valid(call.token, jwks)
    /\ call.token.aud = "acp:tools"
    /\ IsAgent(Actor(call.token)) => ChainTerminatesAtOrchestrator(call.token.act)

(* The switches that are read before the tool is looked up, and the one    *)
(* that needs to know it.                                                  *)
Halted(call, view) ==
    LET capability == call.token.claims.capability
        actor == Actor(call.token)
    IN \/ FleetHalt(view) /\ ~Unwinds(call)
       \/ IsAgent(actor) /\ AgentSuspension(view, AgentOf[actor])
       \/ \E p \in {actor, call.token.sub} : PrincipalDenied(view, p)
       \/ capability # NoCapability /\ CapabilitySuspension(view, capability.name)
       \/ capability # NoCapability /\ ~Unwinds(call) /\ RiskClassSuspension(view, capability.risk)

ToolHalted(call, view) == ~Unwinds(call) /\ RiskClassSuspension(view, ToolRisk[call.tool])

Shadowed(call) == call.token.claims.deployment = "shadow" /\ Write(call.tool)

(* Mutant: only R2 tools are held to the capability's class.               *)
EnforceRiskClassLoosely(call) ==
    LET capability == call.token.claims.capability
    IN /\ ToolRisk[call.tool] # "R3"
       /\ \/ Rank[ToolRisk[call.tool]] < Rank["R2"]
          \/ capability # NoCapability /\ Rank[ToolRisk[call.tool]] <= Rank[capability.risk]

(* enforceRiskClass: a tool may not exceed the signed capability's risk;   *)
(* without one only R0 and R1 pass, and R3 never does.                     *)
EnforceRiskClass(call) ==
    LET capability == call.token.claims.capability
    IN /\ ToolRisk[call.tool] # "R3"
       /\ IF capability = NoCapability THEN Rank[ToolRisk[call.tool]] < Rank["R2"]
          ELSE Rank[ToolRisk[call.tool]] <= Rank[capability.risk]

CedarContext(call) ==
    [entityType |-> IF IsAgent(Actor(call.token)) THEN "Agent" ELSE "User",
     scopes |-> call.token.scopes, approval |-> DeriveApproval(call),
     compensation |-> DeriveCompensation(call), risk |-> call.token.claims.capability.risk]

Goto(c, pc) == calls' = [calls EXCEPT ![c].pc = pc]

(* The answer leaves with its audit event: an event that cannot be         *)
(* published is an alarm and nothing more.                                 *)
Answer(c, outcome) == calls' = [calls EXCEPT ![c].pc = "answered", ![c].answer = outcome]

(* POST /mcp/:server up to the first await.                                *)
Receive(c, jwks) ==
    /\ calls[c].pc = "arrived"
    /\ LET call == calls[c]
           view == View(Gateway)
       IN CASE ~Accepts(call, jwks) -> Answer(c, "unauthorized")
            [] Accepts(call, jwks) /\ Halted(call, view) -> Answer(c, "upstream_auth")
            [] Accepts(call, jwks) /\ ~Halted(call, view) /\ call.tool \notin Governed ->
                 Answer(c, "not_found")
            [] Accepts(call, jwks) /\ ~Halted(call, view) /\ call.tool \in Governed ->
                 IF ToolHalted(call, view) \/ Shadowed(call) THEN Answer(c, "upstream_auth")
                 ELSE calls' = [calls EXCEPT ![c].pc = "deciding", ![c].saw = view]
    /\ NoFault
    /\ UNCHANGED <<loadedAt, quota, effects>>

(* Cedar answers, the risk class is enforced and the limiter asked, in     *)
(* that order and without an await between.                                *)
Decide(c) ==
    /\ calls[c].pc = "deciding"
    /\ LET call == calls[c]
           allowed == Authorize(call.tool, CedarContext(call)) = "allow" /\ EnforceRiskClass(call)
       IN \/ /\ ~allowed
             /\ Answer(c, "upstream_auth")
             /\ UNCHANGED quota
          \/ /\ allowed /\ quota[call.tool] = 0
             /\ Answer(c, "rate_limited")
             /\ UNCHANGED quota
          \/ /\ allowed /\ quota[call.tool] > 0
             /\ calls' = [calls EXCEPT ![c].pc = "informing", ![c].admitted = TRUE]
             /\ quota' = [quota EXCEPT ![call.tool] = @ - 1]
    /\ NoFault
    /\ UNCHANGED <<loadedAt, effects>>

(* The policy service does not answer: the throw leaves the handler as a   *)
(* JSON-RPC error, unaudited.  A failed evaluation is a deny.              *)
DecideFails(c) ==
    /\ calls[c].pc = "deciding"
    /\ Fault
    /\ \E outcome \in {"rpc_error", "upstream_auth"} : Answer(c, outcome)
    /\ UNCHANGED <<loadedAt, quota, effects>>

(* The advertised schema, when the upstream gives one, judges the input.   *)
Inform(c) ==
    /\ calls[c].pc = "informing"
    /\ \/ NoFault /\ IF calls[c].valid THEN Goto(c, "brokering") ELSE Answer(c, "invalid_input")
       \/ Fault /\ Goto(c, "brokering")
    /\ UNCHANGED <<loadedAt, quota, effects>>

(* DevCredentialBroker: static headers, or the caller's token exchanged    *)
(* under the caller's own actor, which may be refused.                     *)
GatewayClient == [principal |-> "svc:tool-gateway", roles |-> {"platform"}]

Broker(c, view, jwks) ==
    /\ calls[c].pc = "brokering"
    /\ LET token == calls[c].token
       IN \/ /\ NoFault
             /\ IF calls[c].tool \in Exchanged => MayExchange(GatewayClient, token, Actor(token), view, jwks)
                  THEN Goto(c, "forwarding")
                  ELSE Answer(c, "upstream_auth")
          \/ /\ calls[c].tool \in Exchanged /\ Fault
             /\ Answer(c, "upstream_auth")
    /\ UNCHANGED <<loadedAt, quota, effects>>

Carried(c) ==
    IF Write(calls[c].tool)
      THEN effects' = effects \cup {[step |-> calls[c].step, tool |-> calls[c].tool, call |-> c]}
      ELSE UNCHANGED effects

(* Mutant: an error envelope is passed on as a success.                    *)
ForwardAnyResult(c) ==
    /\ calls[c].pc = "forwarding"
    /\ NoFault
    /\ Answer(c, "ok")
    /\ IF calls[c].valid THEN Carried(c) ELSE UNCHANGED effects
    /\ UNCHANGED <<loadedAt, quota>>

(* The upstream does as asked, or answers with an error envelope; only a   *)
(* valid input is carried out.                                             *)
Forward(c) ==
    /\ calls[c].pc = "forwarding"
    /\ NoFault
    /\ IF calls[c].valid
         THEN Answer(c, "ok") /\ Carried(c)
         ELSE Answer(c, "invalid_input") /\ UNCHANGED effects
    /\ UNCHANGED <<loadedAt, quota>>

(* No answer in time, an error envelope or a result that is no envelope:   *)
(* the write may have happened or not.                                     *)
ForwardFails(c) ==
    /\ calls[c].pc = "forwarding"
    /\ Fault
    /\ \E outcome \in {"unavailable", "malformed"} : Answer(c, outcome)
    /\ \/ UNCHANGED effects
       \/ calls[c].valid /\ Carried(c)
    /\ UNCHANGED <<loadedAt, quota>>

(* The limiter refills with time, up to its burst.                         *)
Refilled == [t \in DOMAIN ToolScope |-> IF quota[t] + Refill < Burst THEN quota[t] + Refill ELSE Burst]

(* A restart forgets the limiter, the calls in flight and the switches; a  *)
(* write being forwarded may have been carried out, and is not undone.     *)
Forwarded == {c \in DOMAIN calls : calls[c].pc = "forwarding" /\ calls[c].valid /\ Write(calls[c].tool)}

(* Mutant: the clients of the calls in flight hear nothing.                *)
CrashSilently ==
    /\ Fault
    /\ Forget(Gateway)
    /\ loadedAt' = now
    /\ quota' = [t \in DOMAIN ToolScope |-> Burst]
    /\ calls' = [c \in DOMAIN calls |->
                   IF calls[c].pc = "answered" THEN calls[c] ELSE [calls[c] EXCEPT !.pc = "lost"]]
    /\ UNCHANGED effects

Crash ==
    /\ Fault
    /\ Forget(Gateway)
    /\ loadedAt' = now
    /\ quota' = [t \in DOMAIN ToolScope |-> Burst]
    /\ calls' = [c \in DOMAIN calls |->
                   IF calls[c].pc = "answered" THEN calls[c]
                   ELSE [calls[c] EXCEPT !.pc = "answered", !.answer = "lost"]]
    /\ \E done \in SUBSET Forwarded :
         effects' = effects \cup {[step |-> calls[c].step, tool |-> calls[c].tool, call |-> c] : c \in done}
=============================================================================
