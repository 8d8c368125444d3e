----------------------------- MODULE LlmGateway -----------------------------
(***************************************************************************)
(* The LLM gateway (apps/llm-gateway/src): one completion per caller, from *)
(* the request to its status.  The model allowlist of an agent is its      *)
(* registry card, cached for a while; a model class is a list of provider  *)
(* bindings, tried in order, each a bounded number of times, until one     *)
(* answers or the deadline passes.                                         *)
(***************************************************************************)
EXTENDS TokenService

CONSTANTS LlmWatcher,     \* this gateway among the watchers
          Callers,        \* who may have a completion in flight
          Classes,        \* configured model classes
          Bindings, Attempts,   \* bindings of a class, attempts of each
          Rpm, RpmRefill, \* a provider's local cap and what a tick gives back
          Deadline, AllowTtl,
          MaxLlmFaults

ASSUME LlmGatewayAssumption ==
  /\ LlmWatcher \in Watchers /\ Bindings \in Nat \ {0} /\ Attempts \in [1..Bindings -> Nat \ {0}]
  /\ Rpm \in Nat \ {0} /\ RpmRefill \in Nat /\ Deadline \in Nat \ {0} /\ AllowTtl \in Nat \ {0}

VARIABLES llmFaults,
          llm,        \* the completion of each caller
          rpm,        \* tokens left under each provider's local cap
          card,       \* the model classes the agent's registry card allows
          cached,     \* the allowlist cache: classes, or not fresh
          revoked,    \* ghost: since when a class has been off the card
          latency     \* ghost: the longest it took from the registry's
                      \* reading of a card until it was remembered here

llmVars == <<llmFaults, llm, rpm, card, cached, revoked, latency>>

(* "seen" is the card on its way from the registry, "asOf" when it was read. *)
NoCompletion == [pc |-> "idle", class |-> "none", valid |-> TRUE, seen |-> {}, asOf |-> 0,
                 binding |-> 1, attempt |-> 0, tried |-> <<>>, deadline |-> 0, status |-> 0]

NoCache == [classes |-> {}, until |-> 0]
NeverRevoked == [c \in Classes |-> 0]

LlmGatewayInit ==
    /\ llm = [c \in Callers |-> NoCompletion]
    /\ rpm = [b \in 1..Bindings |-> Rpm]
    /\ card = Classes
    /\ cached = NoCache
    /\ revoked = NeverRevoked
    /\ latency = 0

LlmFault == llmFaults < MaxLlmFaults /\ llmFaults' = llmFaults + 1
NoLlmFault == UNCHANGED llmFaults

AgentAudience(agent) == "acp:agent:" \o agent

(* The step's own token serves: its audience and its actor name one agent. *)
AcceptsCompletion(token, jwks) ==
    /\ Valid(token, jwks)
    /\ token.act # <<>>
    /\ token.aud = AgentAudience(AgentOf[Head(token.act)])

Request(c, class, valid) ==
    llm' = [llm EXCEPT ![c] = [NoCompletion EXCEPT !.pc = "arrived", !.class = class, !.valid = valid]]

Status(c, status) == llm' = [llm EXCEPT ![c].pc = "answered", ![c].status = status]

(* Switches, class and prompt are judged before anything is awaited.       *)
LlmHalted(token, view) ==
    FleetHalt(view) \/ AgentSuspension(view, AgentOf[Head(token.act)])

ReceiveCompletion(c, token, jwks) ==
    /\ llm[c].pc = "arrived"
    /\ IF ~AcceptsCompletion(token, jwks) THEN Status(c, 401)
       ELSE IF LlmHalted(token, View(LlmWatcher)) THEN Status(c, 503)
       ELSE IF llm[c].class \notin Classes \/ ~llm[c].valid THEN Status(c, 400)
       ELSE llm' = [llm EXCEPT ![c].pc = "checking"]
    /\ NoLlmFault
    /\ UNCHANGED <<rpm, card, cached, revoked, latency>>

(* The allowlist: a fresh cache answers, otherwise the registry is asked,  *)
(* with no limit on how long that takes.                                   *)
(* Mutant: the cache serves in the moment it expires, too.                 *)
FreshToTheEnd == cached.until >= now

Fresh == cached.until > now

Judge(c, classes) ==
    IF llm[c].class \in classes
      THEN llm' = [llm EXCEPT ![c].pc = "trying", ![c].deadline = now + Deadline]
      ELSE Status(c, 403)

Fetch(c) == llm' = [llm EXCEPT ![c].pc = "fetching"]

CheckAllowlist(c) ==
    /\ llm[c].pc = "checking"
    /\ IF Fresh THEN Judge(c, cached.classes) ELSE Fetch(c)
    /\ NoLlmFault
    /\ UNCHANGED <<rpm, card, cached, revoked, latency>>

(* The registry reads the card for its answer.                             *)
ReadCard(c) ==
    /\ llm[c].pc = "fetching"
    /\ llm' = [llm EXCEPT ![c].pc = "returning", ![c].seen = card, ![c].asOf = now]
    /\ NoLlmFault
    /\ UNCHANGED <<rpm, card, cached, revoked, latency>>

(* The answer has come: it is remembered from now on, over whatever another *)
(* completion that missed the cache has remembered meanwhile.              *)
RememberAllowlist(c) ==
    /\ llm[c].pc = "returning"
    /\ cached' = [classes |-> llm[c].seen, until |-> now + AllowTtl]
    /\ latency' = IF now - llm[c].asOf > latency THEN now - llm[c].asOf ELSE latency
    /\ Judge(c, llm[c].seen)
    /\ NoLlmFault
    /\ UNCHANGED <<rpm, card, revoked>>

(* A mint, a request or an answer that fails fails the completion.         *)
AllowlistUnavailable(c) ==
    /\ llm[c].pc \in {"fetching", "returning"}
    /\ LlmFault
    /\ Status(c, 503)
    /\ UNCHANGED <<rpm, card, cached, revoked, latency>>

(* The registry changes the card, as a promotion or a new manifest does.   *)
ChangeCard(class) ==
    /\ class \in card
    /\ card' = card \ {class}
    /\ revoked' = [revoked EXCEPT ![class] = now + 1]
    /\ NoLlmFault
    /\ UNCHANGED <<llm, rpm, cached, latency>>

Tried(c, outcome) == Append(llm[c].tried, [binding |-> llm[c].binding, outcome |-> outcome])

(* Where the loop goes after a fault: the same binding again, or the next  *)
(* one when its attempts are spent or its credential is bad.               *)
NextAttempt(c, outcome) ==
    IF outcome # "upstream_auth" /\ llm[c].attempt + 1 < Attempts[llm[c].binding]
      THEN [binding |-> llm[c].binding, attempt |-> llm[c].attempt + 1]
      ELSE [binding |-> llm[c].binding + 1, attempt |-> 0]

After(c, outcome) ==
    LET next == NextAttempt(c, outcome)
    IN llm' = [llm EXCEPT ![c].tried = Tried(c, outcome),
                          ![c].binding = next.binding, ![c].attempt = next.attempt]

InTime(c) == llm[c].pc = "trying" /\ llm[c].binding <= Bindings /\ now < llm[c].deadline

(* One attempt that the provider answers; its cap counts every attempt.    *)
Attempt(c) ==
    /\ InTime(c)
    /\ LET b == llm[c].binding
       IN IF rpm[b] = 0
            THEN After(c, "rate_limited") /\ UNCHANGED rpm
            ELSE /\ rpm' = [rpm EXCEPT ![b] = @ - 1]
                 /\ llm' = [llm EXCEPT ![c].tried = Tried(c, "ok"), ![c].pc = "answered", ![c].status = 200]
    /\ NoLlmFault
    /\ UNCHANGED <<card, cached, revoked, latency>>

(* One it refuses or does not answer; a request it calls wrong ends here.  *)
AttemptFails(c) ==
    /\ InTime(c)
    /\ LlmFault
    /\ rpm[llm[c].binding] > 0
    /\ rpm' = [rpm EXCEPT ![llm[c].binding] = @ - 1]
    /\ \/ \E outcome \in {"rate_limited", "upstream_auth", "server"} : After(c, outcome)
       \/ Status(c, 400)
    /\ UNCHANGED <<card, cached, revoked, latency>>

(* The last fault of each binding that had one.                            *)
TerminalFaults(c) ==
    {llm[c].tried[i].outcome : i \in {j \in DOMAIN llm[c].tried :
        \A k \in DOMAIN llm[c].tried : k > j => llm[c].tried[k].binding # llm[c].tried[j].binding}}

(* Out of bindings, or out of time.                                        *)
Exhausted(c) ==
    /\ llm[c].pc = "trying"
    /\ llm[c].binding > Bindings \/ now >= llm[c].deadline
    /\ Status(c, IF TerminalFaults(c) = {"rate_limited"} THEN 429 ELSE 503)
    /\ NoLlmFault
    /\ UNCHANGED <<rpm, card, cached, revoked, latency>>

RpmRefilled ==
    [b \in 1..Bindings |-> IF rpm[b] + RpmRefill < Rpm THEN rpm[b] + RpmRefill ELSE Rpm]

Complete(c, token, jwks) ==
    \/ ReceiveCompletion(c, token, jwks) \/ CheckAllowlist(c)
    \/ ReadCard(c) \/ RememberAllowlist(c) \/ AllowlistUnavailable(c)
    \/ Attempt(c) \/ AttemptFails(c) \/ Exhausted(c)
=============================================================================
