---------------------------- MODULE TokenService ----------------------------
(***************************************************************************)
(* The three grants of the token service (apps/token/src/tokens.ts and     *)
(* app.ts): what each demands of the client, of the subject token and of   *)
(* the kill switch, and the token it signs.  A token is a record; claims   *)
(* is what the broker asserted about the step, and what an exchange must   *)
(* not change.  Shapes (uuids, digests, names) are the callers' business.  *)
(***************************************************************************)
EXTENDS KillSwitch, FiniteSets

CONSTANTS AgentOf,      \* the agent id of a principal, or "none"
          DefaultTtl, MaxTtl, MaxTaskAge

VARIABLE now   \* the clock, in ticks

ASSUME TokenAssumption ==
  /\ DefaultTtl \in Nat \ {0} /\ MaxTtl \in Nat \ {0} /\ MaxTaskAge \in Nat
  /\ DefaultTtl <= MaxTtl

NoApproval == [step |-> "none", capability |-> "none", approver |-> "none"]
NoCapability == [name |-> "none", risk |-> "R0"]
NoCompensation == "none"

(* What only the broker grant may assert, and an exchange drops unless the *)
(* actor stays the same.                                                   *)
NoClaims == [brokered |-> "none", approval |-> NoApproval, compensation |-> NoCompensation,
             capability |-> NoCapability, deployment |-> "none"]

IsAgent(principal) == AgentOf[principal] # "none"

(* A requested lifetime that is missing or not positive is the default.    *)
ClampTtl(ttl) == IF ttl <= 0 THEN DefaultTtl ELSE IF ttl < MaxTtl THEN ttl ELSE MaxTtl

(* A token always lives from now: an exchange does not look at how long    *)
(* the subject token had left.                                             *)
Sign(who, aud, scopes, act, claims, ttl, key) ==
    [sub |-> who.sub, tenant |-> who.tenant, roles |-> who.roles, aud |-> aud, scopes |-> scopes,
     act |-> act, claims |-> claims, exp |-> now + ClampTtl(ttl), key |-> key]

Valid(token, jwks) == now < token.exp /\ token.key \in jwks

(* act.sub, or sub when nobody acts for the subject.                       *)
Actor(token) == IF token.act = <<>> THEN token.sub ELSE Head(token.act)

(* denialFor.  A compensator mints through a fleet halt and a risk flag,   *)
(* not through a suspended agent, capability or principal.                 *)
Denied(view, fleet, agents, principals, capability, unwind) ==
    \/ fleet /\ FleetHalt(view)
    \/ \E p \in agents : IsAgent(p) /\ AgentSuspension(view, AgentOf[p])
    \/ \E p \in principals : PrincipalDenied(view, p)
    \/ capability # NoCapability /\ CapabilitySuspension(view, capability.name)
    \/ capability # NoCapability /\ ~unwind /\ RiskClassSuspension(view, capability.risk)

(* POST /v1/token.                                                         *)
MayIssue(client, scopes, view) ==
    /\ LET agents == {p \in {client.principal} : IsAgent(p)}
       IN ~Denied(view, agents # {}, agents, {client.principal}, NoCapability, FALSE)
    /\ scopes \subseteq client.scopes

Issue(client, aud, scopes, ttl, key) ==
    Sign([sub |-> client.principal, tenant |-> client.tenant, roles |-> client.roles],
         aud, scopes, <<>>, NoClaims, ttl, key)

(* POST /v1/token/exchange.  No body may carry approval, compensation,     *)
(* capability or deployment grounds: claims come from the subject token.   *)
MayExchange(client, subject, actor, view, jwks) ==
    /\ Valid(subject, jwks)
    /\ actor = client.principal \/ "platform" \in client.roles
    /\ ~Denied(view, FALSE, {actor}, {actor}, NoCapability, FALSE)

SameActor(subject, actor) == subject.act # <<>> /\ Head(subject.act) = actor

ExchangedAct(subject, actor) ==
    IF SameActor(subject, actor) \/ (actor = subject.sub /\ subject.act = <<>>)
      THEN subject.act
      ELSE <<actor>> \o subject.act

ExchangedClaims(subject, actor) ==
    IF SameActor(subject, actor) THEN subject.claims ELSE NoClaims

(* No scope asked for is every scope held; otherwise the intersection.     *)
ExchangedScopes(subject, scopes) == IF scopes = {} THEN subject.scopes ELSE scopes \cap subject.scopes

Exchange(subject, actor, aud, scopes, ttl, key) ==
    Sign(subject, aud, ExchangedScopes(subject, scopes), ExchangedAct(subject, actor),
         ExchangedClaims(subject, actor), ttl, key)

(* POST /v1/token/delegate: the broker's grant, from the claims it         *)
(* verified when the task came in.                                         *)
FreshGrounds(verifiedAt) == verifiedAt <= now /\ now - verifiedAt <= MaxTaskAge

SoundGrounds(subject, claims) ==
    /\ claims.approval = NoApproval \/ claims.compensation = NoCompensation
    /\ claims.approval.approver # subject.sub

MayDelegate(client, subject, actor, claims, verifiedAt, view) ==
    /\ "broker" \in client.roles
    /\ FreshGrounds(verifiedAt)
    /\ SoundGrounds(subject, claims)
    /\ LET unwind == claims.compensation # NoCompensation
       IN ~Denied(view, ~unwind, {actor}, {subject.sub, actor}, claims.capability, unwind)

(* The broker appears under the actor it delegates to.                     *)
DelegatedAct(client, actor) ==
    IF actor = client.principal THEN <<actor>> ELSE <<actor, client.principal>>

Delegate(client, subject, actor, aud, scopes, claims, ttl, key) ==
    Sign(subject, aud, scopes \cap subject.scopes, DelegatedAct(client, actor), claims, ttl, key)

(* Mutant: another version of the agent is another identity. *)
AgentIdentityTakenByVersion(clients, principal, tenant) ==
    \E c \in clients : c.tenant = tenant /\ c.principal = principal

(* POST /v1/clients: agents may not provision, a caller without the        *)
(* platform role only in its own tenant, and an agent id once per tenant   *)
(* whatever its version.                                                   *)
AgentIdentityTaken(clients, principal, tenant) ==
    \E c \in clients : c.tenant = tenant /\ IsAgent(c.principal) /\ AgentOf[c.principal] = AgentOf[principal]

MayProvision(clients, caller, principal, tenant) ==
    /\ "agent" \notin caller.roles
    /\ IsAgent(principal)
    /\ tenant = caller.tenant \/ "platform" \in caller.roles
    /\ ~AgentIdentityTaken(clients, principal, tenant)

Provisioned(id, principal, tenant) ==
    [id |-> id, principal |-> principal, tenant |-> tenant, roles |-> {"agent"}, scopes |-> {}]
=============================================================================
