---------------------------- MODULE BusIdentity -----------------------------
(***************************************************************************)
(* The bus identity of an agent's worker: its client at the token service, *)
(* static or provisioned (apps/token/src/app.ts and clients.ts), the token *)
(* it keeps minted (packages/agent-sdk/src/bus-token.ts), the keys that    *)
(* sign it (keys.ts) and the session the auth callout admits it to         *)
(* (bus-auth/).  Time is relative: "now" stays 0 and a tick brings every   *)
(* expiry and timer one nearer, so that the state space is finite and      *)
(* liveness is about all of time.                                          *)
(***************************************************************************)
EXTENDS TokenService, FiniteSetsExt

CONSTANTS Workers, LoadSet,
          Service,       \* the token service among the watchers
          Accounts,      \* the bus account of each registered tenant
          RetryDelay, MaxBackoff,
          NoSession

ASSUME BusIdentityAssumption ==
  /\ Service \in Watchers
  /\ RetryDelay \in Nat \ {0} /\ MaxBackoff \in Nat \ {0}

(* ACP_TOKEN_CLIENTS with a client id missing or listed twice is refused   *)
(* when the service starts; a client that is provisioned is an agent's.    *)
ASSUME LoadAssumption ==
  /\ IsFiniteSet(Workers)
  /\ \A chosen \in LoadSet :
       /\ \A w \in Workers :
            /\ chosen.workers[w].id \in Nat /\ chosen.workers[w].static \in BOOLEAN
            /\ chosen.workers[w].static => chosen.workers[w].id # 0
            /\ ~chosen.workers[w].static => chosen.workers[w].roles = {"agent"}
       /\ \A v, w \in Workers :
            chosen.workers[v].static /\ chosen.workers[w].static
              /\ chosen.workers[v].id = chosen.workers[w].id => v = w
       /\ chosen.scope.faults \in Nat /\ chosen.scope.ephemeral \in BOOLEAN

VARIABLES load,      \* the principal, tenant, roles and kind of client of each worker
          scope,     \* the flags operators may put, whether no signing key is
                     \* configured, and the failures that may happen
          failures,
          up,        \* the token service is there
          clients,   \* its registry, in memory
          keys,      \* the keys it verifies with, the signing key first
          keyAge,    \* ticks since the signing key changed
          holds,     \* the client id each worker was given, or 0
          token,     \* the bus token each worker presents
          timer, plan,   \* when its next mint is due, and which kind that is
          backoff,
          session,
          flagged    \* ghost: ticks since the service has refused the worker

serviceVars == <<up, clients, keys, keyAge>>
workerVars == <<holds, token, timer, plan, backoff, session>>
vars == <<switchVars, now, load, scope, failures, serviceVars, workerVars, flagged>>

Bus == "acp:bus"

(* What a worker presents before its first mint: nothing that is good.     *)
NoToken == [exp |-> 0]

(* The client a worker is configured with: the dev stack lists it, or its  *)
(* team provisions one.                                                    *)
StaticClients == {[id |-> load[w].id, principal |-> load[w].principal, tenant |-> load[w].tenant,
                   roles |-> load[w].roles, scopes |-> {}] : w \in {v \in Workers : load[v].static}}

Init ==
    /\ KillSwitchInit /\ now = 0 /\ failures = 0
    /\ \E chosen \in LoadSet : load = chosen.workers /\ scope = chosen.scope
    /\ up = TRUE
    /\ clients = StaticClients
    /\ keys = <<1>> /\ keyAge = MaxTtl
    /\ holds = [w \in Workers |-> IF load[w].static THEN load[w].id ELSE 0]
    /\ token = [w \in Workers |-> NoToken]
    /\ timer = [w \in Workers |-> 0]
    /\ plan = [w \in Workers |-> IF load[w].static THEN "boot" ELSE "none"]
    /\ backoff = [w \in Workers |-> 1]
    /\ session = [w \in Workers |-> NoSession]
    /\ flagged = [w \in Workers |-> 0]

Jwks == {keys[i] : i \in DOMAIN keys}
BusFault == failures < scope.faults /\ failures' = failures + 1

Registered(w) == \E c \in clients : c.id = holds[w]
ClientOf(w) == CHOOSE c \in clients : c.id = holds[w]
Mints(w) == up /\ Registered(w) /\ MayIssue(ClientOf(w), {}, View(Service))

(* POST /v1/clients by the worker's team.  The client is registered before *)
(* its audit event is published: when that fails, or the answer is lost,   *)
(* the team has no secret and the identity is taken.  With the secret it   *)
(* starts its worker afresh.                                               *)
NextId == Max({c.id : c \in clients} \cup {load[w].id : w \in Workers} \cup {holds[w] : w \in Workers}) + 1

Provision(w) ==
    /\ up /\ ~load[w].static /\ ~Registered(w)
    /\ MayProvision(clients, load[w].team, load[w].principal, load[w].tenant)
    /\ clients' = clients \cup {Provisioned(NextId, load[w].principal, load[w].tenant)}
    /\ \/ /\ holds' = [holds EXCEPT ![w] = NextId]
          /\ plan' = [plan EXCEPT ![w] = "boot"]
          /\ timer' = [timer EXCEPT ![w] = 0]
          /\ backoff' = [backoff EXCEPT ![w] = 1]
          /\ token' = [token EXCEPT ![w] = NoToken]
          /\ session' = [session EXCEPT ![w] = NoSession]
          /\ UNCHANGED failures
       \/ BusFault /\ UNCHANGED <<holds, plan, timer, backoff, token, session>>
    /\ UNCHANGED <<switchVars, now, load, scope, up, keys, keyAge, flagged>>

(* Mutant: the next mint is due when the token expires. *)
RefreshDelayOfTtl(ttl) == IF ttl > 1 THEN ttl ELSE 1

(* refresh(): the token is replaced and the next mint is due at two thirds *)
(* of its life.                                                            *)
RefreshDelay(ttl) == IF (ttl * 2) \div 3 > 1 THEN (ttl * 2) \div 3 ELSE 1

Due(w) == plan[w] # "none" /\ timer[w] = 0

Refresh(w) ==
    /\ Due(w)
    /\ Mints(w)
    /\ token' = [token EXCEPT ![w] = Issue(ClientOf(w), Bus, {}, 0, keys[1])]
    /\ timer' = [timer EXCEPT ![w] = RefreshDelay(DefaultTtl)]
    /\ plan' = [plan EXCEPT ![w] = "refresh"]
    /\ backoff' = [backoff EXCEPT ![w] = 1]
    /\ UNCHANGED <<switchVars, now, load, scope, failures, serviceVars, holds, session, flagged>>

(* A mint that fails: start() backs off and tries for ever; a refresh that *)
(* was due is tried once more, shortly; that one's failure is swallowed.   *)
AfterFailure(w) ==
    CASE plan[w] = "boot" ->
           /\ timer' = [timer EXCEPT ![w] = backoff[w]]
           /\ backoff' = [backoff EXCEPT ![w] = Min({2 * @, MaxBackoff})]
           /\ UNCHANGED plan
      [] plan[w] = "refresh" ->
           /\ timer' = [timer EXCEPT ![w] = RetryDelay]
           /\ plan' = [plan EXCEPT ![w] = "retry"]
           /\ UNCHANGED backoff
      [] plan[w] = "retry" ->
           /\ plan' = [plan EXCEPT ![w] = "none"]
           /\ UNCHANGED <<timer, backoff>>

RefreshFails(w) ==
    /\ Due(w)
    /\ \/ ~Mints(w) /\ UNCHANGED failures
       \/ Mints(w) /\ BusFault
    /\ AfterFailure(w)
    /\ UNCHANGED <<switchVars, now, load, scope, serviceVars, holds, token, session, flagged>>

(* BusAuthCore.evaluate, on the token the worker has when it connects.     *)
Admits(presented, view) ==
    /\ presented # NoToken
    /\ Valid(presented, Jwks)
    /\ presented.aud = Bus
    /\ "agent" \in presented.roles
    /\ IsAgent(presented.sub)
    /\ presented.tenant \in DOMAIN Accounts
    /\ ~FleetHalt(view)
    /\ ~TenantHalt(view, presented.tenant)
    /\ ~AgentSuspension(view, AgentOf[presented.sub])
    /\ ~PrincipalDenied(view, presented.sub)

(* The session carries the tenant's account, the agent's subjects and the  *)
(* life its token has left.                                                *)
BusSession(presented) ==
    [account |-> Accounts[presented.tenant], agent |-> AgentOf[presented.sub], exp |-> presented.exp]

(* A connection that is refused, or not answered, is tried again.          *)
Connect(w) ==
    /\ up
    /\ session[w] = NoSession
    /\ Admits(token[w], View(Service))
    /\ session' = [session EXCEPT ![w] = BusSession(token[w])]
    /\ UNCHANGED <<switchVars, now, load, scope, failures, serviceVars, holds, token, timer, plan, backoff, flagged>>

Disconnect(w) ==
    /\ session[w] # NoSession
    /\ BusFault
    /\ session' = [session EXCEPT ![w] = NoSession]
    /\ UNCHANGED <<switchVars, now, load, scope, serviceVars, holds, token, timer, plan, backoff, flagged>>

(* The service stops; when it starts it has its configured clients, no     *)
(* flag yet, and a key: its own, a rotated one with the previous still in  *)
(* the key set, or with none configured a new one.                         *)
Stop ==
    /\ up /\ BusFault
    /\ up' = FALSE
    /\ UNCHANGED <<switchVars, now, load, scope, clients, keys, keyAge, workerVars, flagged>>

(* Mutant: a rotation forgets the previous key. *)
LoadKeysWithoutPrevious ==
    IF scope.ephemeral THEN keys' = <<keys[1] + 1>> /\ keyAge' = 0
    ELSE \/ UNCHANGED <<keys, keyAge>>
         \/ keyAge >= MaxTtl /\ keys' = <<keys[1] + 1>> /\ keyAge' = 0

LoadKeys ==
    IF scope.ephemeral THEN keys' = <<keys[1] + 1>> /\ keyAge' = 0
    ELSE \/ UNCHANGED <<keys, keyAge>>
         \/ keyAge >= MaxTtl /\ keys' = <<keys[1] + 1, keys[1]>> /\ keyAge' = 0

Refused(w, view) ==
    Denied(view, IsAgent(load[w].principal), {load[w].principal}, {load[w].principal}, NoCapability, FALSE)

Start ==
    /\ ~up
    /\ up' = TRUE
    /\ clients' = StaticClients
    /\ LoadKeys
    /\ Forget(Service)
    /\ flagged' = [w \in Workers |-> 0]
    /\ UNCHANGED <<now, load, scope, failures, workerVars>>

(* Operators put flags, and the service hears of them in its own time.     *)
Put == Flip(scope.flags) /\ UNCHANGED <<now, load, scope, failures, serviceVars, workerVars, flagged>>

Hear ==
    /\ up
    /\ Deliver(Service)
    /\ flagged' = [w \in Workers |-> IF Refused(w, View(Service)') THEN flagged[w] ELSE 0]
    /\ UNCHANGED <<now, load, scope, failures, serviceVars, workerVars>>

(* A tick: timers are punctual, tokens age, and the server ends a session  *)
(* whose time is up.                                                       *)
Aged(record) == [record EXCEPT !.exp = IF @ > 0 THEN @ - 1 ELSE 0]

Tick ==
    /\ \A w \in Workers : ~Due(w)
    /\ token' = [w \in Workers |-> IF token[w] = NoToken THEN NoToken ELSE Aged(token[w])]
    /\ timer' = [w \in Workers |-> IF timer[w] > 0 THEN timer[w] - 1 ELSE 0]
    /\ session' = [w \in Workers |-> IF session[w] = NoSession \/ session[w].exp <= 1 THEN NoSession
                                     ELSE Aged(session[w])]
    /\ keyAge' = Min({keyAge + 1, MaxTtl})
    /\ flagged' = [w \in Workers |-> IF Refused(w, View(Service)) THEN Min({flagged[w] + 1, MaxTtl}) ELSE 0]
    /\ UNCHANGED <<switchVars, now, load, scope, failures, up, clients, keys, holds, plan, backoff>>

Next ==
    \/ \E w \in Workers : Provision(w) \/ Refresh(w) \/ RefreshFails(w) \/ Connect(w) \/ Disconnect(w)
    \/ Stop \/ Start \/ Put \/ Hear \/ Tick

Spec == Init /\ [][Next]_vars

(* Timers fire, time passes, a stopped service is started again and hears  *)
(* the flags.  Whether a client library goes on reconnecting is its own.   *)
FairSpec ==
    /\ Spec
    /\ WF_vars(Tick) /\ WF_vars(Start) /\ WF_vars(Hear)
    /\ \A w \in Workers : WF_vars(Refresh(w) \/ RefreshFails(w))
-----------------------------------------------------------------------------
(* The shape of the state: a session never outlives the longest token, a   *)
(* timer that waits belongs to a plan, ids are handed out once.            *)
TypeOK ==
    /\ failures \in 0..scope.faults /\ keyAge \in 0..MaxTtl
    /\ Cardinality({c.id : c \in clients}) = Cardinality(clients)
    /\ \A w \in Workers : /\ timer[w] \in 0..Max({MaxTtl, RetryDelay, MaxBackoff})
                          /\ backoff[w] \in 1..MaxBackoff
                          /\ session[w] # NoSession => session[w].exp \in 1..MaxTtl
                          /\ token[w] # NoToken => token[w].exp \in 0..MaxTtl
                          /\ holds[w] # 0 \/ plan[w] = "none"

(* A provisioned agent id is its client's alone in the tenant, whatever    *)
(* the version and however often provisioning was tried or the service     *)
(* restarted: nobody else is minted tokens that open the agent's subjects. *)
OneHolder ==
    \A c \in clients \ StaticClients, d \in clients :
        c.tenant = d.tenant /\ AgentOf[c.principal] = AgentOf[d.principal] => c = d

(* Nobody is on the bus but agents of tenants with an account, each with   *)
(* its own identity, and no longer than the newest token it holds.         *)
SessionsAreOwn ==
    \A w \in Workers :
        session[w] # NoSession =>
            /\ "agent" \in load[w].roles /\ IsAgent(load[w].principal)
            /\ load[w].tenant \in DOMAIN Accounts
            /\ session[w].account = Accounts[load[w].tenant]
            /\ session[w].agent = AgentOf[load[w].principal]
            /\ session[w].exp <= token[w].exp
            /\ load[w].static \/ load[w].team.tenant = load[w].tenant \/ "platform" \in load[w].team.roles

(* A bus identity is registered for one owner, and whoever is on the bus   *)
(* is there as itself.                                                     *)
IdentityIsOwn == TypeOK /\ OneHolder /\ SessionsAreOwn

(* A worker the service has refused for as long as a token lives has       *)
(* neither a live token nor a session, though sessions are never closed    *)
(* and tokens never revoked.                                               *)
RevokedFades ==
    \A w \in Workers :
        flagged[w] = MaxTtl => session[w] = NoSession /\ (token[w] = NoToken \/ token[w].exp = 0)

(* With configured keys a token that has not expired still verifies, over  *)
(* any restart and a rotation no sooner than a token's life.               *)
TokensVerify ==
    ~scope.ephemeral =>
        \A w \in Workers : token[w] # NoToken /\ token[w].exp > 0 => token[w].key \in Jwks

(* A token is good for its lifetime and for no longer. *)
TokensAreTimely == RevokedFades /\ TokensVerify

(* From some time on the service is there, knows the worker and would mint *)
(* for it.                                                                 *)
Served(w) == <>[](Mints(w))

Live(w) == token[w] # NoToken /\ token[w].exp > 0

(* start() gets its token however often it has failed.                     *)
BootSucceeds == \A w \in Workers : Served(w) => (plan[w] = "boot" ~> Live(w))

(* A worker whose refreshes never fail twice in a row has a live token for *)
(* every connection it may make: each is replaced before it expires.       *)
TokensStay == \A w \in Workers : Served(w) /\ <>[](plan[w] # "none") => <>[](Live(w))

(* A worker the service would serve gets its first token and keeps one.    *)
TokensComeAndStay == BootSucceeds /\ TokensStay
=============================================================================
