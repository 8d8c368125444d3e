--------------------------- MODULE MCBusIdentity ----------------------------
(***************************************************************************)
(* Small instances of BusIdentity: workers of one and of several teams,    *)
(* listed in the configuration or provisioned, under restarts of the token *)
(* service, rotations of its key, lost answers and flags.                  *)
(***************************************************************************)
EXTENDS BusIdentity, TLC

Principals == [p \in {"agent:change@1", "agent:change@2", "agent:draft@1"} |->
                 IF p = "agent:draft@1" THEN "draft" ELSE "change"]
              @@ [p \in {"svc:gateway"} |-> "none"]
AccountOf == [acme |-> "A", beta |-> "B"]

Team(tenant, roles) == [tenant |-> tenant, roles |-> roles]
Listed(id) == [id |-> id, principal |-> "agent:change@1", tenant |-> "acme", roles |-> {"agent"},
               static |-> TRUE, team |-> Team("acme", {"tenant-user"})]
Own == [Listed(0) EXCEPT !.static = FALSE]
Rival == [Own EXCEPT !.principal = "agent:change@2"]
Other == [Own EXCEPT !.tenant = "beta", !.team = Team("beta", {"tenant-user"})]
Outsider == [Own EXCEPT !.team = Team("beta", {"tenant-user"})]
Onboarded == [Own EXCEPT !.team = Team("beta", {"platform"})]
Cloning == [Own EXCEPT !.team = Team("acme", {"agent"})]
User == [Listed(2) EXCEPT !.principal = "svc:gateway", !.roles = {"tenant-user"}]
Gateway == [Listed(2) EXCEPT !.principal = "svc:gateway"]
Human == [Listed(2) EXCEPT !.roles = {"tenant-user"}]
Stranger == [Listed(1) EXCEPT !.tenant = "gamma"]
Draft == [Listed(2) EXCEPT !.principal = "agent:draft@1"]

Load(w1, w2, f, flags, ephemeral) ==
    [workers |-> [w \in Workers |-> IF w = "w1" THEN w1 ELSE w2],
     scope |-> [faults |-> f, flags |-> flags, ephemeral |-> ephemeral]]

Change == Flag("agent", "change")
Loads == {
    Load(Listed(1), Draft, 2, {}, FALSE),
    Load(Listed(1), Draft, 1, {}, TRUE),
    Load(Listed(1), Draft, 1, {Change}, FALSE),
    Load(Own, Rival, 2, {}, FALSE),
    Load(Own, Other, 1, {}, FALSE),
    Load(Outsider, Onboarded, 1, {}, FALSE),
    Load(Listed(1), Rival, 2, {}, FALSE),
    Load(Cloning, User, 1, {}, FALSE),
    Load(Listed(1), Human, 1, {Flag("tenant", "acme")}, FALSE),
    Load(Stranger, Gateway, 1, {}, FALSE),
    Load(Listed(1), Other, 1, {Flag("fleet", "fleet"), Flag("principal", "agent:change@1")}, FALSE) }
=============================================================================
