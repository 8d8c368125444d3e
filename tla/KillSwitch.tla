----------------------------- MODULE KillSwitch -----------------------------
(***************************************************************************)
(* The kill-switch flags of the control bucket and the questions a watcher *)
(* answers about them (packages/service-kit/src/killswitch.ts).  A watcher *)
(* answers from memory: "view" is the set of flags it has heard are        *)
(* active.  The watch delivers the puts in order and late, and a service   *)
(* that restarts answers with an empty memory until they come again.       *)
(***************************************************************************)
EXTENDS Naturals, Sequences

CONSTANTS Watchers, MaxPuts

VARIABLES bucket,   \* the contents of the bucket after each put, oldest first
          heard     \* how many puts each watcher has been delivered

switchVars == <<bucket, heard>>

KillSwitchInit == bucket = <<{}>> /\ heard = [w \in Watchers |-> 1]

View(w) == bucket[heard[w]]
Active == bucket[Len(bucket)]

Flag(tier, of) == [tier |-> tier, of |-> of]

Rank == [R0 |-> 0, R1 |-> 1, R2 |-> 2, R3 |-> 3]

(* Classes a flag may target: R0 is refused. *)
FlaggableRisk == {"R1", "R2", "R3"}

FleetHalt(view) == Flag("fleet", "fleet") \in view

TenantHalt(view, tenant) == Flag("tenant", tenant) \in view

(* Agents are suspended by id, whatever their version. *)
AgentSuspension(view, agent) == Flag("agent", agent) \in view

CapabilitySuspension(view, name) == Flag("capability", name) \in view

(* Monotonic: a flag on a class blocks every class at or above it. *)
RiskClassSuspension(view, risk) ==
    \E c \in FlaggableRisk : Rank[c] <= Rank[risk] /\ Flag("risk", c) \in view

(* The denylist names a full principal: one version of an agent, a user or *)
(* a service.                                                              *)
PrincipalDenied(view, principal) == Flag("principal", principal) \in view

(* Operators put a flag active or inactive; no put removes a key.          *)
PutFlag(flag, active) ==
    /\ Len(bucket) <= MaxPuts
    /\ bucket' = Append(bucket, IF active THEN Active \cup {flag} ELSE Active \ {flag})
    /\ bucket'[Len(bucket')] # Active
    /\ UNCHANGED heard

Flip(flags) == \E flag \in flags, active \in BOOLEAN : PutFlag(flag, active)

Deliver(w) ==
    /\ heard[w] < Len(bucket)
    /\ heard' = [heard EXCEPT ![w] = @ + 1]
    /\ UNCHANGED bucket

(* start() returns before the history it asked for has been read.          *)
Forget(w) == heard' = [heard EXCEPT ![w] = 1] /\ UNCHANGED bucket
=============================================================================
