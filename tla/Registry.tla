------------------------------ MODULE Registry ------------------------------
(***************************************************************************)
(* The agent registry: the version rows of one agent in Postgres, the      *)
(* kill-switch flag in the bus's key-value store, and the HTTP requests    *)
(* that move a version through its lifecycle.                              *)
(*                                                                         *)
(* A request is served in steps, because every read, write and             *)
(* announcement is awaited and other requests run in between: the route    *)
(* reads the card and checks the edge, the store reads the card again, the *)
(* UPDATE writes it back, the flag is flipped, the card is announced.      *)
(* Timestamps, signatures, reasons and audit texts are left out; a card    *)
(* keeps its lifecycle state and whether it carries an eval baseline.      *)
(***************************************************************************)
EXTENDS Naturals, Sequences, FiniteSets, FiniteSetsExt

CONSTANTS Versions,   \* the versions of the agent
          First,      \* the version that is active to begin with
          Clients,    \* the callers that may have a request in flight
          Awaiting,   \* those of them that act on the answer
          RampSteps,  \* the ramp percentages a deployment climbs
          NoRow       \* no row in agent_versions

ASSUME RegistryAssumption ==
  /\ First \in Versions /\ Awaiting \subseteq Clients
  /\ RampSteps \in Seq(1..100) /\ RampSteps # <<>>

VARIABLES row,       \* agent_versions: state column, card, ramp_percent
          flag,      \* the agent's suspension flag in the control bucket
          req,       \* the request each client has in flight
          reply      \* its answer

regVars == <<row, flag, req, reply>>

States == {"registered", "shadow", "canary", "active", "deprecated",
           "suspended", "retired"}
Ramps == {0} \cup {RampSteps[i] : i \in 1..Len(RampSteps)}  \* 0 is NULL
Row == [state : States, card : States, ramp : Ramps, baseline : BOOLEAN]
ASSUME NoRowAssumption == NoRow \notin Row

Idle == [op |-> "none", v |-> First, to |-> "none", ramp |-> 0, scope |-> "none",
         at |-> "none", from |-> "none", base |-> FALSE, other |-> First, otherBase |-> FALSE]
Request(op, v, to, ramp, scope) ==
  [Idle EXCEPT !.op = op, !.v = v, !.to = to, !.ramp = ramp, !.scope = scope,
               !.at = "route"]

\* The lifecycle edges and the scope class that may drive each.
Edge(from, to) ==
  CASE from = "registered" /\ to = "shadow"             -> "deploy"
    [] from = "registered" /\ to \in {"active", "retired"} -> "admin"
    [] from = "shadow" /\ to = "canary"                 -> "deploy"
    [] from = "shadow" /\ to = "retired"                -> "admin"
    [] from = "canary" /\ to \in {"shadow", "canary"}   -> "deploy"
    [] from \in {"shadow", "canary", "active"} /\ to = "suspended" -> "sanction"
    [] from = "deprecated" /\ to = "retired"            -> "both"
    [] from = "suspended" /\ to \in {"shadow", "active"} -> "admin"
    [] OTHER -> "none"

MayDrive(scope, edge) ==
  CASE edge = "deploy"   -> scope = "deploy"
    [] edge = "admin"    -> scope = "admin"
    [] edge = "both"     -> scope \in {"deploy", "admin"}
    [] edge = "sanction" -> scope \in {"admin", "suspend"}
    [] OTHER -> FALSE

Exists(v) == row[v] # NoRow
Rows(S) == {v \in Versions : Exists(v) /\ row[v].state \in S}

\* The two partial unique indexes: may row v take this state?
IndexAllows(v, to) ==
  /\ to = "active" => Rows({"active"}) \subseteq {v}
  /\ to \in {"shadow", "canary"} => Rows({"shadow", "canary"}) \subseteq {v}

RowAt(s, b) == [state |-> s, card |-> s, ramp |-> 0, baseline |-> b]

\* The first version serves; the others are unknown, or registered.
InitRegistry ==
  /\ row \in [Versions -> {RowAt("active", TRUE), RowAt("registered", TRUE),
                           RowAt("registered", FALSE), NoRow}]
  /\ \A v \in Versions : row[v] = RowAt("active", TRUE) <=> v = First
  /\ flag = FALSE
  /\ req = [c \in Clients |-> Idle]
  /\ reply = [c \in Clients |-> "none"]

-----------------------------------------------------------------------------
(* The steps of a request.                                                 *)

\* A client sends a request; it waits for the answer before the next one.
Call(c, r) ==
  /\ req[c].at = "none" /\ reply[c] = "none"
  /\ req' = [req EXCEPT ![c] = r]
  /\ UNCHANGED <<row, flag, reply>>

Answer(c, a) ==
  /\ req' = [req EXCEPT ![c] = Idle]
  /\ reply' = IF c \in Awaiting THEN [reply EXCEPT ![c] = a] ELSE reply

\* POST /v1/agents: a new row, or an idempotent or conflicting one that is
\* left alone.
Register(c) ==
  LET v == req[c].v IN
  /\ req[c].op = "register" /\ req[c].at = "route"
  /\ \/ /\ ~Exists(v)
        /\ row' = [row EXCEPT ![v] = RowAt("registered", FALSE)]
        /\ req' = [req EXCEPT ![c].at = "announce", ![c].to = "registered"]
        /\ UNCHANGED reply
     \/ /\ Exists(v)
        /\ \E a \in {"ok", "refused"} : Answer(c, a)
        /\ UNCHANGED row
  /\ UNCHANGED <<flag>>

\* The route reads the card and checks edge, scope, ramp and baseline.
Permitted(r) ==
  LET card == row[r.v].card IN
  CASE r.op = "state"    -> /\ MayDrive(r.scope, Edge(card, r.to))
                            /\ r.to = "canary" => r.ramp \in 1..100
                            /\ card = "registered" /\ r.to = "shadow" =>
                                 row[r.v].baseline
    [] r.op = "promote"  -> card = "canary" /\ r.scope = "deploy"
    [] r.op = "baseline" -> TRUE

RouteCheck(c) ==
  LET r == req[c] IN
  /\ r.op \in {"state", "promote", "baseline"} /\ r.at = "route"
  /\ \/ /\ Exists(r.v) /\ Permitted(r)
        /\ req' = [req EXCEPT ![c].at = "read", ![c].from = row[r.v].card]
        /\ UNCHANGED reply
     \/ /\ ~(Exists(r.v) /\ Permitted(r))
        /\ Answer(c, "refused")
  /\ UNCHANGED <<row, flag>>

\* transition and putBaseline read the card they will write back.
StoreRead(c) ==
  LET r == req[c] IN
  /\ r.at = "read" /\ r.op \in {"state", "baseline"}
  /\ req' = [req EXCEPT ![c].at = "write",
               ![c].base = row[r.v].baseline,
               ![c].to = IF r.op = "baseline" THEN row[r.v].card ELSE @]
  /\ UNCHANGED <<row, flag, reply>>

\* demoteIncumbent reads the incumbent, without a lock on it.
PromoteRead(c) ==
  LET r == req[c]  active == Rows({"active"}) IN
  /\ r.op = "promote" /\ r.at = "read"
  /\ \/ /\ active = {}
        /\ req' = [req EXCEPT ![c].at = "candidate", ![c].other = r.v]
     \/ \E v \in active :
          req' = [req EXCEPT ![c].at = "demote", ![c].other = v, ![c].otherBase = row[v].baseline]
  /\ UNCHANGED <<row, flag, reply>>

\* The rows a promotion has updated and not yet committed.
Locked(c, v) ==
  \E d \in Clients \ {c} : /\ req[d].op = "promote" /\ req[d].at \in {"candidate", "commit"}
                           /\ req[d].other = v /\ req[d].v # v

\* The incumbent is updated as it was read, whatever has become of it, and stays
\* locked.  A candidate that is itself the incumbent is no canary any more.
DemoteIncumbent(c) ==
  LET r == req[c] IN
  /\ r.at = "demote" /\ ~Locked(c, r.other)
  /\ \/ r.other # r.v /\ req' = [req EXCEPT ![c].at = "candidate"] /\ UNCHANGED reply
     \/ r.other = r.v /\ Answer(c, "error")
  /\ UNCHANGED <<row, flag>>

\* activateCandidate reads the candidate, which must still be a canary.
CandidateRead(c) ==
  LET r == req[c] IN
  /\ r.at = "candidate"
  /\ \/ /\ row[r.v].card = "canary"
        /\ req' = [req EXCEPT ![c].at = "commit", ![c].base = row[r.v].baseline]
        /\ UNCHANGED reply
     \/ /\ row[r.v].card # "canary"
        /\ Answer(c, "error")
  /\ UNCHANGED <<row, flag>>

\* The UPDATE has no predicate on the state it was checked against.
StoreWrite(c) ==
  LET r == req[c] IN
  /\ r.op = "state" /\ r.at = "write" /\ ~Locked(c, r.v)
  /\ \/ /\ IndexAllows(r.v, r.to)
        /\ row' = [row EXCEPT ![r.v] = [state |-> r.to, card |-> r.to,
                     ramp |-> IF r.to = "canary" THEN r.ramp ELSE 0,
                     baseline |-> r.base]]
        /\ req' = [req EXCEPT ![c].at = IF "suspended" \in {r.to, r.from}
                                        THEN "flag" ELSE "announce"]
        /\ UNCHANGED reply
     \/ /\ ~IndexAllows(r.v, r.to)
        /\ Answer(c, "refused")
        /\ UNCHANGED row
  /\ UNCHANGED <<flag>>

\* putBaseline writes the card it read back and leaves the state column; what
\* it read is done with.
WriteBaseline(c) ==
  LET r == req[c] IN
  /\ r.op = "baseline" /\ r.at = "write" /\ ~Locked(c, r.v)
  /\ row' = [row EXCEPT ![r.v].card = r.to, ![r.v].baseline = TRUE]
  /\ req' = [req EXCEPT ![c].at = "announce", ![c].to = "none", ![c].from = "none", ![c].base = FALSE]
  /\ UNCHANGED <<flag, reply>>

\* Mutant: the candidate is activated and the incumbent kept.
PromoteKeepsIncumbent(c) ==
  LET r == req[c] IN
  /\ r.op = "promote" /\ r.at = "commit" /\ ~Locked(c, r.v)
  /\ row' = [row EXCEPT ![r.v] = RowAt("active", r.base)]
  /\ req' = [req EXCEPT ![c].at = "announce", ![c].to = "active"]
  /\ UNCHANGED <<flag, reply>>

\* Both rows in one transaction; the index refuses a second active version.
\* The demoted row keeps its ramp column.
PromoteCommit(c) ==
  LET r == req[c]  old == r.other IN
  /\ r.op = "promote" /\ r.at = "commit" /\ ~Locked(c, r.v)
  /\ \/ /\ Rows({"active"}) \subseteq {old, r.v}
        /\ row' = [v \in Versions |->
             CASE v = r.v -> RowAt("active", r.base)
               [] v = old /\ v # r.v -> [row[v] EXCEPT !.state = "deprecated", !.card = "deprecated",
                                                       !.baseline = r.otherBase]
               [] OTHER -> row[v]]
        /\ req' = [req EXCEPT ![c].at = "announce", ![c].to = "active"]
        /\ UNCHANGED reply
     \/ /\ ~(Rows({"active"}) \subseteq {old, r.v})
        /\ Answer(c, "refused")
        /\ UNCHANGED row
  /\ UNCHANGED <<flag>>

\* Mutant: every transition but a suspension clears the flag.
FlipFlagAlways(c) ==
  /\ req[c].at \in {"flag", "announce"} /\ req[c].op = "state"
  /\ flag' = (req[c].to = "suspended")
  /\ Answer(c, "ok")
  /\ UNCHANGED row

\* The suspension flag covers the whole agent; it is flipped after the write
\* and before the announcement, which needs nothing that was read.
FlipFlag(c) ==
  /\ req[c].at = "flag"
  /\ flag' = (req[c].to = "suspended")
  /\ req' = [req EXCEPT ![c].at = "announce", ![c].from = "none", ![c].base = FALSE]
  /\ UNCHANGED <<row, reply>>

\* The card is put in the snapshot and on the bus, and audited; the registry
\* reads none of it back.
Announce(c) ==
  /\ req[c].at = "announce"
  /\ Answer(c, "ok")
  /\ UNCHANGED <<row, flag>>

\* Postgres, the bus or the process fails: whatever was written stays.
Fail(c) ==
  /\ req[c].at \in {"read", "write", "demote", "candidate", "commit", "flag", "announce"}
  /\ Answer(c, "error")
  /\ UNCHANGED <<row, flag>>

Serve(c) == \/ Register(c) \/ RouteCheck(c) \/ StoreRead(c) \/ StoreWrite(c) \/ WriteBaseline(c)
            \/ PromoteRead(c) \/ DemoteIncumbent(c) \/ CandidateRead(c) \/ PromoteCommit(c)
            \/ FlipFlag(c) \/ Announce(c)

-----------------------------------------------------------------------------
(* Registration: what a manifest may say about undoing its writes.  A      *)
(* capability is [name, risk, comp, irreversible]; comp is "" if none is   *)
(* declared.                                                               *)

CONSTANTS Names       \* capability names used to enumerate manifests
Capability == [name : Names, risk : {"R0", "R1", "R2", "R3"},
               comp : Names \cup {""}, irreversible : BOOLEAN]
Manifests == UNION {[1..n -> Capability] : n \in 1..3}

Writes(c) == c.risk \in {"R2", "R3"}

\* riskOf: a later entry of the same name replaces an earlier one.
RiskOf(m, n) ==
  LET at == {i \in DOMAIN m : m[i].name = n} IN
  IF at = {} THEN "none" ELSE m[Max(at)].risk

NoDuplicates(m) == \A i, j \in DOMAIN m : m[i].name = m[j].name => i = j

Accepts(m) ==
  /\ NoDuplicates(m)
  /\ \A i \in DOMAIN m :
       LET c == m[i] IN
       /\ Writes(c) => c.comp # "" \/ c.irreversible
       /\ ~(c.comp # "" /\ c.irreversible)
       /\ c.risk = "R0" => c.comp = "" /\ ~c.irreversible
       /\ c.risk = "R1" => ~c.irreversible
       /\ c.comp # "" => /\ c.comp # c.name
                         /\ RiskOf(m, c.comp) \in {"R1", "R2"}

=============================================================================
