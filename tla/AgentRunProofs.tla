---------------------------- MODULE AgentRunProofs ----------------------------
(***************************************************************************)
(* What a step's run guarantees for any steps, catalogue, principals,      *)
(* flags, faults and lifetimes: writes are granted, claims travel whole,   *)
(* answers are true and the allowlist is recent.                           *)
(***************************************************************************)
EXTENDS AgentRun, FiniteSetTheorems, SequenceTheorems, TLAPS

StepPcs == {"authorizing", "gated", "minting", "running", "calling", "asking", "done"}
CallPcs == {"arrived", "deciding", "informing", "brokering", "forwarding", "answered"}

CallShape(call) ==
  /\ call = [pc |-> call.pc, step |-> call.step, task |-> call.task, token |-> call.token,
             tool |-> call.tool, valid |-> call.valid, correlated |-> call.correlated,
             answer |-> call.answer, admitted |-> call.admitted, saw |-> call.saw]
  /\ call.pc \in CallPcs /\ call.step \in Steps
  /\ call.valid \in BOOLEAN /\ call.correlated \in BOOLEAN /\ call.admitted \in BOOLEAN

Outcomes == {"ok", "rate_limited", "upstream_auth", "server"}

CompletionShape(completion) ==
  /\ completion = [pc |-> completion.pc, class |-> completion.class, valid |-> completion.valid,
                   seen |-> completion.seen, asOf |-> completion.asOf,
                   binding |-> completion.binding, attempt |-> completion.attempt,
                   tried |-> completion.tried, deadline |-> completion.deadline, status |-> completion.status]
  /\ completion.pc \in {"idle", "arrived", "checking", "fetching", "returning", "trying", "answered"}
  /\ completion.seen \subseteq Classes /\ completion.asOf \in Nat
  /\ completion.binding \in 1..Bindings + 1
  /\ completion.tried \in Seq([binding : 1..Bindings, outcome : Outcomes])
  /\ completion.deadline \in Nat

Loaded ==
  /\ load \in [Steps -> StepLoad]
  /\ \A s \in Steps : IsAgent(load[s].client) /\ AgentOf[load[s].client] = AgentOf[load[s].agent]
  /\ scope.faults \in 0..MaxFaults

SwitchShape ==
  /\ bucket \in Seq(SUBSET scope.flags)
  /\ DOMAIN heard = Watchers /\ \A w \in Watchers : heard[w] \in 1..Len(bucket)

StepShape ==
  /\ pc \in [Steps -> StepPcs] /\ approved \in SUBSET Steps /\ DOMAIN token = Steps
  /\ tries \in [Steps -> 0..MintAttempts + RunAttempts] /\ runs \in [Steps -> 0..1]
  /\ slot \in [Steps -> Nat] /\ \A s \in Steps : slot[s] <= Len(calls)
  /\ result \in [Steps -> {"none", "completed", "failed", "skipped"}]
  /\ \A s \in Steps : /\ (pc[s] = "calling") = (slot[s] # 0)
                      /\ (pc[s] = "done") = (result[s] # "none" \/ load[s].start = "done")
                      /\ pc[s] = "asking" => load[s].work = "model"
                      /\ pc[s] \in {"running", "calling", "asking"} => tries[s] < RunAttempts

ToolShape ==
  /\ now \in Nat /\ faults \in Nat
  /\ calls \in Seq({calls[c] : c \in DOMAIN calls})
  /\ \A c \in DOMAIN calls : CallShape(calls[c])
  /\ quota \in [DOMAIN ToolScope -> 0..Burst]
  /\ IsFiniteSet(effects)
  /\ effects \subseteq [step : Steps, tool : DOMAIN ToolScope, call : 1..Len(calls)]

ModelShape ==
  /\ llm = [c \in Callers |-> llm[c]]
  /\ \A c \in Callers : CompletionShape(llm[c])
  /\ rpm \in [1..Bindings -> 0..Rpm]
  /\ card \subseteq Classes
  /\ cached \in [classes : SUBSET Classes, until : Nat]
  /\ revoked \in [Classes -> Nat]
  /\ latency \in Nat

(* The token minted for a step names its agent and carries its grounds; a  *)
(* call's bearer is that token exchanged by the worker's client.           *)
Unminted == {"authorizing", "gated", "minting"}

MintedFor(s) ==
  /\ token[s].sub = User
  /\ token[s].scopes = load[s].scopes \cap Snapshot.scopes
  /\ token[s].act \in Seq(DOMAIN AgentOf \cup {"svc:orchestrator"})
  /\ token[s].act # <<>> /\ Head(token[s].act) = load[s].agent
  /\ token[s].claims = Grounds(s)

BearerOf(call) ==
  LET s == call.step
  IN /\ call.token.sub = User
     /\ call.token.scopes = load[s].scopes \cap Snapshot.scopes
     /\ call.token.act # <<>> /\ Head(call.token.act) = load[s].client
     /\ call.token.claims = IF OwnClient(s) THEN Grounds(s) ELSE NoClaims
     /\ call.task = load[s].task /\ call.tool = load[s].tool

TokensAreGrounded ==
  /\ \A s \in Steps : pc[s] \in {"running", "calling", "asking"} => MintedFor(s)
  /\ \A c \in DOMAIN calls : /\ pc[calls[c].step] \notin Unminted
                             /\ MintedFor(calls[c].step)
                             /\ BearerOf(calls[c])

(* A call that got past the switches, and one that got past the policy.    *)
Passed(call) ==
  /\ call.tool \in DOMAIN ToolScope
  /\ ~Halted(call, call.saw) /\ ~ToolHalted(call, call.saw) /\ ~Shadowed(call)

Admitted(call) ==
  Passed(call) /\ Authorize(call.tool, CedarContext(call)) = "allow" /\ EnforceRiskClass(call)

CallsAreAdmitted ==
  /\ \A c \in DOMAIN calls :
       /\ calls[c].pc # "arrived" /\ calls[c].pc # "answered" => Passed(calls[c])
       /\ calls[c].pc \in {"informing", "brokering", "forwarding"} => Admitted(calls[c])
       /\ calls[c].pc \in {"arrived", "deciding"} => ~calls[c].admitted
  /\ \A e \in effects : /\ calls[e.call].step = e.step /\ calls[e.call].tool = e.tool
                        /\ calls[e.call].pc = "answered"
                        /\ Write(e.tool) /\ Admitted(calls[e.call])

(* A success is a write carried out, if it was one; and the step waits for *)
(* its own call.                                                           *)
SuccessesAreApplied ==
  /\ \A c \in DOMAIN calls :
       calls[c].answer = "ok" /\ Write(calls[c].tool) =>
         [step |-> calls[c].step, tool |-> calls[c].tool, call |-> c] \in effects
  /\ \A s \in Steps : pc[s] = "calling" => calls[slot[s]].step = s

(* What the limiter has given away is what was admitted.                   *)
AdmittedTo(t) == {d \in DOMAIN calls : calls[d].tool = t /\ calls[d].admitted}

LimiterCounts ==
  /\ \A t \in DOMAIN ToolScope : quota[t] + Cardinality(AdmittedTo(t)) >= Burst
  /\ \A c \in DOMAIN calls : calls[c].answer = "rate_limited" => ~calls[c].admitted /\ calls[c].pc = "answered"

(* Every write is paid for: by the step's first attempt or by a fault.     *)
WritesOf(s) == {e \in effects : e.step = s}
InFlight(s) == {c \in DOMAIN calls : calls[c].step = s /\ calls[c].pc # "answered"}
MayCall(s) ==
  \/ pc[s] \in Unminted \cup {"running", "asking"}
  \/ pc[s] = "calling" /\ calls[slot[s]].pc = "answered" /\ Retryable(calls[slot[s]].answer)

WritesArePaid ==
  /\ MaxFaults - scope.faults <= faults
  /\ \A s \in Steps :
       Cardinality(WritesOf(s)) + Cardinality(InFlight(s)) + (IF MayCall(s) THEN 1 ELSE 0) <= 1 + Spent

(* A completion has tried every binding before the one it is at.           *)
Met(tried) == {tried[i].binding : i \in DOMAIN tried}
BindingsTried(completion) == Met(completion.tried)

BindingsAreTried ==
  /\ \A c \in Callers : 1..llm[c].binding - 1 \subseteq BindingsTried(llm[c])
  /\ \A c \in Callers : llm[c].pc # "answered" => llm[c].status # 429

(* A card on its way is as old as its reading, and the cache holds no      *)
(* class off the card for longer than its lifetime and such a journey.     *)
CacheAges ==
  /\ cached.until <= now + AllowTtl
  /\ \A k \in cached.classes : k \in card \/ cached.until + 1 <= revoked[k] + AllowTtl + latency
  /\ \A c \in Callers :
       llm[c].pc = "returning" =>
         llm[c].asOf <= now /\ \A k \in llm[c].seen : k \in card \/ llm[c].asOf < revoked[k]

(* A step that waits for its model waits for a completion of its own.      *)
WaitsForItsOwn == \A s \in Steps : pc[s] = "asking" => llm[Asked(s)].class = load[s].class

RunInv ==
  /\ Loaded /\ SwitchShape /\ StepShape /\ ToolShape /\ ModelShape
  /\ TokensAreGrounded /\ CallsAreAdmitted /\ SuccessesAreApplied /\ CompletedWasApplied
  /\ LimiterCounts /\ LimiterServesTheAllowed /\ WritesArePaid
  /\ BindingsAreTried /\ RateLimitedMeansAll /\ CacheAges /\ WaitsForItsOwn

-----------------------------------------------------------------------------
\* The actor chains a step's tokens have.
LEMMA ShortSequences ==
  \A S : \A a, b \in S : /\ <<a>> \in Seq(S) /\ <<a>> # <<>> /\ Head(<<a>>) = a
                         /\ <<a, b>> \in Seq(S) /\ <<a, b>> # <<>> /\ Head(<<a, b>>) = a
<1>1. \A S : \A a \in S : <<a>> \in Seq(S)
  OBVIOUS
<1>2. \A S : \A a, b \in S : <<a, b>> \in Seq(S)
  OBVIOUS
<1>3. \A a, b : <<a>> # <<>> /\ Head(<<a>>) = a /\ <<a, b>> # <<>> /\ Head(<<a, b>>) = a
  OBVIOUS
<1>4. QED
  BY <1>1, <1>2, <1>3

\* The chain an exchange for another actor adds to.
LEMMA ConsType ==
  \A S : \A x \in S, t \in Seq(S) : <<x>> \o t \in Seq(S) /\ <<x>> \o t # <<>> /\ Head(<<x>> \o t) = x
<1>1. \A S : \A x \in S : <<x>> \in Seq(S) /\ Len(<<x>>) = 1 /\ <<x>>[1] = x
  BY ShortSequences
<1>2. \A S : \A t, u \in Seq(S) : t \o u \in Seq(S) /\ Len(t \o u) = Len(t) + Len(u)
  OBVIOUS
<1>3. \A S : \A t, u \in Seq(S) : Len(t) = 1 => (t \o u)[1] = t[1]
  <2> SUFFICES ASSUME NEW S, NEW t \in Seq(S), NEW u \in Seq(S), Len(t) = 1
               PROVE  (t \o u)[1] = t[1]
    OBVIOUS
  <2>1. 1 \in 1..Len(t) + Len(u)
    BY LenProperties
  <2>2. QED
    BY <2>1, ConcatProperties
<1>4. \A S : \A t \in Seq(S) : Len(t) > 0 => t # <<>> /\ Head(t) = t[1]
  OBVIOUS
<1>5. \A S : \A t \in Seq(S) : Len(t) \in Nat
  OBVIOUS
<1>6. SUFFICES ASSUME NEW S, NEW x \in S, NEW t \in Seq(S)
               PROVE  <<x>> \o t \in Seq(S) /\ <<x>> \o t # <<>> /\ Head(<<x>> \o t) = x
  OBVIOUS
<1>7. PICK o : o = <<x>>
  OBVIOUS
<1>8. PICK u : u = o \o t
  OBVIOUS
<1>9. o \in Seq(S) /\ Len(o) = 1 /\ o[1] = x
  BY <1>1, <1>7
<1>10. u \in Seq(S) /\ Len(u) = 1 + Len(t) /\ u[1] = x
  BY <1>2, <1>3, <1>8, <1>9
<1>11. u # <<>> /\ Head(u) = x
  BY <1>4, <1>5, <1>10
<1>12. QED
  BY <1>7, <1>8, <1>10, <1>11

\* The calls as a sequence: a request is added to it, a handler changes its own.
LEMMA RangeSeq ==
  ASSUME NEW w, NEW n \in Nat, w = [i \in 1..n |-> w[i]]
  PROVE  w \in Seq({w[i] : i \in DOMAIN w}) /\ Len(w) = n /\ DOMAIN w = 1..n
<1> DEFINE R == {w[i] : i \in DOMAIN w}
<1>1. DOMAIN w = 1..n
  OBVIOUS
<1>2. \A i \in 1..n : w[i] \in R
  BY <1>1
<1> HIDE DEF R
<1>3. w \in [1..n -> R]
  BY <1>2
<1>4. w \in Seq(R)
  BY <1>3, SeqDef
<1>5. Len(w) = n
  BY <1>3, <1>4, LenProperties
<1>6. QED
  BY <1>1, <1>4, <1>5 DEF R

LEMMA AppendCall ==
  ASSUME ToolShape, NEW x, calls' = Append(calls, x), NEW n, n = Len(calls) + 1
  PROVE  /\ n \in Nat /\ n \notin DOMAIN calls /\ DOMAIN calls' = DOMAIN calls \cup {n} /\ Len(calls') = n
         /\ calls'[n] = x /\ \A c \in DOMAIN calls : calls'[c] = calls[c]
         /\ calls' \in Seq({calls'[c] : c \in DOMAIN calls'})
<1>1. PICK S : S = {calls[c] : c \in DOMAIN calls}
  OBVIOUS
<1>2. calls \in Seq(S \cup {x})
  BY <1>1 DEF ToolShape
<1>3. /\ calls' \in Seq(S \cup {x}) /\ Len(calls') = n /\ calls'[n] = x
      /\ \A c \in 1..Len(calls) : calls'[c] = calls[c]
  BY <1>2, AppendProperties
<1>4. /\ Len(calls) \in Nat /\ DOMAIN calls = 1..Len(calls) /\ DOMAIN calls' = 1..n
      /\ calls' = [i \in 1..n |-> calls'[i]]
  BY <1>2, <1>3, LenProperties
<1>5. n \in Nat /\ 1..n = 1..Len(calls) \cup {n} /\ n \notin 1..Len(calls)
  BY <1>4
<1>6. calls' \in Seq({calls'[c] : c \in DOMAIN calls'})
  <2>1. PICK w : w = calls'
    OBVIOUS
  <2>2. w = [i \in 1..n |-> w[i]]
    BY <1>4, <2>1
  <2>3. w \in Seq({w[i] : i \in DOMAIN w})
    BY <1>5, <2>2, RangeSeq
  <2>4. QED
    BY <2>1, <2>3
<1>7. QED
  BY <1>3, <1>4, <1>5, <1>6

LEMMA UpdateCalls ==
  ASSUME ToolShape, calls' = [c \in DOMAIN calls |-> calls'[c]]
  PROVE  /\ calls' \in Seq({calls'[c] : c \in DOMAIN calls'})
         /\ Len(calls') = Len(calls) /\ DOMAIN calls' = DOMAIN calls
<1>1. Len(calls) \in Nat /\ DOMAIN calls = 1..Len(calls)
  BY DEF ToolShape
<1>2. PICK w : w = calls'
  OBVIOUS
<1> DEFINE n == Len(calls)
<1>3. w = [i \in 1..n |-> w[i]]
  BY <1>1, <1>2
<1>4. w \in Seq({w[i] : i \in DOMAIN w}) /\ Len(w) = n /\ DOMAIN w = 1..n
  BY <1>3, RangeSeq
<1>5. QED
  BY <1>1, <1>2, <1>4

\* Every call is a request of a step.
LEMMA CallTypes ==
  ASSUME ToolShape
  PROVE  /\ Len(calls) \in Nat /\ DOMAIN calls = 1..Len(calls)
         /\ \A c \in DOMAIN calls : calls[c].step \in Steps
  BY DEF ToolShape, CallShape

\* The writes of a step and its calls under way can be counted.
LEMMA PaidSets ==
  ASSUME ToolShape
  PROVE  /\ IsFiniteSet(DOMAIN calls)
         /\ \A s \in Steps : /\ IsFiniteSet(WritesOf(s)) /\ IsFiniteSet(InFlight(s))
                             /\ Cardinality(WritesOf(s)) \in Nat /\ Cardinality(InFlight(s)) \in Nat
<1>1. IsFiniteSet(DOMAIN calls)
  <2>1. Len(calls) \in Nat /\ DOMAIN calls = 1..Len(calls)
    BY CallTypes
  <2>2. QED
    BY <2>1, FS_Interval
<1>2. \A s \in Steps : IsFiniteSet(WritesOf(s)) /\ IsFiniteSet(InFlight(s))
  <2> TAKE s \in Steps
  <2>1. WritesOf(s) \in SUBSET effects /\ InFlight(s) \in SUBSET DOMAIN calls
    BY DEF WritesOf, InFlight
  <2>2. IsFiniteSet(effects)
    BY DEF ToolShape
  <2>3. QED
    BY <1>1, <2>1, <2>2, FS_Subset
<1>3. QED
  BY <1>1, <1>2, FS_CardinalityType

\* The faults of a run are counted from none.
LEMMA SpentType ==
  ASSUME RunInv
  PROVE  Spent \in Nat
<1>1. faults \in Nat /\ MaxFaults \in Nat /\ scope.faults \in 0..MaxFaults /\ MaxFaults - scope.faults <= faults
  BY ToolGatewayAssumption DEF RunInv, ToolShape, Loaded, WritesArePaid
<1>2. QED
  BY <1>1 DEF Spent

-----------------------------------------------------------------------------
(* The steps' own actions.                                                 *)

\* What every action of a step but its tool call does: it moves that step and
\* no other, mints once, leaves calls and writes alone, and becomes able to
\* call again only at the price of a fault.
Moves(s) ==
  /\ load' = load /\ scope' = scope
  /\ calls' = calls /\ quota' = quota /\ effects' = effects
  /\ \A r \in Steps \ {s} : /\ pc'[r] = pc[r] /\ slot'[r] = slot[r] /\ result'[r] = result[r]
                            /\ tries'[r] = tries[r] /\ runs'[r] = runs[r]
                            /\ token'[r] = token[r] /\ (r \in approved') = (r \in approved)
  /\ pc'[s] # "calling"
  /\ \/ pc[s] \in Unminted /\ pc'[s] \in Unminted \cup {"done"}
     \/ pc[s] = "minting" /\ pc'[s] = "running" /\ MintedFor(s)'
     \/ /\ pc[s] \in {"running", "calling", "asking"} /\ pc'[s] \in {"running", "asking", "done"}
        /\ token'[s] = token[s] /\ (s \in approved') = (s \in approved)
  /\ \/ faults' = faults /\ (pc'[s] # "done" => MayCall(s))
     \/ faults < MaxFaults /\ faults' = faults + 1
  /\ result'[s] = "completed" /\ load[s].work = "tool" /\ Write(load[s].tool) =>
       \E e \in effects : e.step = s /\ e.tool = load[s].tool

\* A step that ends (Agent.failed, the workflow's return) ends itself alone.
LEMMA FinishMoves ==
  ASSUME StepShape, NEW s \in Steps, pc[s] # "done", NEW outcome \in {"completed", "failed", "skipped"},
         Finish(s, outcome), load' = load, calls' = calls
  PROVE  /\ approved' \in SUBSET Steps /\ DOMAIN token' = Steps => StepShape'
         /\ pc'[s] = "done" /\ result'[s] = outcome
         /\ \A r \in Steps \ {s} : /\ pc'[r] = pc[r] /\ slot'[r] = slot[r] /\ result'[r] = result[r]
                                   /\ tries'[r] = tries[r] /\ runs'[r] = runs[r]
  BY AgentRunAssumption DEF Finish, Move, StepShape, StepPcs

\* An attempt that is retried starts the handler afresh; the last one fails
\* the step (AgentStepWorkflow's retry policy).
LEMMA AgainMoves ==
  ASSUME StepShape, NEW s \in Steps, pc[s] \in {"running", "calling", "asking"},
         Again(s), load' = load, calls' = calls
  PROVE  /\ approved' \in SUBSET Steps /\ DOMAIN token' = Steps => StepShape'
         /\ pc'[s] \in {"running", "done"} /\ result'[s] # "completed"
         /\ \A r \in Steps \ {s} : /\ pc'[r] = pc[r] /\ slot'[r] = slot[r] /\ result'[r] = result[r]
                                   /\ tries'[r] = tries[r] /\ runs'[r] = runs[r]
<1>1. result[s] = "none"
  BY DEF StepShape
<1>2. CASE Attempted(s)
  <2>1. /\ pc' = [pc EXCEPT ![s] = "running"] /\ tries' = [tries EXCEPT ![s] = tries[s] + 1]
        /\ runs' = [runs EXCEPT ![s] = 0] /\ slot' = [slot EXCEPT ![s] = 0] /\ result' = result
    BY <1>2 DEF Again, Move
  <2>2. tries[s] + 1 \in 0..MintAttempts + RunAttempts
    BY <1>2, AgentRunAssumption DEF Attempted, StepShape
  <2>3. tries[s] + 1 < RunAttempts
    BY <1>2, AgentRunAssumption DEF Attempted, StepShape
  <2>4. QED
    BY <1>1, <2>1, <2>2, <2>3 DEF StepShape, StepPcs
<1>3. CASE ~Attempted(s)
  BY <1>3, FinishMoves DEF Again
<1>4. QED
  BY <1>2, <1>3

\* authorizeDelegation answers for one step (activities.ts).
LEMMA AuthorizeStepMoves ==
  ASSUME RunInv, NEW s \in Steps, AuthorizeStep(s)
  PROVE  Moves(s) /\ StepShape'
<1> DEFINE ended == IF load[s].shadow THEN "skipped" ELSE "failed"
<1>1. /\ pc[s] = "authorizing" /\ load' = load /\ scope' = scope /\ approved' = approved /\ token' = token
      /\ calls' = calls /\ quota' = quota /\ effects' = effects /\ faults' = faults
      /\ result[s] = "none" /\ MayCall(s) /\ approved' \in SUBSET Steps /\ DOMAIN token' = Steps
  BY DEF AuthorizeStep, toolVars, RunInv, StepShape, MayCall, Unminted
<1>2. CASE Finish(s, ended)
  BY <1>1, <1>2, FinishMoves DEF Moves, RunInv, Unminted
<1>3. CASE ~Finish(s, ended)
  <2>1. \E to \in {"minting", "gated"} : Move(s, to) /\ UNCHANGED <<tries, runs, slot, result>>
    BY <1>3 DEF AuthorizeStep
  <2>2. StepShape' /\ pc'[s] \in {"minting", "gated"} /\ result'[s] = "none"
    BY <1>1, <2>1 DEF Move, StepShape, StepPcs, RunInv
  <2>3. \A r \in Steps \ {s} : /\ pc'[r] = pc[r] /\ slot'[r] = slot[r] /\ result'[r] = result[r]
                               /\ tries'[r] = tries[r] /\ runs'[r] = runs[r]
    BY <2>1 DEF Move, StepShape, RunInv
  <2>4. QED
    BY <1>1, <2>2, <2>3 DEF Moves, Unminted
<1>4. QED
  BY <1>2, <1>3
\* The approval workflow of one step ends (AgentStepWorkflow).
LEMMA DecidedMoves ==
  ASSUME RunInv, NEW s \in Steps, Decided(s)
  PROVE  Moves(s) /\ StepShape'
<1>1. /\ pc[s] = "gated" /\ load' = load /\ scope' = scope /\ token' = token
      /\ calls' = calls /\ quota' = quota /\ effects' = effects /\ faults' = faults
      /\ result[s] = "none" /\ MayCall(s) /\ DOMAIN token' = Steps /\ approved \in SUBSET Steps
  BY DEF Decided, toolVars, RunInv, StepShape, MayCall, Unminted
<1>2. CASE Finish(s, "failed") /\ UNCHANGED approved
  BY <1>1, <1>2, FinishMoves DEF Moves, RunInv, Unminted
<1>3. CASE approved' = approved \cup {s} /\ Move(s, "minting") /\ UNCHANGED <<tries, runs, slot, result>>
  <2>1. StepShape' /\ pc'[s] = "minting" /\ result'[s] = "none"
    BY <1>1, <1>3 DEF Move, StepShape, StepPcs, RunInv
  <2>2. \A r \in Steps \ {s} : /\ pc'[r] = pc[r] /\ slot'[r] = slot[r] /\ result'[r] = result[r]
                               /\ tries'[r] = tries[r] /\ runs'[r] = runs[r]
                               /\ (r \in approved') = (r \in approved)
    BY <1>1, <1>3 DEF Move, StepShape, RunInv
  <2>3. QED
    BY <1>1, <2>1, <2>2 DEF Moves, Unminted
<1>4. QED
  BY <1>2, <1>3 DEF Decided

\* What the orchestrator's principal signs for a step is the step's own
\* (tokens.ts delegate).
LEMMA MintedIsTheSteps ==
  ASSUME Loaded, NEW s \in Steps
  PROVE  /\ Minted(s).sub = User
         /\ Minted(s).scopes = load[s].scopes \cap Snapshot.scopes
         /\ Minted(s).act \in Seq(DOMAIN AgentOf \cup {"svc:orchestrator"})
         /\ Minted(s).act # <<>> /\ Head(Minted(s).act) = load[s].agent
         /\ Minted(s).claims = Grounds(s)
<1> DEFINE act == DelegatedAct(OrchestratorClient, load[s].agent)
<1>1. load[s].agent \in DOMAIN AgentOf
  BY DEF Loaded, StepLoad
<1>2. act \in Seq(DOMAIN AgentOf \cup {"svc:orchestrator"}) /\ act # <<>> /\ Head(act) = load[s].agent
  <2> DEFINE S == DOMAIN AgentOf \cup {"svc:orchestrator"}
  <2>1. act = <<load[s].agent>> \/ act = <<load[s].agent, "svc:orchestrator">>
    BY DEF DelegatedAct, OrchestratorClient
  <2>2. load[s].agent \in S /\ "svc:orchestrator" \in S
    BY <1>1
  <2> HIDE DEF act, S
  <2>3. act \in Seq(S) /\ act # <<>> /\ Head(act) = load[s].agent
    BY <2>1, <2>2, ShortSequences
  <2>4. QED
    BY <2>3 DEF S
<1>3. /\ Minted(s).sub = Snapshot.sub
      /\ Minted(s).scopes = load[s].scopes \cap Snapshot.scopes
      /\ Minted(s).act = act /\ Minted(s).claims = Grounds(s)
  <2> HIDE DEF act
  <2> QED BY DEF Minted, Delegate, Sign, act
<1>4. Snapshot.sub = User
  BY DEF Snapshot
<1> HIDE DEF act
<1>5. QED
  BY <1>2, <1>3, <1>4

\* The token of a step is minted once, before its first attempt (brokerToken).
LEMMA BrokerTokenMoves ==
  ASSUME RunInv, NEW s \in Steps, BrokerToken(s)
  PROVE  Moves(s) /\ StepShape'
<1>1. /\ pc[s] = "minting" /\ load' = load /\ scope' = scope /\ approved' = approved
      /\ token' = [token EXCEPT ![s] = Minted(s)] /\ slot' = slot /\ result' = result /\ runs' = runs
      /\ pc' = [pc EXCEPT ![s] = "running"] /\ tries' = [tries EXCEPT ![s] = 0]
      /\ calls' = calls /\ quota' = quota /\ effects' = effects /\ faults' = faults
  BY DEF BrokerToken, Move, toolVars
<1>2. result[s] = "none" /\ MayCall(s) /\ DOMAIN token = Steps /\ Loaded
  BY <1>1 DEF RunInv, StepShape, MayCall, Unminted
<1>3. StepShape' /\ pc'[s] = "running" /\ result'[s] = "none"
  BY <1>1, <1>2, AgentRunAssumption DEF RunInv, StepShape, StepPcs
<1>4. \A r \in Steps \ {s} : pc'[r] = pc[r] /\ token'[r] = token[r] /\ tries'[r] = tries[r] /\ runs'[r] = runs[r]
  BY <1>1, <1>2 DEF RunInv, StepShape
<1>5. MintedFor(s)'
  <2>1. Grounds(s)' = Grounds(s)
    BY <1>1 DEF Grounds
  <2>2. token'[s] = Minted(s) /\ load'[s] = load[s]
    BY <1>1, <1>2
  <2>3. QED
    BY <1>2, <2>1, <2>2, MintedIsTheSteps DEF MintedFor, Snapshot
<1>6. QED
  BY <1>1, <1>2, <1>3, <1>4, <1>5 DEF Moves, Unminted

\* A refused or failed mint is tried again, or fails the step.
LEMMA BrokerTokenFailsMoves ==
  ASSUME RunInv, NEW s \in Steps, BrokerTokenFails(s)
  PROVE  Moves(s) /\ StepShape'
<1>1. /\ pc[s] = "minting" /\ load' = load /\ scope' = scope /\ approved' = approved /\ token' = token
      /\ calls' = calls /\ quota' = quota /\ effects' = effects
      /\ faults' = faults \/ (faults < MaxFaults /\ faults' = faults + 1)
      /\ result[s] = "none" /\ MayCall(s) /\ approved' \in SUBSET Steps /\ DOMAIN token' = Steps
  BY DEF BrokerTokenFails, toolVars, RunInv, StepShape, MayCall, Unminted, Fault, NoFault
<1>2. CASE tries[s] + 1 < MintAttempts
  <2>1. tries' = [tries EXCEPT ![s] = tries[s] + 1] /\ UNCHANGED <<pc, runs, slot, result>>
    BY <1>2 DEF BrokerTokenFails
  <2>2. tries[s] + 1 \in 0..MintAttempts + RunAttempts
    BY <1>2, AgentRunAssumption DEF RunInv, StepShape
  <2>3. StepShape' /\ \A r \in Steps \ {s} : tries'[r] = tries[r]
    BY <1>1, <2>1, <2>2 DEF RunInv, StepShape
  <2>4. QED
    BY <1>1, <2>1, <2>3 DEF Moves, Unminted
<1>3. CASE ~(tries[s] + 1 < MintAttempts)
  <2>1. Finish(s, "failed")
    BY <1>3 DEF BrokerTokenFails
  <2>2. QED
    BY <1>1, <2>1, FinishMoves DEF Moves, RunInv, Unminted
<1>4. QED
  BY <1>2, <1>3
\* An exchange that is refused ends the step, and one that fails is retried.
LEMMA ExchangeRefusedMoves ==
  ASSUME RunInv, NEW s \in Steps, ExchangeRefused(s)
  PROVE  Moves(s) /\ StepShape'
<1>1. /\ pc[s] = "running" /\ load' = load /\ scope' = scope /\ approved' = approved /\ token' = token
      /\ calls' = calls /\ quota' = quota /\ effects' = effects
      /\ result[s] = "none" /\ MayCall(s) /\ approved' \in SUBSET Steps /\ DOMAIN token' = Steps /\ StepShape
  BY DEF ExchangeRefused, toolVars, RunInv, StepShape, MayCall, Unminted
<1>2. CASE NoFault /\ Finish(s, "failed")
  BY <1>1, <1>2, FinishMoves DEF Moves, NoFault, Unminted
<1>3. CASE Fault /\ Again(s)
  BY <1>1, <1>3, AgainMoves DEF Moves, Fault, Unminted
<1>4. QED
  BY <1>2, <1>3 DEF ExchangeRefused

\* The answer a step waits for is its own call's.
LEMMA OwnCall ==
  ASSUME RunInv, NEW s \in Steps, pc[s] = "calling"
  PROVE  /\ slot[s] \in DOMAIN calls /\ calls[slot[s]].step = s
         /\ calls[slot[s]].tool = load[s].tool
<1>1. slot[s] \in 1..Len(calls)
  BY CallTypes DEF RunInv, StepShape
<1>2. slot[s] \in DOMAIN calls
  BY <1>1, CallTypes DEF RunInv
<1>3. calls[slot[s]].step = s
  BY DEF RunInv, SuccessesAreApplied
<1>4. BearerOf(calls[slot[s]])
  BY <1>2 DEF RunInv, TokensAreGrounded
<1>5. QED
  BY <1>2, <1>3, <1>4 DEF BearerOf

\* A handler with its data completes the step, or runs once more to repair its
\* output (Agent.executeValidated).
LEMMA HearAnswerMoves ==
  ASSUME RunInv, NEW s \in Steps, HearAnswer(s)
  PROVE  Moves(s) /\ StepShape'
<1>1. /\ pc[s] = "calling" /\ load' = load /\ scope' = scope /\ approved' = approved /\ token' = token
      /\ calls' = calls /\ quota' = quota /\ effects' = effects
      /\ result[s] = "none" /\ approved' \in SUBSET Steps /\ DOMAIN token' = Steps /\ StepShape
  BY DEF HearAnswer, Answered, Conforms, toolVars, RunInv, StepShape
<1>2. Write(load[s].tool) => \E e \in effects : e.step = s /\ e.tool = load[s].tool
  <2>1. calls[slot[s]].answer = "ok"
    BY DEF HearAnswer
  <2>2. QED
    BY <1>1, <2>1, OwnCall DEF RunInv, SuccessesAreApplied
<1>3. CASE NoFault /\ Finish(s, "completed")
  BY <1>1, <1>2, <1>3, FinishMoves DEF Moves, NoFault, Unminted
<1>4. CASE Fault /\ Finish(s, "failed")
  BY <1>1, <1>4, FinishMoves DEF Moves, Fault, Unminted
<1>5. CASE Fault /\ runs' = [runs EXCEPT ![s] = 1] /\ slot' = [slot EXCEPT ![s] = 0] /\ Move(s, "running")
           /\ UNCHANGED <<tries, result>>
  <2>1. StepShape' /\ pc'[s] = "running" /\ result'[s] = "none"
    BY <1>1, <1>5 DEF Move, StepShape, StepPcs
  <2>2. \A r \in Steps \ {s} : /\ pc'[r] = pc[r] /\ slot'[r] = slot[r] /\ result'[r] = result[r]
                               /\ tries'[r] = tries[r] /\ runs'[r] = runs[r]
    BY <1>1, <1>5 DEF Move, StepShape
  <2>3. QED
    BY <1>1, <1>5, <2>1, <2>2 DEF Moves, Fault
<1>6. QED
  BY <1>3, <1>4, <1>5 DEF HearAnswer, Conforms

\* A failed call is retried when its error is retryable (mapTransportError).
LEMMA HearErrorMoves ==
  ASSUME RunInv, NEW s \in Steps, HearError(s)
  PROVE  Moves(s) /\ StepShape'
<1>1. /\ pc[s] = "calling" /\ load' = load /\ scope' = scope /\ approved' = approved /\ token' = token
      /\ calls' = calls /\ quota' = quota /\ effects' = effects /\ faults' = faults
      /\ result[s] = "none" /\ approved' \in SUBSET Steps /\ DOMAIN token' = Steps /\ StepShape
  BY DEF HearError, Answered, toolVars, RunInv, StepShape, NoFault
<1>2. CASE Retryable(calls[slot[s]].answer)
  <2>1. MayCall(s) /\ Again(s)
    BY <1>2 DEF MayCall, HearError, Answered
  <2>2. QED
    BY <1>1, <2>1, AgainMoves DEF Moves
<1>3. CASE ~Retryable(calls[slot[s]].answer)
  <2>1. Finish(s, "failed")
    BY <1>3 DEF HearError
  <2>2. QED
    BY <1>1, <2>1, FinishMoves DEF Moves
<1>4. QED
  BY <1>2, <1>3

\* A client that gave up, or died, is one fault (McpToolClient.call).
LEMMA AttemptLostMoves ==
  ASSUME RunInv, NEW s \in Steps, AttemptLost(s)
  PROVE  Moves(s) /\ StepShape'
<1>1. /\ pc[s] \in {"calling", "asking"} /\ load' = load /\ scope' = scope /\ approved' = approved /\ token' = token
      /\ calls' = calls /\ quota' = quota /\ effects' = effects /\ faults < MaxFaults /\ faults' = faults + 1
      /\ approved' \in SUBSET Steps /\ DOMAIN token' = Steps /\ StepShape /\ Again(s)
  BY DEF AttemptLost, toolVars, RunInv, StepShape, Fault
<1>2. QED
  BY <1>1, AgainMoves DEF Moves

\* A step that turns to its model waits for it and does nothing else.
LEMMA AskModelMoves ==
  ASSUME RunInv, NEW s \in Steps, AskModel(s)
  PROVE  Moves(s) /\ StepShape'
<1>1. /\ pc[s] = "running" /\ load' = load /\ scope' = scope /\ approved' = approved /\ token' = token
      /\ calls' = calls /\ quota' = quota /\ effects' = effects /\ faults' = faults
      /\ tries' = tries /\ runs' = runs /\ slot' = slot /\ result' = result
      /\ pc' = [pc EXCEPT ![s] = "asking"] /\ load[s].work = "model"
      /\ result[s] = "none" /\ MayCall(s) /\ StepShape
  BY DEF AskModel, Move, toolVars, RunInv, StepShape, MayCall
<1>2. StepShape' /\ pc'[s] = "asking" /\ \A r \in Steps \ {s} : pc'[r] = pc[r]
  BY <1>1 DEF StepShape, StepPcs
<1>3. QED
  BY <1>1, <1>2 DEF Moves

\* A completion ends the step, has an output to repair, or is retried for a
\* status that may pass.
LEMMA HearModelMoves ==
  ASSUME RunInv, NEW s \in Steps, HearModel(s)
  PROVE  Moves(s) /\ StepShape'
<1>1. /\ pc[s] = "asking" /\ load' = load /\ scope' = scope /\ approved' = approved /\ token' = token
      /\ calls' = calls /\ quota' = quota /\ effects' = effects
      /\ approved' \in SUBSET Steps /\ DOMAIN token' = Steps /\ StepShape /\ MayCall(s)
      /\ load[s].work = "model" /\ result[s] = "none"
  BY DEF HearModel, Conforms, toolVars, RunInv, StepShape, MayCall
<1>2. faults' = faults \/ (faults < MaxFaults /\ faults' = faults + 1)
  BY DEF HearModel, Conforms, Fault, NoFault
<1>3. CASE \E outcome \in {"completed", "failed"} : Finish(s, outcome)
  BY <1>1, <1>2, <1>3, FinishMoves DEF Moves
<1>4. CASE Again(s)
  BY <1>1, <1>2, <1>4, AgainMoves DEF Moves
<1>5. CASE runs' = [runs EXCEPT ![s] = 1] /\ slot' = [slot EXCEPT ![s] = 0] /\ Move(s, "running")
           /\ UNCHANGED <<tries, result>>
  <2>1. StepShape' /\ pc'[s] = "running" /\ result'[s] = "none"
    BY <1>1, <1>5 DEF Move, StepShape, StepPcs
  <2>2. \A r \in Steps \ {s} : /\ pc'[r] = pc[r] /\ slot'[r] = slot[r] /\ result'[r] = result[r]
                               /\ tries'[r] = tries[r] /\ runs'[r] = runs[r]
    BY <1>1, <1>5 DEF Move, StepShape
  <2>3. QED
    BY <1>1, <1>2, <1>5, <2>1, <2>2 DEF Moves
<1>6. QED
  BY <1>3, <1>4, <1>5 DEF HearModel, Conforms
\* What a step's own action leaves alone.
LEMMA MovesFrame ==
  ASSUME RunInv, NEW s \in Steps, Moves(s), now' = now
  PROVE  /\ Loaded' /\ ToolShape'
         /\ CallsAreAdmitted' /\ LimiterCounts' /\ LimiterServesTheAllowed'
<1>1. load' = load /\ scope' = scope /\ calls' = calls /\ quota' = quota /\ effects' = effects
  BY DEF Moves
<1>2. Loaded'
  BY <1>1 DEF RunInv, Loaded
<1>3. ToolShape'
  <2>1. faults' \in Nat
    BY DEF RunInv, ToolShape, Moves
  <2>2. QED
    BY <1>1, <2>1 DEF RunInv, ToolShape, CallShape
<1>4. CallsAreAdmitted'
  BY <1>1 DEF RunInv, CallsAreAdmitted, Passed, Admitted, CedarContext
<1>5. LimiterCounts' /\ LimiterServesTheAllowed'
  BY <1>1 DEF RunInv, LimiterCounts, AdmittedTo, LimiterServesTheAllowed
<1>6. QED
  BY <1>2, <1>3, <1>4, <1>5

\* Grounds are settled before the mint: a step's own action changes neither
\* its token nor its approval once it has called.
LEMMA MovesGrounded ==
  ASSUME RunInv, NEW s \in Steps, Moves(s)
  PROVE  TokensAreGrounded'
<1>1. load' = load /\ calls' = calls
  BY DEF Moves
<1>2. \A r \in Steps : pc[r] \notin Unminted /\ MintedFor(r) /\ pc'[r] \notin Unminted =>
                         MintedFor(r)' /\ Grounds(r)' = Grounds(r)
  <2> SUFFICES ASSUME NEW r \in Steps, pc[r] \notin Unminted, MintedFor(r), pc'[r] \notin Unminted
               PROVE  MintedFor(r)' /\ Grounds(r)' = Grounds(r)
    OBVIOUS
  <2>1. token'[r] = token[r] /\ (r \in approved') = (r \in approved)
    <3>1. CASE r = s
      <4>1. pc[s] # "minting"
        BY <3>1 DEF Unminted
      <4>2. QED
        BY <3>1, <4>1 DEF Moves
    <3>2. CASE r # s
      BY <3>2 DEF Moves
    <3>3. QED
      BY <3>1, <3>2
  <2>2. Grounds(r)' = Grounds(r)
    BY <1>1, <2>1 DEF Grounds
  <2>3. QED
    BY <1>1, <2>1, <2>2 DEF MintedFor, Snapshot
<1>3. \A r \in Steps : pc'[r] \in Unminted => pc[r] \in Unminted
  BY DEF Moves, Unminted
<1>4. ASSUME NEW r \in Steps, pc'[r] \in {"running", "calling", "asking"}
      PROVE  MintedFor(r)'
  <2>1. CASE pc[r] \in {"running", "calling", "asking"}
    BY <1>2, <1>4, <2>1 DEF RunInv, TokensAreGrounded, Unminted
  <2>2. CASE pc[r] \notin {"running", "calling", "asking"}
    <3>1. r = s
      BY <1>4, <2>2 DEF Moves
    <3>2. QED
      BY <1>4, <2>2, <3>1 DEF Moves, Unminted
  <2>3. QED
    BY <2>1, <2>2
<1>5. ASSUME NEW c \in DOMAIN calls
      PROVE  pc'[calls[c].step] \notin Unminted /\ MintedFor(calls[c].step)' /\ BearerOf(calls[c])'
  <2>1. PICK r \in Steps : r = calls[c].step
    BY CallTypes DEF RunInv
  <2>2. pc[r] \notin Unminted /\ MintedFor(r) /\ BearerOf(calls[c])
    BY <2>1 DEF RunInv, TokensAreGrounded
  <2>3. pc'[r] \notin Unminted
    BY <2>2, <1>3
  <2>4. MintedFor(r)' /\ Grounds(r)' = Grounds(r)
    BY <1>2, <2>2, <2>3
  <2>5. BearerOf(calls[c])'
    BY <1>1, <2>1, <2>2, <2>4 DEF BearerOf, OwnClient, Snapshot
  <2>6. QED
    BY <1>1, <2>1, <2>3, <2>4, <2>5
<1>6. QED
  BY <1>1, <1>4, <1>5 DEF TokensAreGrounded

\* A step that is done with a write did write; and its write is paid for.
LEMMA MovesApplied ==
  ASSUME RunInv, NEW s \in Steps, Moves(s)
  PROVE  SuccessesAreApplied' /\ CompletedWasApplied'
<1>1. load' = load /\ calls' = calls /\ effects' = effects
  BY DEF Moves
<1>2. SuccessesAreApplied'
  BY <1>1 DEF RunInv, SuccessesAreApplied, Moves
<1>3. CompletedWasApplied'
  BY <1>1 DEF RunInv, CompletedWasApplied, Moves
<1>4. QED
  BY <1>2, <1>3

LEMMA MovesPaid ==
  ASSUME RunInv, NEW s \in Steps, Moves(s)
  PROVE  WritesArePaid'
<1>1. load' = load /\ scope' = scope /\ calls' = calls /\ effects' = effects
  BY DEF Moves
<1>2. faults \in Nat /\ MaxFaults \in Nat /\ scope.faults \in 0..MaxFaults
  BY ToolGatewayAssumption DEF RunInv, ToolShape, Loaded
<1>3. \A r \in Steps : Cardinality(WritesOf(r)) \in Nat /\ Cardinality(InFlight(r)) \in Nat
  BY PaidSets DEF RunInv
<1>4. ASSUME NEW r \in Steps
      PROVE  Cardinality(WritesOf(r)) + Cardinality(InFlight(r)) + (IF MayCall(r)' THEN 1 ELSE 0) <= 1 + Spent'
  <2> DEFINE W == Cardinality(WritesOf(r))
  <2> DEFINE F == Cardinality(InFlight(r))
  <2>1. W \in Nat /\ F \in Nat
    BY <1>3
  <2>2. W + F + (IF MayCall(r) THEN 1 ELSE 0) <= 1 + (faults - (MaxFaults - scope.faults))
    BY DEF RunInv, WritesArePaid, Spent
  <2>3. Spent' = faults' - (MaxFaults - scope.faults)
    BY <1>1 DEF Spent
  <2>4. (faults' = faults /\ (MayCall(r)' => MayCall(r))) \/ faults' = faults + 1
    <3>1. CASE r = s
      BY <3>1 DEF Moves, MayCall, Unminted
    <3>2. CASE r # s
      BY <1>1, <3>2 DEF Moves, MayCall, Unminted
    <3>3. QED
      BY <3>1, <3>2
  <2> HIDE DEF W, F
  <2>5. QED
    BY <1>2, <2>1, <2>2, <2>3, <2>4 DEF W, F
<1>5. faults' \in Nat /\ faults <= faults'
  BY <1>2 DEF Moves
<1>6. QED
  BY <1>1, <1>2, <1>4, <1>5 DEF RunInv, WritesArePaid, WritesOf, InFlight
-----------------------------------------------------------------------------
(* The request of a tool call.                                             *)

\* The exchange keeps subject and scopes, and the claims for the agent they
\* were made for (tokens.ts exchange).
LEMMA ExchangedIsTheSteps ==
  ASSUME Loaded, NEW s \in Steps, MintedFor(s), NEW bearer,
         bearer = Exchange(token[s], load[s].client, "acp:tools", {}, 0, "key")
  PROVE  /\ bearer.sub = User
         /\ bearer.scopes = load[s].scopes \cap Snapshot.scopes
         /\ bearer.act # <<>> /\ Head(bearer.act) = load[s].client
         /\ bearer.claims = IF OwnClient(s) THEN Grounds(s) ELSE NoClaims
<1> DEFINE S == DOMAIN AgentOf \cup {"svc:orchestrator"}
<1> DEFINE a == load[s].client
<1> DEFINE act == ExchangedAct(token[s], a)
<1>1. load[s].client \in S
  BY DEF Loaded, StepLoad
<1>2. token[s].act \in Seq(S) /\ token[s].act # <<>> /\ Head(token[s].act) = load[s].agent
  BY DEF MintedFor
<1>3. SameActor(token[s], a) = OwnClient(s)
  BY <1>2 DEF SameActor, OwnClient
<1>4. act \in Seq(S) /\ act # <<>> /\ Head(act) = a
  <2>1. CASE OwnClient(s)
    BY <1>2, <1>3, <2>1 DEF ExchangedAct, OwnClient
  <2>2. CASE ~OwnClient(s)
    <3>1. act = <<a>> \o token[s].act
      BY <1>2, <1>3, <2>2 DEF ExchangedAct
    <3>2. \A x \in S, t \in Seq(S) : <<x>> \o t \in Seq(S) /\ <<x>> \o t # <<>> /\ Head(<<x>> \o t) = x
      BY ConsType
    <3> HIDE DEF act, S
    <3>3. QED
      BY <1>1, <1>2, <3>1, <3>2
  <2>3. QED
    BY <2>1, <2>2
<1>5. /\ bearer.sub = User /\ bearer.scopes = load[s].scopes \cap Snapshot.scopes
      /\ bearer.act = act /\ bearer.claims = ExchangedClaims(token[s], a)
  <2> HIDE DEF act
  <2> QED BY DEF Exchange, Sign, ExchangedScopes, MintedFor, act
<1>6. bearer.claims = IF OwnClient(s) THEN Grounds(s) ELSE NoClaims
  BY <1>3, <1>5 DEF ExchangedClaims, MintedFor
<1> HIDE DEF act, S
<1>7. QED
  BY <1>4, <1>5, <1>6
\* A request reaches the gateway with the bearer of its step, and nothing of
\* what the gateway has done so far is touched (McpToolClient.call).
LEMMA CallToolKeeps ==
  ASSUME RunInv, NEW s \in Steps, CallTool(s), now' = now
  PROVE  /\ Loaded' /\ StepShape' /\ ToolShape' /\ TokensAreGrounded' /\ CallsAreAdmitted'
         /\ SuccessesAreApplied' /\ CompletedWasApplied'
         /\ LimiterCounts' /\ LimiterServesTheAllowed' /\ WritesArePaid'
<1> DEFINE n == Len(calls) + 1
<1>1. PICK bearer : bearer = Exchange(token[s], load[s].client, "acp:tools", {}, 0, "key")
  OBVIOUS
<1>2. PICK new : new = Call(s, load[s].task, bearer, load[s].tool, load[s].valid, load[s].correlated)
  OBVIOUS
<1>3. /\ pc[s] = "running" /\ pc' = [pc EXCEPT ![s] = "calling"] /\ calls' = Append(calls, new)
      /\ slot' = [slot EXCEPT ![s] = n]
      /\ load' = load /\ scope' = scope /\ approved' = approved /\ token' = token /\ tries' = tries
      /\ runs' = runs /\ result' = result /\ quota' = quota /\ effects' = effects /\ faults' = faults
  BY <1>1, <1>2 DEF CallTool, Move, NoFault
<1>4. Loaded /\ StepShape /\ ToolShape /\ MintedFor(s)
  BY <1>3 DEF RunInv, TokensAreGrounded
<1>5. /\ n \in Nat /\ n \notin DOMAIN calls /\ DOMAIN calls' = DOMAIN calls \cup {n} /\ Len(calls') = n
      /\ calls'[n] = new /\ (\A c \in DOMAIN calls : calls'[c] = calls[c])
      /\ calls' \in Seq({calls'[c] : c \in DOMAIN calls'})
  BY <1>3, <1>4, AppendCall
<1>6. Len(calls) \in Nat /\ DOMAIN calls = 1..Len(calls)
  BY <1>4, CallTypes
<1>7. /\ new.pc = "arrived" /\ new.step = s /\ new.task = load[s].task /\ new.token = bearer
      /\ new.tool = load[s].tool /\ new.answer = "none" /\ new.admitted = FALSE /\ CallShape(new)
  <2>1. load[s].valid \in BOOLEAN /\ load[s].correlated \in BOOLEAN
    BY <1>4 DEF Loaded, StepLoad
  <2>2. QED
    BY <1>2, <2>1 DEF Call, CallShape, CallPcs
<1>8. BearerOf(new)
  BY <1>1, <1>4, <1>7, ExchangedIsTheSteps DEF BearerOf
<1> HIDE DEF n
<1>9. Loaded'
  BY <1>3, <1>4 DEF Loaded
<1>10. StepShape'
  <2>1. n # 0 /\ n <= Len(calls') /\ \A r \in Steps : slot[r] <= Len(calls')
    BY <1>4, <1>5, <1>6 DEF n, StepShape
  <2>2. result[s] = "none" /\ load[s].start # "done"
    BY <1>3, <1>4 DEF StepShape
  <2>3. QED
    BY <1>3, <1>4, <1>5, <2>1, <2>2 DEF StepShape, StepPcs
<1>11. ToolShape'
  <2>1. 1..Len(calls) \subseteq 1..Len(calls')
    BY <1>5, <1>6 DEF n
  <2>2. effects' \subseteq [step : Steps, tool : DOMAIN ToolScope, call : 1..Len(calls')]
    BY <1>3, <1>4, <2>1 DEF ToolShape
  <2>3. \A c \in DOMAIN calls' : CallShape(calls'[c])
    BY <1>4, <1>5, <1>7 DEF ToolShape
  <2>4. QED
    BY <1>3, <1>4, <1>5, <2>2, <2>3 DEF ToolShape, CallShape
<1>12. \A r \in Steps : /\ (MintedFor(r) => MintedFor(r)')
                        /\ (pc'[r] \in Unminted => pc[r] \in Unminted)
                        /\ (pc'[r] \in {"running", "calling", "asking"} => pc[r] \in {"running", "calling", "asking"})
  BY <1>3, <1>4 DEF MintedFor, Grounds, Snapshot, StepShape, Unminted
<1>13. \A call : BearerOf(call) => BearerOf(call)'
  BY <1>3 DEF BearerOf, Grounds, OwnClient, Snapshot
<1>14. TokensAreGrounded'
  <2>1. \A c \in DOMAIN calls' : /\ pc'[calls'[c].step] \notin Unminted
                                 /\ MintedFor(calls[c].step)' /\ BearerOf(calls[c])'
    <3> SUFFICES ASSUME NEW c \in DOMAIN calls'
                 PROVE  /\ pc'[calls'[c].step] \notin Unminted
                        /\ MintedFor(calls[c].step)' /\ BearerOf(calls[c])'
      OBVIOUS
    <3>1. PICK call : call = calls'[c]
      OBVIOUS
    <3>2. call.step \in Steps /\ pc[call.step] \notin Unminted /\ MintedFor(call.step) /\ BearerOf(call)
      <4>1. CASE c = n
        BY <1>3, <1>4, <1>5, <1>7, <1>8, <3>1, <4>1 DEF Unminted
      <4>2. CASE c \in DOMAIN calls
        BY <1>4, <1>5, <3>1, <4>2, CallTypes DEF RunInv, TokensAreGrounded
      <4>3. QED
        BY <1>5, <4>1, <4>2
    <3>3. PICK r \in Steps : r = call.step
      BY <3>2
    <3>4. pc'[r] \notin Unminted /\ MintedFor(r)' /\ BearerOf(call)'
      BY <1>12, <1>13, <3>2, <3>3
    <3>5. QED
      BY <3>1, <3>3, <3>4
  <2>2. QED
    BY <1>12, <2>1 DEF RunInv, TokensAreGrounded
<1>15. CallsAreAdmitted'
  <2>1. \A call : Passed(call)' = Passed(call) /\ Admitted(call)' = Admitted(call)
    BY DEF Passed, Admitted, CedarContext
  <2>2. \A e \in effects : e.call \in DOMAIN calls
    BY <1>4, <1>6 DEF ToolShape
  <2>3. \A c \in DOMAIN calls' : /\ calls'[c].pc # "arrived" /\ calls'[c].pc # "answered" => Passed(calls'[c])
                                 /\ calls'[c].pc \in {"informing", "brokering", "forwarding"} => Admitted(calls'[c])
                                 /\ calls'[c].pc \in {"arrived", "deciding"} => ~calls'[c].admitted
    BY <1>5, <1>7 DEF RunInv, CallsAreAdmitted
  <2>4. \A e \in effects' : /\ calls'[e.call].step = e.step /\ calls'[e.call].tool = e.tool
                            /\ calls'[e.call].pc = "answered"
                            /\ Write(e.tool) /\ Admitted(calls'[e.call])
    BY <1>3, <1>5, <2>2 DEF RunInv, CallsAreAdmitted
  <2>5. QED
    BY <2>1, <2>3, <2>4 DEF CallsAreAdmitted
<1>16. SuccessesAreApplied' /\ CompletedWasApplied'
  <2>1. SuccessesAreApplied'
    <3>1. ASSUME NEW r \in Steps, pc'[r] = "calling" PROVE calls'[slot'[r]].step = r
      <4>1. CASE r = s
        BY <1>3, <1>4, <1>5, <1>7, <4>1 DEF StepShape
      <4>2. CASE r # s
        <5>1. pc[r] = "calling" /\ slot'[r] = slot[r]
          BY <1>3, <1>4, <3>1, <4>2 DEF StepShape
        <5>2. QED
          BY <1>5, <5>1, OwnCall
      <4>3. QED
        BY <4>1, <4>2
    <3>2. QED
      BY <1>3, <1>5, <1>7, <3>1 DEF RunInv, SuccessesAreApplied
  <2>2. CompletedWasApplied'
    BY <1>3 DEF RunInv, CompletedWasApplied
  <2>3. QED
    BY <2>1, <2>2
<1>17. LimiterCounts' /\ LimiterServesTheAllowed'
  <2>1. \A t : AdmittedTo(t)' = AdmittedTo(t)
    BY <1>5, <1>7 DEF AdmittedTo
  <2>2. \A c \in DOMAIN calls :
          {d \in DOMAIN calls' \ {c} : calls'[d].tool = calls'[c].tool /\ calls'[d].admitted}
            = {d \in DOMAIN calls \ {c} : calls[d].tool = calls[c].tool /\ calls[d].admitted}
    BY <1>5, <1>7
  <2>3. LimiterCounts'
    BY <1>3, <1>5, <1>7, <2>1 DEF RunInv, LimiterCounts
  <2>4. LimiterServesTheAllowed'
    BY <1>5, <1>7, <2>2 DEF RunInv, LimiterServesTheAllowed
  <2>5. QED
    BY <2>3, <2>4
<1>18. WritesArePaid'
  <2>1. \A r \in Steps : WritesOf(r)' = WritesOf(r)
    BY <1>3 DEF WritesOf
  <2>2. \A r \in Steps : InFlight(r)' = IF r = s THEN InFlight(r) \cup {n} ELSE InFlight(r)
    BY <1>5, <1>7 DEF InFlight
  <2>3. MayCall(s) /\ ~MayCall(s)'
    BY <1>3, <1>4, <1>5, <1>7 DEF MayCall, StepShape, Unminted
  <2>4. \A r \in Steps \ {s} : MayCall(r)' => MayCall(r)
    BY <1>3, <1>4, <1>5, OwnCall DEF MayCall, StepShape
  <2>5. n \notin InFlight(s) /\ IsFiniteSet(InFlight(s))
    BY <1>4, <1>5, PaidSets DEF InFlight
  <2>6. Cardinality(InFlight(s) \cup {n}) = Cardinality(InFlight(s)) + 1
    BY <2>5, FS_AddElement
  <2>7. Spent' = Spent
    BY <1>3 DEF Spent
  <2>8. ASSUME NEW r \in Steps
        PROVE  Cardinality(WritesOf(r)') + Cardinality(InFlight(r)') + (IF MayCall(r)' THEN 1 ELSE 0) <= 1 + Spent'
    <3>1. PICK w \in Nat, f \in Nat : w = Cardinality(WritesOf(r)) /\ f = Cardinality(InFlight(r))
      BY <1>4, PaidSets
    <3>2. w + f + (IF MayCall(r) THEN 1 ELSE 0) <= 1 + Spent
      BY <3>1 DEF RunInv, WritesArePaid
    <3>3. CASE r = s
      <4>1. Cardinality(InFlight(r)') = f + 1
        BY <2>2, <2>6, <3>1, <3>3
      <4>2. w + (f + 1) <= 1 + Spent
        BY <2>3, <3>2, <3>3
      <4>3. QED
        BY <2>1, <2>3, <2>7, <3>1, <3>3, <4>1, <4>2
    <3>4. CASE r # s
      <4>1. Cardinality(InFlight(r)') = f /\ Cardinality(WritesOf(r)') = w
        BY <2>1, <2>2, <3>1, <3>4
      <4>2. MayCall(r)' => MayCall(r)
        BY <2>4, <3>4
      <4>3. QED
        BY <2>7, <3>2, <4>1, <4>2, SpentType
    <3>5. QED
      BY <3>3, <3>4
  <2>9. QED
    BY <1>3, <2>8 DEF RunInv, WritesArePaid
<1>19. QED
  BY <1>9, <1>10, <1>11, <1>14, <1>15, <1>16, <1>17, <1>18
-----------------------------------------------------------------------------
(* The gateway's handling of a call.                                       *)

\* A handler changes how far its call is, its answer, whether it was admitted
\* and what the switches were seen to be, and no other call.
Changed(c, to, answer, admitted, saw) ==
  /\ calls' = [d \in DOMAIN calls |-> calls'[d]]
  /\ \A d \in DOMAIN calls \ {c} : calls'[d] = calls[d]
  /\ CallShape(calls'[c])
  /\ calls'[c].step = calls[c].step /\ calls'[c].task = calls[c].task /\ calls'[c].token = calls[c].token
  /\ calls'[c].tool = calls[c].tool /\ calls'[c].valid = calls[c].valid
  /\ calls'[c].correlated = calls[c].correlated
  /\ calls'[c].pc = to /\ calls'[c].answer = answer /\ calls'[c].admitted = admitted /\ calls'[c].saw = saw

LEMMA CallChanges ==
  ASSUME ToolShape, NEW c \in DOMAIN calls, NEW to \in CallPcs, NEW answer, NEW saw
  PROVE  /\ calls' = [calls EXCEPT ![c].pc = to] =>
              Changed(c, to, calls[c].answer, calls[c].admitted, calls[c].saw)
         /\ calls' = [calls EXCEPT ![c].pc = to, ![c].answer = answer] =>
              Changed(c, to, answer, calls[c].admitted, calls[c].saw)
         /\ calls' = [calls EXCEPT ![c].pc = to, ![c].saw = saw] =>
              Changed(c, to, calls[c].answer, calls[c].admitted, saw)
         /\ calls' = [calls EXCEPT ![c].pc = to, ![c].admitted = TRUE] =>
              Changed(c, to, calls[c].answer, TRUE, calls[c].saw)
<1>1. CallShape(calls[c]) /\ DOMAIN calls = 1..Len(calls)
  BY CallTypes DEF ToolShape
<1>2. ASSUME calls' = [calls EXCEPT ![c].pc = to]
      PROVE  Changed(c, to, calls[c].answer, calls[c].admitted, calls[c].saw)
  BY <1>1, <1>2 DEF Changed, CallShape
<1>3. ASSUME calls' = [calls EXCEPT ![c].pc = to, ![c].answer = answer]
      PROVE  Changed(c, to, answer, calls[c].admitted, calls[c].saw)
  <2>1. calls' = [calls EXCEPT ![c] = [calls[c] EXCEPT !.pc = to, !.answer = answer]]
    BY <1>1, <1>3
  <2>2. QED
    BY <1>1, <2>1 DEF Changed, CallShape
<1>4. ASSUME calls' = [calls EXCEPT ![c].pc = to, ![c].saw = saw]
      PROVE  Changed(c, to, calls[c].answer, calls[c].admitted, saw)
  <2>1. calls' = [calls EXCEPT ![c] = [calls[c] EXCEPT !.pc = to, !.saw = saw]]
    BY <1>1, <1>4
  <2>2. QED
    BY <1>1, <2>1 DEF Changed, CallShape
<1>5. ASSUME calls' = [calls EXCEPT ![c].pc = to, ![c].admitted = TRUE]
      PROVE  Changed(c, to, calls[c].answer, TRUE, calls[c].saw)
  <2>1. calls' = [calls EXCEPT ![c] = [calls[c] EXCEPT !.pc = to, !.admitted = TRUE]]
    BY <1>1, <1>5
  <2>2. QED
    BY <1>1, <2>1 DEF Changed, CallShape
<1>6. QED
  BY <1>2, <1>3, <1>4, <1>5

\* What the switches and the policy say of a call depends on what its client
\* sent and on what the gateway saw.
LEMMA SameCall ==
  ASSUME NEW a, NEW b, a.step = b.step, a.task = b.task, a.token = b.token, a.tool = b.tool,
         a.correlated = b.correlated, a.saw = b.saw
  PROVE  Passed(a) = Passed(b) /\ Admitted(a) = Admitted(b)
<1>1. DeriveApproval(a) = DeriveApproval(b) /\ DeriveCompensation(a) = DeriveCompensation(b)
  BY DEF DeriveApproval, DeriveCompensation
<1>2. Unwinds(a) = Unwinds(b)
  BY <1>1 DEF Unwinds
<1>3. Halted(a, a.saw) = Halted(b, b.saw) /\ ToolHalted(a, a.saw) = ToolHalted(b, b.saw)
  BY <1>2 DEF Halted, ToolHalted
<1>4. Shadowed(a) = Shadowed(b) /\ EnforceRiskClass(a) = EnforceRiskClass(b)
  BY DEF Shadowed, EnforceRiskClass
<1>5. CedarContext(a) = CedarContext(b)
  BY <1>1 DEF CedarContext
<1>6. QED
  BY <1>3, <1>4, <1>5 DEF Passed, Admitted

Entry(c) == [step |-> calls[c].step, tool |-> calls[c].tool, call |-> c]

\* What every handler of a call does.
Handles(c) ==
  /\ calls' = [d \in DOMAIN calls |-> calls'[d]]
  /\ \A d \in DOMAIN calls \ {c} : calls'[d] = calls[d]
  /\ CallShape(calls'[c])
  /\ calls'[c].step = calls[c].step /\ calls'[c].task = calls[c].task /\ calls'[c].token = calls[c].token
  /\ calls'[c].tool = calls[c].tool
  /\ calls[c].pc # "answered" /\ calls'[c].pc # "arrived"
  /\ calls'[c].pc # "answered" => Passed(calls'[c])
  /\ calls'[c].pc \in {"informing", "brokering", "forwarding"} => Admitted(calls'[c])
  /\ calls'[c].pc = "deciding" => ~calls'[c].admitted
  /\ \/ effects' = effects
     \/ /\ effects' = effects \cup {Entry(c)}
        /\ calls'[c].pc = "answered" /\ Write(calls[c].tool) /\ Admitted(calls'[c])
  /\ calls'[c].answer = "ok" /\ Write(calls[c].tool) => Entry(c) \in effects'
  /\ calls'[c].answer = "rate_limited" =>
       calls'[c].pc = "answered" /\ ~calls'[c].admitted /\ calls[c].tool \in DOMAIN ToolScope /\ quota[calls[c].tool] = 0
  /\ \/ quota' = quota /\ calls'[c].admitted = calls[c].admitted
     \/ /\ calls[c].tool \in DOMAIN ToolScope /\ quota[calls[c].tool] > 0
        /\ quota' = [quota EXCEPT ![calls[c].tool] = quota[calls[c].tool] - 1]
        /\ ~calls[c].admitted /\ calls'[c].admitted = TRUE
  /\ \/ faults' = faults /\ (effects' = effects \/ ~Retryable(calls'[c].answer))
     \/ faults < MaxFaults /\ faults' = faults + 1

\* What is known of a call that is not answered yet.
LEMMA OpenCall ==
  ASSUME RunInv, NEW c \in DOMAIN calls, calls[c].pc # "answered"
  PROVE  /\ CallShape(calls[c]) /\ ToolShape
         /\ calls[c].answer = "ok" /\ Write(calls[c].tool) => Entry(c) \in effects
         /\ calls[c].answer # "rate_limited"
         /\ calls[c].pc # "arrived" => Passed(calls[c]) /\ calls[c].tool \in DOMAIN ToolScope
         /\ calls[c].pc \in {"informing", "brokering", "forwarding"} => Admitted(calls[c])
         /\ calls[c].pc \in {"arrived", "deciding"} => ~calls[c].admitted
  BY DEF RunInv, ToolShape, SuccessesAreApplied, Entry, LimiterCounts, CallsAreAdmitted, Passed
\* An answer that carries nothing out.
LEMMA AnswerHandles ==
  ASSUME RunInv, NEW c \in DOMAIN calls, calls[c].pc # "answered", NEW outcome, outcome # "ok", outcome # "rate_limited",
         Answer(c, outcome), quota' = quota, effects' = effects,
         faults' = faults \/ (faults < MaxFaults /\ faults' = faults + 1)
  PROVE  Handles(c)
<1>1. ToolShape /\ "answered" \in CallPcs
  BY DEF RunInv, CallPcs
<1>2. calls' = [calls EXCEPT ![c].pc = "answered", ![c].answer = outcome]
  BY DEF Answer
<1>3. Changed(c, "answered", outcome, calls[c].admitted, calls[c].saw)
  BY <1>1, <1>2, CallChanges
<1>4. QED
  BY <1>3 DEF Handles, Changed

\* A call that goes on, with the same answer and admission as before.
LEMMA GoesOn ==
  ASSUME RunInv, NEW c \in DOMAIN calls, calls[c].pc # "answered", NEW to \in CallPcs, NEW saw,
         Changed(c, to, calls[c].answer, calls[c].admitted, saw), to # "arrived", to # "answered",
         Passed(calls'[c]), to \in {"informing", "brokering", "forwarding"} => Admitted(calls'[c]),
         to = "deciding" => ~calls[c].admitted,
         quota' = quota, effects' = effects,
         faults' = faults \/ (faults < MaxFaults /\ faults' = faults + 1)
  PROVE  Handles(c)
  BY OpenCall DEF Handles, Changed, Entry

\* The first part of a call, up to the policy (core.ts execute).
LEMMA ReceiveHandles ==
  ASSUME RunInv, NEW c \in DOMAIN calls, NEW jwks, Receive(c, jwks)
  PROVE  Handles(c)
<1> DEFINE view == View(Gateway)
<1>1. calls[c].pc = "arrived" /\ faults' = faults /\ quota' = quota /\ effects' = effects
  BY DEF Receive, NoFault
<1>2. CASE \E outcome \in {"unauthorized", "upstream_auth", "not_found"} : Answer(c, outcome)
  BY <1>1, <1>2, AnswerHandles
<1>3. CASE /\ ~Halted(calls[c], view) /\ calls[c].tool \in Governed
           /\ ~ToolHalted(calls[c], view) /\ ~Shadowed(calls[c])
           /\ calls' = [calls EXCEPT ![c].pc = "deciding", ![c].saw = view]
  <2>1. ToolShape /\ "deciding" \in CallPcs /\ ~calls[c].admitted
    BY <1>1, OpenCall DEF RunInv, CallPcs
  <2>2. PICK v : v = view
    OBVIOUS
  <2>3. Changed(c, "deciding", calls[c].answer, calls[c].admitted, v)
    BY <1>3, <2>1, <2>2, CallChanges
  <2>4. Passed(calls'[c])
    <3>1. PICK new : new = calls'[c]
      OBVIOUS
    <3>2. /\ new.step = calls[c].step /\ new.task = calls[c].task /\ new.token = calls[c].token
          /\ new.tool = calls[c].tool /\ new.correlated = calls[c].correlated /\ new.saw = v
      BY <2>3, <3>1 DEF Changed
    <3>3. DeriveCompensation(new) = DeriveCompensation(calls[c])
      BY <3>2 DEF DeriveCompensation
    <3>4. ~Halted(new, v) /\ ~ToolHalted(new, v) /\ ~Shadowed(new) /\ new.tool \in DOMAIN ToolScope
      BY <1>3, <2>2, <3>2, <3>3 DEF Halted, ToolHalted, Shadowed, Unwinds, Governed
    <3>5. QED
      BY <3>1, <3>2, <3>4 DEF Passed
  <2>5. QED
    BY <1>1, <2>1, <2>3, <2>4, GoesOn
<1>4. QED
  <2>1. \/ Answer(c, "unauthorized")
        \/ Answer(c, "upstream_auth")
        \/ Answer(c, "not_found")
        \/ /\ ~Halted(calls[c], view) /\ calls[c].tool \in Governed
           /\ ~ToolHalted(calls[c], view) /\ ~Shadowed(calls[c])
           /\ calls' = [calls EXCEPT ![c].pc = "deciding", ![c].saw = view]
    BY DEF Receive
  <2>2. QED
    BY <1>2, <1>3, <2>1

\* Policy, risk class and limiter (core.ts execute).
LEMMA DecideHandles ==
  ASSUME RunInv, NEW c \in DOMAIN calls, Decide(c)
  PROVE  Handles(c)
<1>1. calls[c].pc = "deciding" /\ faults' = faults /\ effects' = effects
  BY DEF Decide, NoFault
<1>2. /\ ToolShape /\ ~calls[c].admitted /\ Passed(calls[c]) /\ calls[c].tool \in DOMAIN ToolScope
      /\ (calls[c].answer = "ok" /\ Write(calls[c].tool) => Entry(c) \in effects)
      /\ calls[c].answer # "rate_limited" /\ "informing" \in CallPcs /\ "answered" \in CallPcs
  BY <1>1, OpenCall DEF CallPcs
<1>3. CASE Answer(c, "upstream_auth") /\ quota' = quota
  BY <1>1, <1>3, AnswerHandles
<1>4. CASE Answer(c, "rate_limited") /\ quota[calls[c].tool] = 0 /\ quota' = quota
  <2>1. calls' = [calls EXCEPT ![c].pc = "answered", ![c].answer = "rate_limited"]
    BY <1>4 DEF Answer
  <2>2. Changed(c, "answered", "rate_limited", calls[c].admitted, calls[c].saw)
    BY <1>2, <2>1, CallChanges
  <2>3. QED
    BY <1>1, <1>2, <1>4, <2>2 DEF Handles, Changed
<1>5. CASE /\ Authorize(calls[c].tool, CedarContext(calls[c])) = "allow" /\ EnforceRiskClass(calls[c])
           /\ quota[calls[c].tool] > 0
           /\ calls' = [calls EXCEPT ![c].pc = "informing", ![c].admitted = TRUE]
           /\ quota' = [quota EXCEPT ![calls[c].tool] = quota[calls[c].tool] - 1]
  <2>1. Changed(c, "informing", calls[c].answer, TRUE, calls[c].saw)
    BY <1>2, <1>5, CallChanges
  <2>2. Admitted(calls[c])
    BY <1>2, <1>5 DEF Admitted
  <2>3. Admitted(calls'[c]) /\ Passed(calls'[c])
    <3>1. PICK new : new = calls'[c]
      OBVIOUS
    <3>2. /\ new.step = calls[c].step /\ new.task = calls[c].task /\ new.token = calls[c].token
          /\ new.tool = calls[c].tool /\ new.correlated = calls[c].correlated /\ new.saw = calls[c].saw
      BY <2>1, <3>1 DEF Changed
    <3>3. QED
      BY <1>2, <2>2, <3>1, <3>2, SameCall
  <2>4. QED
    BY <1>1, <1>2, <1>5, <2>1, <2>3 DEF Handles, Changed, Entry
<1>6. QED
  BY <1>3, <1>4, <1>5 DEF Decide

\* A policy service that does not answer, or an evaluation that fails.
LEMMA DecideFailsHandles ==
  ASSUME RunInv, NEW c \in DOMAIN calls, DecideFails(c)
  PROVE  Handles(c)
  BY AnswerHandles DEF DecideFails, Fault
\* An admitted call moves on.
LEMMA GotoHandles ==
  ASSUME RunInv, NEW c \in DOMAIN calls, calls[c].pc \in {"informing", "brokering"},
         NEW to \in {"brokering", "forwarding"}, Goto(c, to), quota' = quota, effects' = effects,
         faults' = faults \/ (faults < MaxFaults /\ faults' = faults + 1)
  PROVE  Handles(c)
<1>1. ToolShape /\ Admitted(calls[c]) /\ Passed(calls[c]) /\ to \in CallPcs /\ calls[c].pc # "answered"
  BY OpenCall DEF CallPcs
<1>2. Changed(c, to, calls[c].answer, calls[c].admitted, calls[c].saw)
  BY <1>1, CallChanges DEF Goto
<1>3. Admitted(calls'[c]) /\ Passed(calls'[c])
  <2>1. PICK new : new = calls'[c]
    OBVIOUS
  <2>2. /\ new.step = calls[c].step /\ new.task = calls[c].task /\ new.token = calls[c].token
        /\ new.tool = calls[c].tool /\ new.correlated = calls[c].correlated /\ new.saw = calls[c].saw
    BY <1>2, <2>1 DEF Changed
  <2>3. QED
    BY <1>1, <2>1, <2>2, SameCall
<1>4. QED
  BY <1>1, <1>2, <1>3, GoesOn

\* The upstream's advertised schema.
LEMMA InformHandles ==
  ASSUME RunInv, NEW c \in DOMAIN calls, Inform(c)
  PROVE  Handles(c)
<1>1. calls[c].pc = "informing" /\ quota' = quota /\ effects' = effects
  BY DEF Inform
<1>2. CASE NoFault /\ Answer(c, "invalid_input")
  BY <1>1, <1>2, AnswerHandles DEF NoFault
<1>3. CASE (NoFault \/ Fault) /\ Goto(c, "brokering")
  BY <1>1, <1>3, GotoHandles DEF NoFault, Fault
<1>4. QED
  BY <1>2, <1>3 DEF Inform

\* The credential for the upstream (broker.ts headersFor).
LEMMA BrokerHandles ==
  ASSUME RunInv, NEW c \in DOMAIN calls, NEW view, NEW jwks, Broker(c, view, jwks)
  PROVE  Handles(c)
<1>1. calls[c].pc = "brokering" /\ quota' = quota /\ effects' = effects
  BY DEF Broker
<1>2. CASE (NoFault \/ Fault) /\ Answer(c, "upstream_auth")
  BY <1>1, <1>2, AnswerHandles DEF NoFault, Fault
<1>3. CASE NoFault /\ Goto(c, "forwarding")
  BY <1>1, <1>3, GotoHandles DEF NoFault
<1>4. QED
  BY <1>2, <1>3 DEF Broker

\* An answer whose write, if the tool writes, has been carried out.
LEMMA CarriedHandles ==
  ASSUME RunInv, NEW c \in DOMAIN calls, calls[c].pc = "forwarding", NEW outcome, outcome # "rate_limited",
         Answer(c, outcome), Carried(c), quota' = quota,
         \/ faults' = faults /\ ~Retryable(outcome)
         \/ faults < MaxFaults /\ faults' = faults + 1
  PROVE  Handles(c)
<1>1. ToolShape /\ Admitted(calls[c]) /\ "answered" \in CallPcs
  BY OpenCall DEF CallPcs
<1>2. Changed(c, "answered", outcome, calls[c].admitted, calls[c].saw)
  BY <1>1, CallChanges DEF Answer
<1>3. Admitted(calls'[c])
  <2>1. PICK new : new = calls'[c]
    OBVIOUS
  <2>2. /\ new.step = calls[c].step /\ new.task = calls[c].task /\ new.token = calls[c].token
        /\ new.tool = calls[c].tool /\ new.correlated = calls[c].correlated /\ new.saw = calls[c].saw
    BY <1>2, <2>1 DEF Changed
  <2>3. QED
    BY <1>1, <2>1, <2>2, SameCall
<1>4. IF Write(calls[c].tool) THEN effects' = effects \cup {Entry(c)} ELSE effects' = effects
  BY DEF Carried, Entry
<1>5. QED
  BY <1>2, <1>3, <1>4 DEF Handles, Changed

\* The upstream answers (core.ts execute).
LEMMA ForwardHandles ==
  ASSUME RunInv, NEW c \in DOMAIN calls, Forward(c)
  PROVE  Handles(c)
<1>1. calls[c].pc = "forwarding" /\ quota' = quota /\ faults' = faults
  BY DEF Forward, NoFault
<1>2. CASE Answer(c, "ok") /\ Carried(c)
  BY <1>1, <1>2, CarriedHandles DEF Retryable
<1>3. CASE Answer(c, "invalid_input") /\ effects' = effects
  BY <1>1, <1>3, AnswerHandles
<1>4. QED
  BY <1>2, <1>3 DEF Forward

\* Or it does not, and may have written.
LEMMA ForwardFailsHandles ==
  ASSUME RunInv, NEW c \in DOMAIN calls, ForwardFails(c)
  PROVE  Handles(c)
<1>1. calls[c].pc = "forwarding" /\ quota' = quota /\ faults < MaxFaults /\ faults' = faults + 1
  BY DEF ForwardFails, Fault
<1>2. PICK outcome \in {"unavailable", "malformed"} : Answer(c, outcome)
  BY DEF ForwardFails
<1>3. CASE Carried(c)
  BY <1>1, <1>2, <1>3, CarriedHandles
<1>4. CASE effects' = effects
  BY <1>1, <1>2, <1>4, AnswerHandles
<1>5. QED
  BY <1>3, <1>4 DEF ForwardFails

\* Every step of a call is a handler's.
LEMMA GateHandles ==
  ASSUME RunInv, NEW c \in DOMAIN calls, Gate(c)
  PROVE  Handles(c)
  BY ReceiveHandles, DecideHandles, DecideFailsHandles, InformHandles, BrokerHandles,
     ForwardHandles, ForwardFailsHandles DEF Gate

\* What a handler leaves alone, or keeps in shape.
LEMMA HandlesFrame ==
  ASSUME RunInv, NEW c \in DOMAIN calls, Handles(c), UNCHANGED stepVars, now' = now
  PROVE  /\ Loaded' /\ StepShape' /\ ToolShape' /\ TokensAreGrounded'
         /\ DOMAIN calls' = DOMAIN calls /\ Len(calls') = Len(calls)
<1>1. /\ load' = load /\ scope' = scope /\ pc' = pc /\ approved' = approved /\ token' = token
      /\ tries' = tries /\ runs' = runs /\ slot' = slot /\ result' = result
  BY DEF stepVars
<1>2. Loaded /\ StepShape /\ ToolShape
  BY DEF RunInv
<1>3. /\ calls' \in Seq({calls'[d] : d \in DOMAIN calls'})
      /\ Len(calls') = Len(calls) /\ DOMAIN calls' = DOMAIN calls
  BY <1>2, UpdateCalls DEF Handles
<1>4. Len(calls) \in Nat /\ DOMAIN calls = 1..Len(calls)
  BY <1>2, CallTypes
<1>5. Loaded' /\ StepShape'
  BY <1>1, <1>2, <1>3 DEF Loaded, StepShape
<1>6. ToolShape'
  <2>1. faults' \in Nat
    BY <1>2 DEF ToolShape, Handles
  <2>2. quota' \in [DOMAIN ToolScope -> 0..Burst]
    <3>1. Burst \in Nat
      BY ToolGatewayAssumption DEF Configured
    <3>2. QED
      BY <1>2, <3>1 DEF ToolShape, Handles
  <2>3. \A d \in DOMAIN calls' : CallShape(calls'[d])
    BY <1>2, <1>3 DEF ToolShape, Handles
  <2>4. IsFiniteSet(effects') /\ effects' \subseteq [step : Steps, tool : DOMAIN ToolScope, call : 1..Len(calls)]
    <3>1. CASE effects' = effects
      BY <1>2, <3>1 DEF ToolShape
    <3>2. CASE effects' = effects \cup {Entry(c)} /\ Admitted(calls'[c])
      <4>1. calls[c].step \in Steps /\ calls[c].tool \in DOMAIN ToolScope
        BY <1>2, <3>2, CallTypes DEF Handles, Admitted, Passed
      <4>2. Entry(c) \in [step : Steps, tool : DOMAIN ToolScope, call : 1..Len(calls)]
        BY <1>4, <4>1 DEF Entry
      <4>3. IsFiniteSet(effects \cup {Entry(c)})
        BY <1>2, FS_AddElement DEF ToolShape
      <4>4. QED
        BY <1>2, <3>2, <4>2, <4>3 DEF ToolShape
    <3>3. QED
      BY <3>1, <3>2 DEF Handles
  <2>5. QED
    BY <1>2, <1>3, <2>1, <2>2, <2>3, <2>4 DEF ToolShape, CallShape
<1>7. TokensAreGrounded'
  <2>1. \A r \in Steps : (MintedFor(r) => MintedFor(r)')
    BY <1>1 DEF MintedFor, Grounds, Snapshot
  <2>2. ASSUME NEW d \in DOMAIN calls
        PROVE  /\ pc'[calls'[d].step] \notin Unminted
               /\ MintedFor(calls[d].step)' /\ BearerOf(calls[d])'
    <3>1. /\ calls'[d].step = calls[d].step /\ calls'[d].task = calls[d].task
          /\ calls'[d].token = calls[d].token /\ calls'[d].tool = calls[d].tool
      BY DEF Handles
    <3>2. PICK r \in Steps : r = calls[d].step
      BY <1>2, CallTypes
    <3>3. pc[r] \notin Unminted /\ MintedFor(r) /\ BearerOf(calls[d])
      BY <3>2 DEF RunInv, TokensAreGrounded
    <3>4. BearerOf(calls[d])'
      BY <1>1, <3>1, <3>2, <3>3 DEF BearerOf, Grounds, OwnClient, Snapshot
    <3>5. MintedFor(r)'
      BY <2>1, <3>3
    <3>6. QED
      BY <1>1, <3>1, <3>2, <3>3, <3>4, <3>5
  <2>3. QED
    BY <1>1, <1>3, <2>1, <2>2 DEF RunInv, TokensAreGrounded
<1>8. QED
  BY <1>3, <1>5, <1>6, <1>7
\* A call that got past the policy did so for good.
LEMMA HandlesAdmitted ==
  ASSUME RunInv, NEW c \in DOMAIN calls, Handles(c), DOMAIN calls' = DOMAIN calls
  PROVE  CallsAreAdmitted'
<1>1. \A call : Passed(call)' = Passed(call) /\ Admitted(call)' = Admitted(call)
  BY DEF Passed, Admitted, CedarContext
<1>2. \A e \in effects : e.call \in DOMAIN calls
  BY CallTypes DEF RunInv, ToolShape
<1>3. \A d \in DOMAIN calls :
        /\ calls'[d].pc # "arrived" /\ calls'[d].pc # "answered" => Passed(calls'[d])
        /\ calls'[d].pc \in {"informing", "brokering", "forwarding"} => Admitted(calls'[d])
        /\ calls'[d].pc \in {"arrived", "deciding"} => ~calls'[d].admitted
  BY DEF RunInv, CallsAreAdmitted, Handles
<1>4. ASSUME NEW e \in effects'
      PROVE  /\ calls'[e.call].step = e.step /\ calls'[e.call].tool = e.tool
             /\ calls'[e.call].pc = "answered"
             /\ Write(e.tool) /\ Admitted(calls'[e.call])
  <2>1. CASE e \in effects
    <3>1. e.call \in DOMAIN calls /\ e.call # c
      BY <1>2, <2>1 DEF Handles, RunInv, CallsAreAdmitted
    <3>2. QED
      BY <2>1, <3>1 DEF Handles, RunInv, CallsAreAdmitted
  <2>2. CASE e \notin effects
    <3>1. e = Entry(c) /\ calls'[c].pc = "answered" /\ Write(calls[c].tool) /\ Admitted(calls'[c])
      BY <1>4, <2>2 DEF Handles
    <3>2. e.call = c /\ e.step = calls[c].step /\ e.tool = calls[c].tool
      BY <3>1 DEF Entry
    <3>3. QED
      BY <3>1, <3>2 DEF Handles
  <2>3. QED
    BY <2>1, <2>2
<1>5. QED
  BY <1>1, <1>3, <1>4 DEF CallsAreAdmitted

\* A success stays one, and is the call's own.
LEMMA HandlesApplied ==
  ASSUME RunInv, NEW c \in DOMAIN calls, Handles(c), UNCHANGED stepVars, DOMAIN calls' = DOMAIN calls
  PROVE  SuccessesAreApplied' /\ CompletedWasApplied'
<1>1. load' = load /\ pc' = pc /\ slot' = slot /\ result' = result /\ effects \subseteq effects'
  BY DEF stepVars, Handles
<1>2. \A d \in DOMAIN calls :
        calls'[d].answer = "ok" /\ Write(calls'[d].tool) =>
          [step |-> calls'[d].step, tool |-> calls'[d].tool, call |-> d] \in effects'
  <2>1. ASSUME NEW d \in DOMAIN calls, calls'[d].answer = "ok", Write(calls'[d].tool)
        PROVE  [step |-> calls'[d].step, tool |-> calls'[d].tool, call |-> d] \in effects'
    <3>1. CASE d = c
      BY <2>1, <3>1 DEF Handles, Entry
    <3>2. CASE d # c
      BY <1>1, <2>1, <3>2 DEF Handles, RunInv, SuccessesAreApplied
    <3>3. QED
      BY <3>1, <3>2
  <2>2. QED
    BY <2>1
<1>3. \A s \in Steps : pc[s] = "calling" => calls'[slot[s]].step = s
  BY OwnCall DEF Handles
<1>4. SuccessesAreApplied'
  BY <1>1, <1>2, <1>3 DEF SuccessesAreApplied
<1>5. CompletedWasApplied'
  BY <1>1 DEF RunInv, CompletedWasApplied
<1>6. QED
  BY <1>4, <1>5

\* The calls admitted to a tool are those the limiter has let in
\* (rate-limit.ts take).
LEMMA AdmittedSets ==
  ASSUME ToolShape, NEW t
  PROVE  IsFiniteSet(AdmittedTo(t)) /\ Cardinality(AdmittedTo(t)) \in Nat
<1>1. AdmittedTo(t) \in SUBSET DOMAIN calls /\ IsFiniteSet(DOMAIN calls)
  BY PaidSets DEF AdmittedTo
<1>2. QED
  BY <1>1, FS_Subset, FS_CardinalityType

LEMMA HandlesLimited ==
  ASSUME RunInv, NEW c \in DOMAIN calls, Handles(c), DOMAIN calls' = DOMAIN calls
  PROVE  LimiterCounts' /\ LimiterServesTheAllowed'
<1> DEFINE Others(d) == {e \in DOMAIN calls \ {d} : calls[e].tool = calls[d].tool /\ calls[e].admitted}
<1>1. ToolShape /\ Burst \in Nat
  BY ToolGatewayAssumption DEF RunInv, Configured
<1>2. PICK tool : tool = calls[c].tool
  OBVIOUS
<1>3. \A d \in DOMAIN calls : calls'[d].tool = calls[d].tool /\ (calls[d].admitted => calls'[d].admitted)
  BY DEF Handles
<1>4. \A t : t # tool => AdmittedTo(t)' = AdmittedTo(t)
  BY <1>2, <1>3 DEF AdmittedTo, Handles
<1>5. ASSUME NEW t \in DOMAIN ToolScope PROVE quota'[t] + Cardinality(AdmittedTo(t)') >= Burst
  <2>1. quota[t] \in Nat /\ quota[t] + Cardinality(AdmittedTo(t)) >= Burst
    BY <1>1 DEF RunInv, ToolShape, LimiterCounts
  <2>2. CASE quota' = quota /\ calls'[c].admitted = calls[c].admitted
    <3>1. AdmittedTo(t)' = AdmittedTo(t)
      BY <1>3, <2>2 DEF AdmittedTo, Handles
    <3>2. QED
      BY <2>1, <2>2, <3>1
  <2>3. CASE /\ quota[tool] > 0 /\ quota' = [quota EXCEPT ![tool] = quota[tool] - 1]
             /\ ~calls[c].admitted /\ calls'[c].admitted = TRUE
    <3>1. CASE t = tool
      <4>1. AdmittedTo(t)' = AdmittedTo(t) \cup {c} /\ c \notin AdmittedTo(t)
        BY <1>2, <1>3, <2>3, <3>1 DEF AdmittedTo, Handles
      <4>2. Cardinality(AdmittedTo(t)') = Cardinality(AdmittedTo(t)) + 1 /\ Cardinality(AdmittedTo(t)) \in Nat
        BY <1>1, <4>1, AdmittedSets, FS_AddElement
      <4>3. quota'[t] = quota[t] - 1
        BY <1>1, <2>3, <3>1 DEF ToolShape
      <4>4. QED
        BY <1>1, <2>1, <4>2, <4>3
    <3>2. CASE t # tool
      <4>1. AdmittedTo(t)' = AdmittedTo(t) /\ quota'[t] = quota[t]
        BY <1>1, <1>4, <2>3, <3>2 DEF ToolShape
      <4>2. QED
        BY <2>1, <4>1
    <3>3. QED
      BY <3>1, <3>2
  <2>4. QED
    BY <1>2, <2>2, <2>3 DEF Handles
<1>6. \A d \in DOMAIN calls : calls'[d].answer = "rate_limited" => ~calls'[d].admitted /\ calls'[d].pc = "answered"
  BY DEF RunInv, LimiterCounts, Handles
<1>7. LimiterCounts'
  BY <1>5, <1>6 DEF LimiterCounts
<1>8. ASSUME NEW d \in DOMAIN calls, calls'[d].answer = "rate_limited"
      PROVE  Cardinality({e \in DOMAIN calls' \ {d} : calls'[e].tool = calls'[d].tool /\ calls'[e].admitted}) >= Burst
  <2> DEFINE New == {e \in DOMAIN calls' \ {d} : calls'[e].tool = calls'[d].tool /\ calls'[e].admitted}
  <2>1. New \in SUBSET DOMAIN calls
    OBVIOUS
  <2>2. IsFiniteSet(New) /\ Cardinality(New) \in Nat
    BY <1>1, <2>1, PaidSets, FS_Subset, FS_CardinalityType
  <2>3. ~calls'[d].admitted
    BY <1>6, <1>8
  <2>5. PICK old : /\ old \in SUBSET New /\ Cardinality(old) >= Burst
    <3>1. CASE d = c
      <4>1. tool \in DOMAIN ToolScope /\ quota[tool] = 0
        BY <1>2, <1>8, <3>1 DEF Handles
      <4>2. 0 + Cardinality(AdmittedTo(tool)) >= Burst
        BY <4>1 DEF RunInv, LimiterCounts
      <4>3. Cardinality(AdmittedTo(tool)) >= Burst
        BY <1>1, <4>2, AdmittedSets
      <4>4. AdmittedTo(tool) \in SUBSET New
        BY <1>2, <1>3, <2>3, <3>1 DEF AdmittedTo
      <4>5. QED
        BY <4>3, <4>4
    <3>2. CASE d # c
      <4>1. calls[d].answer = "rate_limited"
        BY <1>8, <3>2 DEF Handles
      <4>2. Cardinality(Others(d)) >= Burst
        BY <4>1 DEF RunInv, LimiterServesTheAllowed
      <4>3. Others(d) \in SUBSET New
        BY <1>3
      <4>4. QED
        BY <4>2, <4>3
    <3>3. QED
      BY <3>1, <3>2
  <2> HIDE DEF New
  <2>6. IsFiniteSet(old) /\ Cardinality(old) <= Cardinality(New)
    BY <2>2, <2>5, FS_Subset
  <2>7. Cardinality(old) \in Nat
    BY <2>6, FS_CardinalityType
  <2>8. QED
    BY <1>1, <2>2, <2>5, <2>6, <2>7 DEF New
<1>9. LimiterServesTheAllowed'
  BY <1>8 DEF LimiterServesTheAllowed
<1>10. QED
  BY <1>7, <1>9
\* The calls under way pay for the writes: a handler writes only as it answers.
LEMMA HandlesPaid ==
  ASSUME RunInv, NEW c \in DOMAIN calls, Handles(c), UNCHANGED stepVars, DOMAIN calls' = DOMAIN calls
  PROVE  WritesArePaid'
<1>1. /\ load' = load /\ scope' = scope /\ pc' = pc /\ slot' = slot
      /\ StepShape /\ ToolShape /\ Loaded
  BY DEF stepVars, RunInv
<1>2. PICK s \in Steps : s = calls[c].step
  BY <1>1, CallTypes
<1>3. ASSUME NEW r \in Steps \ {s}
      PROVE  WritesOf(r)' = WritesOf(r) /\ InFlight(r)' = InFlight(r) /\ (MayCall(r)' => MayCall(r))
  <2>1. WritesOf(r)' = WritesOf(r)
    BY <1>2 DEF Handles, WritesOf, Entry
  <2>2. InFlight(r)' = InFlight(r)
    BY <1>2 DEF Handles, InFlight
  <2>3. pc[r] = "calling" => slot[r] \in DOMAIN calls /\ slot[r] # c
    BY <1>2, OwnCall
  <2>4. MayCall(r)' => MayCall(r)
    BY <1>1, <2>3 DEF MayCall, Handles
  <2>5. QED
    BY <2>1, <2>2, <2>4
<1>4. MayCall(s)' => MayCall(s) \/ (calls'[c].pc = "answered" /\ Retryable(calls'[c].answer))
  <2>1. pc[s] = "calling" => slot[s] \in DOMAIN calls
    BY OwnCall
  <2>2. QED
    BY <1>1, <2>1 DEF MayCall, Handles
<1>5. c \in InFlight(s) /\ IsFiniteSet(InFlight(s)) /\ IsFiniteSet(WritesOf(s))
  BY <1>1, <1>2, PaidSets DEF Handles, InFlight
<1>6. PICK w \in Nat, f \in Nat : w = Cardinality(WritesOf(s)) /\ f = Cardinality(InFlight(s))
  BY <1>1, PaidSets
<1>7. w + f + (IF MayCall(s) THEN 1 ELSE 0) <= 1 + Spent
  BY <1>6 DEF RunInv, WritesArePaid
<1>8. f >= 1
  <2>1. InFlight(s) # {}
    BY <1>5
  <2>2. QED
    BY <1>5, <1>6, <2>1, FS_EmptySet
<1>9. Spent \in Nat /\ (faults' = faults => Spent' = Spent) /\ (faults' = faults + 1 => Spent' = Spent + 1)
  <2>1. faults \in Nat /\ MaxFaults \in Nat /\ scope.faults \in Nat
    BY <1>1, ToolGatewayAssumption DEF ToolShape, Loaded
  <2>2. QED
    BY <1>1, <2>1, SpentType DEF Spent
<1>10. Cardinality(InFlight(s)') = IF calls'[c].pc = "answered" THEN f - 1 ELSE f
  <2>1. CASE calls'[c].pc = "answered"
    <3>1. InFlight(s)' = InFlight(s) \ {c}
      BY <2>1 DEF Handles, InFlight
    <3>2. Cardinality(InFlight(s) \ {c}) = f - 1
      BY <1>5, <1>6, FS_RemoveElement
    <3>3. QED
      BY <2>1, <3>1, <3>2
  <2>2. CASE calls'[c].pc # "answered"
    <3>1. InFlight(s)' = InFlight(s)
      BY <1>2, <2>2 DEF Handles, InFlight
    <3>2. QED
      BY <1>6, <2>2, <3>1
  <2>3. QED
    BY <2>1, <2>2
<1>11. PICK v \in Nat : /\ v = Cardinality(WritesOf(s)') /\ v <= w + 1
                        /\ effects' = effects => v = w
                        /\ effects' # effects => calls'[c].pc = "answered"
  <2>1. CASE effects' = effects
    <3>1. WritesOf(s)' = WritesOf(s)
      BY <2>1 DEF WritesOf
    <3>2. QED
      BY <1>6, <2>1, <3>1
  <2>2. CASE effects' # effects
    <3>1. WritesOf(s)' = WritesOf(s) \cup {Entry(c)} /\ calls'[c].pc = "answered"
      BY <1>2, <2>2 DEF WritesOf, Handles, Entry
    <3>2. Cardinality(WritesOf(s) \cup {Entry(c)}) \in {w, w + 1}
      BY <1>5, <1>6, FS_AddElement
    <3>3. QED
      BY <1>6, <2>2, <3>1, <3>2
  <2>3. QED
    BY <2>1, <2>2
<1>12. v + Cardinality(InFlight(s)') + (IF MayCall(s)' THEN 1 ELSE 0) <= 1 + Spent'
  <2>1. CASE calls'[c].pc # "answered"
    <3>1. v = w /\ Cardinality(InFlight(s)') = f /\ (MayCall(s)' => MayCall(s))
      BY <1>4, <1>10, <1>11, <2>1
    <3>2. Spent' = Spent \/ Spent' = Spent + 1
      BY <1>9 DEF Handles
    <3>3. QED
      BY <1>7, <1>9, <3>1, <3>2
  <2>2. CASE calls'[c].pc = "answered"
    <3>1. Cardinality(InFlight(s)') = f - 1
      BY <1>10, <2>2
    <3>2. \/ Spent' = Spent /\ v = w
          \/ Spent' = Spent /\ (MayCall(s)' => MayCall(s))
          \/ Spent' = Spent + 1
      BY <1>4, <1>9, <1>11 DEF Handles
    <3>3. QED
      BY <1>7, <1>8, <1>9, <1>11, <3>1, <3>2
  <2>3. QED
    BY <2>1, <2>2
<1>13. MaxFaults - scope'.faults <= faults'
  <2>1. faults \in Nat /\ MaxFaults \in Nat /\ scope.faults \in Nat
    BY <1>1, ToolGatewayAssumption DEF ToolShape, Loaded
  <2>2. QED
    BY <1>1, <2>1 DEF RunInv, WritesArePaid, Handles
<1>14. ASSUME NEW r \in Steps \ {s}
       PROVE  Cardinality(WritesOf(r)') + Cardinality(InFlight(r)') + (IF MayCall(r)' THEN 1 ELSE 0) <= 1 + Spent'
  <2>1. PICK x \in Nat, y \in Nat : x = Cardinality(WritesOf(r)) /\ y = Cardinality(InFlight(r))
    BY <1>1, PaidSets
  <2>2. x + y + (IF MayCall(r) THEN 1 ELSE 0) <= 1 + Spent
    BY <2>1 DEF RunInv, WritesArePaid
  <2>3. Cardinality(WritesOf(r)') = x /\ Cardinality(InFlight(r)') = y /\ (MayCall(r)' => MayCall(r))
    BY <1>3, <2>1
  <2>4. Spent' = Spent \/ Spent' = Spent + 1
    BY <1>9 DEF Handles
  <2>5. QED
    BY <1>9, <2>2, <2>3, <2>4
<1>15. QED
  BY <1>11, <1>12, <1>13, <1>14 DEF WritesArePaid
-----------------------------------------------------------------------------
(* A restart of the gateway.                                               *)

\* The writes of calls are no more than the calls.
LEMMA EntriesBound ==
  ASSUME ToolShape, NEW D \in SUBSET DOMAIN calls
  PROVE  LET E == {Entry(c) : c \in D}
         IN /\ IsFiniteSet(E) /\ IsFiniteSet(D)
            /\ Cardinality(E) \in Nat /\ Cardinality(D) \in Nat /\ Cardinality(E) <= Cardinality(D)
<1> DEFINE E == {Entry(c) : c \in D}
<1> DEFINE f == [c \in D |-> Entry(c)]
<1>1. IsFiniteSet(D)
  BY PaidSets, FS_Subset
<1>2. f \in Surjection(D, E)
  BY DEF Surjection
<1> HIDE DEF f, E
<1>3. IsFiniteSet(E) /\ Cardinality(E) <= Cardinality(D)
  BY <1>1, <1>2, FS_Surjection
<1>4. QED
  BY <1>1, <1>3, FS_CardinalityType DEF E

\* What a restart does to the calls: every one is answered, and those being
\* forwarded may have been carried out.
LEMMA CrashCalls ==
  ASSUME RunInv, Crash
  PROVE  /\ DOMAIN calls' = DOMAIN calls /\ Len(calls') = Len(calls)
         /\ calls' \in Seq({calls'[c] : c \in DOMAIN calls'})
         /\ \A c \in DOMAIN calls :
              /\ CallShape(calls'[c])
              /\ calls'[c].step = calls[c].step /\ calls'[c].task = calls[c].task
              /\ calls'[c].token = calls[c].token /\ calls'[c].tool = calls[c].tool
              /\ calls'[c].correlated = calls[c].correlated /\ calls'[c].saw = calls[c].saw
              /\ calls'[c].admitted = calls[c].admitted /\ calls'[c].pc = "answered"
              /\ calls'[c].answer = "lost" \/ (calls[c].pc = "answered" /\ calls'[c] = calls[c])
         /\ \E done \in SUBSET Forwarded : effects' = effects \cup {Entry(c) : c \in done}
<1>1. ToolShape /\ calls' = [c \in DOMAIN calls |->
                               IF calls[c].pc = "answered" THEN calls[c]
                               ELSE [calls[c] EXCEPT !.pc = "answered", !.answer = "lost"]]
  BY DEF RunInv, Crash
<1>2. /\ DOMAIN calls' = DOMAIN calls /\ Len(calls') = Len(calls)
      /\ calls' \in Seq({calls'[c] : c \in DOMAIN calls'})
  BY <1>1, UpdateCalls
<1>3. ASSUME NEW c \in DOMAIN calls
      PROVE  /\ CallShape(calls'[c])
             /\ calls'[c].step = calls[c].step /\ calls'[c].task = calls[c].task
             /\ calls'[c].token = calls[c].token /\ calls'[c].tool = calls[c].tool
             /\ calls'[c].correlated = calls[c].correlated /\ calls'[c].saw = calls[c].saw
             /\ calls'[c].admitted = calls[c].admitted /\ calls'[c].pc = "answered"
             /\ calls'[c].answer = "lost" \/ (calls[c].pc = "answered" /\ calls'[c] = calls[c])
  <2>1. CallShape(calls[c])
    BY <1>1 DEF ToolShape
  <2>2. CASE calls[c].pc = "answered"
    BY <1>1, <2>1, <2>2
  <2>3. CASE calls[c].pc # "answered"
    <3>1. calls'[c] = [calls[c] EXCEPT !.pc = "answered", !.answer = "lost"]
      BY <1>1, <2>3
    <3>2. QED
      BY <2>1, <3>1 DEF CallShape, CallPcs
  <2>4. QED
    BY <2>2, <2>3
<1>4. \E done \in SUBSET Forwarded : effects' = effects \cup {Entry(c) : c \in done}
  BY DEF Crash, Entry
<1>5. QED
  BY <1>2, <1>3, <1>4

LEMMA CrashKeeps ==
  ASSUME RunInv, Crash, UNCHANGED stepVars, now' = now
  PROVE  /\ Loaded' /\ SwitchShape' /\ StepShape' /\ ToolShape' /\ TokensAreGrounded'
         /\ CallsAreAdmitted' /\ SuccessesAreApplied' /\ CompletedWasApplied'
         /\ LimiterCounts' /\ LimiterServesTheAllowed' /\ WritesArePaid'
<1>1. /\ load' = load /\ scope' = scope /\ pc' = pc /\ approved' = approved /\ token' = token
      /\ tries' = tries /\ runs' = runs /\ slot' = slot /\ result' = result
      /\ Loaded /\ StepShape /\ ToolShape /\ SwitchShape
  BY DEF stepVars, RunInv
<1>2. PICK done \in SUBSET Forwarded : effects' = effects \cup {Entry(c) : c \in done}
  BY CrashCalls
<1>3. /\ done \in SUBSET DOMAIN calls /\ \A c \in done : calls[c].pc = "forwarding" /\ Write(calls[c].tool)
  BY <1>2 DEF Forwarded
<1>4. Len(calls) \in Nat /\ DOMAIN calls = 1..Len(calls) /\ \A c \in DOMAIN calls : calls[c].step \in Steps
  BY <1>1, CallTypes
<1>5. SwitchShape'
  <2>1. 1 \in 1..Len(bucket) /\ Gateway \in Watchers
    BY <1>1, ToolGatewayAssumption DEF SwitchShape
  <2>2. QED
    BY <1>1, <2>1 DEF SwitchShape, Crash, Forget
<1>6. Loaded' /\ StepShape'
  BY <1>1, CrashCalls DEF Loaded, StepShape
<1>7. /\ faults < MaxFaults /\ faults' = faults + 1 /\ quota' = [t \in DOMAIN ToolScope |-> Burst] /\ Burst \in Nat
      /\ faults \in Nat
  BY <1>1, ToolGatewayAssumption DEF Crash, Fault, Configured, ToolShape
<1>8. \A c \in done : Admitted(calls[c]) /\ Admitted(calls'[c]) /\ calls[c].tool \in DOMAIN ToolScope
  <2> SUFFICES ASSUME NEW c \in done
               PROVE  Admitted(calls[c]) /\ Admitted(calls'[c]) /\ calls[c].tool \in DOMAIN ToolScope
    OBVIOUS
  <2>1. Admitted(calls[c])
    BY <1>3, OpenCall
  <2>2. PICK new : new = calls'[c]
    OBVIOUS
  <2>3. /\ new.step = calls[c].step /\ new.task = calls[c].task /\ new.token = calls[c].token
        /\ new.tool = calls[c].tool /\ new.correlated = calls[c].correlated /\ new.saw = calls[c].saw
    BY <1>3, <2>2, CrashCalls
  <2>4. QED
    BY <2>1, <2>2, <2>3, SameCall DEF Admitted, Passed
<1>9. ToolShape'
  <2>1. IsFiniteSet({Entry(c) : c \in done})
    BY <1>1, <1>3, EntriesBound
  <2>2. IsFiniteSet(effects')
    BY <1>1, <1>2, <2>1, FS_Union DEF ToolShape
  <2>3. \A c \in done : Entry(c) \in [step : Steps, tool : DOMAIN ToolScope, call : 1..Len(calls)]
    BY <1>3, <1>4, <1>8 DEF Entry
  <2>4. effects' \subseteq [step : Steps, tool : DOMAIN ToolScope, call : 1..Len(calls')]
    BY <1>1, <1>2, <2>3, CrashCalls DEF ToolShape
  <2>5. QED
    BY <1>1, <1>7, <2>2, <2>4, CrashCalls DEF ToolShape, CallShape
<1>10. TokensAreGrounded'
  <2>1. \A r \in Steps : (MintedFor(r) => MintedFor(r)')
    BY <1>1 DEF MintedFor, Grounds, Snapshot
  <2>2. ASSUME NEW d \in DOMAIN calls
        PROVE  /\ pc'[calls'[d].step] \notin Unminted
               /\ MintedFor(calls[d].step)' /\ BearerOf(calls[d])'
    <3>1. /\ calls'[d].step = calls[d].step /\ calls'[d].task = calls[d].task
          /\ calls'[d].token = calls[d].token /\ calls'[d].tool = calls[d].tool
      BY CrashCalls
    <3>2. PICK r \in Steps : r = calls[d].step
      BY <1>4
    <3>3. pc[r] \notin Unminted /\ MintedFor(r) /\ BearerOf(calls[d])
      BY <3>2 DEF RunInv, TokensAreGrounded
    <3>4. BearerOf(calls[d])'
      BY <1>1, <3>1, <3>2, <3>3 DEF BearerOf, Grounds, OwnClient, Snapshot
    <3>5. MintedFor(r)'
      BY <2>1, <3>3
    <3>6. QED
      BY <1>1, <3>1, <3>2, <3>3, <3>4, <3>5
  <2>3. QED
    BY <1>1, <2>1, <2>2, CrashCalls DEF RunInv, TokensAreGrounded
<1>11. CallsAreAdmitted'
  <2>1. \A call : Passed(call)' = Passed(call) /\ Admitted(call)' = Admitted(call)
    BY DEF Passed, Admitted, CedarContext
  <2>2. ASSUME NEW e \in effects'
        PROVE  /\ calls'[e.call].step = e.step /\ calls'[e.call].tool = e.tool
               /\ calls'[e.call].pc = "answered"
               /\ Write(e.tool) /\ Admitted(calls'[e.call])
    <3>1. CASE e \in effects
      <4>1. e.call \in DOMAIN calls /\ calls[e.call].pc = "answered"
        BY <1>1, <1>4, <3>1 DEF ToolShape, RunInv, CallsAreAdmitted
      <4>2. PICK c \in DOMAIN calls : c = e.call
        BY <4>1
      <4>3. calls[c].step = e.step /\ calls[c].tool = e.tool /\ Write(e.tool) /\ Admitted(calls[c])
        BY <3>1, <4>2 DEF RunInv, CallsAreAdmitted
      <4>4. PICK new : new = calls'[c]
        OBVIOUS
      <4>5. /\ new.step = calls[c].step /\ new.task = calls[c].task /\ new.token = calls[c].token
            /\ new.tool = calls[c].tool /\ new.correlated = calls[c].correlated /\ new.saw = calls[c].saw
            /\ new.pc = "answered"
        BY <4>4, CrashCalls
      <4>6. QED
        BY <4>2, <4>3, <4>4, <4>5, SameCall
    <3>2. CASE \E c \in done : e = Entry(c)
      <4>1. PICK c \in done : e = Entry(c)
        BY <3>2
      <4>2. e.step = calls[c].step /\ e.tool = calls[c].tool /\ e.call = c
        BY <4>1 DEF Entry
      <4>3. QED
        BY <1>3, <1>8, <4>2, CrashCalls
    <3>3. QED
      BY <1>2, <2>2, <3>1, <3>2
  <2>3. QED
    BY <2>1, <2>2, CrashCalls DEF CallsAreAdmitted
<1>12. SuccessesAreApplied' /\ CompletedWasApplied'
  <2>1. \A c \in DOMAIN calls : calls'[c].answer = "ok" => calls'[c] = calls[c]
    BY CrashCalls
  <2>2. \A s \in Steps : pc[s] = "calling" => calls'[slot[s]].step = s
    BY OwnCall, CrashCalls
  <2>3. effects \subseteq effects'
    BY <1>2
  <2>4. SuccessesAreApplied'
    BY <1>1, <2>1, <2>2, <2>3, CrashCalls DEF RunInv, SuccessesAreApplied
  <2>5. CompletedWasApplied'
    BY <1>1, <2>3 DEF RunInv, CompletedWasApplied
  <2>6. QED
    BY <2>4, <2>5
<1>13. LimiterCounts' /\ LimiterServesTheAllowed'
  <2>1. \A t : AdmittedTo(t)' = AdmittedTo(t)
    BY CrashCalls DEF AdmittedTo
  <2>2. \A t : Cardinality(AdmittedTo(t)) \in Nat
    BY <1>1, AdmittedSets
  <2>3. \A c \in DOMAIN calls : calls'[c].answer = "rate_limited" => calls'[c] = calls[c]
    BY CrashCalls
  <2>4. LimiterCounts'
    BY <1>7, <2>1, <2>2, <2>3, CrashCalls DEF RunInv, LimiterCounts
  <2>5. \A c \in DOMAIN calls :
          {d \in DOMAIN calls' \ {c} : calls'[d].tool = calls'[c].tool /\ calls'[d].admitted}
            = {d \in DOMAIN calls \ {c} : calls[d].tool = calls[c].tool /\ calls[d].admitted}
    BY CrashCalls
  <2>6. LimiterServesTheAllowed'
    BY <2>3, <2>5, CrashCalls DEF RunInv, LimiterServesTheAllowed
  <2>7. QED
    BY <2>4, <2>6
<1>14. WritesArePaid'
  <2>1. /\ scope.faults \in Nat /\ MaxFaults \in Nat /\ Spent \in Nat /\ Spent' = Spent + 1
    BY <1>1, <1>7, ToolGatewayAssumption, SpentType DEF Loaded, Spent
  <2>2. ASSUME NEW s \in Steps
        PROVE  Cardinality(WritesOf(s)') + Cardinality(InFlight(s)') + (IF MayCall(s)' THEN 1 ELSE 0) <= 1 + Spent'
    <3>1. PICK w \in Nat, f \in Nat : w = Cardinality(WritesOf(s)) /\ f = Cardinality(InFlight(s))
      BY <1>1, PaidSets
    <3>2. w + f <= 1 + Spent
      BY <2>1, <3>1 DEF RunInv, WritesArePaid
    <3>3. PICK D : D = {c \in done : calls[c].step = s}
      OBVIOUS
    <3>4. PICK E : E = {Entry(c) : c \in D}
      OBVIOUS
    <3>5. WritesOf(s)' = WritesOf(s) \cup E
      BY <1>2, <3>3, <3>4 DEF WritesOf, Entry
    <3>6. D \in SUBSET InFlight(s) /\ D \in SUBSET DOMAIN calls
      BY <1>3, <3>3 DEF InFlight
    <3>7. IsFiniteSet(E) /\ Cardinality(E) \in Nat /\ Cardinality(D) \in Nat /\ Cardinality(E) <= Cardinality(D)
      BY <1>1, <3>4, <3>6, EntriesBound
    <3>8. Cardinality(D) <= f /\ IsFiniteSet(WritesOf(s))
      BY <1>1, <3>1, <3>6, PaidSets, FS_Subset
    <3>9. Cardinality(WritesOf(s) \cup E) = w + Cardinality(E) - Cardinality(WritesOf(s) \cap E)
      BY <3>1, <3>7, <3>8, FS_Union
    <3>10. Cardinality(WritesOf(s) \cap E) \in Nat
      BY <3>8, FS_Intersection, FS_CardinalityType
    <3>11. InFlight(s)' = {}
      BY CrashCalls DEF InFlight
    <3>12. Cardinality(InFlight(s)') = 0
      BY <3>11, FS_EmptySet
    <3>13. Cardinality(WritesOf(s)') <= w + f
      BY <3>5, <3>7, <3>8, <3>9, <3>10
    <3>14. Cardinality(WritesOf(s)') \in Int
      BY <3>5, <3>7, <3>9, <3>10
    <3>15. QED
      BY <2>1, <3>2, <3>12, <3>13, <3>14
  <2>3. QED
    BY <1>1, <1>7, <2>1, <2>2 DEF RunInv, WritesArePaid
<1>15. QED
  BY <1>5, <1>6, <1>9, <1>10, <1>11, <1>12, <1>13, <1>14
-----------------------------------------------------------------------------
(* The steps of the environment that leave the calls alone.                *)

\* A put, a delivery, a change of the card and the steps of a completion say
\* nothing about tool calls.
LEMMA QuietKeeps ==
  ASSUME RunInv, UNCHANGED <<toolVars, stepVars, now, faults>>
  PROVE  /\ Loaded' /\ StepShape' /\ ToolShape' /\ TokensAreGrounded'
         /\ CallsAreAdmitted' /\ SuccessesAreApplied' /\ CompletedWasApplied'
         /\ LimiterCounts' /\ LimiterServesTheAllowed' /\ WritesArePaid'
<1>1. /\ load' = load /\ scope' = scope /\ pc' = pc /\ approved' = approved /\ token' = token
      /\ tries' = tries /\ runs' = runs /\ slot' = slot /\ result' = result
      /\ calls' = calls /\ quota' = quota /\ effects' = effects /\ now' = now /\ faults' = faults
  BY DEF stepVars, toolVars
<1>2. Loaded' /\ StepShape' /\ ToolShape'
  BY <1>1 DEF RunInv, Loaded, StepShape, ToolShape, CallShape
<1>3. TokensAreGrounded'
  BY <1>1 DEF RunInv, TokensAreGrounded, MintedFor, BearerOf, Grounds, OwnClient, Snapshot
<1>4. CallsAreAdmitted'
  BY <1>1 DEF RunInv, CallsAreAdmitted, Passed, Admitted, CedarContext
<1>5. SuccessesAreApplied' /\ CompletedWasApplied'
  BY <1>1 DEF RunInv, SuccessesAreApplied, CompletedWasApplied
<1>6. LimiterCounts' /\ LimiterServesTheAllowed'
  BY <1>1 DEF RunInv, LimiterCounts, AdmittedTo, LimiterServesTheAllowed
<1>7. WritesArePaid'
  BY <1>1 DEF RunInv, WritesArePaid, WritesOf, InFlight, MayCall, Spent
<1>8. QED
  BY <1>2, <1>3, <1>4, <1>5, <1>6, <1>7

\* The limiters refill and nothing else of the tool calls changes.
LEMMA TickKeeps ==
  ASSUME RunInv, Tick
  PROVE  /\ Loaded' /\ StepShape' /\ ToolShape' /\ TokensAreGrounded'
         /\ CallsAreAdmitted' /\ SuccessesAreApplied' /\ CompletedWasApplied'
         /\ LimiterCounts' /\ LimiterServesTheAllowed' /\ WritesArePaid'
<1>1. /\ load' = load /\ scope' = scope /\ pc' = pc /\ approved' = approved /\ token' = token
      /\ tries' = tries /\ runs' = runs /\ slot' = slot /\ result' = result
      /\ calls' = calls /\ effects' = effects /\ faults' = faults
      /\ now' = now + 1 /\ quota' = Refilled
  BY DEF Tick, stepVars
<1>2. Burst \in Nat /\ Refill \in Nat
  BY ToolGatewayAssumption DEF Configured
<1>3. ASSUME NEW t \in DOMAIN ToolScope
      PROVE  quota'[t] \in 0..Burst /\ quota'[t] >= quota[t]
  <2>1. quota[t] \in 0..Burst
    BY DEF RunInv, ToolShape
  <2>2. quota'[t] = IF quota[t] + Refill < Burst THEN quota[t] + Refill ELSE Burst
    BY <1>1 DEF Refilled
  <2>3. QED
    BY <1>2, <2>1, <2>2
<1>4. Loaded' /\ StepShape'
  BY <1>1 DEF RunInv, Loaded, StepShape
<1>5. ToolShape'
  <2>1. quota' \in [DOMAIN ToolScope -> 0..Burst]
    BY <1>1, <1>3 DEF Refilled
  <2>2. QED
    BY <1>1, <2>1 DEF RunInv, ToolShape, CallShape
<1>6. TokensAreGrounded'
  BY <1>1 DEF RunInv, TokensAreGrounded, MintedFor, BearerOf, Grounds, OwnClient, Snapshot
<1>7. CallsAreAdmitted'
  BY <1>1 DEF RunInv, CallsAreAdmitted, Passed, Admitted, CedarContext
<1>8. SuccessesAreApplied' /\ CompletedWasApplied' /\ LimiterServesTheAllowed'
  BY <1>1 DEF RunInv, SuccessesAreApplied, CompletedWasApplied, LimiterServesTheAllowed
<1>9. LimiterCounts'
  <2>1. ASSUME NEW t \in DOMAIN ToolScope
        PROVE  quota'[t] + Cardinality(AdmittedTo(t)') >= Burst
    <3>1. AdmittedTo(t)' = AdmittedTo(t)
      BY <1>1 DEF AdmittedTo
    <3>2. Cardinality(AdmittedTo(t)) \in Nat
      BY AdmittedSets DEF RunInv
    <3>3. quota[t] + Cardinality(AdmittedTo(t)) >= Burst /\ quota[t] \in Nat
      BY DEF RunInv, LimiterCounts, ToolShape
    <3>4. QED
      BY <1>2, <1>3, <3>1, <3>2, <3>3
  <2>2. QED
    BY <1>1, <2>1 DEF RunInv, LimiterCounts
<1>10. WritesArePaid'
  BY <1>1 DEF RunInv, WritesArePaid, WritesOf, InFlight, MayCall, Spent
<1>11. QED
  BY <1>4, <1>5, <1>6, <1>7, <1>8, <1>9, <1>10

\* The bucket only ever holds flags that operators put, and is read in order.
LEMMA SwitchKeeps ==
  ASSUME RunInv, scope' = scope,
         Flip(scope.flags) \/ (\E w \in Watchers : Deliver(w)) \/ UNCHANGED switchVars
  PROVE  SwitchShape'
<1>1. SwitchShape /\ Gateway \in Watchers
  BY ToolGatewayAssumption DEF RunInv
<1>2. Len(bucket) \in Nat /\ 1 <= Len(bucket) /\ DOMAIN bucket = 1..Len(bucket)
  BY <1>1 DEF SwitchShape
<1>3. CASE Flip(scope.flags)
  <2>1. PICK flag \in scope.flags, active \in BOOLEAN : PutFlag(flag, active)
    BY <1>3 DEF Flip
  <2>2. PICK flags : flags = IF active THEN Active \cup {flag} ELSE Active \ {flag}
    OBVIOUS
  <2>3. Active \in SUBSET scope.flags
    BY <1>1, <1>2 DEF SwitchShape, Active
  <2>4. flags \in SUBSET scope.flags
    BY <2>2, <2>3
  <2>5. bucket' = Append(bucket, flags) /\ heard' = heard
    BY <2>1, <2>2 DEF PutFlag
  <2>6. bucket' \in Seq(SUBSET scope.flags) /\ Len(bucket') = Len(bucket) + 1
    BY <1>1, <2>4, <2>5, AppendProperties DEF SwitchShape
  <2>7. QED
    BY <1>1, <1>2, <2>5, <2>6 DEF SwitchShape
<1>4. CASE \E w \in Watchers : Deliver(w)
  BY <1>1, <1>2, <1>4 DEF SwitchShape, Deliver
<1>5. CASE UNCHANGED switchVars
  BY <1>1, <1>5 DEF SwitchShape, switchVars
<1>6. QED
  BY <1>3, <1>4, <1>5
-----------------------------------------------------------------------------
(* Completions.                                                            *)

\* What every step of a completion leaves behind: a well-formed completion
\* that has tried the bindings before its own and names a rate limit only
\* where it met nothing else; the completions of others are not touched.
Completes(c) ==
  /\ llm' = [d \in Callers |-> llm'[d]]
  /\ \A d \in Callers \ {c} : llm'[d] = llm[d]
  /\ CompletionShape(llm'[c])
  /\ 1..llm'[c].binding - 1 \subseteq BindingsTried(llm[c])'
  /\ llm'[c].pc # "answered" => llm'[c].status # 429
  /\ llm'[c].pc = "answered" /\ llm'[c].status = 429 =>
       /\ TerminalFaults(c)' = {"rate_limited"}
       /\ BindingsTried(llm[c])' = 1..Bindings \/ now >= llm'[c].deadline
  /\ rpm' \in [1..Bindings -> 0..Rpm]

\* The bindings a completion has tried are bindings.
LEMMA TriedBindings ==
  ASSUME NEW completion, CompletionShape(completion)
  PROVE  BindingsTried(completion) \subseteq 1..Bindings
<1>1. PICK tried : tried = completion.tried
  OBVIOUS
<1>2. tried \in Seq([binding : 1..Bindings, outcome : Outcomes])
  BY <1>1 DEF CompletionShape
<1>3. PICK S : S = [binding : 1..Bindings, outcome : Outcomes]
  OBVIOUS
<1>4. \A i \in DOMAIN tried : tried[i] \in S
  <2>1. tried \in Seq(S)
    BY <1>2, <1>3
  <2>2. QED
    BY <2>1, ElementOfSeq, LenProperties
<1>5. QED
  BY <1>1, <1>3, <1>4 DEF BindingsTried, Met

\* An answer changes the status of one completion (completion.ts).
LEMMA StatusIs ==
  ASSUME RunInv, NEW c \in Callers, NEW status, Status(c, status)
  PROVE  /\ llm' = [d \in Callers |-> llm'[d]]
         /\ \A d \in Callers \ {c} : llm'[d] = llm[d]
         /\ CompletionShape(llm'[c]) /\ llm'[c].pc = "answered" /\ llm'[c].status = status
         /\ llm'[c].tried = llm[c].tried /\ llm'[c].binding = llm[c].binding
         /\ llm'[c].deadline = llm[c].deadline /\ llm'[c].class = llm[c].class
<1>1. llm = [d \in Callers |-> llm[d]] /\ CompletionShape(llm[c])
  BY DEF RunInv, ModelShape
<1>2. llm' = [llm EXCEPT ![c] = [llm[c] EXCEPT !.pc = "answered", !.status = status]]
  BY <1>1 DEF Status
<1>3. PICK old, new : old = llm[c] /\ new = llm'[c]
  OBVIOUS
<1>4. new = [old EXCEPT !.pc = "answered", !.status = status]
  BY <1>1, <1>2, <1>3
<1>5. /\ CompletionShape(new) /\ new.pc = "answered" /\ new.status = status
      /\ new.tried = old.tried /\ new.binding = old.binding /\ new.deadline = old.deadline
      /\ new.class = old.class
  BY <1>1, <1>3, <1>4 DEF CompletionShape
<1>6. llm' = [d \in Callers |-> llm'[d]] /\ \A d \in Callers \ {c} : llm'[d] = llm[d]
  BY <1>1, <1>2
<1>7. QED
  BY <1>3, <1>5, <1>6

LEMMA StatusCompletes ==
  ASSUME RunInv, NEW c \in Callers, NEW status, Status(c, status), status # 429, rpm' \in [1..Bindings -> 0..Rpm]
  PROVE  Completes(c)
<1>1. BindingsTried(llm[c])' = BindingsTried(llm[c]) /\ llm'[c].binding = llm[c].binding
  BY StatusIs DEF BindingsTried
<1>2. 1..llm[c].binding - 1 \subseteq BindingsTried(llm[c])
  BY DEF RunInv, BindingsAreTried
<1>3. QED
  BY <1>1, <1>2, StatusIs DEF Completes

\* A step that only moves a completion on to its next question.
LEMMA GoesOnCompletes ==
  ASSUME RunInv, NEW c \in Callers, NEW to \in {"checking", "fetching", "returning", "trying"},
         NEW seen \in SUBSET Classes, NEW asOf \in Nat, NEW deadline \in Nat,
         llm[c].pc \in {"arrived", "checking", "fetching", "returning"},
         llm' = [llm EXCEPT ![c] = [llm[c] EXCEPT !.pc = to, !.seen = seen, !.asOf = asOf, !.deadline = deadline]],
         rpm' = rpm
  PROVE  Completes(c)
<1>1. llm = [d \in Callers |-> llm[d]] /\ CompletionShape(llm[c]) /\ rpm \in [1..Bindings -> 0..Rpm]
  BY DEF RunInv, ModelShape
<1>2. PICK old, new : old = llm[c] /\ new = llm'[c]
  OBVIOUS
<1>3. new = [old EXCEPT !.pc = to, !.seen = seen, !.asOf = asOf, !.deadline = deadline]
  BY <1>1, <1>2
<1>4. /\ CompletionShape(new) /\ new.pc = to /\ new.status = old.status
      /\ new.binding = old.binding /\ new.tried = old.tried
  BY <1>1, <1>2, <1>3 DEF CompletionShape
<1>5. old.status # 429 /\ 1..old.binding - 1 \subseteq BindingsTried(old)
  BY <1>2 DEF RunInv, BindingsAreTried
<1>6. llm' = [d \in Callers |-> llm'[d]] /\ \A d \in Callers \ {c} : llm'[d] = llm[d]
  BY <1>1
<1>7. 1..new.binding - 1 \subseteq BindingsTried(new)
  BY <1>4, <1>5 DEF BindingsTried
<1>8. 1..llm'[c].binding - 1 \subseteq BindingsTried(llm[c])'
  BY <1>2, <1>7 DEF BindingsTried
<1>9. QED
  BY <1>1, <1>2, <1>4, <1>5, <1>6, <1>8 DEF Completes
\* One more attempt goes to the completion's own binding.
LEMMA TriedMore ==
  ASSUME NEW completion, CompletionShape(completion), completion.binding \in 1..Bindings,
         NEW outcome \in Outcomes, NEW tried,
         tried = Append(completion.tried, [binding |-> completion.binding, outcome |-> outcome])
  PROVE  /\ tried \in Seq([binding : 1..Bindings, outcome : Outcomes])
         /\ Met(tried) = BindingsTried(completion) \cup {completion.binding}
<1>1. PICK S : S = [binding : 1..Bindings, outcome : Outcomes]
  OBVIOUS
<1>2. PICK old : old = completion.tried
  OBVIOUS
<1>3. PICK x : x = [binding |-> completion.binding, outcome |-> outcome]
  OBVIOUS
<1>4. old \in Seq(S) /\ x \in S /\ tried = Append(old, x) /\ x.binding = completion.binding
  BY <1>1, <1>2, <1>3 DEF CompletionShape
<1>5. /\ tried \in Seq(S) /\ Len(tried) = Len(old) + 1 /\ tried[Len(old) + 1] = x
      /\ \A i \in 1..Len(old) : tried[i] = old[i]
  <2>1. PICK new : new = tried
    OBVIOUS
  <2>2. new = Append(old, x)
    BY <1>4, <2>1
  <2>3. /\ Append(old, x) \in Seq(S) /\ Len(Append(old, x)) = Len(old) + 1 /\ Append(old, x)[Len(old) + 1] = x
        /\ \A i \in 1..Len(old) : Append(old, x)[i] = old[i]
    BY <1>4, AppendProperties
  <2>4. QED
    BY <2>1, <2>2, <2>3
<1>6. Len(old) \in Nat /\ DOMAIN old = 1..Len(old) /\ DOMAIN tried = 1..Len(old) + 1
  BY <1>4, <1>5, LenProperties
<1>7. DOMAIN tried = DOMAIN old \cup {Len(old) + 1}
  BY <1>6
<1>8. Met(tried) = Met(old) \cup {x.binding}
  BY <1>5, <1>6, <1>7 DEF Met
<1>9. QED
  BY <1>1, <1>2, <1>4, <1>5, <1>8 DEF BindingsTried

\* The loop leaves a binding only when it has tried it (provider.ts).
LEMMA AfterCompletes ==
  ASSUME RunInv, NEW c \in Callers, InTime(c), NEW outcome \in Outcomes, After(c, outcome),
         rpm' \in [1..Bindings -> 0..Rpm]
  PROVE  Completes(c)
<1>1. llm = [d \in Callers |-> llm[d]] /\ CompletionShape(llm[c])
  BY DEF RunInv, ModelShape
<1>2. Bindings \in Nat /\ llm[c].pc = "trying" /\ llm[c].binding \in 1..Bindings
  BY <1>1, LlmGatewayAssumption DEF InTime, CompletionShape
<1>3. PICK next : next = NextAttempt(c, outcome)
  OBVIOUS
<1>4. next.binding \in {llm[c].binding, llm[c].binding + 1}
  BY <1>3 DEF NextAttempt
<1>5. PICK tried : tried = Tried(c, outcome)
  OBVIOUS
<1>6. llm' = [llm EXCEPT ![c] = [llm[c] EXCEPT !.tried = tried, !.binding = next.binding, !.attempt = next.attempt]]
  BY <1>1, <1>3, <1>5 DEF After
<1>7. PICK old, new : old = llm[c] /\ new = llm'[c]
  OBVIOUS
<1>8. new = [old EXCEPT !.tried = tried, !.binding = next.binding, !.attempt = next.attempt]
  BY <1>1, <1>6, <1>7
<1>9. /\ tried \in Seq([binding : 1..Bindings, outcome : Outcomes])
      /\ Met(tried) = BindingsTried(old) \cup {old.binding}
  <2>1. tried = Append(old.tried, [binding |-> old.binding, outcome |-> outcome])
    BY <1>5, <1>7 DEF Tried
  <2>2. CompletionShape(old) /\ old.binding \in 1..Bindings
    BY <1>1, <1>2, <1>7
  <2>3. QED
    BY <2>1, <2>2, TriedMore
<1>10. /\ CompletionShape(new) /\ new.pc = "trying" /\ new.status = old.status
       /\ new.binding = next.binding /\ new.tried = tried
  <2>1. CompletionShape(old) /\ old.pc = "trying" /\ next.binding \in 1..Bindings + 1
    BY <1>1, <1>2, <1>4, <1>7
  <2>2. new = [pc |-> old.pc, class |-> old.class, valid |-> old.valid, seen |-> old.seen, asOf |-> old.asOf,
               binding |-> next.binding,
               attempt |-> next.attempt, tried |-> tried, deadline |-> old.deadline, status |-> old.status]
    BY <1>8, <2>1 DEF CompletionShape
  <2>3. QED
    BY <1>9, <2>1, <2>2 DEF CompletionShape
<1>11. old.status # 429 /\ 1..old.binding - 1 \subseteq BindingsTried(old)
  BY <1>2, <1>7 DEF RunInv, BindingsAreTried
<1>12. 1..new.binding - 1 \subseteq 1..old.binding - 1 \cup {old.binding}
  BY <1>2, <1>4, <1>7, <1>10
<1>13. BindingsTried(llm[c])' = BindingsTried(old) \cup {old.binding}
  BY <1>7, <1>9, <1>10 DEF BindingsTried
<1>14. llm' = [d \in Callers |-> llm'[d]] /\ \A d \in Callers \ {c} : llm'[d] = llm[d]
  BY <1>1, <1>6
<1>15. 1..llm'[c].binding - 1 \subseteq BindingsTried(llm[c])'
  BY <1>7, <1>11, <1>12, <1>13
<1>16. QED
  BY <1>7, <1>10, <1>11, <1>14, <1>15 DEF Completes

\* A token of a provider's local cap is spent.
LEMMA RpmSpent ==
  ASSUME RunInv, NEW b \in 1..Bindings, rpm[b] # 0
  PROVE  [rpm EXCEPT ![b] = rpm[b] - 1] \in [1..Bindings -> 0..Rpm]
<1>1. rpm \in [1..Bindings -> 0..Rpm] /\ rpm[b] - 1 \in 0..Rpm
  BY LlmGatewayAssumption DEF RunInv, ModelShape
<1>2. QED
  BY <1>1

\* The provider answers, or the cap refuses the attempt.
LEMMA AttemptCompletes ==
  ASSUME RunInv, NEW c \in Callers, Attempt(c)
  PROVE  Completes(c)
<1>1. llm = [d \in Callers |-> llm[d]] /\ CompletionShape(llm[c]) /\ rpm \in [1..Bindings -> 0..Rpm]
  BY DEF RunInv, ModelShape
<1>2. PICK b : b = llm[c].binding
  OBVIOUS
<1>3. Bindings \in Nat /\ llm[c].pc = "trying" /\ b \in 1..Bindings /\ InTime(c)
  BY <1>1, <1>2, LlmGatewayAssumption DEF Attempt, InTime, CompletionShape
<1>4. CASE rpm[b] = 0
  BY <1>1, <1>2, <1>3, <1>4, AfterCompletes DEF Attempt, Outcomes
<1>5. CASE rpm[b] # 0
  <2>1. PICK tried : tried = Tried(c, "ok")
    OBVIOUS
  <2>2. /\ llm' = [llm EXCEPT ![c] = [llm[c] EXCEPT !.tried = tried, !.pc = "answered", !.status = 200]]
        /\ rpm' = [rpm EXCEPT ![b] = rpm[b] - 1]
    BY <1>1, <1>2, <1>5, <2>1 DEF Attempt
  <2>3. PICK old, new : old = llm[c] /\ new = llm'[c]
    OBVIOUS
  <2>4. new = [old EXCEPT !.tried = tried, !.pc = "answered", !.status = 200]
    BY <1>1, <2>2, <2>3
  <2>5. /\ tried \in Seq([binding : 1..Bindings, outcome : Outcomes])
        /\ Met(tried) = BindingsTried(old) \cup {old.binding}
    <3>1. tried = Append(old.tried, [binding |-> old.binding, outcome |-> "ok"]) /\ "ok" \in Outcomes
      BY <2>1, <2>3 DEF Tried, Outcomes
    <3>2. CompletionShape(old) /\ old.binding \in 1..Bindings
      BY <1>1, <1>2, <1>3, <2>3
    <3>3. QED
      BY <3>1, <3>2, TriedMore
  <2>6. CompletionShape(new) /\ new.binding = old.binding /\ new.tried = tried /\ new.status = 200
    BY <1>1, <2>3, <2>4, <2>5 DEF CompletionShape
  <2>7. 1..old.binding - 1 \subseteq BindingsTried(old)
    BY <2>3 DEF RunInv, BindingsAreTried
  <2>8. 1..llm'[c].binding - 1 \subseteq BindingsTried(llm[c])'
    <3>1. BindingsTried(llm[c])' = BindingsTried(old) \cup {old.binding}
      BY <2>3, <2>5, <2>6 DEF BindingsTried
    <3>2. QED
      BY <2>3, <2>6, <2>7, <3>1
  <2>9. llm' = [d \in Callers |-> llm'[d]] /\ \A d \in Callers \ {c} : llm'[d] = llm[d]
    BY <1>1, <2>2
  <2>10. rpm' \in [1..Bindings -> 0..Rpm]
    BY <1>3, <1>5, <2>2, RpmSpent
  <2>11. QED
    BY <2>3, <2>6, <2>8, <2>9, <2>10 DEF Completes
<1>6. QED
  BY <1>4, <1>5
\* A completion whose state alone changes.
LEMMA PassesCompletes ==
  ASSUME RunInv, NEW c \in Callers, NEW to \in {"checking", "fetching"},
         llm[c].pc \in {"arrived", "checking"}, rpm' = rpm
  PROVE  llm' = [llm EXCEPT ![c].pc = to] => Completes(c)
<1>1. llm = [d \in Callers |-> llm[d]] /\ CompletionShape(llm[c])
  BY DEF RunInv, ModelShape
<1>2. PICK old : old = llm[c]
  OBVIOUS
<1>3. PICK seen \in SUBSET Classes, asOf \in Nat, deadline \in Nat :
        seen = old.seen /\ asOf = old.asOf /\ deadline = old.deadline
  BY <1>1, <1>2 DEF CompletionShape
<1>4. [old EXCEPT !.pc = to] = [old EXCEPT !.pc = to, !.seen = seen, !.asOf = asOf, !.deadline = deadline]
  BY <1>1, <1>2, <1>3 DEF CompletionShape
<1>5. llm' = [llm EXCEPT ![c].pc = to] => llm' = [llm EXCEPT ![c] = [old EXCEPT !.pc = to]]
  BY <1>1, <1>2
<1>6. llm' = [llm EXCEPT ![c].pc = to] =>
      llm' = [llm EXCEPT ![c] = [llm[c] EXCEPT !.pc = to, !.seen = seen, !.asOf = asOf, !.deadline = deadline]]
  BY <1>2, <1>4, <1>5
<1>7. ASSUME llm' = [llm EXCEPT ![c] = [llm[c] EXCEPT !.pc = to, !.seen = seen, !.asOf = asOf, !.deadline = deadline]]
      PROVE  Completes(c)
  BY <1>7, GoesOnCompletes
<1>8. QED
  BY <1>6, <1>7

\* The verdict of the allowlist, cached or fetched (allowlist.ts).
LEMMA JudgeCompletes ==
  ASSUME RunInv, NEW c \in Callers, NEW classes, Judge(c, classes),
         llm[c].pc \in {"checking", "returning"}, rpm' = rpm
  PROVE  Completes(c)
<1>1. rpm' \in [1..Bindings -> 0..Rpm] /\ llm = [d \in Callers |-> llm[d]] /\ CompletionShape(llm[c])
  BY DEF RunInv, ModelShape
<1>2. CASE Status(c, 403)
  BY <1>1, <1>2, StatusCompletes
<1>3. CASE llm' = [llm EXCEPT ![c].pc = "trying", ![c].deadline = now + Deadline]
  <2>1. PICK deadline \in Nat : deadline = now + Deadline
    BY LlmGatewayAssumption DEF RunInv, ToolShape
  <2>2. PICK old : old = llm[c]
    OBVIOUS
  <2>3. PICK seen \in SUBSET Classes, asOf \in Nat : seen = old.seen /\ asOf = old.asOf
    BY <1>1, <2>2 DEF CompletionShape
  <2>4. [old EXCEPT !.pc = "trying", !.deadline = deadline]
          = [old EXCEPT !.pc = "trying", !.seen = seen, !.asOf = asOf, !.deadline = deadline]
    BY <1>1, <2>2, <2>3 DEF CompletionShape
  <2>5. llm' = [llm EXCEPT ![c] = [old EXCEPT !.pc = "trying", !.deadline = deadline]]
    BY <1>1, <1>3, <2>1, <2>2
  <2>6. llm' = [llm EXCEPT ![c] = [llm[c] EXCEPT !.pc = "trying", !.seen = seen, !.asOf = asOf,
                                                 !.deadline = deadline]]
    BY <2>2, <2>4, <2>5
  <2>7. QED
    BY <2>6, GoesOnCompletes
<1>4. QED
  BY <1>2, <1>3 DEF Judge

\* The request is judged, the allowlist asked (completion.ts).
LEMMA ReceiveCompletes ==
  ASSUME RunInv, NEW c \in Callers, NEW bearer, ReceiveCompletion(c, bearer, Jwks)
  PROVE  Completes(c)
<1>1. rpm' \in [1..Bindings -> 0..Rpm] /\ llm[c].pc = "arrived" /\ rpm' = rpm
  BY DEF RunInv, ModelShape, ReceiveCompletion
<1>2. CASE \E status \in {400, 401, 503} : Status(c, status)
  BY <1>1, <1>2, StatusCompletes
<1>3. CASE llm' = [llm EXCEPT ![c].pc = "checking"]
  BY <1>1, <1>3, PassesCompletes
<1>4. QED
  BY <1>2, <1>3 DEF ReceiveCompletion

LEMMA CheckAllowlistCompletes ==
  ASSUME RunInv, NEW c \in Callers, CheckAllowlist(c)
  PROVE  Completes(c)
<1>1. llm[c].pc = "checking" /\ rpm' = rpm
  BY DEF CheckAllowlist
<1>2. CASE Fresh
  BY <1>1, <1>2, JudgeCompletes DEF CheckAllowlist
<1>3. CASE ~Fresh
  BY <1>1, <1>3, PassesCompletes DEF CheckAllowlist, Fetch
<1>4. QED
  BY <1>2, <1>3

\* The card is read, and the answer comes to be remembered (allowlist.ts).
LEMMA ReadCardCompletes ==
  ASSUME RunInv, NEW c \in Callers, ReadCard(c)
  PROVE  Completes(c) /\ llm'[c].seen = card /\ llm'[c].asOf = now
<1>1. /\ llm = [d \in Callers |-> llm[d]] /\ CompletionShape(llm[c])
      /\ llm[c].pc = "fetching" /\ rpm' = rpm /\ now \in Nat /\ card \in SUBSET Classes
  BY DEF RunInv, ModelShape, ToolShape, ReadCard
<1>2. PICK old, seen, asOf : old = llm[c] /\ seen = card /\ asOf = now
  OBVIOUS
<1>3. PICK deadline \in Nat : deadline = old.deadline
  BY <1>1, <1>2 DEF CompletionShape
<1>4. [old EXCEPT !.pc = "returning", !.seen = seen, !.asOf = asOf]
        = [old EXCEPT !.pc = "returning", !.seen = seen, !.asOf = asOf, !.deadline = deadline]
  BY <1>1, <1>2, <1>3 DEF CompletionShape
<1>5. llm' = [llm EXCEPT ![c] = [old EXCEPT !.pc = "returning", !.seen = seen, !.asOf = asOf]]
  BY <1>1, <1>2 DEF ReadCard
<1>6. llm' = [llm EXCEPT ![c] = [llm[c] EXCEPT !.pc = "returning", !.seen = seen, !.asOf = asOf,
                                               !.deadline = deadline]]
  BY <1>2, <1>4, <1>5
<1>7. Completes(c)
  BY <1>1, <1>2, <1>6, GoesOnCompletes
<1>8. llm'[c].seen = seen /\ llm'[c].asOf = asOf
  <2>1. PICK new : new = llm'[c]
    OBVIOUS
  <2>2. new = [old EXCEPT !.pc = "returning", !.seen = seen, !.asOf = asOf]
    BY <1>1, <1>5, <2>1
  <2>3. QED
    BY <1>1, <1>2, <2>1, <2>2 DEF CompletionShape
<1>9. QED
  BY <1>2, <1>7, <1>8

LEMMA RememberCompletes ==
  ASSUME RunInv, NEW c \in Callers, RememberAllowlist(c)
  PROVE  Completes(c)
<1>1. llm[c].pc = "returning" /\ rpm' = rpm /\ Judge(c, llm[c].seen)
  BY DEF RememberAllowlist
<1>2. QED
  BY <1>1, JudgeCompletes

LEMMA UnavailableCompletes ==
  ASSUME RunInv, NEW c \in Callers, AllowlistUnavailable(c)
  PROVE  Completes(c)
<1>1. rpm' \in [1..Bindings -> 0..Rpm] /\ Status(c, 503)
  BY DEF AllowlistUnavailable, RunInv, ModelShape
<1>2. QED
  BY <1>1, StatusCompletes

\* An attempt that fails (provider.ts), and the end of the loop.
LEMMA AttemptFailsCompletes ==
  ASSUME RunInv, NEW c \in Callers, AttemptFails(c)
  PROVE  Completes(c)
<1>1. CompletionShape(llm[c]) /\ rpm \in [1..Bindings -> 0..Rpm] /\ Bindings \in Nat /\ InTime(c)
  BY LlmGatewayAssumption DEF RunInv, ModelShape, AttemptFails
<1>2. PICK b : b = llm[c].binding
  OBVIOUS
<1>3. b \in 1..Bindings /\ rpm[b] # 0 /\ rpm' = [rpm EXCEPT ![b] = rpm[b] - 1]
  BY <1>1, <1>2 DEF AttemptFails, InTime, CompletionShape
<1>4. rpm' \in [1..Bindings -> 0..Rpm]
  BY <1>3, RpmSpent
<1>5. CASE \E outcome \in {"rate_limited", "upstream_auth", "server"} : After(c, outcome)
  BY <1>1, <1>4, <1>5, AfterCompletes DEF Outcomes
<1>6. CASE Status(c, 400)
  BY <1>4, <1>6, StatusCompletes
<1>7. QED
  BY <1>5, <1>6 DEF AttemptFails

LEMMA ExhaustedCompletes ==
  ASSUME RunInv, NEW c \in Callers, Exhausted(c)
  PROVE  Completes(c)
<1>1. /\ CompletionShape(llm[c]) /\ rpm' \in [1..Bindings -> 0..Rpm] /\ Bindings \in Nat
      /\ llm[c].pc = "trying" /\ (llm[c].binding > Bindings \/ now >= llm[c].deadline)
  BY LlmGatewayAssumption DEF RunInv, ModelShape, Exhausted
<1>2. PICK status : status = IF TerminalFaults(c) = {"rate_limited"} THEN 429 ELSE 503
  OBVIOUS
<1>3. Status(c, status)
  BY <1>2 DEF Exhausted
<1>4. CASE TerminalFaults(c) # {"rate_limited"}
  BY <1>1, <1>2, <1>3, <1>4, StatusCompletes
<1>5. CASE TerminalFaults(c) = {"rate_limited"}
  <2>1. TerminalFaults(c)' = TerminalFaults(c)
    BY <1>3, StatusIs DEF TerminalFaults
  <2>2. BindingsTried(llm[c])' = BindingsTried(llm[c]) /\ llm'[c].binding = llm[c].binding
    BY <1>3, StatusIs DEF BindingsTried
  <2>3. 1..llm[c].binding - 1 \subseteq BindingsTried(llm[c]) /\ BindingsTried(llm[c]) \subseteq 1..Bindings
    BY <1>1, TriedBindings DEF RunInv, BindingsAreTried
  <2>4. llm[c].binding > Bindings => BindingsTried(llm[c]) = 1..Bindings
    <3>1. llm[c].binding > Bindings => llm[c].binding - 1 = Bindings
      BY <1>1 DEF CompletionShape
    <3>2. QED
      BY <2>3, <3>1
  <2>5. llm'[c].deadline = llm[c].deadline
    BY <1>3, StatusIs
  <2>6. QED
    BY <1>1, <1>3, <1>5, <2>1, <2>2, <2>3, <2>4, <2>5, StatusIs DEF Completes
<1>6. QED
  BY <1>4, <1>5

\* A step of a completion keeps its class; only the reading of the card sets
\* one on its way, and only the allowlist lets it go on to a provider.
LEMMA CompletionMoves ==
  ASSUME RunInv, NEW c \in Callers, NEW bearer, Complete(c, bearer, Jwks)
  PROVE  /\ Completes(c) /\ llm'[c].class = llm[c].class
         /\ llm'[c].pc = "returning" => ReadCard(c)
         /\ llm'[c].pc = "trying" => llm[c].pc = "trying" \/ CheckAllowlist(c) \/ RememberAllowlist(c)
<1>1. Completes(c)
  BY ReceiveCompletes, CheckAllowlistCompletes, ReadCardCompletes, RememberCompletes, UnavailableCompletes,
     AttemptCompletes, AttemptFailsCompletes, ExhaustedCompletes DEF Complete
<1>2. llm = [d \in Callers |-> llm[d]] /\ CompletionShape(llm[c])
  BY DEF RunInv, ModelShape
<1>3. PICK old, new : old = llm[c] /\ new = llm'[c]
  OBVIOUS
<1>4. \A status : Status(c, status) => new.pc = "answered" /\ new.class = old.class
  BY <1>3, StatusIs
<1>5. \A to \in {"checking", "fetching"} :
        llm' = [llm EXCEPT ![c].pc = to] => new.pc = to /\ new.class = old.class
  <2> SUFFICES ASSUME NEW to \in {"checking", "fetching"}, llm' = [llm EXCEPT ![c].pc = to]
               PROVE  new.pc = to /\ new.class = old.class
    OBVIOUS
  <2>1. new = [old EXCEPT !.pc = to]
    BY <1>2, <1>3
  <2>2. QED
    BY <1>2, <1>3, <2>1 DEF CompletionShape
<1>6. \A outcome : After(c, outcome) => new.pc = old.pc /\ new.class = old.class
  <2> SUFFICES ASSUME NEW outcome, After(c, outcome)
               PROVE  new.pc = old.pc /\ new.class = old.class
    OBVIOUS
  <2>1. PICK tried, next : tried = Tried(c, outcome) /\ next = NextAttempt(c, outcome)
    OBVIOUS
  <2>2. llm' = [llm EXCEPT ![c].tried = tried, ![c].binding = next.binding, ![c].attempt = next.attempt]
    BY <2>1 DEF After
  <2>3. new = [old EXCEPT !.tried = tried, !.binding = next.binding, !.attempt = next.attempt]
    BY <1>2, <1>3, <2>2
  <2>4. QED
    BY <1>2, <1>3, <2>3 DEF CompletionShape
<1>7. \A classes : Judge(c, classes) => new.pc \in {"trying", "answered"} /\ new.class = old.class
  <2> SUFFICES ASSUME NEW classes, Judge(c, classes)
               PROVE  new.pc \in {"trying", "answered"} /\ new.class = old.class
    OBVIOUS
  <2>1. PICK deadline : deadline = now + Deadline
    OBVIOUS
  <2>2. CASE llm' = [llm EXCEPT ![c].pc = "trying", ![c].deadline = deadline]
    <3>1. new = [old EXCEPT !.pc = "trying", !.deadline = deadline]
      BY <1>2, <1>3, <2>2
    <3>2. QED
      BY <1>2, <1>3, <3>1 DEF CompletionShape
  <2>3. CASE Status(c, 403)
    BY <1>4, <2>3
  <2>4. QED
    BY <2>1, <2>2, <2>3 DEF Judge
<1>8. CASE ReceiveCompletion(c, bearer, Jwks)
  <2>1. (\E status : Status(c, status)) \/ llm' = [llm EXCEPT ![c].pc = "checking"]
    BY <1>8 DEF ReceiveCompletion
  <2>2. QED
    BY <1>1, <1>3, <1>4, <1>5, <2>1
<1>9. CASE CheckAllowlist(c)
  <2>1. Judge(c, cached.classes) \/ llm' = [llm EXCEPT ![c].pc = "fetching"]
    BY <1>9 DEF CheckAllowlist, Fetch
  <2>2. QED
    BY <1>1, <1>3, <1>5, <1>7, <1>9, <2>1
<1>10. CASE ReadCard(c)
  <2>1. PICK seen, asOf : seen = card /\ asOf = now
    OBVIOUS
  <2>2. llm' = [llm EXCEPT ![c].pc = "returning", ![c].seen = seen, ![c].asOf = asOf]
    BY <1>10, <2>1 DEF ReadCard
  <2>3. new = [old EXCEPT !.pc = "returning", !.seen = seen, !.asOf = asOf]
    BY <1>2, <1>3, <2>2
  <2>4. new.pc = "returning" /\ new.class = old.class
    BY <1>2, <1>3, <2>3 DEF CompletionShape
  <2>5. QED
    BY <1>1, <1>3, <1>10, <2>4
<1>11. CASE RememberAllowlist(c)
  BY <1>1, <1>3, <1>7, <1>11 DEF RememberAllowlist
<1>12. CASE AllowlistUnavailable(c) \/ Exhausted(c)
  <2>1. \E status : Status(c, status)
    BY <1>12 DEF AllowlistUnavailable, Exhausted
  <2>2. QED
    BY <1>1, <1>3, <1>4, <2>1
<1>13. CASE Attempt(c)
  <2>1. old.pc = "trying"
    BY <1>3, <1>13 DEF Attempt, InTime
  <2>2. CASE After(c, "rate_limited")
    BY <1>1, <1>3, <1>6, <2>1, <2>2
  <2>3. CASE ~After(c, "rate_limited")
    <3>1. PICK tried : tried = Tried(c, "ok")
      OBVIOUS
    <3>2. llm' = [llm EXCEPT ![c].tried = tried, ![c].pc = "answered", ![c].status = 200]
      BY <1>13, <2>3, <3>1 DEF Attempt
    <3>3. new = [old EXCEPT !.tried = tried, !.pc = "answered", !.status = 200]
      BY <1>2, <1>3, <3>2
    <3>4. new.pc = "answered" /\ new.class = old.class
      BY <1>2, <1>3, <3>3 DEF CompletionShape
    <3>5. QED
      BY <1>1, <1>3, <3>4
  <2>4. QED
    BY <2>2, <2>3
<1>14. CASE AttemptFails(c)
  <2>1. old.pc = "trying" /\ ((\E outcome : After(c, outcome)) \/ Status(c, 400))
    BY <1>3, <1>14 DEF AttemptFails, InTime
  <2>2. QED
    BY <1>1, <1>3, <1>4, <1>6, <2>1
<1>15. QED
  BY <1>8, <1>9, <1>10, <1>11, <1>12, <1>13, <1>14 DEF Complete

\* A worker's request starts a completion, and its answer ends it
\* (packages/llm-client).
LEMMA FreshCompletes ==
  ASSUME RunInv, NEW c \in Callers, NEW fresh, llm' = [llm EXCEPT ![c] = fresh], rpm' = rpm,
         fresh = [pc |-> fresh.pc, class |-> fresh.class, valid |-> fresh.valid, seen |-> {}, asOf |-> 0,
                  binding |-> 1, attempt |-> 0, tried |-> <<>>, deadline |-> 0, status |-> 0],
         fresh.pc \in {"idle", "arrived"}
  PROVE  Completes(c)
<1>1. llm = [d \in Callers |-> llm[d]] /\ rpm \in [1..Bindings -> 0..Rpm] /\ Bindings \in Nat \ {0}
  BY LlmGatewayAssumption DEF RunInv, ModelShape
<1>2. CompletionShape(fresh) /\ fresh.status = 0 /\ fresh.binding = 1
  <2>1. PICK S : S = [binding : 1..Bindings, outcome : Outcomes]
    OBVIOUS
  <2>2. <<>> \in Seq(S) /\ 1 \in 1..Bindings + 1
    BY <1>1
  <2>3. /\ fresh.binding = 1 /\ fresh.attempt = 0 /\ fresh.tried = <<>> /\ fresh.deadline = 0 /\ fresh.status = 0
        /\ fresh.seen = {} /\ fresh.asOf = 0
    OBVIOUS
  <2>4. fresh.tried \in Seq([binding : 1..Bindings, outcome : Outcomes])
    BY <2>1, <2>2, <2>3
  <2>5. QED
    BY <2>2, <2>3, <2>4 DEF CompletionShape
<1>3. llm'[c] = fresh /\ llm' = [d \in Callers |-> llm'[d]] /\ \A d \in Callers \ {c} : llm'[d] = llm[d]
  BY <1>1
<1>4. 1..llm'[c].binding - 1 = {}
  BY <1>2, <1>3
<1>5. QED
  BY <1>1, <1>2, <1>3, <1>4 DEF Completes

\* The completion of a run of the handler is one of those there may be.
LEMMA AskedIsACaller ==
  ASSUME RunInv, NEW s \in Steps, pc[s] \in {"running", "asking"}
  PROVE  Asked(s) \in Callers /\ Asked(s)[1] = s
<1>1. tries[s] \in 0..RunAttempts - 1 /\ runs[s] \in 0..1
  BY AgentRunAssumption DEF RunInv, StepShape
<1>2. QED
  BY <1>1, AgentRunAssumption DEF Asked

LEMMA AskModelCompletes ==
  ASSUME RunInv, NEW s \in Steps, AskModel(s)
  PROVE  Completes(Asked(s)) /\ llm'[Asked(s)].pc = "arrived" /\ llm'[Asked(s)].class = load[s].class
<1>1. PICK fresh : fresh = [NoCompletion EXCEPT !.pc = "arrived", !.class = load[s].class, !.valid = load[s].valid]
  OBVIOUS
<1>2. fresh = [pc |-> "arrived", class |-> load[s].class, valid |-> load[s].valid, seen |-> {}, asOf |-> 0,
               binding |-> 1, attempt |-> 0, tried |-> <<>>, deadline |-> 0, status |-> 0]
  BY <1>1 DEF NoCompletion
<1>3. PICK c \in Callers : c = Asked(s)
  BY AskedIsACaller DEF AskModel
<1>4. llm' = [llm EXCEPT ![c] = fresh] /\ rpm' = rpm
  BY <1>1, <1>3 DEF AskModel, Request
<1>5. Completes(c)
  BY <1>2, <1>4, FreshCompletes
<1>6. llm'[c] = fresh
  BY <1>4 DEF RunInv, ModelShape
<1>7. QED
  BY <1>2, <1>3, <1>5, <1>6

LEMMA HearModelCompletes ==
  ASSUME RunInv, NEW s \in Steps, HearModel(s)
  PROVE  Completes(Asked(s)) /\ llm'[Asked(s)].pc = "idle"
<1>1. PICK c \in Callers : c = Asked(s)
  BY AskedIsACaller DEF HearModel
<1>2. llm' = [llm EXCEPT ![c] = NoCompletion] /\ rpm' = rpm
  BY <1>1 DEF HearModel
<1>3. NoCompletion = [pc |-> NoCompletion.pc, class |-> NoCompletion.class, valid |-> NoCompletion.valid,
                      seen |-> {}, asOf |-> 0,
                      binding |-> 1, attempt |-> 0, tried |-> <<>>, deadline |-> 0, status |-> 0]
      /\ NoCompletion.pc = "idle"
  BY DEF NoCompletion
<1>4. Completes(c)
  BY <1>2, <1>3, FreshCompletes
<1>5. llm'[c] = NoCompletion
  BY <1>2 DEF RunInv, ModelShape
<1>6. QED
  BY <1>1, <1>3, <1>4, <1>5

-----------------------------------------------------------------------------
(* The allowlist and the completions together.                             *)

\* One completion moves on while the others and the clock stand still.
LEMMA CompletesKeeps ==
  ASSUME RunInv, NEW c \in Callers, Completes(c), now' = now
  PROVE  /\ llm' = [d \in Callers |-> llm'[d]] /\ (\A d \in Callers : CompletionShape(llm'[d]))
         /\ BindingsAreTried' /\ RateLimitedMeansAll'
<1>1. llm' = [d \in Callers |-> llm'[d]] /\ \A d \in Callers \ {c} : llm'[d] = llm[d]
  BY DEF Completes
<1>2. \A d \in Callers : CompletionShape(llm'[d])
  BY <1>1 DEF Completes, RunInv, ModelShape
<1>3. ASSUME NEW d \in Callers
      PROVE  /\ 1..llm'[d].binding - 1 \subseteq BindingsTried(llm[d])'
             /\ llm'[d].pc # "answered" => llm'[d].status # 429
             /\ llm'[d].pc = "answered" /\ llm'[d].status = 429 =>
                  /\ TerminalFaults(d)' = {"rate_limited"}
                  /\ BindingsTried(llm[d])' = 1..Bindings \/ now' >= llm'[d].deadline
  <2>1. CASE d = c
    BY <2>1 DEF Completes
  <2>2. CASE d # c
    <3>1. llm'[d] = llm[d]
      BY <1>1, <2>2
    <3>2. BindingsTried(llm[d])' = BindingsTried(llm[d]) /\ TerminalFaults(d)' = TerminalFaults(d)
      BY <3>1 DEF BindingsTried, TerminalFaults
    <3>3. BindingsTried(llm[d]) = {llm[d].tried[i].binding : i \in DOMAIN llm[d].tried}
      BY DEF BindingsTried, Met
    <3>4. QED
      BY <3>1, <3>2, <3>3 DEF RunInv, BindingsAreTried, RateLimitedMeansAll
  <2>3. QED
    BY <2>1, <2>2
<1>4. BindingsAreTried'
  BY <1>3 DEF BindingsAreTried
<1>5. RateLimitedMeansAll'
  <2>1. \A d \in Callers : BindingsTried(llm[d])' = {llm'[d].tried[i].binding : i \in DOMAIN llm'[d].tried}
    BY DEF BindingsTried, Met
  <2>2. ASSUME NEW d \in Callers, llm'[d].pc = "answered", llm'[d].status = 429
        PROVE  /\ TerminalFaults(d)' = {"rate_limited"}
               /\ \/ {llm'[d].tried[i].binding : i \in DOMAIN llm'[d].tried} = 1..Bindings
                  \/ now' >= llm'[d].deadline
    <3>1. /\ TerminalFaults(d)' = {"rate_limited"}
          /\ BindingsTried(llm[d])' = 1..Bindings \/ now' >= llm'[d].deadline
      BY <1>3, <2>2
    <3>2. QED
      BY <2>1, <3>1
  <2>3. QED
    BY <2>2 DEF RateLimitedMeansAll
<1>6. QED
  BY <1>1, <1>2, <1>4, <1>5
\* What a step that is not a completion's keeps of the model gateway.
ModelSide == ModelShape /\ BindingsAreTried /\ RateLimitedMeansAll /\ CacheAges

LEMMA ModelFrame ==
  ASSUME RunInv, UNCHANGED <<llmVars, now>>
  PROVE  ModelSide'
<1>1. /\ llm' = llm /\ rpm' = rpm /\ card' = card /\ cached' = cached /\ revoked' = revoked
      /\ latency' = latency /\ now' = now
  BY DEF llmVars
<1>2. ModelShape'
  BY <1>1 DEF RunInv, ModelShape, CompletionShape
<1>3. BindingsAreTried'
  BY <1>1 DEF RunInv, BindingsAreTried, BindingsTried, Met
<1>4. RateLimitedMeansAll' /\ CacheAges'
  BY <1>1 DEF RunInv, RateLimitedMeansAll, TerminalFaults, CacheAges
<1>5. QED
  BY <1>2, <1>3, <1>4 DEF ModelSide

\* A completion's step that has no card on its way.
LEMMA CompletesFrame ==
  ASSUME RunInv, NEW c \in Callers, Completes(c), llm'[c].pc # "returning", now' = now,
         UNCHANGED <<card, cached, revoked, latency>>
  PROVE  ModelSide'
<1>1. ModelShape'
  BY CompletesKeeps DEF RunInv, ModelShape, CompletionShape, Completes
<1>2. \A d \in Callers : llm'[d].pc = "returning" => llm'[d] = llm[d]
  BY DEF Completes
<1>3. CacheAges'
  BY <1>2 DEF RunInv, CacheAges
<1>4. QED
  BY <1>1, <1>3, CompletesKeeps DEF ModelSide

\* What is on its way is the card of the moment it was read.
LEMMA ReadKeeps ==
  ASSUME RunInv, NEW c \in Callers, ReadCard(c), now' = now
  PROVE  ModelSide'
<1>1. /\ Completes(c) /\ llm'[c].seen = card /\ llm'[c].asOf = now
      /\ card' = card /\ revoked' = revoked /\ cached' = cached /\ latency' = latency
  BY ReadCardCompletes DEF ReadCard
<1>2. now \in Nat
  BY DEF RunInv, ToolShape
<1>3. ModelShape'
  BY <1>1, CompletesKeeps DEF RunInv, ModelShape, CompletionShape, Completes
<1>4. \A d \in Callers : d = c \/ llm'[d] = llm[d]
  BY <1>1 DEF Completes
<1>5. CacheAges'
  BY <1>1, <1>2, <1>4 DEF RunInv, CacheAges
<1>6. QED
  BY <1>1, <1>3, <1>5, CompletesKeeps DEF ModelSide

\* The registry's answer is remembered for its lifetime from when it came
\* (allowlist.ts).
LEMMA RememberKeeps ==
  ASSUME RunInv, NEW c \in Callers, RememberAllowlist(c), llm'[c].pc # "returning", now' = now
  PROVE  ModelSide'
<1>1. Completes(c) /\ card' = card /\ revoked' = revoked
  BY RememberCompletes DEF RememberAllowlist
<1>2. /\ now \in Nat /\ AllowTtl \in Nat /\ card \subseteq Classes /\ cached \in [classes : SUBSET Classes, until : Nat]
      /\ latency \in Nat /\ revoked \in [Classes -> Nat]
      /\ llm[c].seen \subseteq Classes /\ llm[c].asOf \in Nat /\ llm[c].pc = "returning"
  BY LlmGatewayAssumption DEF RunInv, ToolShape, ModelShape, CompletionShape, RememberAllowlist
<1>3. PICK seen, asOf : seen = llm[c].seen /\ asOf = llm[c].asOf
  OBVIOUS
<1>4. /\ cached' = [classes |-> seen, until |-> now + AllowTtl]
      /\ latency' = IF now - asOf > latency THEN now - asOf ELSE latency
  BY <1>3 DEF RememberAllowlist
<1>5. asOf <= now /\ \A k \in seen : k \in card \/ asOf < revoked[k]
  BY <1>2, <1>3 DEF RunInv, CacheAges
<1>6. latency' \in Nat /\ now - asOf <= latency'
  BY <1>2, <1>3, <1>4, <1>5
<1>7. cached' \in [classes : SUBSET Classes, until : Nat] /\ cached'.classes = seen /\ cached'.until = now + AllowTtl
  BY <1>2, <1>3, <1>4
<1>8. ASSUME NEW k \in seen
      PROVE  k \in card \/ cached'.until + 1 <= revoked[k] + AllowTtl + latency'
  <2>1. revoked[k] \in Nat
    BY <1>2, <1>3
  <2>2. asOf < revoked[k] => (now + AllowTtl) + 1 <= revoked[k] + AllowTtl + latency'
    BY <1>2, <1>3, <1>6, <2>1
  <2>3. QED
    BY <1>5, <1>7, <2>2
<1>9. \A d \in Callers : llm'[d].pc = "returning" => llm'[d] = llm[d]
  BY <1>1 DEF Completes
<1>10. CacheAges'
  BY <1>1, <1>2, <1>7, <1>8, <1>9 DEF RunInv, CacheAges
<1>11. ModelShape'
  BY <1>1, <1>6, <1>7, CompletesKeeps DEF RunInv, ModelShape, CompletionShape, Completes
<1>12. QED
  BY <1>1, <1>10, <1>11, CompletesKeeps DEF ModelSide

\* A class that leaves the card may be cached, but only since before.
LEMMA ChangeCardKeeps ==
  ASSUME RunInv, NEW k, ChangeCard(k), now' = now
  PROVE  ModelSide'
<1>1. /\ k \in card /\ card' = card \ {k} /\ revoked' = [revoked EXCEPT ![k] = now + 1]
      /\ llm' = llm /\ rpm' = rpm /\ cached' = cached /\ latency' = latency
  BY DEF ChangeCard
<1>2. /\ now \in Nat /\ AllowTtl \in Nat /\ card \subseteq Classes /\ revoked \in [Classes -> Nat]
      /\ cached \in [classes : SUBSET Classes, until : Nat] /\ latency \in Nat
      /\ \A c \in Callers : llm[c].seen \subseteq Classes /\ llm[c].asOf \in Nat
  BY LlmGatewayAssumption DEF RunInv, ToolShape, ModelShape, CompletionShape
<1>3. ModelShape'
  <2>1. card' \subseteq Classes /\ revoked' \in [Classes -> Nat]
    <3>1. card' \subseteq Classes
      BY <1>1, <1>2
    <3>2. now + 1 \in Nat
      BY <1>2
    <3>3. QED
      BY <1>1, <1>2, <3>1, <3>2
  <2>2. QED
    BY <1>1, <2>1 DEF RunInv, ModelShape, CompletionShape
<1>4. BindingsAreTried' /\ RateLimitedMeansAll'
  <2>1. BindingsAreTried'
    BY <1>1 DEF RunInv, BindingsAreTried, BindingsTried, Met
  <2>2. \A c \in Callers : TerminalFaults(c)' = TerminalFaults(c)
    BY <1>1 DEF TerminalFaults
  <2>3. RateLimitedMeansAll'
    BY <1>1, <2>2 DEF RunInv, RateLimitedMeansAll
  <2>4. QED
    BY <2>1, <2>3
<1>5. CacheAges'
  <2>1. cached.until <= now + AllowTtl
    BY DEF RunInv, CacheAges
  <2>2. ASSUME NEW l \in cached.classes
        PROVE  l \in card' \/ cached.until + 1 <= revoked'[l] + AllowTtl + latency
    <3>1. CASE l = k
      BY <1>1, <1>2, <2>1, <3>1
    <3>2. CASE l # k
      BY <1>1, <1>2, <3>2 DEF RunInv, CacheAges
    <3>3. QED
      BY <3>1, <3>2
  <2>3. ASSUME NEW c \in Callers, llm[c].pc = "returning"
        PROVE  llm[c].asOf <= now /\ \A l \in llm[c].seen : l \in card' \/ llm[c].asOf < revoked'[l]
    <3>1. llm[c].asOf <= now /\ llm[c].asOf \in Nat /\ llm[c].seen \subseteq Classes
      BY <1>2, <2>3 DEF RunInv, CacheAges
    <3>2. ASSUME NEW l \in llm[c].seen
          PROVE  l \in card' \/ llm[c].asOf < revoked'[l]
      <4>1. l \in card \/ llm[c].asOf < revoked[l]
        BY <2>3 DEF RunInv, CacheAges
      <4>2. CASE l = k
        BY <1>1, <1>2, <3>1, <4>2
      <4>3. CASE l # k
        BY <1>1, <1>2, <3>1, <4>1, <4>3
      <4>4. QED
        BY <4>2, <4>3
    <3>3. QED
      BY <3>1, <3>2
  <2>4. now' = now
    OBVIOUS
  <2>5. QED
    BY <1>1, <2>1, <2>2, <2>3, <2>4 DEF CacheAges
<1>6. QED
  BY <1>3, <1>4, <1>5 DEF ModelSide

\* Time passes: caps refill, deadlines come nearer and the cache ages.
LEMMA TickModel ==
  ASSUME RunInv, Tick
  PROVE  ModelSide'
<1>1. /\ now' = now + 1 /\ rpm' = RpmRefilled /\ llm' = llm /\ card' = card /\ cached' = cached /\ revoked' = revoked
      /\ latency' = latency
  BY DEF Tick
<1>2. /\ now \in Nat /\ AllowTtl \in Nat /\ Rpm \in Nat /\ RpmRefill \in Nat
      /\ cached \in [classes : SUBSET Classes, until : Nat] /\ \A c \in Callers : llm[c].asOf \in Nat
  BY LlmGatewayAssumption DEF RunInv, ToolShape, ModelShape, CompletionShape
<1>3. rpm' \in [1..Bindings -> 0..Rpm]
  <2>1. \A b \in 1..Bindings : (IF rpm[b] + RpmRefill < Rpm THEN rpm[b] + RpmRefill ELSE Rpm) \in 0..Rpm
    BY <1>2 DEF RunInv, ModelShape
  <2>2. QED
    BY <1>1, <2>1 DEF RpmRefilled
<1>4. ModelShape'
  BY <1>1, <1>3 DEF RunInv, ModelShape, CompletionShape
<1>5. BindingsAreTried'
  BY <1>1 DEF RunInv, BindingsAreTried, BindingsTried, Met
<1>6. RateLimitedMeansAll'
  <2>1. \A c \in Callers : TerminalFaults(c)' = TerminalFaults(c)
    BY <1>1 DEF TerminalFaults
  <2>2. \A c \in Callers : now >= llm[c].deadline => now' >= llm'[c].deadline
    <3>1. \A c \in Callers : llm[c].deadline \in Nat
      BY DEF RunInv, ModelShape, CompletionShape
    <3>2. QED
      BY <1>1, <1>2, <3>1
  <2>3. QED
    BY <1>1, <2>1, <2>2 DEF RunInv, RateLimitedMeansAll
<1>7. CacheAges'
  BY <1>1, <1>2 DEF RunInv, CacheAges
<1>8. QED
  BY <1>4, <1>5, <1>6, <1>7 DEF ModelSide

-----------------------------------------------------------------------------
(* The invariant.                                                          *)

ToolSide ==
  /\ Loaded /\ StepShape /\ ToolShape
  /\ TokensAreGrounded /\ CallsAreAdmitted /\ SuccessesAreApplied /\ CompletedWasApplied
  /\ LimiterCounts /\ LimiterServesTheAllowed /\ WritesArePaid

\* A step's own action.
LEMMA MovesKeeps ==
  ASSUME RunInv, NEW s \in Steps, Moves(s), StepShape', now' = now
  PROVE  ToolSide'
  BY MovesFrame, MovesGrounded, MovesApplied, MovesPaid DEF ToolSide

LEMMA StepActionKeeps ==
  ASSUME RunInv, NEW s \in Steps, StepAction(s)
  PROVE  ToolSide' /\ SwitchShape' /\ ModelSide'
<1>1. UNCHANGED <<switchVars, llmVars, now>> /\ now' = now /\ scope' = scope
  BY DEF StepAction, Orchestrate, Serve, AuthorizeStep, Decided, BrokerToken, BrokerTokenFails,
         CallTool, ExchangeRefused, HearAnswer, Conforms, HearError, AttemptLost
<1>2. SwitchShape' /\ ModelSide'
  BY <1>1, SwitchKeeps, ModelFrame
<1>3. CASE CallTool(s)
  BY <1>1, <1>2, <1>3, CallToolKeeps DEF ToolSide
<1>4. CASE ~CallTool(s)
  <2>1. Moves(s) /\ StepShape'
    BY <1>4, AuthorizeStepMoves, DecidedMoves, BrokerTokenMoves, BrokerTokenFailsMoves,
       ExchangeRefusedMoves, HearAnswerMoves, HearErrorMoves, AttemptLostMoves
       DEF StepAction, Orchestrate, Serve
  <2>2. QED
    BY <1>1, <1>2, <2>1, MovesKeeps
<1>5. QED
  BY <1>3, <1>4
\* A step that asks its model, or hears from it.
LEMMA ModelActionKeeps ==
  ASSUME RunInv, NEW s \in Steps, ModelAction(s)
  PROVE  ToolSide' /\ SwitchShape' /\ ModelSide'
<1>1. Moves(s) /\ StepShape' /\ Completes(Asked(s)) /\ llm'[Asked(s)].pc # "returning"
  BY AskModelMoves, HearModelMoves, AskModelCompletes, HearModelCompletes DEF ModelAction
<1>2. /\ now' = now /\ scope' = scope /\ UNCHANGED <<card, cached, revoked, latency>> /\ UNCHANGED switchVars
      /\ pc[s] \in {"running", "asking"}
  BY DEF ModelAction, AskModel, HearModel, Conforms, Moves
<1>3. PICK c \in Callers : c = Asked(s)
  BY <1>2, AskedIsACaller
<1>4. ModelSide'
  BY <1>1, <1>2, <1>3, CompletesFrame
<1>5. QED
  BY <1>1, <1>2, <1>4, MovesKeeps, SwitchKeeps

\* A step of the model gateway.
LEMMA CompletionActionKeeps ==
  ASSUME RunInv, NEW c \in Callers, CompletionAction(c)
  PROVE  ToolSide' /\ SwitchShape' /\ ModelSide'
<1>1. /\ Complete(c, token[c[1]], Jwks) /\ UNCHANGED switchVars /\ UNCHANGED <<toolVars, stepVars, now, faults>>
      /\ now' = now /\ scope' = scope
  BY DEF CompletionAction, stepVars
<1>2. ToolSide' /\ SwitchShape'
  BY <1>1, QuietKeeps, SwitchKeeps DEF ToolSide
<1>3. Completes(c) /\ (llm'[c].pc = "returning" => ReadCard(c))
  BY <1>1, CompletionMoves
<1>4. CASE ReadCard(c)
  BY <1>1, <1>2, <1>4, ReadKeeps
<1>5. CASE RememberAllowlist(c) /\ ~ReadCard(c)
  BY <1>1, <1>2, <1>3, <1>5, RememberKeeps
<1>6. CASE ~ReadCard(c) /\ ~RememberAllowlist(c)
  <2>1. UNCHANGED <<card, cached, revoked, latency>>
    BY <1>1, <1>6 DEF Complete, ReceiveCompletion, CheckAllowlist, AllowlistUnavailable, Attempt,
                      AttemptFails, Exhausted
  <2>2. QED
    BY <1>1, <1>2, <1>3, <1>6, <2>1, CompletesFrame
<1>7. QED
  BY <1>4, <1>5, <1>6

\* A step of the tool gateway.
LEMMA CallActionKeeps ==
  ASSUME RunInv, NEW c \in DOMAIN calls, CallAction(c)
  PROVE  ToolSide' /\ SwitchShape' /\ ModelSide'
<1>1. Gate(c) /\ UNCHANGED stepVars /\ UNCHANGED switchVars /\ UNCHANGED <<llmVars, now>> /\ now' = now /\ scope' = scope
  BY DEF CallAction, stepVars
<1>2. Handles(c)
  BY <1>1, GateHandles
<1>3. /\ Loaded' /\ StepShape' /\ ToolShape' /\ TokensAreGrounded' /\ DOMAIN calls' = DOMAIN calls
  BY <1>1, <1>2, HandlesFrame
<1>4. /\ CallsAreAdmitted' /\ SuccessesAreApplied' /\ CompletedWasApplied'
      /\ LimiterCounts' /\ LimiterServesTheAllowed' /\ WritesArePaid'
  BY <1>1, <1>2, <1>3, HandlesAdmitted, HandlesApplied, HandlesLimited, HandlesPaid
<1>5. QED
  BY <1>1, <1>3, <1>4, SwitchKeeps, ModelFrame DEF ToolSide

LEMMA EnvironmentKeeps ==
  ASSUME RunInv, Environment
  PROVE  ToolSide' /\ SwitchShape' /\ ModelSide'
<1>1. CASE Tick
  <2>1. scope' = scope /\ UNCHANGED switchVars
    BY <1>1 DEF Tick, stepVars
  <2>2. QED
    BY <1>1, <2>1, TickKeeps, TickModel, SwitchKeeps DEF ToolSide
<1>2. CASE Crash /\ UNCHANGED <<llmVars, stepVars, now>>
  <2>1. now' = now /\ UNCHANGED stepVars /\ UNCHANGED <<llmVars, now>>
    BY <1>2
  <2>2. QED
    BY <1>2, <2>1, CrashKeeps, ModelFrame DEF ToolSide
<1>3. CASE (Flip(scope.flags) \/ \E w \in Watchers : Deliver(w)) /\ UNCHANGED <<toolVars, llmVars, stepVars, now, faults>>
  <2>1. scope' = scope /\ UNCHANGED <<llmVars, now>> /\ UNCHANGED <<toolVars, stepVars, now, faults>>
    BY <1>3 DEF stepVars
  <2>2. QED
    BY <1>3, <2>1, QuietKeeps, SwitchKeeps, ModelFrame DEF ToolSide
<1>4. CASE (\E k \in scope.classes : ChangeCard(k)) /\ UNCHANGED <<switchVars, toolVars, stepVars, now, faults>>
  <2>1. scope' = scope /\ UNCHANGED switchVars /\ now' = now /\ UNCHANGED <<toolVars, stepVars, now, faults>>
    BY <1>4 DEF stepVars
  <2>2. ModelSide'
    BY <1>4, <2>1, ChangeCardKeeps
  <2>3. QED
    BY <2>1, <2>2, QuietKeeps, SwitchKeeps DEF ToolSide
<1>5. QED
  BY <1>1, <1>2, <1>3, <1>4 DEF Environment

\* A step asks once in a run of its handler, whatever the others do.
LEMMA WaitsKeeps ==
  ASSUME RunInv, [Next]_vars
  PROVE  WaitsForItsOwn'
<1>1. /\ pc \in [Steps -> StepPcs] /\ DOMAIN tries = Steps /\ DOMAIN runs = Steps /\ DOMAIN load = Steps
      /\ llm = [d \in Callers |-> llm[d]]
  BY DEF RunInv, StepShape, ModelShape, Loaded
<1>2. ASSUME NEW r \in Steps, pc'[r] = "asking", pc[r] = "asking", tries'[r] = tries[r], runs'[r] = runs[r],
             load' = load, \A c \in Callers : c = Asked(r) => llm'[c].class = llm[c].class
      PROVE  llm'[Asked(r)'].class = load'[r].class
  <2>1. Asked(r)' = Asked(r)
    BY <1>2 DEF Asked
  <2>2. Asked(r) \in Callers /\ llm[Asked(r)].class = load[r].class
    BY <1>2, AskedIsACaller DEF RunInv, WaitsForItsOwn
  <2>3. PICK c \in Callers : c = Asked(r)
    BY <2>2
  <2>4. QED
    BY <1>2, <2>1, <2>2, <2>3
<1>3. CASE UNCHANGED <<load, pc, tries, runs>> /\ llm' = llm
  BY <1>2, <1>3 DEF WaitsForItsOwn
<1>4. ASSUME NEW s \in Steps, StepAction(s)
      PROVE  WaitsForItsOwn'
  <2>1. llm' = llm /\ load' = load
    BY <1>4 DEF StepAction, llmVars, Orchestrate, Serve, AuthorizeStep, Decided, BrokerToken, BrokerTokenFails,
                CallTool, ExchangeRefused, HearAnswer, Conforms, HearError, AttemptLost
  <2>2. \A r \in Steps \ {s} : pc'[r] = pc[r] /\ tries'[r] = tries[r] /\ runs'[r] = runs[r]
    <3>1. CASE CallTool(s)
      BY <1>1, <3>1 DEF CallTool, Move
    <3>2. CASE ~CallTool(s)
      <4>1. Moves(s)
        BY <1>4, <3>2, AuthorizeStepMoves, DecidedMoves, BrokerTokenMoves, BrokerTokenFailsMoves,
           ExchangeRefusedMoves, HearAnswerMoves, HearErrorMoves, AttemptLostMoves
           DEF StepAction, Orchestrate, Serve
      <4>2. QED
        BY <4>1 DEF Moves
    <3>3. QED
      BY <3>1, <3>2
  <2>3. pc'[s] # "asking"
    <3>1. (\E to \in {"minting", "gated", "running", "calling", "done"} : Move(s, to))
          \/ (pc' = pc /\ pc[s] = "minting")
      BY <1>4 DEF StepAction, Orchestrate, Serve, AuthorizeStep, Decided, BrokerToken, BrokerTokenFails, CallTool,
                  ExchangeRefused, HearAnswer, Conforms, HearError, AttemptLost, Finish, Again
    <3>2. QED
      BY <1>1, <3>1 DEF Move
  <2>4. QED
    BY <1>2, <2>1, <2>2, <2>3 DEF WaitsForItsOwn
<1>5. ASSUME NEW s \in Steps, ModelAction(s)
      PROVE  WaitsForItsOwn'
  <2>1. pc[s] \in {"running", "asking"} /\ Moves(s)
    BY <1>5, AskModelMoves, HearModelMoves DEF ModelAction, AskModel, HearModel
  <2>2. PICK c \in Callers : c = Asked(s) /\ c[1] = s
    BY <2>1, AskedIsACaller
  <2>3. Completes(c)
    BY <1>5, <2>2, AskModelCompletes, HearModelCompletes DEF ModelAction
  <2>4. ASSUME NEW r \in Steps, r # s, pc'[r] = "asking"
        PROVE  llm'[Asked(r)'].class = load'[r].class
    <3>1. pc[r] = "asking" /\ tries'[r] = tries[r] /\ runs'[r] = runs[r] /\ load' = load
      BY <2>1, <2>4 DEF Moves
    <3>2. Asked(r)[1] = r
      BY <3>1, AskedIsACaller
    <3>3. \A d \in Callers : d = Asked(r) => llm'[d] = llm[d]
      BY <2>2, <2>3, <2>4, <3>2 DEF Completes
    <3>4. QED
      BY <1>2, <2>4, <3>1, <3>3
  <2>5. ASSUME pc'[s] = "asking"
        PROVE  llm'[Asked(s)'].class = load'[s].class
    <3>1. AskModel(s)
      <4>1. ~HearModel(s)
        <5>1. HearModel(s) => \E to \in {"running", "done"} : Move(s, to)
          BY DEF HearModel, Conforms, Again, Finish
        <5>2. QED
          BY <1>1, <2>5, <5>1 DEF Move
      <4>2. QED
        BY <1>5, <4>1 DEF ModelAction
    <3>2. Asked(s)' = Asked(s) /\ load' = load
      BY <3>1 DEF AskModel, Asked
    <3>3. QED
      BY <3>1, <3>2, AskModelCompletes
  <2>6. QED
    BY <2>4, <2>5 DEF WaitsForItsOwn
<1>6. ASSUME NEW c \in Callers, CompletionAction(c)
      PROVE  WaitsForItsOwn'
  <2>1. UNCHANGED <<load, pc, tries, runs>> /\ Complete(c, token[c[1]], Jwks)
    BY <1>6 DEF CompletionAction, stepVars
  <2>2. Completes(c) /\ llm'[c].class = llm[c].class
    BY <2>1, CompletionMoves
  <2>3. \A d \in Callers : llm'[d].class = llm[d].class
    BY <2>2 DEF Completes
  <2>4. QED
    BY <1>2, <2>1, <2>3 DEF WaitsForItsOwn
<1>7. ASSUME NEW c \in DOMAIN calls, CallAction(c)
      PROVE  WaitsForItsOwn'
  BY <1>3, <1>7 DEF CallAction, stepVars, llmVars
<1>8. CASE Environment
  BY <1>3, <1>8 DEF Environment, Tick, ChangeCard, stepVars, llmVars
<1>9. CASE UNCHANGED vars
  BY <1>3, <1>9 DEF vars, stepVars, llmVars
<1>10. QED
  BY <1>4, <1>5, <1>6, <1>7, <1>8, <1>9 DEF Next

LEMMA NextKeeps ==
  ASSUME RunInv, [Next]_vars
  PROVE  RunInv'
<1>1. WaitsForItsOwn'
  BY WaitsKeeps
<1>2. CASE \E s \in Steps : StepAction(s) \/ ModelAction(s)
  BY <1>1, <1>2, StepActionKeeps, ModelActionKeeps DEF RunInv, ToolSide, ModelSide
<1>3. CASE \E c \in DOMAIN calls : CallAction(c)
  BY <1>1, <1>3, CallActionKeeps DEF RunInv, ToolSide, ModelSide
<1>4. CASE \E c \in Callers : CompletionAction(c)
  BY <1>1, <1>4, CompletionActionKeeps DEF RunInv, ToolSide, ModelSide
<1>5. CASE Environment
  BY <1>1, <1>5, EnvironmentKeeps DEF RunInv, ToolSide, ModelSide
<1>6. CASE UNCHANGED vars
  <2>1. /\ scope' = scope /\ UNCHANGED switchVars /\ UNCHANGED <<llmVars, now>>
        /\ UNCHANGED <<toolVars, stepVars, now, faults>>
    BY <1>6 DEF vars, stepVars
  <2>2. QED
    BY <1>1, <2>1, QuietKeeps, SwitchKeeps, ModelFrame DEF RunInv, ToolSide, ModelSide
<1>7. QED
  BY <1>2, <1>3, <1>4, <1>5, <1>6 DEF Next
\* A run starts with nothing minted, called, tried or cached.
LEMMA InitKeeps ==
  ASSUME Init
  PROVE  RunInv
<1>1. PICK chosen \in LoadSet : load = chosen.steps /\ scope = chosen.scope /\ faults = MaxFaults - chosen.scope.faults
  BY DEF Init
<1>2. Loaded /\ scope.faults \in 0..MaxFaults /\ MaxFaults \in Nat /\ faults = MaxFaults - scope.faults
  BY <1>1, LoadAssumption, ToolGatewayAssumption DEF Loaded
<1>3. /\ calls = <<>> /\ effects = {} /\ quota = [t \in DOMAIN ToolScope |-> Burst] /\ now = 0
      /\ pc = [s \in Steps |-> load[s].start] /\ approved = {} /\ token = [s \in Steps |-> NoToken]
      /\ tries = [s \in Steps |-> 0] /\ runs = [s \in Steps |-> 0] /\ slot = [s \in Steps |-> 0]
      /\ result = [s \in Steps |-> "none"]
  BY DEF Init, ToolGatewayInit
<1>4. Burst \in Nat
  BY ToolGatewayAssumption DEF Configured
<1>5. DOMAIN calls = {} /\ Len(calls) = 0 /\ calls \in Seq({calls[c] : c \in DOMAIN calls})
  BY <1>3
<1>6. \A s \in Steps : pc[s] \in {"authorizing", "done"} /\ pc[s] = load[s].start
  BY <1>2, <1>3 DEF Loaded, StepLoad
<1>7. SwitchShape
  <2>1. bucket = <<{}>> /\ heard = [w \in Watchers |-> 1]
    BY DEF Init, KillSwitchInit
  <2>2. {} \in SUBSET scope.flags
    OBVIOUS
  <2>3. \A S : \A x \in S : <<x>> \in Seq(S) /\ Len(<<x>>) = 1
    BY ShortSequences
  <2>4. bucket \in Seq(SUBSET scope.flags) /\ Len(bucket) = 1
    BY <2>1, <2>2, <2>3
  <2>5. QED
    BY <2>1, <2>4 DEF SwitchShape
<1>8. StepShape
  <2>1. pc \in [Steps -> StepPcs]
    BY <1>3, <1>6 DEF StepPcs
  <2>2. tries \in [Steps -> 0..MintAttempts + RunAttempts]
    BY <1>3, AgentRunAssumption
  <2>3. QED
    BY <1>3, <1>5, <1>6, <2>1, <2>2 DEF StepShape
<1>9. ToolShape
  BY <1>2, <1>3, <1>4, <1>5, FS_EmptySet DEF ToolShape
<1>10. ModelShape
  <2>1. /\ llm = [c \in Callers |-> NoCompletion] /\ rpm = [b \in 1..Bindings |-> Rpm]
        /\ card = Classes /\ cached = [classes |-> {}, until |-> 0] /\ revoked = [c \in Classes |-> 0]
        /\ latency = 0
    BY DEF Init, LlmGatewayInit, NoCache, NeverRevoked
  <2>2. CompletionShape(NoCompletion)
    <3>1. 1 \in 1..Bindings + 1
      BY LlmGatewayAssumption
    <3>2. PICK S : S = [binding : 1..Bindings, outcome : Outcomes]
      OBVIOUS
    <3>3. <<>> \in Seq(S)
      OBVIOUS
    <3>4. NoCompletion.tried \in Seq([binding : 1..Bindings, outcome : Outcomes])
      BY <3>2, <3>3 DEF NoCompletion
    <3>5. QED
      BY <3>1, <3>4 DEF NoCompletion, CompletionShape
  <2>3. rpm \in [1..Bindings -> 0..Rpm] /\ cached \in [classes : SUBSET Classes, until : Nat]
    BY <2>1, LlmGatewayAssumption
  <2>4. revoked \in [Classes -> Nat] /\ card \subseteq Classes
    BY <2>1
  <2>5. QED
    BY <2>1, <2>2, <2>3, <2>4 DEF ModelShape
<1>11. /\ \A c \in Callers : llm[c].pc = "idle" /\ llm[c].status = 0 /\ llm[c].binding = 1
       /\ cached.classes = {} /\ cached.until = 0 /\ AllowTtl \in Nat
  BY LlmGatewayAssumption DEF Init, LlmGatewayInit, NoCompletion, NoCache
<1>12. BindingsAreTried /\ RateLimitedMeansAll /\ CacheAges
  BY <1>3, <1>11 DEF BindingsAreTried, RateLimitedMeansAll, CacheAges
<1>13. TokensAreGrounded /\ CallsAreAdmitted /\ SuccessesAreApplied /\ CompletedWasApplied
  BY <1>3, <1>5, <1>6 DEF TokensAreGrounded, CallsAreAdmitted, SuccessesAreApplied, CompletedWasApplied
<1>14. LimiterCounts /\ LimiterServesTheAllowed
  <2>1. \A t : AdmittedTo(t) = {}
    BY <1>5 DEF AdmittedTo
  <2>2. \A t : Cardinality(AdmittedTo(t)) = 0
    BY <2>1, FS_EmptySet
  <2>3. \A t \in DOMAIN ToolScope : quota[t] + Cardinality(AdmittedTo(t)) >= Burst
    BY <1>3, <1>4, <2>2
  <2>4. QED
    BY <1>5, <2>3 DEF LimiterCounts, LimiterServesTheAllowed
<1>15. WritesArePaid
  <2>1. \A s \in Steps : WritesOf(s) = {} /\ InFlight(s) = {}
    BY <1>3, <1>5 DEF WritesOf, InFlight
  <2>2. \A s \in Steps : Cardinality(WritesOf(s)) = 0 /\ Cardinality(InFlight(s)) = 0
    BY <2>1, FS_EmptySet
  <2>3. Spent = 0 /\ MaxFaults - scope.faults <= faults
    BY <1>2 DEF Spent
  <2>4. QED
    BY <2>2, <2>3 DEF WritesArePaid
<1>16. WaitsForItsOwn
  BY <1>6 DEF WaitsForItsOwn
<1>17. QED
  BY <1>2, <1>7, <1>8, <1>9, <1>10, <1>12, <1>13, <1>14, <1>15, <1>16 DEF RunInv

-----------------------------------------------------------------------------
(* What the invariant says of writes.                                      *)

\* The call of a write, the step it is for and what its bearer claims.
LEMMA WriteOfAStep ==
  ASSUME RunInv, NEW e \in effects
  PROVE  \E call : \E s \in Steps :
           /\ call = calls[e.call] /\ e.call \in DOMAIN calls /\ s = e.step
           /\ call.step = s /\ call.tool = e.tool /\ e.tool \in DOMAIN ToolScope /\ Write(e.tool)
           /\ Admitted(call) /\ BearerOf(call) /\ MintedFor(s)
           /\ IsAgent(load[s].client) /\ AgentOf[load[s].client] = AgentOf[load[s].agent]
           /\ Actor(call.token) = load[s].client
<1>1. e.call \in DOMAIN calls /\ e.step \in Steps /\ e.tool \in DOMAIN ToolScope
  BY CallTypes DEF RunInv, ToolShape
<1>2. PICK call : call = calls[e.call]
  OBVIOUS
<1> DEFINE s == e.step
<1>3. call.step = s /\ call.tool = e.tool /\ Write(e.tool) /\ Admitted(call)
  BY <1>2 DEF RunInv, CallsAreAdmitted
<1>4. BearerOf(call) /\ MintedFor(s)
  <2>1. s = calls[e.call].step
    BY <1>2, <1>3
  <2>2. QED
    BY <1>1, <1>2, <2>1 DEF RunInv, TokensAreGrounded
<1>5. Actor(call.token) = load[s].client
  BY <1>3, <1>4 DEF BearerOf, Actor
<1>6. QED
  BY <1>1, <1>2, <1>3, <1>4, <1>5 DEF RunInv, Loaded
\* The claims of a bearer presented by the step's own agent version, and by
\* any other.
LEMMA BearersClaims ==
  ASSUME NEW s \in Steps, Loaded, NEW call, BearerOf(call), call.step = s
  PROVE  /\ OwnClient(s) =>
              /\ call.token.claims.brokered = load[s].task
              /\ call.token.claims.capability = [name |-> load[s].capability, risk |-> load[s].risk]
              /\ call.token.claims.capability # NoCapability
              /\ call.token.claims.compensation = load[s].undoes
              /\ call.token.claims.approval # NoApproval =>
                   s \in approved /\ call.token.claims.approval.capability = load[s].capability
              /\ load[s].shadow => call.token.claims.deployment = "shadow"
         /\ ~OwnClient(s) => /\ call.token.claims.capability = NoCapability
                             /\ call.token.claims.compensation = NoCompensation
                             /\ call.token.claims.approval = NoApproval
<1>1. CASE OwnClient(s)
  <2>1. call.token.claims = Grounds(s)
    BY <1>1 DEF BearerOf
  <2>2. load[s].capability # "none"
    BY DEF Loaded, StepLoad
  <2>3. [name |-> load[s].capability, risk |-> load[s].risk] # NoCapability
    BY <2>2 DEF NoCapability
  <2>4. QED
    BY <1>1, <2>1, <2>3 DEF Grounds
<1>2. CASE ~OwnClient(s)
  <2>1. call.token.claims = NoClaims
    BY <1>2 DEF BearerOf
  <2>2. QED
    BY <1>2, <2>1 DEF NoClaims
<1>3. QED
  BY <1>1, <1>2

\* An R2 write goes out on an approval of its capability, or to undo
\* (policies/itsm.cedar).
LEMMA PolicyOfWrites ==
  ASSUME NEW call, call.tool \in DOMAIN ToolScope, ToolRisk[call.tool] = "R2", IsAgent(Actor(call.token)),
         Authorize(call.tool, CedarContext(call)) = "allow"
  PROVE  \/ /\ call.tool \in {"change_submit", "change_withdraw"}
            /\ DeriveApproval(call).granted /\ DeriveApproval(call).capability = CapabilityFor(call.tool)
         \/ call.tool = "change_withdraw" /\ DeriveCompensation(call) = "change.submit"
<1>1. PICK context : context = CedarContext(call)
  OBVIOUS
<1>2. /\ context.entityType = "Agent" /\ context.approval = DeriveApproval(call)
      /\ context.compensation = DeriveCompensation(call)
  BY <1>1 DEF CedarContext
<1>3. /\ Determining(call.tool, context) # {}
      /\ Determining(call.tool, context) \cap ApprovalPolicies = {}
  BY <1>1 DEF Authorize
<1>4. call.tool \notin {"change_get", "change_create_draft", "knowledge_search"}
  BY CatalogueAssumption, ToolGatewayAssumption DEF Configured
<1>5. \/ call.tool = "change_submit" /\ SubmitPaired(context)
      \/ call.tool = "change_withdraw" /\ WithdrawPaired(context)
  <2>1. PICK p : p \in Determining(call.tool, context) /\ p \notin ApprovalPolicies
    BY <1>3
  <2>2. p # "gate-tool-itsm-change-submit" /\ p # "gate-tool-itsm-change-withdraw" /\ p # "gate-r2-delegation"
    BY <2>1 DEF ApprovalPolicies
  <2>3. ~Delegates(context) /\ context.entityType # "User"
    BY <1>2 DEF Delegates
  <2>4. QED
    BY <1>4, <2>1, <2>2, <2>3 DEF Determining
<1>6. QED
  BY <1>2, <1>5 DEF SubmitPaired, WithdrawPaired, Approved, CapabilityFor
LEMMA RunsTypes ==
  ASSUME RunInv
  PROVE  TypeOK
<1>1. \A w \in Watchers : heard[w] \in DOMAIN bucket
  <2>1. PICK S : bucket \in Seq(S)
    BY DEF RunInv, SwitchShape
  <2>2. DOMAIN bucket = 1..Len(bucket)
    BY <2>1, LenProperties
  <2>3. QED
    BY <2>2 DEF RunInv, SwitchShape
<1>2. \A s \in Steps : /\ slot[s] \in 0..Len(calls)
                       /\ tries[s] <= MintAttempts + RunAttempts /\ runs[s] \in 0..1
                       /\ (pc[s] = "calling") = (slot[s] # 0)
                       /\ (pc[s] = "done") = (result[s] # "none" \/ load[s].start = "done")
                       /\ pc[s] = "asking" => llm[Asked(s)].class = load[s].class
  <2> TAKE s \in Steps
  <2>1. slot[s] \in 0..Len(calls)
    BY CallTypes DEF RunInv, StepShape
  <2>2. tries[s] <= MintAttempts + RunAttempts /\ runs[s] \in 0..1
    BY AgentRunAssumption DEF RunInv, StepShape
  <2>3. pc[s] = "asking" => llm[Asked(s)].class = load[s].class
    BY DEF RunInv, WaitsForItsOwn
  <2>4. QED
    BY <2>1, <2>2, <2>3 DEF RunInv, StepShape
<1>3. \A t \in DOMAIN quota : quota[t] \in 0..Burst
  BY DEF RunInv, ToolShape
<1>4. \A b \in 1..Bindings : rpm[b] \in 0..Rpm
  BY DEF RunInv, ModelShape
<1>5. \A e \in effects : e.call \in DOMAIN calls /\ calls[e.call].step = e.step
  BY CallTypes DEF RunInv, ToolShape, CallsAreAdmitted
<1>6. \A c \in Callers : llm[c].binding \in 1..Bindings + 1
  BY DEF RunInv, ModelShape, CompletionShape
<1>7. QED
  BY <1>1, <1>2, <1>3, <1>4, <1>5, <1>6 DEF TypeOK

LEMMA RunsGrant ==
  ASSUME RunInv
  PROVE  WritesAreGranted
<1> SUFFICES ASSUME NEW e \in effects
             PROVE  /\ \/ Rank[ToolRisk[e.tool]] <= Rank[load[e.step].risk]
                       \/ ToolRisk[e.tool] = "R1" /\ ~OwnClient(e.step)
                    /\ ToolRisk[e.tool] = "R2" =>
                         \/ e.step \in approved /\ load[e.step].capability = CapabilityFor(e.tool)
                         \/ e.tool = "change_withdraw" /\ load[e.step].undoes = "change.submit"
  BY DEF WritesAreGranted
<1>1. PICK call : \E s \in Steps :
        /\ call = calls[e.call] /\ e.call \in DOMAIN calls /\ s = e.step
        /\ call.step = s /\ call.tool = e.tool /\ e.tool \in DOMAIN ToolScope /\ Write(e.tool)
        /\ Admitted(call) /\ BearerOf(call) /\ MintedFor(s)
        /\ IsAgent(load[s].client) /\ AgentOf[load[s].client] = AgentOf[load[s].agent]
        /\ Actor(call.token) = load[s].client
  BY WriteOfAStep
<1>2. PICK s \in Steps : s = e.step
  BY <1>1
<1>3. PICK tool : tool = e.tool
  OBVIOUS
<1>4. /\ call.step = s /\ call.tool = tool /\ tool \in DOMAIN ToolScope /\ Write(tool) /\ Admitted(call)
      /\ BearerOf(call) /\ IsAgent(Actor(call.token)) /\ Loaded
  BY <1>1, <1>2, <1>3 DEF RunInv
<1>5. ToolRisk[tool] \in {"R0", "R1", "R2", "R3"} /\ load[s].risk \in {"R0", "R1", "R2", "R3"}
  BY <1>4, ToolGatewayAssumption DEF Configured, Loaded, StepLoad, Rank
<1>6. Rank["R0"] = 0 /\ Rank["R1"] = 1 /\ Rank["R2"] = 2 /\ Rank["R3"] = 3
  BY DEF Rank
<1>7. /\ ToolRisk[tool] # "R3" /\ ToolRisk[tool] # "R0"
      /\ call.token.claims.capability = NoCapability => ToolRisk[tool] = "R1"
      /\ call.token.claims.capability # NoCapability => Rank[ToolRisk[tool]] <= Rank[call.token.claims.capability.risk]
  BY <1>4, <1>5, <1>6 DEF Admitted, EnforceRiskClass, Write
<1>8. CASE ~OwnClient(s)
  <2>1. ToolRisk[tool] = "R1"
    BY <1>4, <1>7, <1>8, BearersClaims
  <2>2. QED
    BY <1>2, <1>3, <1>8, <2>1
<1>9. CASE OwnClient(s)
  <2>1. Rank[ToolRisk[tool]] <= Rank[load[s].risk]
    <3>1. PICK capability : capability = call.token.claims.capability
      OBVIOUS
    <3>2. capability = [name |-> load[s].capability, risk |-> load[s].risk] /\ capability # NoCapability
      BY <1>4, <1>9, <3>1, BearersClaims
    <3>3. capability.risk = load[s].risk
      BY <3>2
    <3>4. QED
      BY <1>7, <3>1, <3>2, <3>3
  <2>2. ASSUME ToolRisk[tool] = "R2"
        PROVE  \/ s \in approved /\ load[s].capability = CapabilityFor(tool)
               \/ tool = "change_withdraw" /\ load[s].undoes = "change.submit"
    <3>1. \/ DeriveApproval(call).granted /\ DeriveApproval(call).capability = CapabilityFor(tool)
          \/ tool = "change_withdraw" /\ DeriveCompensation(call) = "change.submit"
      BY <1>4, <2>2, PolicyOfWrites DEF Admitted
    <3>2. CASE DeriveApproval(call).granted /\ DeriveApproval(call).capability = CapabilityFor(tool)
      <4>1. call.token.claims.approval # NoApproval /\ call.token.claims.approval.capability = CapabilityFor(tool)
        BY <3>2 DEF DeriveApproval
      <4>2. QED
        BY <1>4, <1>9, <4>1, BearersClaims
    <3>3. CASE tool = "change_withdraw" /\ DeriveCompensation(call) = "change.submit"
      <4>1. call.token.claims.compensation = "change.submit"
        BY <3>3 DEF DeriveCompensation, NoCompensation
      <4>2. QED
        BY <1>4, <1>9, <3>3, <4>1, BearersClaims
    <3>4. QED
      BY <3>1, <3>2, <3>3
  <2>3. QED
    BY <1>2, <1>3, <2>1, <2>2
<1>10. QED
  BY <1>8, <1>9

LEMMA RunsSuppress ==
  ASSUME RunInv
  PROVE  ShadowNeverWrites
<1> SUFFICES ASSUME NEW e \in effects, load[e.step].shadow, OwnClient(e.step)
             PROVE  FALSE
  BY DEF ShadowNeverWrites
<1>1. PICK call : \E s \in Steps :
        /\ call = calls[e.call] /\ e.call \in DOMAIN calls /\ s = e.step
        /\ call.step = s /\ call.tool = e.tool /\ e.tool \in DOMAIN ToolScope /\ Write(e.tool)
        /\ Admitted(call) /\ BearerOf(call) /\ MintedFor(s)
        /\ IsAgent(load[s].client) /\ AgentOf[load[s].client] = AgentOf[load[s].agent]
        /\ Actor(call.token) = load[s].client
  BY WriteOfAStep
<1>2. PICK s \in Steps : s = e.step
  BY <1>1
<1>3. call.token.claims.deployment = "shadow"
  BY <1>1, <1>2, BearersClaims DEF RunInv
<1>4. Write(call.tool) /\ ~Shadowed(call)
  BY <1>1 DEF Admitted, Passed
<1>5. QED
  BY <1>3, <1>4 DEF Shadowed

LEMMA RunsStop ==
  ASSUME RunInv
  PROVE  StopsAtTheSwitch
<1> SUFFICES ASSUME NEW e \in effects
             PROVE  LET view == calls[e.call].saw
                        step == load[e.step]
                    IN /\ ~AgentSuspension(view, AgentOf[step.agent])
                       /\ ~PrincipalDenied(view, User)
                       /\ OwnClient(e.step) => /\ ~PrincipalDenied(view, step.agent)
                                               /\ ~CapabilitySuspension(view, step.capability)
                       /\ step.undoes = NoCompensation =>
                            ~FleetHalt(view) /\ ~RiskClassSuspension(view, ToolRisk[e.tool])
  BY DEF StopsAtTheSwitch
<1>1. PICK call : \E s \in Steps :
        /\ call = calls[e.call] /\ e.call \in DOMAIN calls /\ s = e.step
        /\ call.step = s /\ call.tool = e.tool /\ e.tool \in DOMAIN ToolScope /\ Write(e.tool)
        /\ Admitted(call) /\ BearerOf(call) /\ MintedFor(s)
        /\ IsAgent(load[s].client) /\ AgentOf[load[s].client] = AgentOf[load[s].agent]
        /\ Actor(call.token) = load[s].client
  BY WriteOfAStep
<1>2. PICK s \in Steps : s = e.step
  BY <1>1
<1>3. PICK view : view = call.saw
  OBVIOUS
<1>4. ~Halted(call, view) /\ ~ToolHalted(call, view) /\ BearerOf(call) /\ call.step = s /\ Loaded
  BY <1>1, <1>2, <1>3 DEF Admitted, Passed, RunInv
<1>5. /\ Actor(call.token) = load[s].client /\ IsAgent(load[s].client)
      /\ AgentOf[load[s].client] = AgentOf[load[s].agent] /\ call.token.sub = User
  BY <1>1, <1>2, <1>4 DEF BearerOf
<1>6. ~AgentSuspension(view, AgentOf[load[s].agent]) /\ ~PrincipalDenied(view, User) /\ ~PrincipalDenied(view, load[s].client)
  BY <1>4, <1>5 DEF Halted
<1>7. ASSUME OwnClient(s)
      PROVE  ~PrincipalDenied(view, load[s].agent) /\ ~CapabilitySuspension(view, load[s].capability)
  <2>1. PICK capability : capability = call.token.claims.capability
    OBVIOUS
  <2>2. capability = [name |-> load[s].capability, risk |-> load[s].risk] /\ capability # NoCapability
    BY <1>4, <1>7, <2>1, BearersClaims
  <2>3. capability.name = load[s].capability
    BY <2>2
  <2>4. ~CapabilitySuspension(view, capability.name)
    BY <1>4, <2>1, <2>2 DEF Halted
  <2>5. QED
    BY <1>6, <1>7, <2>3, <2>4 DEF OwnClient
<1>8. ASSUME load[s].undoes = NoCompensation
      PROVE  ~FleetHalt(view) /\ ~RiskClassSuspension(view, ToolRisk[call.tool])
  <2>1. call.token.claims.compensation = NoCompensation
    BY <1>4, <1>8, BearersClaims
  <2>2. ~Unwinds(call)
    BY <2>1 DEF Unwinds, DeriveCompensation
  <2>3. QED
    BY <1>4, <2>2 DEF Halted, ToolHalted
<1>9. call.tool = e.tool /\ view = calls[e.call].saw
  BY <1>1, <1>3
<1>10. QED
  BY <1>2, <1>6, <1>7, <1>8, <1>9

LEMMA RunsCarryClaims ==
  ASSUME RunInv
  PROVE  ClaimsTravelWhole
<1> SUFFICES ASSUME NEW c \in DOMAIN calls
             PROVE  LET bearer == calls[c].token
                        step == calls[c].step
                    IN /\ bearer.scopes \subseteq load[step].scopes \cap Snapshot.scopes
                       /\ bearer.sub = User
                       /\ bearer.claims = IF Actor(bearer) = load[step].agent THEN token[step].claims ELSE NoClaims
  BY DEF ClaimsTravelWhole
<1>1. PICK call : call = calls[c]
  OBVIOUS
<1>2. PICK s \in Steps : s = call.step
  BY <1>1, CallTypes DEF RunInv
<1>3. BearerOf(call) /\ MintedFor(s)
  BY <1>1, <1>2 DEF RunInv, TokensAreGrounded
<1>4. call.token.scopes = load[s].scopes \cap Snapshot.scopes /\ call.token.sub = User
  BY <1>2, <1>3 DEF BearerOf
<1>5. Actor(call.token) = load[s].client /\ token[s].claims = Grounds(s)
  BY <1>2, <1>3 DEF BearerOf, MintedFor, Actor
<1>6. call.token.claims = IF Actor(call.token) = load[s].agent THEN token[s].claims ELSE NoClaims
  BY <1>2, <1>3, <1>5 DEF BearerOf, OwnClient
<1>7. QED
  BY <1>1, <1>2, <1>4, <1>6

LEMMA RunsAreSound ==
  ASSUME RunInv
  PROVE  WritesAreSound
  BY RunsTypes, RunsGrant, RunsSuppress, RunsStop, RunsCarryClaims DEF WritesAreSound

-----------------------------------------------------------------------------
(* What it says of answers.                                                *)

LEMMA RunsAnswerTruly ==
  ASSUME RunInv
  PROVE  AnswersAreTrue
<1>1. ExtraWritesAreFaults
  <2> SUFFICES ASSUME NEW s \in Steps
               PROVE  Cardinality({e \in effects : e.step = s}) <= 1 + Spent
    BY DEF ExtraWritesAreFaults
  <2>1. PICK w \in Nat, f \in Nat : w = Cardinality(WritesOf(s)) /\ f = Cardinality(InFlight(s))
    BY PaidSets DEF RunInv
  <2>2. w + f + (IF MayCall(s) THEN 1 ELSE 0) <= 1 + Spent
    BY <2>1 DEF RunInv, WritesArePaid
  <2>3. w <= 1 + Spent
    BY <2>2, SpentType
  <2>4. QED
    BY <2>1, <2>3 DEF WritesOf
<1>2. QED
  BY <1>1 DEF AnswersAreTrue, RunInv

\* A class that the allowlist lets through is on the card, or has left it for
\* less than the cache's lifetime and the longest journey of a card.
LEMMA ChecksAreRecent ==
  ASSUME RunInv, NEW c \in Callers, CheckAllowlist(c) \/ RememberAllowlist(c), llm'[c].pc = "trying"
  PROVE  llm[c].class \in card \/ now < revoked[llm[c].class] - 1 + AllowTtl + latency'
<1>1. PICK class, seen, asOf : class = llm[c].class /\ seen = llm[c].seen /\ asOf = llm[c].asOf
  OBVIOUS
<1>2. /\ now \in Nat /\ AllowTtl \in Nat \ {0} /\ revoked \in [Classes -> Nat] /\ latency \in Nat
      /\ cached \in [classes : SUBSET Classes, until : Nat] /\ seen \subseteq Classes /\ asOf \in Nat
  BY <1>1, LlmGatewayAssumption DEF RunInv, ToolShape, ModelShape, CompletionShape
<1>3. \A classes : Judge(c, classes) => class \in classes
  <2> SUFFICES ASSUME NEW classes, Judge(c, classes), class \notin classes
               PROVE  FALSE
    OBVIOUS
  <2>1. Status(c, 403)
    BY <1>1 DEF Judge
  <2>2. QED
    BY <2>1, StatusIs
<1>4. CASE CheckAllowlist(c) /\ Fresh
  <2>1. class \in cached.classes /\ cached.until > now /\ latency' = latency
    BY <1>3, <1>4 DEF CheckAllowlist, Fresh
  <2>2. class \in card \/ cached.until + 1 <= revoked[class] + AllowTtl + latency
    BY <2>1 DEF RunInv, CacheAges
  <2>3. cached.until \in Nat /\ revoked[class] \in Nat
    BY <1>2, <2>1
  <2>4. QED
    BY <1>1, <1>2, <2>1, <2>2, <2>3
<1>5. CASE CheckAllowlist(c) /\ ~Fresh
  <2>1. llm' = [llm EXCEPT ![c].pc = "fetching"] /\ llm = [d \in Callers |-> llm[d]] /\ CompletionShape(llm[c])
    BY <1>5 DEF CheckAllowlist, Fetch, RunInv, ModelShape
  <2>2. PICK old, new : old = llm[c] /\ new = llm'[c]
    OBVIOUS
  <2>3. new = [old EXCEPT !.pc = "fetching"]
    BY <2>1, <2>2
  <2>4. new.pc = "fetching"
    BY <2>1, <2>2, <2>3 DEF CompletionShape
  <2>5. QED
    BY <2>2, <2>4
<1>6. CASE RememberAllowlist(c)
  <2>1. class \in seen /\ latency' = IF now - asOf > latency THEN now - asOf ELSE latency
    BY <1>1, <1>3, <1>6 DEF RememberAllowlist
  <2>2. asOf <= now /\ (class \in card \/ asOf < revoked[class])
    BY <1>1, <1>6, <2>1 DEF RememberAllowlist, RunInv, CacheAges
  <2>3. revoked[class] \in Nat /\ latency' \in Nat /\ now - asOf <= latency'
    BY <1>2, <2>1, <2>2
  <2>4. asOf < revoked[class] => now < revoked[class] - 1 + AllowTtl + latency'
    BY <1>2, <2>3
  <2>5. QED
    BY <1>1, <2>2, <2>4
<1>7. QED
  BY <1>4, <1>5, <1>6

\* Only the allowlist lets a completion go on to its provider.
LEMMA TryingIsChecked ==
  ASSUME RunInv, [Next]_vars, NEW c \in Callers, llm[c].pc # "trying", llm'[c].pc = "trying"
  PROVE  CheckAllowlist(c) \/ RememberAllowlist(c)
<1>1. llm' # llm
  OBVIOUS
<1>2. (\E s \in Steps : ModelAction(s)) \/ (\E d \in Callers : CompletionAction(d))
  BY <1>1 DEF Next, vars, llmVars, StepAction, CallAction, Environment, Tick, ChangeCard
<1>3. ASSUME NEW s \in Steps, ModelAction(s)
      PROVE  FALSE
  <2>1. pc[s] \in {"running", "asking"}
    BY <1>3 DEF ModelAction, AskModel, HearModel
  <2>2. PICK d \in Callers : d = Asked(s)
    BY <2>1, AskedIsACaller
  <2>3. Completes(d) /\ llm'[d].pc # "trying"
    BY <1>3, <2>2, AskModelCompletes, HearModelCompletes DEF ModelAction
  <2>4. QED
    BY <2>3 DEF Completes
<1>4. ASSUME NEW d \in Callers, CompletionAction(d)
      PROVE  CheckAllowlist(c) \/ RememberAllowlist(c)
  <2>1. /\ Completes(d)
        /\ llm'[d].pc = "trying" => llm[d].pc = "trying" \/ CheckAllowlist(d) \/ RememberAllowlist(d)
    BY <1>4, CompletionMoves DEF CompletionAction
  <2>2. d = c
    BY <2>1 DEF Completes
  <2>3. QED
    BY <2>1, <2>2
<1>5. QED
  BY <1>2, <1>3, <1>4
-----------------------------------------------------------------------------
(* The theorems.                                                           *)

\* The invariant a run of steps keeps, for any steps, catalogue, principals,
\* flags, faults and lifetimes: tokens and calls carry the grounds of their
\* step, limiter and writes are accounted for, the allowlist cache ages out.
THEOREM RunInvariant == Spec => []RunInv
<1>1. Init => RunInv
  BY InitKeeps
<1>2. RunInv /\ [Next]_vars => RunInv'
  BY NextKeeps
<1>3. QED
  BY <1>1, <1>2, PTL DEF Spec

\* No write above the class its step was authorised for, but for the draft of
\* a worker with another version's client, which a shadow makes as well; no R2
\* write without its own approval, none else by a shadow, none past a switch that the
\* gateway had heard of; claims arrive whole (tokens.ts, core.ts, itsm.cedar).
THEOREM WritesSound == Spec => []WritesAreSound
<1>1. RunInv => WritesAreSound
  BY RunsAreSound
<1>2. QED
  BY <1>1, RunInvariant, PTL

\* A step that completed a write did write, a second write of a step has cost
\* a fault, the limiter refuses only when calls it let in have used the burst
\* up, and a 429 names nothing but rate limits (core.ts, completion.ts).
THEOREM AnswersTrue == Spec => []AnswersAreTrue
<1>1. RunInv => AnswersAreTrue
  BY RunsAnswerTruly
<1>2. QED
  BY <1>1, RunInvariant, PTL

\* A model class taken off the card is let through for no longer than the
\* cached allowlist lives, and the longest a card has been on its way to the
\* gateway (allowlist.ts).
THEOREM AllowlistRecent == Spec => AllowlistIsRecent
<1> DEFINE Recent == \A c \in Callers :
                       llm[c].pc # "trying" /\ llm'[c].pc = "trying" =>
                         LET class == llm[c].class
                         IN class \in card \/ now < revoked[class] - 1 + AllowTtl + latency'
<1>1. RunInv /\ [Next]_vars => [Recent]_vars
  BY TryingIsChecked, ChecksAreRecent
<1>2. QED
  BY <1>1, RunInvariant, PTL DEF Spec, AllowlistIsRecent
=============================================================================
