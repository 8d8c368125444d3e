# A verification project for the agentic control plane

TLA+ models of the control plane's stateful parts, TLC runs that check them on
small instances, and TLAPS proofs that carry the main results to every value of
the constants. `PROJECT.json` maps each definition to the source lines it
stands for.

## The system

A client submits a task to the **gateway**, which authenticates it, reserves
budget and starts a `TaskWorkflow` in Temporal. The **orchestrator** plans the
task, dispatches steps to **agents** in waves and undoes completed writes when
the task does not succeed. Each step is routed through the **registry**,
authorised by **policy**, possibly held for a human **approval**, given a token
by the **token service** and executed by an agent, which calls tools through
the **tool gateway** and models through the **LLM gateway**. Everything is
reported on the **audit** stream, from which the audit chain, the budget ledger
and the online **evaluation** are fed. A **kill switch** stops a capability, a
risk class, an agent, a tenant or the fleet; **deployments** move agent
versions through shadow and canary.

| Component | State it keeps | Operations | Interacts with | What is hard | What makes it correct |
|---|---|---|---|---|---|
| Task workflow (`orchestrator/workflows.ts`) | results, skips, budget ledger, compensation stack, cancel flag | plan, dispatch a wave, join, skip, stop for budget, unwind, report | step children, audit, gateway cancel | a cancel at any await, failing compensators, partial waves | writes of an unsuccessful task are undone dependents first; nothing runs during the unwind; every step is reported once |
| Agent step (`runAgentStep`) | the route, the approval, the attempt | route, check kill flags, authorise, await approval, broker a token, execute, judge | registry, policy, approval child, agent | routing and flags move while it waits; a cancel may hit any await but the shielded execution | what runs is what was authorised and approved; a halt stops dispatch; a completed write is always reported |
| Approval (`ApprovalWorkflow`, decision route) | the decision, escalation, deadline | wait, escalate, time out, accept a signal, answer a query, decide | gateway calls, the parent's cancel, audit | the timer races late decisions; the gateway acts on a stale view | a grant needs another principal's valid decision; the first one wins; never early, always closed |
| Tenant budget (`gateway/budget.ts`, `evaluation/budget-ledger.ts`) | cap, committed and reserved per month; reservations; charge markers | reserve, release, charge, reap, apply caps | intake, audit stream | lost replies, redelivery, month rollover, slow tasks reaped | reserved is the sum of open reservations; each cost is booked once; the cap is exceeded only by overruns; capacity returns |
| Registry (`registry/`) | a row per agent version: state, ramp, card | register, transition, promote, baseline, flip kill flags | deployment controller, routing, kill switch | read, check and write are separate statements | one active and one candidate version; only legal edges; flags agree with states |
| Deployment controller (`orchestrator/deployment.ts`) | ramp position, rollback count | shadow, soak, gate, ramp, roll back, approve, promote, retire | registry, evaluation, approval | aborts between steps, retried transitions, alternating gates | never promotes past a failed gate; ends; leaves a legal registry |
| Kill switch and fleet canceller (`service-kit/killswitch.ts`, `gateway/fleet-canceller.ts`) | watched flags; cancel episodes | watch, halt, resume, sweep and cancel | every dispatching service | the watch lags; resume during a sweep | a halt drains every running task; a lifted halt cancels nothing new |
| Audit chain (`audit/`) | a hash chain per tenant with a cached head | append, retry, redeliver, verify | every publisher | two writers, duplicate events, crash between append and ack | one chain without forks or gaps; each event once |
| Online evaluation (`evaluation/service`, `online-eval`) | scores, error budget, ladder level | score, spend budget, freeze, degrade, suspend | judge, registry, deployment | repeated and late scores; a failed action | a level is acted on once and not lost |
| Knowledge (`knowledge/`: ingestion, search, session cache) | the index, the lineage ledger, generations and cached answers | ingest a source, consume corpus events, search, fill, invalidate | bus, lineage ledger, both search doors | retried activities, overlapping runs, a fill that started before an invalidation | no text is found before its ledger event; a settled corpus serves no old text; hits stay in the grant |
| Tool gateway (`tool-gateway/core.ts`) | the limiter's buckets, the loaded catalogue | verify, check flags, authorise, limit, broker a credential, call, audit | policy, token service, upstream tools | flags that reach it late, retried attempts, calls whose client has given up, crashes between call and audit | a write stays within its step's class, an R2 write has that very step's approval; a shadow writes nothing |
| LLM gateway (`llm-gateway/`) | the allowlist cache, local caps of the providers | resolve a class, try its bindings in turn, report | registry card, providers | a stale allowlist, fetches of it that overlap each other and a change, a deadline in the middle of the bindings | only allowed classes, within the age of the cache and of a fetch; a rate limit is reported only if it is one |
| Token service (`token/`) and bus authorisation (`bus-auth/`) | signing keys, clients, all in memory | mint, exchange, provision, rotate, admit a bus session | all services, workers, NATS | restarts that forget provisioned clients, rotation while tokens are out, flags that arrive late | an exchange keeps the claims only for the same actor; an identity has one holder; a revoked worker's session dies out; workers keep a live token |

Policy evaluation keeps no state and is one function that the gateways call. The
registry's catalogue, protocol validation, offline evaluation, the service kit,
the domain agents, the Python SDK and the scripts keep no shared state of their
own or are I/O; `PROJECT.json` lists them with the reason they are left out.

## Modules

| Module | Models | Uses |
|---|---|---|
| `TaskSaga` | `TaskWorkflow`: plan, waves, budget gate, cancel, unwind, report | children by the phases of `StepContract`; refines `SagaContract` |
| `SagaContract` | what a task promises about its writes | |
| `AgentStep` | `AgentStepWorkflow` / `runAgentStep` | refines `StepContract` |
| `StepContract` | the child as its parent sees it | |
| `Approval` | `ApprovalWorkflow` and the gateway's decision route | |
| `TenantBudget` | intake, Postgres ledger, consumer and reaper | |
| `Registry` | an agent's version rows, its kill flag, and requests served in steps | |
| `DeploymentGates` | the gate evaluator, a pure function | |
| `Deployment` | `DeploymentWorkflow` driving a registry others use too | `Registry`, `DeploymentGates` |
| `Halt` | flags, the gateway's watcher, intake, and the fleet canceller | |
| `AuditChain` | writers, boot with backfill, append, verification | refines `AuditLog` |
| `AuditLog` | what the audit record promises: a log without repetitions | |
| `Quality` | judge and probe jobs, scores, the ladder | |
| `Ingestion` | ingestion runs, the index and the lineage ledger | |
| `SessionCache` | generations, both search doors, the cache, the invalidator | `Ingestion` |
| `KillSwitch` | the bucket of flags and what each watcher has heard | |
| `TokenService` | the three grants and the token each signs | `KillSwitch` |
| `Policy` | the shipped Cedar policies as one decision function | |
| `ToolGateway` | a tool call from request to envelope | `TokenService`, `Policy` |
| `LlmGateway` | a completion from request to status | `TokenService` |
| `AgentRun` | steps carried out by workers over both gateways | `ToolGateway`, `LlmGateway` |
| `BusIdentity` | clients, bus tokens, keys and bus sessions of workers | `TokenService` |
| `MC*` | values for the constants and symmetry-breaking sets of inputs, no behaviour | one module each |
| `FiniteSums` | lemmas on finite sums, for the proofs | |
| `*Proofs` | inductive invariants and theorems | see Proofs |

**How code becomes actions.** In the workflow modules an action is the code
between two awaits, because only there can Temporal deliver a cancel, a signal
or a result; `pc` names the await. An activity that exhausts its retries is a
separate outcome of the action that awaited it. In the services an action is one
statement, call or message between two awaits of a handler, and other requests,
timers and messages run in between. A write or an audit that a handler performs
without an await in between belongs to the action it ends.

* `TaskSaga`. `plan`, `results`, `skipped`, `wave`, `stack`, `cancelled`,
  `compensated`, `failedComps` are the workflow's locals; `child` holds the
  phase of each step's child. A plan is any acyclic graph out of `Plans`, its
  budget any of `Budgets`; text, prompts and answers are left out.
* `AgentStep`. `card`, `route`, `verdict`, `grounds` and `attempts` are
  locals of `runAgentStep`; `active`, `canary`, `shadow` and `flags` belong to the
  world and change between any two steps. `Shielded` is the non-cancellable
  scope around the execution and its record.
* `Approval`. The clock counts coarse ticks; a wait ends on time, an awaited
  audit takes up to `AuditMax` ticks. A gateway call is three steps (describe
  and query, check, signal) and the gate moves in between.
* `TenantBudget`. `row`, `reservation` and `charged` are the three tables. A
  transaction may commit and lose its reply. Halts and bad bodies refuse a call
  before it touches the budget. Ticks of the reaper may overlap, so its
  statements are independent actions.
* `Registry`. A request of a client is in `req` and walks through the route's
  read, the store's read, the UPDATE, the flag flip and the announcement; a promotion
  through the SELECT, the incumbent's UPDATE, the read of the candidate and the commit
  of one transaction, whose row stays locked. `row`
  keeps the state column and the card apart, since `putBaseline` and
  `transition` write them from what they read earlier.
* `Deployment`. `dpc` is the await of the workflow. A registry call is one of
  the registry's requests with `MaxAttempts` attempts, and its answer may be lost
  after the work. Operators and the publisher are two more clients. Gates read
  samples that TLC chooses (`DeploymentGates` computes the verdict).
* `Halt`. `hist` is the bucket in order and `pos` what the gateway's watcher has
  applied. A sweep is a record (what it still has to list, audit and cancel);
  `marked` is an object per key, so a sweep that outlives its episode holds a
  detached one.
* `AuditChain`. A hash is the sequence of what it was computed from. A writer is
  a record: booting (drop triggers, chain each old row, restore triggers) or
  consuming with a cached head and one retry on a lost race.
* `Quality`. A job carries its score to an idempotent insert; the ladder pass is
  read state, read window, act, write state, and passes overlap. Scores are
  tenths.
* `Ingestion`, `SessionCache`. A run takes the documents of its source through
  fetch, compare, ledger and upsert; the comparison is a query per chunk, each a step
  of its own; a fault restarts the activity. A search
  reads generations, the cache, the index, the generations it captured, and puts.
  A replica that handles an event gets the generation and puts it in two steps, and
  the other replica may put in between; an event in hand is not delivered again
  before it is let go, since that takes less than the ack wait. `clean` is
  history: whether an entry was put without overlapping a change, and no generation
  it relies on went back since.
* `AgentRun`. A step asks for a delegation, has its token minted, is scheduled on
  a worker, exchanges its token for a tool (a record of `calls`, which goes on
  when its client has given up) or sends it to the LLM gateway. A completion there
  belongs to one run of the handler in one attempt (`Asked`) and likewise goes on
  without its client: `llm` is indexed by step, attempt and run. Each service
  has its own position in the bucket of `KillSwitch`.
* `LlmGateway`. A check of the allowlist that misses the cache is three steps, as the
  code awaits in between: the request, the registry's reading of the card
  (`ReadCard`), the answer that is remembered and judged by (`RememberAllowlist`).
  Several completions may be anywhere in it, and the last to return overwrites the
  cache. `revoked` and `latency` are history: since when a class is off the card, and
  the longest a card has been on its way.
* `BusIdentity`. Time is relative: `now` stays 0 and a tick brings every expiry
  and timer one nearer, so liveness is about all of time.

## Runs

| Run | Question | Bounds |
|---|---|---|
| `saga` | Does a task settle its writes dependents first, spend within budget, report every step and end, for every plan shape, failure and cancel? | 3 steps, 4 shapes, 2 colourings, 3 budgets (none; 2 steps or cost 2; 2 tokens or cost 4) |
| `saga_judge` | Is a write that completed before a cancel unwound? It is not: see Findings | as `saga`, without budgets |
| `approval` | Who may close the gate, when, and how is it recorded? | 2 gateway calls, 1 raw signal, deadline 3 ticks, audits of at most 1 |
| `step` | Is what runs what was routed, authorised and approved? | 3 versions of 2 agents, 2 changes of routing or flags, 2 attempts |
| `budget` | Is admission exact and every cost booked once, under lost replies, redelivery, strays and moving caps, and do the books settle? | 2 tasks of a tenant, a second tenant, 2 months, 1 stray completion, 1 reload of the caps |
| `release` | Is promotion earned, exclusive and honestly reported while others use the registry? | 2 versions, 2 ramp steps, 1 operator request, 1 publisher request, 2 attempts, samples of two steps |
| `halt` | Are covered tasks cancelled, others left alone, and do sweeps stop? | 2 tenants with a task each, 2 sweeps, 3 flips, 1 fault |
| `audit` | Is the record one chain without losses, and is the alarm true? | 2 writers, 2 old rows, 3 events of which 1 malformed, pages of 2, 1 fault, tampering |
| `quality` | Is enforcement earned by evidence of its own lane? | 6 jobs of 2 tenants in 3 loads, 1 fault, 1 reinstatement |
| `knowledge` | Is nothing found before it is on the ledger, or old once settled? | 3 sources, 4 documents, 5 runs, 2 searches in 7 loads, 1 or 2 replicas, 1 fault, entries live 2 ticks |
| `mediation` | Was every effect within what its step was granted, and are answers true? | 2 steps at a time in 22 loads, 3 watchers, 2 faults, 2 outages on the way to a model (none where two completions overlap over 2 ticks), 3 ticks, 2 flags, burst 1, 2 bindings of 2 and 1 attempts |
| `identity` | Does every identity have one holder, and do tokens and sessions live as long as they should? | 2 workers in 11 loads, lifetime 4 ticks, 2 faults, 2 flags |

A *load* is a set of pieces of work that may be there together (which steps,
which faults, how many ticks). Loads cover the pairs that share state: all
combinations at once are out of TLC's reach and the pieces that share nothing
do not interact.

**Why the bounds are enough.** Three steps give every relation the saga
distinguishes (before, after, beside, joined) and two waves with entries of
both on the stack. A gate has one decision, so two callers and one signal past
the gateway give a first, a second and a refused one. A step passes each await
once, so two changes cover every "checked here, changed there, used there".
Two tasks compete for one cap, and the second month is where a stale period
shows. A deployment has one incumbent and one candidate, and one foreign request
between any two of its own is what a check-then-act can meet. Two overlapping
sweeps and three flips give set, lift, set again, which is where an episode
outlives its halt. Two writers are what a forked chain takes; two pages what a
walk that moves takes. Streaks of failed probes, a window that slides and a second
tenant give the ladder every rung and somebody else's evidence. Two
overlapping runs of one source, each retried once, and a search that overlaps
both are the races of the corpus. Two calls contend for one token of the limiter
and one step may be retried while its first call goes on.

**Deadlock** is checked in `saga`, `approval` and `step`. In the others the work
may be finished, or a bounded supply of faults and requests used up, with nothing
left to do, so the check is off; their liveness properties say that what was
begun ends.

**Fairness.** Nothing is assumed of environments: cancels, signals, routing
changes, flags, operators, faults, submissions and tampering never have to
happen.

* Workflows (`TaskSaga`, `AgentStep`, `Approval`, `Deployment`) are weakly fair
  in their own steps, `TaskSaga` also in each child's: Temporal completes or fails
  every activity and child, fires every timer, and a worker resumes the code. In
  `Deployment` the registry also answers each client.
* `TenantBudget`: the consumer per message (JetStream redelivers until the ack),
  the reaper's statements (they run on an interval and a failed tick is tried
  again), and the passage of time.
* `Halt`: strongly fair delivery of flips, since a restart may interrupt a
  watcher that NATS then feeds again; weakly fair start of the canceller, its
  timer, and each sweep's work (an in-process loop).
* `AuditChain`: each writer's work, because the stream redelivers what is not
  acknowledged. `Quality`: each job's production and the pass its insert starts.
* `SessionCache`: steps of a run (Temporal), of the invalidator and the watch
  (push subscriptions), and of a search. `AgentRun`: the steps, their model calls
  and the gateway's handlers.
* `BusIdentity`: the clock, the service's restart, delivery of flags, and each
  worker's refresh timer. Connecting is not fair: it is the business of nats.js.

## Properties

A run's property names a promise; it is a conjunction of named parts where the
promise has several.

* `saga`. `UnwindIsSound`: in a task that was cancelled or incomplete each
  recorded reversible write is compensated or listed as failed
  (`WritesSettled`); no write is undone before the writes that depend on it
  (`UnwindOrder`); nothing is compensated or reported while a step can still
  write (`NothingInFlight`). `ReportIsTrue`: every step is accounted for once, and
  "completed" means all of it. `DispatchWithinBudget`. `TaskEndsHonestly`: a task
  ends, and as cancelled if it was. `ImplementsContract`: it refines
  `SagaContract`.
* `approval`. `DecisionIsSound`: a grant is authorised by another principal, the
  first valid decision wins, the record matches the outcome. `DeadlineIsExact`:
  never early, bounded by the awaited audits. `AcceptedIsDecided`: a decision the
  gateway accepted is on the gate or came too late. `GateCloses`.
* `step`. `DispatchIsGrounded`: a halt stops dispatch, also after an approval;
  what was approved is what runs; the grounds name the route.
  `OutcomeIsHonest`: refusals and completions are reported as what they were.
  `Returns`. `ImplementsStep`: it refines `StepContract`, which justifies the
  child of `TaskSaga`.
* `budget`. `LedgerIsExact`: reserved is the sum of the open reservations, and a
  row exceeds its cap by overruns only. `SettlesItsOwn`: an open reservation is
  not yet charged. `OneBooking`: a cost is booked at most once, whole, to the month
  that admitted it. `BooksSettle`: capacity returns, a completion is charged, a new
  month gets the cap of the file.
* `release`. `ReleaseIsSound`: one version serves, an undo is unambiguous, the
  report says what happened, gates are monotone. `RampIsEarned`: a promotion passed
  every gate since the last breach and no ramp step follows an abort.
  `OnlyAdminLowersFlag`. `DeploymentEnds`: it ends unless its gates alternate for
  ever.
* `halt`. `HaltIsScoped`: sweeps run while a halt is in force, other tenants' tasks
  are untouched, nobody cancels twice in an episode. `HaltReaches`: a halt that stays
  drains what it covers. `SweepingStops`.
* `audit`. `RecordIsSound`: the chain is intact unless tampered with, an
  acknowledged event is recorded, verification says so and nothing else, and a
  compensation is the last word of a reconstruction. `ImplementsLog`:
  as long as nobody tampers, the rows in order are the log of `AuditLog`, which only
  grows at its end and holds no event twice. `EventsRecorded`.
* `quality`. `EnforcementIsEarned`: a suspension follows failed probes of one
  tenant, a freeze evidence of its own lane. `EvidenceIsTrue`: an unreliable judge
  stays silent and a streak is what the rows say. `JobsEnd`.
* `knowledge`. `SearchIsSound`: every indexed chunk has its ledger event, hits stay
  in the grant and in bounds, an answer is fresh unless the search overlapped the
  change or a generation went back. `IngestionAdvances`: a completed run is indexed, and
  a generation goes back only under a replica whose read another one overtook.
  `CorpusSettles`.
* `mediation`. `WritesAreSound`: a write stays within the class its step was authorised
  for, an R2 write was approved for that step and capability or undoes a submission, a
  shadow writes nothing, a call that starts after its gateway has heard a flag does
  not pass, claims travel whole. Two of these have an exception for a worker with the
  client of another version of its agent (`OwnClient`): its exchange drops the claims,
  so it may draft (R1) on a step of class R0 or of a shadow, as `core.ts:358-366`
  holds a token without a capability to nothing below R2; the loads have steps of class
  R0 that try a draft with a client of either kind. `AnswersAreTrue`: a completed step
  was applied, second applications are due to faults, the limiter lets through what it
  owes, and "rate limited" is said only if all bindings tried were.
  `AllowlistIsRecent`: a class taken off the card is let through for less than the
  cache's lifetime plus the longest time a card took from the registry's reading of it
  to the cache. The second summand is needed: `expiresAt` counts from the answer
  (`allowlist.ts:66`), and no timeout bounds the fetch. `StepsEnd`.
* `identity`. `IdentityIsOwn`: an identity has one holder and a session is that of
  its worker. `TokensAreTimely`: a revoked worker's tokens fade within a lifetime, and
  rotation keeps what is out verifiable. `TokensComeAndStay`: a worker that may boot
  does, and keeps a live token as long as no two refreshes in a row fail.

Each property of a passing run has a mutant: a definition placed just before
the one it replaces, with a plausible slip, under which TLC finds the property
violated. Mutants are marked as such in the modules.

## Proofs

All theorems rest only on the named assumptions about the constants
(`ConstantsAssumption`, `BudgetAssumption`, `LoadAssumption` and their like),
which TLC evaluates in every run. Each invariant was checked by TLC on the
component's run before it was proved.

The proofs are in eight modules. `TaskProofs`, `ControlProofs`, `TrustProofs` and
`ReleaseProofs` each hold the proofs of two components and EXTEND both: the second one's
specification has names of its own (`BudgetSpec`, `HaltSpec`, `ChainSpec`, `QualitySpec`,
with `BudgetInit`, `budgetVars` and so on), the two share no variable and no constant, and
every theorem is about one of them. `AgentStepProofs`, `AgentRunProofs` and
`SessionCacheProofs` are about one component each, and `FiniteSums` is about finite sums.

* `TaskProofs`, the saga: `UnwindIsSound` (types, order, nothing in flight, settled
  writes) for plans and budgets of any size. The order alone is not
  inductive: it needs that a dispatched step depends only on completed steps of
  earlier waves (`DepsInv`), that results come from returned children
  (`ChildInv`), that the recorded writes are exactly the stack, the compensated
  and the failed (`StackInv`), and what each way to the end leaves behind
  (`EndInv`). On top of it `ReportInv` proves `ReportIsTrue`: the loop is left with
  every step accounted for, because plans are acyclic and a least unresolved step
  would be ready (`NothingReadyMeansResolved`), and a budget stop leaves at least
  one step it refused. `DispatchWithinBudget` needs that the gate admits no more
  than the budget leaves (`AdmittedFits`) and that the truncated wave still fits
  after its audits (`SpendInv`). `SagaImplementsContract` maps every step to a
  step of `SagaContract` or to none.
* `ControlProofs`, the approval: `DecisionIsSound` and `DeadlineIsExact` for any number of
  calls and signals. `GateInv` adds where the decision can have changed
  (`ControlInv`), what has been logged (`LogInv`) and the clock against the wait
  (`TimeInv`). `AcceptedIsDecided` follows from `CallInv`: what the route's checks let
  through on a stale view is what the handler would accept (`RouteChecksSuffice`).
* `AgentStepProofs`: `DispatchIsGrounded` and `OutcomeIsHonest` for any agents
  and versions, and `StepRefinement`: every step of `AgentStep` is a step of
  `StepContract` or a stutter. `StepInv` adds what each `pc` implies about route,
  halt checks and grounds.
* `TaskProofs`, the budget: `SettlesItsOwn` and `OneBooking` for any tenants, tasks,
  caps and redeliveries. `LedgerInv` adds that a task runs only after its call
  has left admission, that its own completion carries its cost, and that a
  reservation is its owner's and rests on an existing row. `LedgerIsExact` sums over
  any finite set of tasks: `ExactInv` ties each row to the sum of its open
  reservations and to what its tasks cost above their estimates.
* `ControlProofs`, the canceller: `HaltIsScoped` for any tenants, tasks, flips, restarts and
  overlapping sweeps. What a sweep acts on may be old, so `HaltInv` adds that it was
  put as a halt once (`HaltsWerePut`) and that a task in the hands of a sweep of the
  running episode bears its mark (`MarksAreHeld`), which is why two sweeps of an
  episode never cancel the same task.
* `TrustProofs`, the identities: `IdentityIsOwn` and `TokensAreTimely` for any workers, keys,
  flags and restarts. `IdentityInv` follows an identity from the client (`ClientsAreKnown`,
  `HoldsOwn`) to the token and the session (`TokensAreOwn`); a refused worker's token
  only ages (`FlaggedFade`), and a live one is signed with a key that is kept
  (`KeysCover`). `LoadAssumption` is what the service checks of its configured clients
  at start: ids are present and not repeated.
* `AgentRunProofs`: `WritesAreSound`, `AnswersAreTrue` and `AllowlistIsRecent` for any
  number of steps, calls, watchers and faults, over both gateways and the token
  service. `RunInv` follows the claims from the mint to the bearer of each call
  (`TokensAreGrounded`) and holds for each stage of a call what it has passed
  (`CallsAreAdmitted`). That a step's write is applied again only because of a fault is
  an argument by potential: writes done, calls under way and one more if the step
  may still call never exceed one plus the faults spent (`WritesArePaid`). The limiter is
  exact because tokens left and calls admitted always add up to the burst at least
  (`LimiterCounts`), "rate limited" because the bindings before the current one were
  tried (`BindingsAreTried`), and the allowlist is recent because a card on its way is
  no newer than its reading, and no class in the cache outlives its revocation by more
  than the cache's lifetime and the longest such journey (`CacheAges`). The completion
  a step waits for is its own, also after attempts whose completions go on
  (`WaitsForItsOwn`).
  `CatalogueAssumption` says that the tools the shipped policies leave ungated are
  reads and drafts; `LoadAssumption` that the workers on an agent's queue run with a
  client of that agent.
* `TrustProofs`, the audit chain: `RecordIsSound` and `ImplementsLog` for any writers, events, old
  rows, page sizes and faults, with somebody tampering or not. A cached head may be
  stale but is always a row of the chain (`WritersSound`), so a row can only be put
  after the last one: what follows any earlier row is taken (`RowAdded`). Two writers
  that chain the same old rows write the same values, because rows chained
  meanwhile lie beyond the head the slower one goes on from (`BackfillKeeps`). That an untouched
  chain verifies follows from places without a gap and rows that hang on their
  predecessor (`Linked`, `OrderHolds`); the
  same order makes the rows a log, since a step that changes the table adds one row at a
  place nobody has (`AddsRow`), which can only be the next (`OrderedSound`,
  `RowIsRecorded`, `StepIsLogged`). That no row is ever rewritten (`NeverRewritten`) is
  proved too and, as it follows from the log, no run repeats it. That a touched one does not is the harder half:
  tampering leaves a row that hangs on the record of an event which nobody can put
  back, and no truthful row takes its place (`Flawed`), while a walk begun afterwards
  has passed truthful rows only (`WalkSound`). The fold of the reconstruction is
  unfolded for sequences of any length (`CompensationRead`).
* `SessionCacheProofs`: `SearchIsSound` and `IngestionAdvances` for any
  sources, documents, overlapping runs, replicas, callers, searches and faults. `SearchInv`
  follows text from the run to the reader. What a run may index has its event on the
  stream (`CorpusInv`); a seeded view holds what its watch has delivered (`StreamInv`); a
  search and an entry hold rows their key may read, within the grant they were read
  under (`CallsInv`, `EntriesInv`). Freshness is the hard part. A source is dirty while a
  run may still write to it. A clean entry shows each of its sources as the index
  does, and the source is not dirty, unless an event above the entry's generation has
  reached the bucket or is still on its way to it (`FreshInv`). Once the corpus has settled nothing is dirty and
  nothing is to come. That needs sources that share no document (`Separate`): the row of
  one is otherwise replaced under the other's event. For `IngestionAdvances`, a row that a
  run relies on is as the run fetched it or was written since by a run that was not over
  when it started (`KeptInv`). `OneReplicaNeverRegresses` is what the invalidator's
  comment claims, for one replica: what the only one has read is never less than what the
  bucket holds (`ReadInv`).
* `ReleaseProofs`, the ladder: `EnforcementIsEarned` and `EvidenceIsTrue` for any tenants, jobs,
  answers, thresholds and concurrent passes. A level is computed from a window that has
  moved on by the time it is acted on, so `QualityInv` holds the evidence in the rows of the
  past, which only grow (`LevelsBacked`). A failed probe is in a streak at most once,
  after its own pass has observed it (`FailsBacked`): with the insert that starts one pass per
  observation (`StoredOnce`) this bounds every streak that concurrent passes can make up
  by probes that failed. In a lane that never raced, the one pass under way is of the last row
  and carries exactly its streak (`Sequential`). That bad weight implies a bad row, and a
  low mean a low score, are the lemmas on sums.
* `ReleaseProofs`, the deployment: `ReleaseIsSound`, `RampIsEarned` and `OnlyAdminLowersFlag` for any
  versions, ramp, thresholds, samples and callers. A request is checked, read and
  written in separate steps, so `ReleaseInv` keeps what it was permitted for the state it
  was checked against (`Sound`) and who can be asking for what (`Callers`): only the
  controller makes a version a canary, and asks for it at its place in the workflow. One
  active version is the work of the indexes and the incumbent's demotion in one
  transaction (`Serving`). The steps below the current one have passed (`Climbing`), and
  after the loop all have. `WorseFailsGates` is about the gates alone, as a function of
  windows of any finite size: a candidate that fails still fails when one of its steps does worse.

The prover cannot instantiate the library's induction rules, so what these modules need of
finite sets, sums, folds and least elements is proved in each by looking at a smallest
counterexample, whose existence the library's well-foundedness theorems give.

Every invariant and every safety action property of the passing runs is proved, and the
three refinements. Only model-checked: liveness (`TaskEndsHonestly`, `GateCloses`,
`Returns`, `BooksSettle`, `DeploymentEnds`, `HaltReaches`, `SweepingStops`,
`EventsRecorded`, `JobsEnd`, `CorpusSettles`, `StepsEnd`, `TokensComeAndStay`), because
fairness and ENABLED are out of the prover's reach.

## Findings

* `saga_judge` - a cancel during a judge-sampled write loses the completed
  write: it is neither undone nor reported.

## Seen while modelling

Behaviour the models have and a reader of the code may want to know; the
properties are stated so that they hold with it.

* Saga. A cancel is read at the head of the loop only, so one that arrives
  during the audits of skipped steps is followed by a new wave
  (`workflows.ts:282`, against the comment at 264). A failed
  `compensation.step_failed` audit ends the unwind and strands what is left on the
  stack (534, against 526). A completed step without an Answer envelope is reported
  as failed and yet triggers no unwind (`synthesis.ts:31`).
* Step. After an approval a probe is routed again without its active-only
  restriction and may fail as changed (927, against 770).
* Approval. A decision during the audit of the timeout makes the status query
  contradict the outcome (1501, against 1400). The deadline grows by the time of
  awaited audits (1490). The gateway may signal a gate that closed after it was
  described (`temporal.ts:218`).
* Budget. A start that throws after Temporal accepted it releases the reservation
  of a task that runs (`gateway/app.ts:354`, against `budget.ts:158`). A row exceeds
  its cap by what tasks cost above their estimate, which `LedgerIsExact` makes
  exact (`budget.ts:12`).
* Registry and deployment. The UPDATE of `transition` has no predicate on the state it
  was checked against, so a deployment's write may overwrite a suspension;
  `putBaseline` writes back a card it read earlier. A failed flip of the flag after the
  UPDATE cannot be retried (409). An abort in the shadow soak meets a 409 and the
  workflow throws, leaving the candidate; so does a retried promote whose first answer
  was lost. An abort after the last gate is ignored.
* Halt. A sweep works on a snapshot and may cancel tasks just after the halt is lifted.
* Audit. A reconstruction says "requested" if `approval.requested` is chained after
  `approval.granted`.
* Quality. A transition that failed is not retried by the next ingest
  (`evaluation/service app.ts:292`): the level has been written. A freeze stays until the next
  ingest. Concurrent passes may lose an update of the streak, and a crash between insert
  and pass leaves a duplicate that does not run it again.
* Knowledge. With two replicas, as in `deploy/helm` (`values.yaml:114`), the invalidators
  race get-then-put and a generation can go back (`session-cache-invalidator.ts:98`, against
  "never regresses a generation" at 35). It is more than a delay. Say k2 holds event 1,
  k1 puts 2 and its acknowledgement is lost, an entry is cached under 2, the source changes
  as event 3, and k2 puts 1. If k2 then reads the redelivered 2 against 1, k1 puts 3, and
  k2 puts 2, the stale entry matches again and is served until its TTL. With one
  replica this cannot happen (`OneReplicaNeverRegresses`). A document that two sources list
  has one set of rows (`store.ts:113`): a run of one source replaces what entries hold of
  the other without an event of that one. Unchanged text with changed metadata is not re-indexed and a shrunken document
  leaves its old chunks. A retried upsert of an older run overwrites newer chunks. The
  invalidator's loop ends for good when its iterator throws.
* Tool and LLM gateways. An exchange gives a fresh lifetime whatever the subject had left. An
  outage of policy becomes a permanent failure and is not audited. The kill switch is
  read when a call starts and not again. The limiter is per replica and forgets at a
  restart. A structured-output retry runs the handler's side effects again. Retried
  attempts may apply a write twice. A crash between the upstream call and the audit
  leaves an effect without an event. 429 is also answered when the deadline passes
  before a later binding is tried. A worker that uses the client of another version of
  its agent gets a token without claims, which the properties allow for (`OwnClient`).
* Identity. A failed refresh is retried once and then never again
  (`bus-token.ts:112`, against 108). A flag refuses new sessions and closes none: they die
  with their token. A restart forgets provisioned clients and frees their ids; an audit
  that fails during provisioning leaves an identity nobody can use until then.

## Not modelled

Text, prompts, prices, scores of text and answers are data. Authentication of users is a
guard that has succeeded. Temporal's replay is assumed deterministic and its
history durable; a worker crash is then invisible except as time and retries. Postgres
statements are serial per row. Signatures and hashes are free constructors. Cedar,
NATS, model providers, tool upstreams and the agents' own handlers are external:
they are nondeterministic within what the code in `src/` lets them do. Of the
components that are modelled, the read-only routes, listings, metrics, drift alerts and
the rate limiter of provisioning are left out. The components with status `not_modelled`
in `PROJECT.json` are out of reach or stateless, as noted there.

An attempt of an ingestion activity that outlives its 60 s (`startToCloseTimeout`,
`ingestion-workflows.ts:5-8`) goes on beside its retry in the code; in `Ingestion` a retry
starts when the attempt before has ended, so the properties of `knowledge` do not speak of
two attempts that write at once. A worker's attempt that is given up makes no further call
of its own, though the calls and completions it has made go on. A restart of the LLM
gateway is seen from its clients only, as a lost attempt: the cache starts empty after
it, and the checks that follow are of a newer card.

## Plan

Done: the components with status `modelled`, by TLC, and the proofs of all their safety.
What would come next:

1. Replicas of the services that may be scaled besides the invalidator: the tool gateway's
   limiter, intake, the evaluation service.
2. How the orchestrator compares shadow results, and the routes of the registry that list
   and search.
