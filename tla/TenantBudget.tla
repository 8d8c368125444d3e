---------------------------- MODULE TenantBudget ----------------------------
(***************************************************************************)
(* A tenant's monthly budget: the gateway reserves an estimate when a task *)
(* is submitted, the ledger of the evaluation service moves it to the      *)
(* actual cost when task.completed is delivered, and a reaper returns what *)
(* nobody claimed.  Each Postgres transaction is one step, since it locks  *)
(* the rows it decides on; its reply may be lost after it committed.       *)
(* Between the transactions everything may happen: other requests, month   *)
(* rollover, redelivery, a restart with other caps.                        *)
(***************************************************************************)
EXTENDS Integers, FiniteSets, Functions

CONSTANTS
  Tenants,
  Tasks,        \* the task_ids drawn at intake
  Owner,        \* claims.tenant of the token each task was submitted with
  Estimates,    \* max_cost_usd or the default estimate, in micros
  Costs,        \* what a finished task may have cost, in micros
  CapFiles,     \* what the caps file may hold: a cap or NoCap for each tenant
  MaxPeriod,    \* bound on the months the model runs through
  MaxStrays,    \* bound on completions that are not the task's own
  MaxReloads,   \* bound on restarts of the evaluation service with other caps
  NoCap,        \* a tenant that is not in the caps file
  NoRow,        \* no tenant_budget row for the tenant and period
  NoReservation \* no tenant_budget_reservation row for the task

Periods == 1..MaxPeriod

Row == [cap : Nat, committed : Nat, reserved : Nat]
Reservation == [tenant : Tenants, period : Periods, est : Nat, aged : BOOLEAN]
\* The subject's tenant is the one the account boundary vouches for.
Completion == [task : Tasks, subject : Tenants, tenant : Tenants, cost : Nat]

ASSUME BudgetAssumption ==
  /\ Owner \in [Tasks -> Tenants] /\ IsFiniteSet(Tasks)
  /\ Estimates \subseteq Nat /\ Costs \subseteq Nat
  /\ CapFiles \subseteq [Tenants -> Nat \cup {NoCap}] /\ NoCap \notin Nat
  /\ NoRow \notin Row /\ NoReservation \notin Reservation
  /\ MaxPeriod \in Nat \ {0} /\ MaxStrays \in Nat /\ MaxReloads \in Nat

VARIABLES
  now,          \* the UTC month
  caps,         \* the caps file the evaluation service has read
  row,          \* tenant_budget, by tenant and period
  reservation,  \* tenant_budget_reservation, by task
  charged,      \* tenant_budget_charge: the tasks that carry a marker
  phase,        \* where the POST /v1/tasks call of each task is
  call,         \* the period and estimate it has computed
  admission,    \* what reserve answered
  run,          \* the task's workflow
  cost,         \* what the finished task cost
  mail,         \* task.completed messages not yet acked
  booked,       \* history: how the first charge of a task came out
  peak,         \* history: the highest cap of each row
  strays, reloads   \* counters behind MaxStrays and MaxReloads

db == <<row, reservation, charged, booked, peak>>
gateway == <<phase, call, admission>>
world == <<run, cost, strays>>
config == <<now, caps, reloads>>
budgetVars == <<db, gateway, world, config, mail>>

BudgetInit ==
  /\ now = 1 /\ caps \in CapFiles /\ reloads = 0
  /\ row = [t \in Tenants |-> [p \in Periods |-> NoRow]]
  /\ reservation = [k \in Tasks |-> NoReservation]
  /\ charged = {} /\ booked = [k \in Tasks |-> "none"]
  /\ peak = [t \in Tenants |-> [p \in Periods |-> 0]]
  /\ phase = [k \in Tasks |-> "new"]
  /\ call = [k \in Tasks |-> [period |-> 1, est |-> 0]]
  /\ admission = [k \in Tasks |-> "none"]
  /\ run = [k \in Tasks |-> "none"] /\ cost = [k \in Tasks |-> 0]
  /\ mail = {} /\ strays = 0

---------------------------------------------------------------------------
\* POST /v1/tasks.

\* The call is refused before it touches the budget: a fleet or tenant halt,
\* a bad body.
RefuseEarly(k) ==
  /\ phase[k] = "new"
  /\ phase' = [phase EXCEPT ![k] = "answered"]
  /\ UNCHANGED <<db, call, admission, world, config, mail>>

\* The task_id is drawn, the estimate and the period are computed; then the
\* call waits for a database connection.
Submit(k) ==
  /\ phase[k] = "new"
  /\ phase' = [phase EXCEPT ![k] = "reserving"]
  /\ \E e \in Estimates :
       call' = [call EXCEPT ![k] = [period |-> now, est |-> e]]
  /\ UNCHANGED <<db, admission, world, config, mail>>

\* Mutant: the admission check leaves out what others have reserved.
FitsCommitted(r, est) == r.committed + est <= r.cap

Fits(r, est) == r.committed + r.reserved + est <= r.cap

\* The conditional UPDATE and the insert of the reservation.
ReserveTx(k) ==
  LET t == Owner[k]  p == call[k].period  r == row[t][p] IN
  /\ row' = [row EXCEPT ![t][p] = [r EXCEPT !.reserved = @ + call[k].est]]
  /\ reservation' = [reservation EXCEPT ![k] =
       [tenant |-> t, period |-> p, est |-> call[k].est, aged |-> FALSE]]
  /\ UNCHANGED <<charged, booked, peak>>

\* reserve answers ok, or its COMMIT went through and the answer is lost: the
\* call answers 503 then and nobody releases the reservation.
ReserveOk(k) ==
  LET r == row[Owner[k]][call[k].period] IN
  /\ phase[k] = "reserving" /\ r # NoRow /\ Fits(r, call[k].est)
  /\ ReserveTx(k)
  /\ \/ /\ phase' = [phase EXCEPT ![k] = "starting"]
        /\ admission' = [admission EXCEPT ![k] = "ok"]
     \/ /\ phase' = [phase EXCEPT ![k] = "answered"]
        /\ UNCHANGED admission
  /\ UNCHANGED <<call, world, config, mail>>

\* over_budget is a 402; a database that does not answer is a 503.
ReserveRefused(k) ==
  /\ phase[k] = "reserving"
  /\ phase' = [phase EXCEPT ![k] = "answered"]
  /\ UNCHANGED <<db, call, admission, world, config, mail>>

ReserveNoCap(k) ==
  /\ phase[k] = "reserving" /\ row[Owner[k]][call[k].period] = NoRow
  /\ phase' = [phase EXCEPT ![k] = "starting"]
  /\ admission' = [admission EXCEPT ![k] = "no_cap"]
  /\ UNCHANGED <<db, call, world, config, mail>>

\* workflow.start succeeds; what remains is the task.submitted audit and the
\* answer, which change nothing here.
StartTask(k) ==
  /\ phase[k] = "starting"
  /\ run' = [run EXCEPT ![k] = "running"]
  /\ phase' = [phase EXCEPT ![k] = "answered"]
  /\ UNCHANGED <<db, call, admission, cost, strays, config, mail>>

\* workflow.start throws.  Temporal may have accepted the workflow all the
\* same: a deadline on the call says nothing about the server.
StartFails(k) ==
  /\ phase[k] = "starting"
  /\ phase' = [phase EXCEPT ![k] =
       IF admission[k] = "ok" THEN "releasing" ELSE "answered"]
  /\ \E accepted \in BOOLEAN :
       run' = IF accepted THEN [run EXCEPT ![k] = "running"] ELSE run
  /\ UNCHANGED <<db, call, admission, cost, strays, config, mail>>

\* GREATEST(0, reserved - est)
Released(r, est) ==
  [r EXCEPT !.reserved = IF @ - est \in Nat THEN @ - est ELSE 0]

\* release: delete the caller's reservation of this task and give the
\* estimate back to the period it was made in.
ReleaseTx(k) ==
  LET res == reservation[k] IN
  /\ IF res # NoReservation /\ res.tenant = Owner[k]
       THEN /\ row' = [row EXCEPT ![res.tenant][res.period] =
                         Released(@, res.est)]
            /\ reservation' = [reservation EXCEPT ![k] = NoReservation]
       ELSE UNCHANGED <<row, reservation>>
  /\ UNCHANGED <<charged, booked, peak>>

\* The failure of the release is logged and swallowed.
Release(k) ==
  /\ phase[k] = "releasing"
  /\ phase' = [phase EXCEPT ![k] = "answered"]
  /\ ReleaseTx(k) \/ UNCHANGED db
  /\ UNCHANGED <<call, admission, world, config, mail>>

\* The gateway dies with the call in flight.
GatewayCrash(k) ==
  /\ phase[k] \in {"reserving", "starting", "releasing"}
  /\ phase' = [phase EXCEPT ![k] = "answered"]
  /\ UNCHANGED <<db, call, admission, world, config, mail>>

---------------------------------------------------------------------------
\* The task's workflow, which ends once, with or without its task.completed.
Finish(k) ==
  /\ run[k] = "running"
  /\ run' = [run EXCEPT ![k] = "finished"]
  /\ \E c \in Costs :
       /\ cost' = [cost EXCEPT ![k] = c]
       /\ mail' \in {mail, mail \cup {[task |-> k, subject |-> Owner[k],
                                       tenant |-> Owner[k], cost |-> c]}}
  /\ UNCHANGED <<db, gateway, strays, config>>

\* A completion that names the task under another tenant's subject, or whose
\* payload contradicts its subject.
Stray(k) ==
  /\ run[k] # "none" /\ strays < MaxStrays
  /\ strays' = strays + 1
  /\ \E s, t \in Tenants, c \in Costs :
       /\ <<s, t>> # <<Owner[k], Owner[k]>>
       /\ mail' = mail \cup {[task |-> k, subject |-> s, tenant |-> t,
                              cost |-> c]}
  /\ UNCHANGED <<db, gateway, run, cost, config>>

---------------------------------------------------------------------------
\* The ledger of the evaluation service.

Spent(r, est, actual) == [Released(r, est) EXCEPT !.committed = @ + actual]

Book(k, res, actual) ==
  /\ charged' = charged \cup {k}
  /\ booked' = [booked EXCEPT ![k] = "committed"]
  /\ row' = [row EXCEPT ![res.tenant][res.period] =
       Spent(@, res.est, actual)]
  /\ reservation' = [reservation EXCEPT ![k] = NoReservation]
  /\ UNCHANGED peak

\* Mutant: the tenant of the reservation is not compared with the subject.
CommitAnyTenant(k, eventTenant, actual) ==
  LET res == reservation[k] IN
  IF k \in charged THEN UNCHANGED db
  ELSE IF res = NoReservation
    THEN /\ charged' = charged \cup {k}
         /\ booked' = [booked EXCEPT ![k] = "uncapped"]
         /\ UNCHANGED <<row, reservation, peak>>
    ELSE Book(k, res, actual)

\* Mutant: a refused completion leaves its marker behind.
CommitKeepsMarker(k, eventTenant, actual) ==
  LET res == reservation[k] IN
  IF k \in charged THEN UNCHANGED db
  ELSE IF res # NoReservation /\ res.tenant = eventTenant
    THEN Book(k, res, actual)
    ELSE /\ charged' = charged \cup {k}
         /\ booked' = [booked EXCEPT ![k] = "uncapped"]
         /\ UNCHANGED <<row, reservation, peak>>

\* commitCharge: a marker that is there already, or a reservation of another
\* tenant, rolls back.
CommitCharge(k, eventTenant, actual) ==
  LET res == reservation[k] IN
  IF k \in charged THEN UNCHANGED db
  ELSE IF res = NoReservation
    THEN /\ charged' = charged \cup {k}
         /\ booked' = [booked EXCEPT ![k] = "uncapped"]
         /\ UNCHANGED <<row, reservation, peak>>
  ELSE IF res.tenant # eventTenant THEN UNCHANGED db
  ELSE Book(k, res, actual)

Apply(m) ==
  IF m.subject # m.tenant THEN UNCHANGED db
  ELSE CommitCharge(m.task, m.subject, m.cost)

\* The message is handled and acked.
Deliver(m) ==
  /\ m \in mail
  /\ Apply(m)
  /\ mail' = mail \ {m}
  /\ UNCHANGED <<gateway, world, config>>

\* It is handled, and the ack or the answer to COMMIT is lost: it comes again.
DeliverUnacked(m) ==
  /\ m \in mail
  /\ Apply(m)
  /\ UNCHANGED <<gateway, world, config, mail>>

\* One statement of upsertCaps, at boot or in a tick of the reaper.  Ticks and
\* replicas may overlap, so the statements come in any order.
UpsertCap(t) ==
  /\ caps[t] # NoCap
  /\ row' = [row EXCEPT ![t][now] =
       IF @ = NoRow THEN [cap |-> caps[t], committed |-> 0, reserved |-> 0]
       ELSE [@ EXCEPT !.cap = caps[t]]]
  /\ peak' = [peak EXCEPT ![t][now] = IF @ >= caps[t] THEN @ ELSE caps[t]]
  /\ UNCHANGED <<reservation, charged, booked, gateway, world, config, mail>>

\* The service restarts with another caps file.
ReloadCaps ==
  /\ reloads < MaxReloads
  /\ reloads' = reloads + 1
  /\ caps' \in CapFiles \ {caps}
  /\ UNCHANGED <<db, gateway, world, now, mail>>

Held(t, p) ==
  {k \in Tasks : /\ reservation[k] # NoReservation
                 /\ reservation[k].tenant = t /\ reservation[k].period = p}
\* Mutant: the scan covers reservations of the current month only.
AgedThisPeriod ==
  {k \in Tasks : /\ reservation[k] # NoReservation /\ reservation[k].aged
                 /\ reservation[k].period = now}

Aged == {k \in Tasks : reservation[k] # NoReservation /\ reservation[k].aged}

\* What the task's reservation holds back.
Estimate == [k \in Tasks |->
  IF reservation[k] = NoReservation THEN 0 ELSE reservation[k].est]

\* reapExpiredReservations: one transaction over every aged reservation.
Reap ==
  /\ Aged # {}
  /\ row' = [t \in Tenants |-> [p \in Periods |->
       LET gone == Held(t, p) \cap Aged IN
       IF gone = {} THEN row[t][p]
       ELSE Released(row[t][p], SumFunctionOnSet(Estimate, gone))]]
  /\ reservation' = [k \in Tasks |->
       IF k \in Aged THEN NoReservation ELSE reservation[k]]
  /\ UNCHANGED <<charged, booked, peak, gateway, world, config, mail>>

\* maxAgeSeconds pass for one reservation.
Age(k) ==
  /\ reservation[k] # NoReservation /\ ~reservation[k].aged
  /\ reservation' = [reservation EXCEPT ![k].aged = TRUE]
  /\ UNCHANGED <<row, charged, booked, peak, gateway, world, config, mail>>

Rollover ==
  /\ now < MaxPeriod /\ now' = now + 1
  /\ UNCHANGED <<db, gateway, world, caps, reloads, mail>>

---------------------------------------------------------------------------
Intake(k) ==
  \/ RefuseEarly(k) \/ Submit(k) \/ ReserveOk(k) \/ ReserveRefused(k)
  \/ ReserveNoCap(k) \/ StartTask(k) \/ StartFails(k) \/ Release(k)
  \/ GatewayCrash(k)

BudgetNext ==
  \/ \E k \in Tasks : Intake(k) \/ Finish(k) \/ Stray(k) \/ Age(k)
  \/ \E m \in mail : Deliver(m) \/ DeliverUnacked(m)
  \/ \E t \in Tenants : UpsertCap(t)
  \/ ReloadCaps \/ Reap \/ Rollover

BudgetSpec == BudgetInit /\ [][BudgetNext]_budgetVars

\* JetStream redelivers until the ack arrives, the reaper ticks for ever, and
\* a failed tick or delivery is tried again.
Fairness ==
  /\ \A k \in Tasks : WF_budgetVars(Age(k))
  /\ \A k \in Tasks, s, t \in Tenants, c \in Costs :
       WF_budgetVars(Deliver([task |-> k, subject |-> s, tenant |-> t, cost |-> c]))
  /\ \A t \in Tenants : WF_budgetVars(UpsertCap(t))
  /\ WF_budgetVars(Reap)

BudgetFairSpec == BudgetSpec /\ Fairness

---------------------------------------------------------------------------
LedgerTypes ==
  /\ row \in [Tenants -> [Periods -> Row \cup {NoRow}]]
  /\ reservation \in [Tasks -> Reservation \cup {NoReservation}]
  /\ charged \subseteq Tasks
  /\ booked \in [Tasks -> {"none", "committed", "uncapped"}]
  /\ peak \in [Tenants -> [Periods -> Nat]]
CallTypes ==
  /\ phase \in [Tasks -> {"new", "reserving", "starting", "releasing",
                          "answered"}]
  /\ call \in [Tasks -> [period : Periods, est : Nat]]
  /\ admission \in [Tasks -> {"none", "ok", "no_cap"}]
WorldTypes ==
  /\ run \in [Tasks -> {"none", "running", "finished"}]
  /\ cost \in [Tasks -> Nat]
  /\ mail \subseteq Completion
  /\ now \in Periods /\ caps \in CapFiles
  /\ strays \in Nat /\ reloads \in Nat
BudgetTypeOK == LedgerTypes /\ CallTypes /\ WorldTypes

\* What a row holds as reserved is the sum of the open reservations made
\* against it: no release, charge, reap or rollover loses or returns an
\* estimate twice, so GREATEST(0, ...) never hides a difference.
ReservedIsOpen ==
  \A t \in Tenants, p \in Periods :
    IF row[t][p] = NoRow THEN Held(t, p) = {}
    ELSE row[t][p].reserved = SumFunctionOnSet(Estimate, Held(t, p))

Overrun == [k \in Tasks |->
  IF cost[k] > call[k].est THEN cost[k] - call[k].est ELSE 0]
BookedIn(t, p) ==
  {k \in Tasks : booked[k] = "committed" /\ Owner[k] = t /\ call[k].period = p}

\* Admission is exact: a row exceeds the highest cap it has had by no more
\* than what booked tasks cost above their estimates, whatever the order of
\* submissions, charges, reaps and cap changes.
OverBudgetIsOverrun ==
  \A t \in Tenants, p \in Periods : row[t][p] # NoRow =>
    row[t][p].committed + row[t][p].reserved <=
      peak[t][p] + SumFunctionOnSet(Overrun, BookedIn(t, p))

Committed(t, p) == IF row[t][p] = NoRow THEN 0 ELSE row[t][p].committed

BookedBy(k, t, p) ==
  /\ Owner[k] = t /\ run[k] = "finished"
  /\ reservation'[k] = NoReservation
  /\ booked[k] = "none" /\ booked'[k] = "committed"
  /\ Committed(t, p)' = Committed(t, p) + cost[k]
BookingStep ==
  \A t \in Tenants, p \in Periods :
    Committed(t, p)' # Committed(t, p) => \E k \in Held(t, p) : BookedBy(k, t, p)

\* Spend is booked only as the whole actual cost of one finished task of this
\* tenant, to the month that admitted it, and never a second time.
OneBooking == [][BookingStep]_budgetVars

\* A task that holds a reservation has not been charged: its own completion
\* still settles it, however many others were refused before.
OpenIsUncharged ==
  \A k \in Tasks : reservation[k] # NoReservation => k \notin charged

\* Every reservation is given back or charged in the end, also when the start
\* was never answered, the completion was lost or the month has turned.
CapacityReturns ==
  \A k \in Tasks :
    reservation[k] # NoReservation ~> reservation[k] = NoReservation

\* A completion is charged in the end, whatever acks are lost.
CompletionCharged ==
  \A k \in Tasks : (\E m \in mail : m.task = k /\ m.subject = Owner[k]
                                   /\ m.tenant = Owner[k]) ~> k \in charged

\* A month that turns over leaves no tenant of the caps file without its cap.
RolloverRecapped ==
  \A t \in Tenants :
    (caps[t] # NoCap /\ row[t][now] = NoRow)
      ~> (caps[t] = NoCap \/ row[t][now] # NoRow)

\* The ledger is exact at any time, and admission with it.
LedgerIsExact == ReservedIsOpen /\ OverBudgetIsOverrun

\* An open reservation is settled by its own task.
SettlesItsOwn == BudgetTypeOK /\ OpenIsUncharged

\* The books settle: reservations, completions and months.
BooksSettle == CapacityReturns /\ CompletionCharged /\ RolloverRecapped
=============================================================================
