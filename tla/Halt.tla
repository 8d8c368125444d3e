-------------------------------- MODULE Halt --------------------------------
(***************************************************************************)
(* The kill switch and the gateway's fleet canceller.  Operators flip      *)
(* flags in the control bucket; the watcher of the gateway follows them in *)
(* order and answers from memory; intake consults the watcher; while a     *)
(* fleet or tenant halt is in force the canceller sweeps the running tasks *)
(* and cancels those it covers.                                            *)
(*                                                                         *)
(* A sweep awaits the listing and then the audit and the cancel of every   *)
(* task, and sweeps overlap.  The set of tasks already cancelled in an     *)
(* episode of a key is an object: a sweep that outlives the episode holds  *)
(* a detached one.  The audit of a flip follows the flip and is read by    *)
(* nobody here.                                                            *)
(***************************************************************************)
EXTENDS Naturals, Sequences, FiniteSets, FiniteSetsExt

CONSTANTS Tenants, Tasks, Owner,
          Early,        \* tasks that run when the history begins
          FlipKeys,     \* the keys operators flip
          Sweeps,       \* sweeps that may overlap
          MaxFlips,     \* flips of the operators, at most the bucket's history
          MaxFaults     \* failed listings, audits and cancels, and restarts

ASSUME HaltAssumption ==
  /\ Owner \in [Tasks -> Tenants] /\ Early \subseteq Tasks /\ FlipKeys \subseteq {"fleet"} \cup Tenants
  /\ MaxFlips \in 0..5 /\ MaxFaults \in Nat
  /\ Tenants \cap {"fleet", "none"} = {}

VARIABLES hist,      \* the bucket: every flip of a killswitch key, in order
          pos,       \* how many of them the gateway's watcher has applied
          started,   \* FleetCanceller.start() has run
          sweeping,  \* the sweep timer is armed
          marked,    \* cancelledByHaltKey
          sweep,     \* the sweeps in flight
          task,      \* where each task is
          faults     \* faults so far

haltVars == <<hist, pos, started, sweeping, marked, sweep, task, faults>>

\* The keys of the fleet's and of the tenants' halts; the canceller ignores
\* flips of any other key.
HaltKeys == {"fleet"} \cup Tenants
IdleSweep == [at |-> "idle", snap |-> {}, todo |-> {}, cur |-> "none", key |-> "none",
         attached |-> FALSE]

\* The flags after the first n flips: the last one of each key counts.
Active(n) ==
  {k \in HaltKeys : \E i \in 1..n :
     hist[i].key = k /\ hist[i].active /\ \A j \in (i + 1)..n : hist[j].key # k}
Seen == Active(pos)
InForce == Active(Len(hist))

\* activeTenantHalts and fleetHalt, for the canceller.
Halts == Seen
AnyHaltActive == Halts # {}

HaltInit ==
  /\ hist = <<>> /\ pos = 0 /\ started = FALSE /\ sweeping = FALSE
  /\ marked = [k \in HaltKeys |-> {}]
  /\ sweep = [s \in Sweeps |-> IdleSweep]
  /\ task = [t \in Tasks |-> IF t \in Early THEN "running" ELSE "new"]
  /\ faults = 0

-----------------------------------------------------------------------------
(* Flags.                                                                  *)

\* A flag is put; one that is in force may be put again.
Put(k, a) ==
  /\ Len(hist) < MaxFlips
  /\ a \/ k \in InForce
  /\ hist' = Append(hist, [key |-> k, active |-> a])
  /\ UNCHANGED <<pos, started, sweeping, marked, sweep, task, faults>>

\* The fleet is halted and resumed through the registry's route, a tenant by
\* the operator's script.
FlipFleet == "fleet" \in FlipKeys /\ \E a \in BOOLEAN : Put("fleet", a)
FlipTenant == \E k \in FlipKeys \ {"fleet"}, a \in BOOLEAN : Put(k, a)

Free == {s \in Sweeps : sweep[s].at = "idle"}

\* sweepOnce up to its first await: with no halt left it stands down.
Sweep(s, halts) == [IdleSweep EXCEPT !.at = "list", !.snap = halts]
Detached(k) == [s \in Sweeps |-> IF sweep[s].key = k
                                 THEN [sweep[s] EXCEPT !.attached = FALSE] ELSE sweep[s]]

\* Mutant: clearing one halt stops the timer though another is in force.
StillSweepingOne(halts, k) == sweeping /\ k \notin HaltKeys
\* Mutant: the timer is never stopped.
StillSweepingAlways(halts, k) == sweeping
\* After key k was cleared the timer runs on if some halt remains.
StillSweeping(halts, k) == sweeping /\ halts # {}

\* The watcher applies the next entry and calls the canceller's listener.
Deliver ==
  LET f == hist[pos + 1]  halts == Active(pos + 1) IN
  /\ pos < Len(hist)
  /\ pos' = pos + 1
  /\ IF ~started
     THEN UNCHANGED <<sweeping, marked, sweep>>
     ELSE /\ marked' = [marked EXCEPT ![f.key] = {}]
          /\ \/ /\ f.active
                /\ sweeping' = TRUE
                /\ \E s \in Free : sweep' = [Detached(f.key) EXCEPT ![s] = Sweep(s, halts)]
             \/ /\ ~f.active
                /\ sweeping' = StillSweeping(halts, f.key)
                /\ sweep' = Detached(f.key)
  /\ UNCHANGED <<hist, started, task, faults>>

-----------------------------------------------------------------------------
(* Intake.                                                                 *)

\* POST /v1/tasks reads the watcher, then awaits the budget and the start.
Submit(t) ==
  /\ task[t] = "new"
  /\ task' = [task EXCEPT ![t] = IF {"fleet", Owner[t]} \cap Seen = {}
                                 THEN "admitted" ELSE "refused"]
  /\ UNCHANGED <<hist, pos, started, sweeping, marked, sweep, faults>>

StartTask(t) ==
  /\ task[t] = "admitted"
  /\ task' = [task EXCEPT ![t] = "running"]
  /\ UNCHANGED <<hist, pos, started, sweeping, marked, sweep, faults>>

EndTask(t) ==
  /\ task[t] \in {"running", "cancelling"}
  /\ task' = [task EXCEPT ![t] = "ended"]
  /\ UNCHANGED <<hist, pos, started, sweeping, marked, sweep, faults>>

-----------------------------------------------------------------------------
(* The canceller.                                                          *)

\* start(): a halt the watcher already knows is swept at once.
StartCanceller ==
  /\ ~started
  /\ started' = TRUE
  /\ \/ /\ AnyHaltActive
        /\ sweeping' = TRUE
        /\ \E s \in Free : sweep' = [sweep EXCEPT ![s] = Sweep(s, Halts)]
     \/ ~AnyHaltActive /\ UNCHANGED <<sweeping, sweep>>
  /\ UNCHANGED <<hist, pos, marked, task, faults>>

\* The interval; a halt cleared before this sweep disarms it.
SweepTick ==
  /\ sweeping
  /\ sweeping' = StillSweeping(Halts, "none")
  /\ \/ /\ AnyHaltActive
        /\ \E s \in Free : sweep' = [sweep EXCEPT ![s] = Sweep(s, Halts)]
     \/ ~AnyHaltActive /\ UNCHANGED sweep
  /\ UNCHANGED <<hist, pos, started, marked, task, faults>>

Set(s, r) == sweep' = [sweep EXCEPT ![s] = r]

\* What the visibility query returns: a workflow that unwinds still runs.
Open == {t \in Tasks : task[t] \in {"running", "cancelling"}}

List(s) ==
  /\ sweep[s].at = "list"
  /\ Set(s, [sweep[s] EXCEPT !.at = "next", !.todo = Open])
  /\ UNCHANGED <<hist, pos, started, sweeping, marked, task, faults>>

ListFails(s) ==
  /\ sweep[s].at = "list" /\ faults < MaxFaults
  /\ Set(s, IdleSweep) /\ faults' = faults + 1
  /\ UNCHANGED <<hist, pos, started, sweeping, marked, task>>

\* The fleet's halt, else the halt of the task's own tenant.
CoveringHalt(t, snap) ==
  IF "fleet" \in snap THEN "fleet"
  ELSE IF Owner[t] \in snap THEN Owner[t] ELSE "none"

\* The next task of the listing: passed over, or marked and taken up.
Take(s, t) ==
  LET k == CoveringHalt(t, sweep[s].snap)
      rest == [sweep[s] EXCEPT !.todo = @ \ {t}] IN
  /\ sweep[s].at = "next" /\ t \in sweep[s].todo
  /\ \/ /\ k # "none" /\ t \notin marked[k]
        /\ marked' = [marked EXCEPT ![k] = @ \cup {t}]
        /\ Set(s, [rest EXCEPT !.at = "cancel", !.cur = t, !.key = k, !.attached = TRUE])
     \/ /\ k # "none" => t \in marked[k]
        /\ Set(s, rest)
        /\ UNCHANGED marked
  /\ UNCHANGED <<hist, pos, started, sweeping, task, faults>>

Next1(s) == [sweep[s] EXCEPT !.at = "next", !.cur = "none", !.key = "none", !.attached = FALSE]

\* The audit, then cancel(): a workflow that is no longer running is left
\* alone.
Cancel(s) ==
  /\ sweep[s].at = "cancel"
  /\ task' = [task EXCEPT ![sweep[s].cur] = IF @ = "running" THEN "cancelling" ELSE @]
  /\ Set(s, Next1(s))
  /\ UNCHANGED <<hist, pos, started, sweeping, marked, faults>>

\* Mutant: the mark stays.
UnmarkedNever(s) == marked
Unmarked(s) == IF sweep[s].attached
               THEN [marked EXCEPT ![sweep[s].key] = @ \ {sweep[s].cur}] ELSE marked

\* The audit or the cancel throws: the mark is taken back from the set it was
\* put in.
CancelFails(s) ==
  /\ sweep[s].at = "cancel" /\ faults < MaxFaults
  /\ faults' = faults + 1
  /\ marked' = Unmarked(s)
  /\ Set(s, Next1(s))
  /\ UNCHANGED <<hist, pos, started, sweeping, task>>

Done(s) ==
  /\ sweep[s].at = "next" /\ sweep[s].todo = {}
  /\ Set(s, IdleSweep)
  /\ UNCHANGED <<hist, pos, started, sweeping, marked, task, faults>>

\* The gateway restarts: memory is lost, requests die, the watch begins with
\* the history.
Restart ==
  /\ faults < MaxFaults
  /\ faults' = faults + 1
  /\ pos' = 0 /\ started' = FALSE /\ sweeping' = FALSE
  /\ marked' = [k \in HaltKeys |-> {}]
  /\ sweep' = [s \in Sweeps |-> IdleSweep]
  /\ task' = [t \in Tasks |-> IF task[t] = "admitted" THEN "refused" ELSE task[t]]
  /\ UNCHANGED hist

Work(s) == List(s) \/ (\E t \in Tasks : Take(s, t)) \/ Cancel(s) \/ Done(s)

HaltNext ==
  \/ FlipFleet \/ FlipTenant \/ Deliver \/ StartCanceller \/ SweepTick \/ Restart
  \/ \E t \in Tasks : Submit(t) \/ StartTask(t) \/ EndTask(t)
  \/ \E s \in Sweeps : Work(s) \/ ListFails(s) \/ CancelFails(s)

HaltSpec == HaltInit /\ [][HaltNext]_haltVars

\* The watch delivers, timers fire, awaited calls return; nothing makes
\* operators or tasks move.  Strong fairness where the bound on overlapping
\* sweeps, which the code does not have, may disable.
HaltFairSpec ==
  /\ HaltSpec /\ SF_haltVars(Deliver) /\ WF_haltVars(StartCanceller) /\ WF_haltVars(SweepTick)
  /\ \A s \in Sweeps : WF_haltVars(Work(s))

-----------------------------------------------------------------------------
(* Properties.                                                             *)

Flip == [key : HaltKeys, active : BOOLEAN]
SweepType == [at : {"idle", "list", "next", "cancel"},
              snap : SUBSET HaltKeys, todo : SUBSET Tasks,
              cur : Tasks \cup {"none"}, key : HaltKeys \cup {"none"},
              attached : BOOLEAN]

HaltTypeOK ==
  /\ hist \in Seq(Flip) /\ pos \in 0..Len(hist)
  /\ started \in BOOLEAN /\ sweeping \in BOOLEAN
  /\ marked \in [HaltKeys -> SUBSET Tasks]
  /\ sweep \in [Sweeps -> SweepType]
  /\ task \in [Tasks -> {"new", "admitted", "refused", "running", "cancelling", "ended"}]
  /\ faults \in 0..MaxFaults

\* While the started canceller knows of a halt its timer is armed, whatever
\* order halts of the fleet and of tenants were set and cleared in.
SweepWhileHalted == started /\ AnyHaltActive => sweeping

\* A task is cancelled only if its own tenant or the fleet was ever halted,
\* however the sweeps and the flips overlap.
OtherTenantsUntouched ==
  \A t \in Tasks : task[t] = "cancelling" =>
    \E i \in DOMAIN hist : hist[i].active /\ hist[i].key \in {"fleet", Owner[t]}

\* Within an episode of a halt no two sweeps work on the same task.
OneCanceller ==
  \A r, s \in Sweeps :
    r # s /\ sweep[r].attached /\ sweep[s].attached /\ sweep[r].key = sweep[s].key
      => sweep[r].cur # sweep[s].cur

Covered(t) == {"fleet", Owner[t]} \cap InForce # {}

\* A halt is carried out by one canceller, on the tenants it names, for as long
\* as it is known to be in force.
HaltIsScoped == HaltTypeOK /\ SweepWhileHalted /\ OtherTenantsUntouched /\ OneCanceller

\* A running task that a halt covers is cancelled, ends, or sees the halt
\* lifted: also when it slipped through intake, when a sweep missed it or
\* failed on it, and when the gateway restarted.
HaltReaches ==
  \A t \in Tasks : (task[t] = "running" /\ Covered(t)) ~> (task[t] # "running" \/ ~Covered(t))

\* Once the last halt is lifted for good the timer is disarmed for good.
SweepingStops == <>[](InForce = {}) => <>[]~sweeping

=============================================================================
