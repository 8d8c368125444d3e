------------------------------ MODULE Quality ------------------------------
(***************************************************************************)
(* Online evaluation of one agent that serves several tenants.  Judge jobs *)
(* score sampled steps, probe jobs check known answers; both post their    *)
(* observation to the evaluation service, which stores it once and runs    *)
(* the ladder: read the state of the tenant's lane, recompute the budget   *)
(* from the window, act on a rise, write the state back.  The passes of    *)
(* several requests overlap and nothing locks the lane.                    *)
(*                                                                         *)
(* Scores, the SLO and the agreement are tenths.                           *)
(***************************************************************************)
EXTENDS Integers, Sequences, FiniteSets, Functions

CONSTANTS Tenants, Jobs,
          Job,           \* [tenant, source, route, percent, bucket] of each job
          Loads,         \* the sets of jobs that may be there together
          Expect,        \* what a probe's answer must say
          Answers,       \* answers a probe may get
          Completions,   \* what the judge's model may return
          Calibrations,  \* calibration files the judge may be deployed with
          Rubric, Model, MinAgreement,
          Slo, SloDefault, MinSamples, ProbeWeight,
          SevereProbes, FloorCycles, FloorBurn,
          MaxServing,    \* requests the service works on at a time
          MaxFaults,     \* lost requests, failed calls, timeouts, crashes
          MaxReinstated  \* reinstatements by an administrator

Levels == <<"ok", "warning", "exhausted", "severe", "floor">>
Order(l) == CHOOSE i \in DOMAIN Levels : Levels[i] = l
Rungs == Range(Levels)

ASSUME QualityAssumption ==
  /\ \A j \in Jobs :
       /\ Job[j].tenant \in Tenants /\ Job[j].source \in {"judge", "probe"}
       /\ Job[j].route \in {"active", "canary", "shadow", "probe"}
       /\ Job[j].source = "probe" => Job[j].route = "probe"
       /\ Job[j].percent \in 0..100 /\ Job[j].bucket \in 0..99
  /\ \A c \in Completions : c.kind \in {"error", "junk", "verdict"} /\ c.score \in Int
  /\ Slo \in 0..10 /\ SloDefault \in 0..10 /\ MinAgreement \in 0..10
  /\ {MinSamples, ProbeWeight, FloorBurn, MaxServing, MaxFaults, MaxReinstated} \subseteq Nat
  /\ {SevereProbes, FloorCycles} \subseteq Nat \ {0}

VARIABLES calibration,  \* the judge's calibration records
          job,          \* where each judge or probe job is
          rows,         \* online_scores, in the order recorded
          cut,          \* how many of them have left the window
          pass,         \* the ladder pass of each stored observation
          qstate,       \* quality_state of each lane
          suspended, reinstated, faults,
          raced         \* lanes in which passes overlapped or were cut short

qualityVars == <<calibration, job, rows, cut, pass, qstate, suspended, reinstated,
          faults, raced>>
service == <<rows, cut, pass, qstate, suspended, reinstated, raced>>

Null == 11       \* no judged score

-----------------------------------------------------------------------------
(* Producing an observation.                                               *)

\* decideJudgeSample: a shadow soak is always judged.
DecideJudgeSample(j) == Job[j].route = "shadow" \/ Job[j].bucket < Job[j].percent

\* computeAgreement over the labelled cases; a case the judge cannot score
\* counts as zero.
ComputeAgreement(results) ==
  LET agreed == SelectSeq(results, LAMBDA r : (r.score >= 7) = r.label) IN
  IF results = <<>> THEN 0 ELSE (10 * Len(agreed)) \div Len(results)
\* calibrate: the record a measurement against some rubric leaves.
Calibrate(rubric, results) ==
  [model |-> Model, rubric |-> rubric, agreement |-> ComputeAgreement(results)]

\* assertCalibrated: the first record of this model and these rubric bytes.
AssertCalibrated(records) ==
  LET matches(i) == records[i].model = Model /\ records[i].rubric = Rubric IN
  \E i \in DOMAIN records : /\ matches(i) /\ records[i].agreement >= MinAgreement
                            /\ \A k \in DOMAIN records : k < i => ~matches(k)

\* parseVerdict: a completion with a valid verdict, its score clamped.
ParseVerdict(c) ==
  IF c.kind # "verdict" THEN [ok |-> FALSE, score |-> Null]
  ELSE [ok |-> TRUE, score |-> IF c.score > 10 THEN 10 ELSE IF c.score < 0 THEN 0 ELSE c.score]

\* Judge.score: calibration first, then the call, then the verdict.
JudgeScore(c) ==
  IF ~AssertCalibrated(calibration) THEN [outcome |-> "uncalibrated", score |-> Null]
  ELSE IF c.kind = "error" THEN [outcome |-> "judge_error", score |-> Null]
  ELSE IF ~ParseVerdict(c).ok THEN [outcome |-> "unparseable_verdict", score |-> Null]
  ELSE [outcome |-> "scored", score |-> ParseVerdict(c).score]

NullAnswer == [contains |-> {}, cites |-> {}, abstained |-> FALSE]

\* checkProbe: an expectation that is not stated is met.
CheckProbe(a) ==
  /\ Expect.contains \subseteq a.contains /\ Expect.cites \subseteq a.cites
  /\ Expect.abstain = "any" \/ (Expect.abstain = "yes") = a.abstained

IdleJob == [at |-> "todo", attempt |-> 1, obs |-> [score |-> Null, failed |-> FALSE]]
EndedJob == [IdleJob EXCEPT !.at = "done"]
NoPass == [at |-> "none", prior |-> "ok", fails |-> 0, level |-> "ok", due |-> <<>>]

QualityInit ==
  /\ calibration \in Calibrations
  /\ \E load \in Loads : job = [j \in Jobs |-> IF j \in load THEN IdleJob ELSE EndedJob]
  /\ rows = <<>> /\ cut = 0
  /\ pass = [j \in Jobs |-> NoPass]
  /\ qstate = [t \in Tenants |-> [level |-> "ok", fails |-> 0]]
  /\ suspended = FALSE /\ reinstated = 0 /\ faults = 0 /\ raced = {}

Over(at) == [NoPass EXCEPT !.at = at]
Ends(j) == job' = [job EXCEPT ![j] = EndedJob]
Posts(j, score, failed) ==
  job' = [job EXCEPT ![j].at = "post", ![j].obs = [score |-> score, failed |-> failed]]

\* A step that was not sampled is not judged.
Unsampled(j) ==
  /\ job[j].at = "todo" /\ Job[j].source = "judge" /\ ~DecideJudgeSample(j)
  /\ Ends(j)
  /\ UNCHANGED <<calibration, service, faults>>

\* Mutant: a condition of the judge is retried without end.
RunJudgeForEver(j) ==
  /\ job[j].at = "todo" /\ Job[j].source = "judge" /\ DecideJudgeSample(j)
  /\ \/ Posts(j, Null, TRUE)
     \/ \E c \in Completions :
          LET r == JudgeScore(c) IN
          IF r.outcome = "scored" THEN Posts(j, r.score, FALSE)
          ELSE job' = [job EXCEPT ![j].attempt = IF @ = 1 THEN 2 ELSE 1]
  /\ UNCHANGED <<calibration, service, faults>>
\* runJudgeScore: a failed step is an observation without a judge; a condition
\* of the judge is none.
RunJudge(j) ==
  /\ job[j].at = "todo" /\ Job[j].source = "judge" /\ DecideJudgeSample(j)
  /\ \/ Posts(j, Null, TRUE)
     \/ \E c \in Completions :
          LET r == JudgeScore(c) IN
          IF r.outcome = "scored" THEN Posts(j, r.score, FALSE) ELSE Ends(j)
  /\ UNCHANGED <<calibration, service, faults>>

\* A probe is a task of its own; a suspended agent answers nothing.
RunProbe(j) ==
  /\ job[j].at = "todo" /\ Job[j].source = "probe"
  /\ \E a \in Answers \cup {NullAnswer} :
       /\ suspended => a = NullAnswer
       /\ Posts(j, Null, ~CheckProbe(a))
  /\ UNCHANGED <<calibration, service, faults>>

-----------------------------------------------------------------------------
(* POST /v1/scores and the window.                                         *)

Stored(j) == \E i \in DOMAIN rows : rows[i].id = j
Busy(t) == {j \in Jobs : Job[j].tenant = t /\ pass[j].at \in {"read", "observe", "act"}}

\* The request does not arrive: the activity logs and goes on.
PostLost(j) ==
  /\ job[j].at = "post" /\ faults < MaxFaults
  /\ faults' = faults + 1 /\ Ends(j)
  /\ UNCHANGED <<calibration, service>>

\* The id is derived from the task and the step: what was stored stays, and its
\* ladder pass is not run again.
Ingest(j) ==
  LET t == Job[j].tenant IN
  /\ job[j].at = "post"
  /\ \/ Stored(j) /\ Ends(j) /\ UNCHANGED <<rows, pass, raced>>
     \/ /\ ~Stored(j) /\ Cardinality(UNION {Busy(u) : u \in Tenants}) < MaxServing
        /\ rows' = Append(rows, [id |-> j, obs |-> job[j].obs])
        /\ pass' = [pass EXCEPT ![j].at = "read"]
        /\ raced' = IF Busy(t) # {} THEN raced \cup {t} ELSE raced
        /\ job' = [job EXCEPT ![j].at = "wait"]
  /\ UNCHANGED <<calibration, cut, qstate, suspended, reinstated, faults>>

\* After a quiet time what was recorded so far has left the window.
Slide ==
  /\ cut < Len(rows) /\ cut' = Len(rows)
  /\ UNCHANGED <<calibration, job, rows, pass, qstate, suspended, reinstated,
                 faults, raced>>

Window(t) == {i \in (cut + 1)..Len(rows) : Job[rows[i].id].tenant = t}
Route(i) == Job[rows[i].id].route
IsBad(i) == rows[i].obs.failed \/ (rows[i].obs.score # Null /\ rows[i].obs.score < 7)
OfSource(S, source) == {i \in S : Job[rows[i].id].source = source}
\* A judged observation weighs 1, a probe's what the configuration says.
WeightOf(S) ==
  Cardinality(OfSource(S, "judge")) + ProbeWeight * Cardinality(OfSource(S, "probe"))

\* Mutant: the candidate of a shadow soak counts.
CountedWithShadow(t) == Window(t)
Counted(t) == {i \in Window(t) : Route(i) # "shadow"}

\* computeBudget: bad weight over what the SLO tolerates.  An SLO of 1 tolerates
\* next to nothing, so there any bad weight is beyond every bound.
ComputeBudget(t, slo) ==
  LET total == WeightOf(Counted(t))
      bad == WeightOf({i \in Counted(t) : IsBad(i)})
      burnt(n, d) == /\ total > 0 /\ (bad > 0 \/ n = 0)
                     /\ d * 10 * bad >= n * total * (10 - slo)
      measurable == total >= MinSamples IN
  [measurable |-> measurable,
   state |-> IF measurable /\ burnt(1, 1) THEN "exhausted"
             ELSE IF measurable /\ burnt(1, 2) THEN "warning" ELSE "ok",
   catastrophic |-> IF total = 0 THEN FloorBurn = 0 ELSE burnt(FloorBurn, 1)]

\* The mean judged score on production routes is more than two tenths short.
MeanTooLow(t, slo) ==
  LET judged == {i \in Window(t) : Route(i) \in {"active", "canary"} /\ rows[i].obs.score # Null}
      scores == [i \in judged |-> rows[i].obs.score] IN
  judged # {} /\ SumFunctionOnSet(scores, judged) < Cardinality(judged) * (slo - 2)

ComputeLadderLevel(t, slo, fails) ==
  LET b == ComputeBudget(t, slo) IN
  IF fails >= FloorCycles THEN "floor"
  ELSE IF \/ fails >= SevereProbes
          \/ b.measurable /\ (MeanTooLow(t, slo) \/ b.catastrophic) THEN "severe"
  ELSE b.state

\* planLadderTransition: each action on the way up past its rung; telling the
\* owner is a log line.
PlanLadderTransition(prev, next) ==
  LET onEntering(rung, a) ==
        IF Order(prev) < Order(rung) /\ Order(rung) <= Order(next) THEN <<a>> ELSE <<>> IN
  onEntering("severe", "abort_deployment") \o onEntering("floor", "suspend")

-----------------------------------------------------------------------------
(* runLadder: one pass per stored observation.                             *)

ReadState(j) ==
  /\ pass[j].at = "read"
  /\ pass' = [pass EXCEPT ![j].at = "observe", ![j].prior = qstate[Job[j].tenant].level,
                ![j].fails = qstate[Job[j].tenant].fails]
  /\ UNCHANGED <<calibration, job, rows, cut, qstate, suspended, reinstated,
                 faults, raced>>

RowOf(j) == CHOOSE i \in DOMAIN rows : rows[i].id = j

\* Mutant: a judged sample ends the streak too.
StreakAny(j) == IF rows[RowOf(j)].obs.failed THEN pass[j].fails + 1 ELSE 0
Streak(j) ==
  IF Job[j].source # "probe" THEN pass[j].fails
  ELSE IF rows[RowOf(j)].obs.failed THEN pass[j].fails + 1 ELSE 0

\* The owner's SLO is looked up and falls back to the default.
Observe(j) ==
  /\ pass[j].at = "observe"
  /\ \E level \in {ComputeLadderLevel(Job[j].tenant, slo, Streak(j)) :
                    slo \in {Slo, SloDefault}} :
       pass' = [pass EXCEPT ![j].at = "act", ![j].fails = Streak(j), ![j].level = level,
                  ![j].due = PlanLadderTransition(pass[j].prior, level)]
  /\ UNCHANGED <<calibration, job, rows, cut, qstate, suspended, reinstated,
                 faults, raced>>

\* The budget_state_changed record is not acknowledged: the request fails.
AuditFails(j) ==
  /\ pass[j].at = "act" /\ pass[j].level # pass[j].prior /\ faults < MaxFaults
  /\ pass[j].due = PlanLadderTransition(pass[j].prior, pass[j].level)
  /\ faults' = faults + 1
  /\ pass' = [pass EXCEPT ![j] = Over("dead")]
  /\ raced' = raced \cup {Job[j].tenant} /\ Ends(j)
  /\ UNCHANGED <<calibration, rows, cut, qstate, suspended, reinstated>>

\* A failed action is logged.
Act(j) ==
  LET a == Head(pass[j].due) IN
  /\ pass[j].at = "act" /\ pass[j].due # <<>>
  /\ pass' = [pass EXCEPT ![j].due = Tail(@)]
  /\ \/ /\ suspended' = (suspended \/ a = "suspend")
        /\ UNCHANGED faults
     \/ /\ faults < MaxFaults
        /\ faults' = faults + 1
        /\ UNCHANGED suspended
  /\ UNCHANGED <<calibration, job, rows, cut, qstate, reinstated, raced>>

UpsertQualityState(j) ==
  /\ pass[j].at = "act" /\ pass[j].due = <<>>
  /\ qstate' = [qstate EXCEPT ![Job[j].tenant] = [level |-> pass[j].level, fails |-> pass[j].fails]]
  /\ pass' = [pass EXCEPT ![j] = Over("done")]
  /\ job' = IF job[j].at = "wait" THEN [job EXCEPT ![j] = EndedJob] ELSE job
  /\ UNCHANGED <<calibration, rows, cut, suspended, reinstated, faults, raced>>

\* The service ends between two statements; the requests it was serving fail.
Crash ==
  LET cutShort == {j \in Jobs : pass[j].at \in {"read", "observe", "act"}} IN
  /\ cutShort # {} /\ faults < MaxFaults
  /\ faults' = faults + 1
  /\ pass' = [j \in Jobs |-> IF j \in cutShort THEN Over("dead") ELSE pass[j]]
  /\ job' = [j \in Jobs |-> IF job[j].at = "wait" THEN EndedJob ELSE job[j]]
  /\ raced' = raced \cup {Job[j].tenant : j \in cutShort}
  /\ UNCHANGED <<calibration, rows, cut, qstate, suspended, reinstated>>

Attempts(j) == IF Job[j].source = "judge" THEN 3 ELSE 2

\* An activity outlives its timeout: it is run again, a probe with the answer it
\* already has, a judge from the start; its request goes on being served.
TimesOut(j) ==
  /\ job[j].at \in {"post", "wait"} /\ faults < MaxFaults
  /\ faults' = faults + 1
  /\ job' = [job EXCEPT ![j].attempt = @ + 1,
               ![j].at = IF job[j].attempt = Attempts(j) THEN "done"
                         ELSE IF Job[j].source = "judge" THEN "todo" ELSE "post"]
  /\ UNCHANGED <<calibration, service>>

\* An administrator reinstates the agent.
Reinstate ==
  /\ suspended /\ reinstated < MaxReinstated
  /\ suspended' = FALSE /\ reinstated' = reinstated + 1
  /\ UNCHANGED <<calibration, job, rows, cut, pass, qstate, faults, raced>>

Produce(j) == Unsampled(j) \/ RunJudge(j) \/ RunProbe(j) \/ Ingest(j)
Enforce(j) == ReadState(j) \/ Observe(j) \/ Act(j) \/ UpsertQualityState(j)

QualityNext ==
  \/ \E j \in Jobs : \/ Produce(j) \/ Enforce(j)
                     \/ PostLost(j) \/ AuditFails(j) \/ TimesOut(j)
  \/ Slide \/ Crash \/ Reinstate

QualitySpec == QualityInit /\ [][QualityNext]_qualityVars
QualityFairSpec == QualitySpec /\ \A j \in Jobs : WF_qualityVars(Produce(j)) /\ WF_qualityVars(Enforce(j))

-----------------------------------------------------------------------------
(* GET /v1/agents/:id/quality.                                             *)

Frozen(t, slo) ==
  ComputeBudget(t, slo).state = "exhausted" \/ Order(qstate[t].level) > Order("exhausted")

-----------------------------------------------------------------------------
(* Properties.                                                             *)

QualityTypeOK ==
  /\ \A j \in Jobs :
       /\ job[j].at \in {"todo", "post", "wait", "done"} /\ job[j].attempt \in 1..4
       /\ job[j].obs.score \in 0..Null
       /\ pass[j].at \in {"none", "read", "observe", "act", "done", "dead"}
       /\ pass[j].level \in Rungs /\ pass[j].fails \in Nat
  /\ cut \in 0..Len(rows)
  /\ \A i, k \in DOMAIN rows : rows[i].id = rows[k].id => i = k
  /\ \A t \in Tenants : qstate[t].level \in Rungs /\ qstate[t].fails \in Nat

Past(t) == {i \in DOMAIN rows : Job[rows[i].id].tenant = t /\ Route(i) # "shadow"}
FailedProbes(t) == {i \in Past(t) : Job[rows[i].id].source = "probe" /\ rows[i].obs.failed}

\* The agent is suspended only after one tenant's probes failed often enough,
\* each counted once, whatever was retried or served twice and however badly
\* the judge rates anybody's traffic.
SuspensionIsCorroborated ==
  suspended => \E t \in Tenants : Cardinality(FailedProbes(t)) >= FloorCycles

\* A score more than two tenths short of an SLO the lane is held to.
FallsShort(i) ==
  rows[i].obs.score # Null /\ \E slo \in {Slo, SloDefault} : rows[i].obs.score < slo - 2

\* A lane is frozen on evidence of its own: failed probes, or enough production
\* observations and a bad or short one among them; not by another tenant, not by
\* a candidate in shadow.  (With a floor burn of 0 whatever can be measured is
\* severe.)
FreezeIsEarned ==
  \A t \in Tenants, slo \in {Slo, SloDefault} :
    Frozen(t, slo) =>
      \/ \E n \in {SevereProbes, FloorCycles} : Cardinality(FailedProbes(t)) >= n
      \/ /\ WeightOf(Past(t)) >= MinSamples
         /\ FloorBurn = 0 \/ \E i \in Past(t) : IsBad(i) \/ FallsShort(i)

\* A judge that is not calibrated, does not answer or cannot be read leaves no
\* observation: only failed steps and clamped scores of a proven judge are stored.
JudgeConditionsAreSilent ==
  \A i \in DOMAIN rows :
    (Job[rows[i].id].source = "judge" /\ ~rows[i].obs.failed) =>
      /\ rows[i].obs.score \in 0..10
      /\ \E r \in Range(calibration) :
           r.model = Model /\ r.rubric = Rubric /\ r.agreement >= MinAgreement

\* Failed probes of the lane since its last passed one.
Trailing(t) ==
  LET probes == {i \in Past(t) : Job[rows[i].id].source = "probe"} IN
  Cardinality({i \in probes : \A k \in probes : k >= i => rows[k].obs.failed})

\* Where no two passes overlapped and none was cut short, the stored streak is
\* the number of probes that failed since the last that passed.
StreakIsExact ==
  \A t \in Tenants \ raced : Busy(t) = {} => qstate[t].fails = Trailing(t)

\* What the ladder enforces is earned by the lane it is enforced on.
EnforcementIsEarned == QualityTypeOK /\ SuspensionIsCorroborated /\ FreezeIsEarned

\* What it enforces on is evidence: no condition of the judge, no probe counted
\* twice or forgotten.
EvidenceIsTrue == JudgeConditionsAreSilent /\ StreakIsExact

\* Every judge and every probe ends, and the passes they started with them.
JobsEnd == <>(\A j \in Jobs : job[j].at = "done" /\ pass[j].at \in {"none", "done", "dead"})

=============================================================================
