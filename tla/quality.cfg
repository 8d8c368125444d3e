\* Judges and probes of two tenants observe one agent.
SPECIFICATION QualityFairSpec
CHECK_DEADLOCK FALSE
CONSTANTS
  Tenants = {"a", "b"}
  Jobs = {"p1", "p2", "j1", "s1", "j2", "q1"}
  Job <- JobTable
  Loads <- LoadSet
  Expect <- Known
  Answers <- AnswerSet
  Completions <- CompletionSet
  Calibrations <- CalibrationSet
  Rubric = "new"
  Model = "tier"
  MinAgreement = 8
  Slo = 9
  SloDefault = 9
  MinSamples = 2
  ProbeWeight = 1
  SevereProbes = 1
  FloorCycles = 2
  FloorBurn = 4
  MaxServing = 2
  MaxFaults = 1
  MaxReinstated = 1
INVARIANTS EnforcementIsEarned EvidenceIsTrue
PROPERTIES JobsEnd
