\* One deployment of a new version over the incumbent, with a publisher and an
\* operator calling the registry meanwhile.
SPECIFICATION FairSpec
CHECK_DEADLOCK FALSE
CONSTANTS
  NoRow = NoRow
  Versions = {"v1", "v2"}
  First = "v1"
  Candidate = "v2"
  Clients = {"ctl", "ops", "pub"}
  Awaiting = {"ctl"}
  RampSteps <- TwoSteps
  Names = {"a", "b"}
  Approval = TRUE
  MaxOps = 1
  MaxPublishes = 1
  MaxAttempts = 2
  MaxSuccessDelta = 5
  MaxP95Ratio = 150
  MaxCostRatio = 150
  MinShadowCompletion = 95
  MinShadowSamples = 1
  MaxQualityDelta = 5
  MinQualitySamples = 1
  Steps <- StepKinds
INVARIANTS ReleaseIsSound
PROPERTIES RampIsEarned OnlyAdminLowersFlag DeploymentEnds
