\* Two gateway calls and one raw signal against the gate.
SPECIFICATION FairSpec
CONSTANTS
  Principals = {"sam", "ann", "bob"}
  Subject = "sam"
  Requests = {r1, r2}
  Posts <- SomePosts
  RawSignals <- SomeRawSignals
  MaxRaw = 1
  EscalateAfter = 1
  DenyAfter = 3
  AuditMax = 1
INVARIANTS DecisionIsSound DeadlineIsExact AcceptedIsDecided
PROPERTIES GateCloses
