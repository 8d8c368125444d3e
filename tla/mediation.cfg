SPECIFICATION FairSpec
\* The session of bounded steps ends.
CHECK_DEADLOCK FALSE
CONSTANTS
  Watchers = {"tools", "models", "tokens"}
  MaxPuts = 2
  AgentOf <- Principals
  DefaultTtl = 2
  MaxTtl = 3
  MaxTaskAge = 2
  Gateway = "tools"
  LlmWatcher = "models"
  Minter = "tokens"
  ToolScope <- Tools
  ToolRisk <- ToolRisks
  Sunset <- Sunsets
  Exchanged = {"knowledge_search"}
  Burst = 1
  Refill = 1
  MaxFaults = 2
  Callers <- Completions
  Steps = {"s1", "s2"}
  Classes = {"standard", "economy"}
  Bindings = 2
  Attempts <- TwoThenOne
  Rpm = 2
  RpmRefill = 1
  Deadline = 2
  AllowTtl = 2
  MaxLlmFaults = 2
  LoadSet <- Loads
  User = "user:jane"
  MintAttempts = 2
  RunAttempts = 2
  NoToken = NoToken
INVARIANTS WritesAreSound AnswersAreTrue
PROPERTIES AllowlistIsRecent StepsEnd
