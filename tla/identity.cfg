SPECIFICATION FairSpec
\* A worker whose loop has ended takes no more steps.
CHECK_DEADLOCK FALSE
CONSTANTS
  Watchers = {"tokens"}
  MaxPuts = 2
  AgentOf <- Principals
  DefaultTtl = 4
  MaxTtl = 4
  MaxTaskAge = 2
  Workers = {"w1", "w2"}
  LoadSet <- Loads
  Service = "tokens"
  Accounts <- AccountOf
  RetryDelay = 1
  MaxBackoff = 2
  NoSession = NoSession
INVARIANTS IdentityIsOwn TokensAreTimely
PROPERTIES TokensComeAndStay
