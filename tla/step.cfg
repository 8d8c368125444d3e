\* Every kind of dispatch against two changes of routing and flags.
SPECIFICATION FairSpec
CONSTANTS
  Cards = {"v1", "v2", "other"}
  AgentOf <- TwoAgents
  PlanAgent = "agentA"
  Declaring = {"v1", "v2"}
  MaxAttempts = 2
  MaxChanges = 2
INVARIANTS DispatchIsGrounded OutcomeIsHonest
PROPERTIES Returns ImplementsStep
