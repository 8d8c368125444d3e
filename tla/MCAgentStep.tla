---------------------------- MODULE MCAgentStep -----------------------------
EXTENDS AgentStep

\* Two versions of one agent, and another agent that serves the capability too.
TwoAgents == [c \in Cards |-> IF c = "other" THEN "agentB" ELSE "agentA"]
=============================================================================
