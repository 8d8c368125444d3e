---------------------------- MODULE MCDeployment ----------------------------
EXTENDS Deployment

\* Two ramp steps; the thresholds of the default configuration.
TwoSteps == <<10, 100>>
StepKinds == {[ok |-> TRUE, ms |-> 2, cost |-> 2], [ok |-> FALSE, ms |-> 4, cost |-> 5],
              [ok |-> TRUE, ms |-> -1, cost |-> 0]}
=============================================================================
