----------------------------- MODULE MCTaskSaga -----------------------------
EXTENDS TaskSaga

\* Three steps: a chain, a fan-out, a join and three independent steps, each
\* with writes in different places.
Shapes == { <<{}, {1}, {2}>>, <<{}, {1}, {1}>>, <<{}, {}, {1, 2}>>, <<{}, {}, {}>> }
Colours == { <<"reversible", "reversible", "read">>,
             <<"reversible", "irreversible", "reversible">> }
NoBudget == [steps |-> Unlimited, tokens |-> Unlimited, cost |-> Unlimited]
StepBudget == [steps |-> 2, tokens |-> Unlimited, cost |-> 2]
SpendBudget == [steps |-> Unlimited, tokens |-> 2, cost |-> 4]
WithAndWithout == {NoBudget, StepBudget, SpendBudget}
NoBudgets == {NoBudget}
AllPlans == [deps : Shapes, kind : Colours]
ParallelPlans == [deps : {<<{}, {}, {1}>>}, kind : Colours]
=============================================================================
