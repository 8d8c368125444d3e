--------------------------- MODULE MCTenantBudget ---------------------------
EXTENDS TenantBudget, TLC

\* Both tasks are of one tenant and compete for its cap; completions stray
\* from the other, which has none.
CONSTANTS k1, k2
BothOfAcme == (k1 :> "acme" @@ k2 :> "acme")
File(c) == [acme |-> c, beta |-> NoCap]
CapsMove == {File(c) : c \in {2, NoCap}}
=============================================================================
