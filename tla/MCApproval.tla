----------------------------- MODULE MCApproval -----------------------------
EXTENDS Approval, FiniteSets

\* Callers: approvers that decide properly, the subject itself, a stale digest,
\* another tenant and a malformed body.
Good(s, d) == [decision |-> d, digest |-> TRUE, sub |-> s, tenant |-> TRUE,
               wellFormed |-> TRUE]
SomePosts ==
  {Good("ann", "approve"), Good("bob", "deny"), Good(Subject, "approve"),
   [Good("ann", "approve") EXCEPT !.digest = FALSE],
   [Good("bob", "approve") EXCEPT !.tenant = FALSE],
   [Good("bob", "deny") EXCEPT !.wellFormed = FALSE]}

\* Raw signals: a good one with a foreign chain, and one of every kind the
\* handler refuses.
Raw(a, d, ok, h) == [decision |-> d, digest |-> ok, approver |-> a, head |-> h]
SomeRawSignals ==
  {Raw("ann", "approve", TRUE, "bob"), Raw("bob", "deny", TRUE, NoChain),
   Raw(Subject, "approve", TRUE, Subject), Raw("ann", "approve", FALSE, "ann"),
   Raw(Nobody, "approve", TRUE, NoChain), Raw("ann", "other", TRUE, "ann")}
=============================================================================
