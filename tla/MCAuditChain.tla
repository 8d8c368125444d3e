---------------------------- MODULE MCAuditChain ----------------------------
EXTENDS AuditChain

TwoOld == <<"l1", "l2">>
KindOf == [e \in All |-> CASE e = "e1" -> "compensation.started" [] e = "e2" -> "compensation.completed"
                           [] OTHER -> "task.submitted"]
=============================================================================
