----------------------------- MODULE MCAgentRun -----------------------------
(***************************************************************************)
(* Small instances of AgentRun and the properties checked of them.         *)
(***************************************************************************)
EXTENDS AgentRun, TLC

Principals == [p \in {"agent:change@1", "agent:change@2", "agent:draft@1"} |->
                 IF p = "agent:draft@1" THEN "draft" ELSE "change"]
              @@ [p \in {"user:jane", "user:approver", "svc:orchestrator", "svc:tool-gateway"} |-> "none"]

Tools == [change_get |-> "itsm:change:read", change_create_draft |-> "itsm:change:draft",
                change_submit |-> "itsm:change:submit", change_withdraw |-> "itsm:change:withdraw",
          knowledge_search |-> "knowledge:search:read"]
ToolRisks == [change_get |-> "R0", change_create_draft |-> "R1", change_submit |-> "R2", change_withdraw |-> "R2",
              knowledge_search |-> "R0"]
Sunsets == [change_get |-> 1]
EveryScope == {"itsm:change:read", "itsm:change:draft", "itsm:change:submit", "itsm:change:withdraw"}

Idle == [task |-> "none", start |-> "done", agent |-> "agent:change@1", client |-> "agent:change@1",
         capability |-> "change.submit", risk |-> "R2", undoes |-> NoCompensation, shadow |-> FALSE,
         scopes |-> EveryScope, work |-> "tool", tool |-> "change_submit", valid |-> TRUE,
         correlated |-> TRUE, class |-> "standard"]

(* The steps: a submission, its withdrawal by a compensator, a draft, and  *)
(* handlers and workers that stray from what the step was minted for.      *)
Submit == [Idle EXCEPT !.task = "t1", !.start = "authorizing"]
Withdraw == [Submit EXCEPT !.capability = "change.withdraw", !.tool = "change_withdraw", !.undoes = "change.submit"]
Draft == [Submit EXCEPT !.capability = "change.draft", !.risk = "R1", !.tool = "change_create_draft"]
Shadow == [Draft EXCEPT !.agent = "agent:change@2", !.client = "agent:change@2", !.shadow = TRUE]
Straying == [Draft EXCEPT !.tool = "change_submit"]
Misapproved == [Submit EXCEPT !.capability = "change.withdraw"]
Misclient == [Submit EXCEPT !.client = "agent:change@2"]
ShadowMisclient == [Shadow EXCEPT !.client = "agent:change@1"]
ShadowSubmit == [Submit EXCEPT !.shadow = TRUE]
Uncorrelated == [Submit EXCEPT !.correlated = FALSE]
Invalid == [Draft EXCEPT !.valid = FALSE]
Unscoped == [Draft EXCEPT !.scopes = {"itsm:change:read"}]
Unknown == [Draft EXCEPT !.tool = "change_delete"]
Read == [Draft EXCEPT !.tool = "change_get"]
Search == [Draft EXCEPT !.tool = "knowledge_search", !.agent = "agent:draft@1", !.client = "agent:draft@1",
                        !.scopes = {"knowledge:search:read"}]
Model == [Draft EXCEPT !.work = "model"]
Misclassed == [Model EXCEPT !.class = "frontier"]
Misprompted == [Model EXCEPT !.valid = FALSE]

(* A read's step whose handler drafts: its own client may not, another's may. *)
Peek == [Draft EXCEPT !.risk = "R0", !.capability = "change.get"]
PeekMisclient == [Peek EXCEPT !.client = "agent:change@2"]

Second(step) == [step EXCEPT !.task = "t2", !.agent = "agent:change@2", !.client = "agent:change@2"]

Load(s1, s2, f, t, flags) ==
    [steps |-> [s \in Steps |-> IF s = "s1" THEN s1 ELSE s2],
     scope |-> [faults |-> f, outages |-> IF s2 = Model THEN 0 ELSE MaxLlmFaults, ticks |-> t, flags |-> flags,
               classes |-> IF s1.work = "model" THEN {"standard"} ELSE {}]]

AgentFlag == Flag("agent", "change")
CapabilityFlag == Flag("capability", "change.submit")
VersionFlag == Flag("principal", "agent:change@1")
UserFlag == Flag("principal", "user:jane")

Loads == {
    Load(Submit, Idle, 2, 1, {}),
    Load(Submit, Second(Submit), 1, 0, {}),
    Load(Submit, Second(Submit), 0, 2, {}),
    Load(Submit, Idle, 0, 0, {Flag("fleet", "fleet"), AgentFlag, CapabilityFlag, Flag("risk", "R1"),
                              Flag("risk", "R2"), UserFlag, VersionFlag}),
    Load(Withdraw, Idle, 0, 0, {Flag("fleet", "fleet"), Flag("risk", "R2"), AgentFlag, UserFlag}),
    Load(Draft, Idle, 1, 0, {Flag("risk", "R1")}),
    Load(Draft, Submit, 0, 0, {Flag("fleet", "fleet")}),
    Load(Withdraw, Straying, 1, 0, {}),
    Load(Shadow, Second(Draft), 1, 0, {}),
    Load(ShadowMisclient, ShadowSubmit, 0, 0, {}),
    Load(Misapproved, Misclient, 0, 0, {}),
    Load(Uncorrelated, Invalid, 1, 0, {}),
    Load(Unscoped, Unknown, 0, 0, {}),
    Load(Search, Idle, 1, 0, {Flag("agent", "draft")}),
    Load(Submit, Idle, 0, 3, {}),
    Load(Read, Idle, 1, 1, {}),
    Load(Model, Idle, 0, 3, {}),
    Load(Model, Misclassed, 0, 0, {AgentFlag}),
    Load(Peek, PeekMisclient, 0, 0, {}),
    Load(Model, Model, 0, 2, {}),
    Load(Model, Idle, 1, 1, {}),
    Load(Model, Misprompted, 0, 0, {}) }

Completions == Steps \X (0..RunAttempts - 1) \X (0..1)
TwoThenOne == <<2, 1>>
=============================================================================
