--------------------------- MODULE ControlProofs ----------------------------
(***************************************************************************)
(* How people step in.  The approval a dispatch waits for, for any         *)
(* principals, calls, signals and time limits (Approval); the halt that    *)
(* the fleet canceller carries out, for any tenants and tasks, and any     *)
(* number of overlapping sweeps, flips and faults (Halt).  They are two    *)
(* specifications, and each theorem is about one of them.                  *)
(***************************************************************************)
EXTENDS Approval, Halt, TLAPS

-----------------------------------------------------------------------------
(* ApprovalWorkflow and the decision route.                                *)

\* The gate's control state agrees with its decision: while it waits it has
\* none, and it records a decision only when it has one.
ControlInv ==
  /\ pc \in Waiting => ~Decided
  /\ pc = "decided" => Decided
  /\ pc # "closed" <=> outcome = "none"
  /\ outcome \in {"approved", "denied"} => Decided
  /\ outcome = "approved" <=> (outcome \in {"approved", "denied"} /\ Granted)

\* Before the gate closes no verdict is in the log, and afterwards only the
\* one that was being recorded.
Verdicts == {e \in log : e.type \in {"granted", "denied", "timeout"}}
LogInv ==
  /\ outcome = "none" => Verdicts = {}
  /\ outcome \in {"approved", "denied"} => Verdicts = {DecisionEvent}
  /\ outcome = "timeout" => Verdicts = {Platform("timeout")}

\* Where the clock can be in each phase.
TimeInv ==
  /\ pc # "closed" => now <= due
  /\ pc = "requested" => due <= AuditMax
  /\ pc = "t1" => EscalateAfter <= due /\ due <= EscalateAfter + AuditMax
  /\ pc = "escalated" => EscalateAfter <= now /\ due <= EscalateAfter + 2 * AuditMax
  /\ pc = "t2" => DenyAfter <= due /\ due <= DenyAfter + 2 * AuditMax
  /\ pc \in {"timeout", "decided"} => due <= DenyAfter + 3 * AuditMax
  /\ WaitIsBounded /\ TimeoutNotEarly

GateInv == TypeOK /\ FirstValidWins /\ ControlInv /\ LogInv /\ TimeInv

\* An accepted decision comes from another principal.
LEMMA AcceptableNames ==
  ASSUME NEW s \in Signal, Acceptable(s)
  PROVE  /\ s # NoDecision
         /\ s.approver \in Principals \ {Subject}
         /\ ChainHead(s) = s.approver
<1>1. s.decision # "other" /\ s.approver \notin {Nobody, Subject}
  BY DEF Acceptable
<1>2. s # NoDecision
  BY <1>1 DEF NoDecision
<1>3. s.approver \in Principals \cup {Nobody}
  BY DEF Signal
<1> QED BY <1>1, <1>2, <1>3 DEF ChainHead

\* The signal handler keeps the first acceptable signal and counts the others.
LEMMA HandlerKeepsFirst ==
  ASSUME TypeOK, FirstValidWins, NEW s \in Signal, DecisionSignal(s)
  PROVE  FirstValidWins'
<1>1. /\ delivered \in Seq(Signal) /\ rejected \in Nat /\ decision \in Signal
      /\ delivered' = Append(delivered, s)
  BY DEF TypeOK, DecisionSignal
<1>2. /\ Len(delivered') = Len(delivered) + 1 /\ Len(delivered) \in Nat
      /\ delivered'[Len(delivered) + 1] = s
      /\ \A i \in 1..Len(delivered) : delivered'[i] = delivered[i]
  BY <1>1
<1>3. CASE ~Decided /\ Acceptable(s)
  <2>1. decision' = s /\ rejected' = rejected /\ Decided'
    BY <1>3, AcceptableNames DEF DecisionSignal, Decided
  <2>2. \A i \in 1..Len(delivered) : ~Acceptable(delivered'[i])
    BY <1>2, <1>3 DEF FirstValidWins
  <2>3. /\ delivered'[Len(delivered) + 1] = decision' /\ Acceptable(decision')
        /\ \A j \in 1..((Len(delivered) + 1) - 1) : ~Acceptable(delivered'[j])
    BY <1>2, <1>3, <2>1, <2>2
  <2>4. rejected' = Len(delivered') - 1
    BY <1>1, <1>2, <1>3, <2>1 DEF FirstValidWins
  <2> QED BY <1>1, <1>2, <2>1, <2>3, <2>4 DEF FirstValidWins, Acceptable
<1>4. CASE Decided \/ ~Acceptable(s)
  <2>1. decision' = decision /\ rejected' = rejected + 1 /\ Decided' = Decided
    BY <1>4 DEF DecisionSignal, Decided
  <2>2. CASE Decided
    <3>1. PICK i \in 1..Len(delivered) :
            /\ delivered[i] = decision /\ Acceptable(decision)
            /\ \A j \in 1..(i - 1) : ~Acceptable(delivered[j])
      BY <2>2 DEF FirstValidWins
    <3>2. /\ i \in 1..Len(delivered')
          /\ delivered'[i] = decision' /\ Acceptable(decision')
          /\ \A j \in 1..(i - 1) : ~Acceptable(delivered'[j])
      BY <1>2, <2>1, <3>1 DEF Acceptable
    <3> QED BY <1>1, <1>2, <2>1, <2>2, <3>2 DEF FirstValidWins, Acceptable
  <2>3. CASE ~Decided
    <3>1. \A i \in 1..Len(delivered') : ~Acceptable(delivered'[i])
      BY <1>2, <1>4, <2>3 DEF FirstValidWins
    <3> QED BY <1>1, <1>2, <2>1, <2>3, <3>1 DEF FirstValidWins, Acceptable
  <2> QED BY <2>2, <2>3
<1> QED BY <1>3, <1>4


\* Initial states.
LEMMA InitGateInv == Init => GateInv
<1> SUFFICES ASSUME Init PROVE GateInv
  OBVIOUS
<1>1. NoDecision \in Signal
  BY DEF NoDecision, Signal
<1>2. NoPost \in Post
  BY ConstantsAssumption DEF NoPost, Post
<1>3. TypeOK
  <2>1. /\ delivered \in Seq(Signal) /\ raws \in 0..MaxRaw /\ due \in Nat
        /\ decision \in Signal /\ log \subseteq Events
    BY <1>1, ConstantsAssumption DEF Init
  <2>2. phase \in [Requests -> {"idle", "posted", "described", "signalling", "answered"}]
    BY DEF Init
  <2>3. post \in [Requests -> Post] /\ sawClosed \in [Requests -> BOOLEAN]
    BY <1>2 DEF Init
  <2>4. answer \in [Requests -> {"none", "bad_request", "not_found", "already_decided",
                                 "forbidden", "stale", "accepted", "error"}]
    BY DEF Init
  <2>5. /\ pc \in Auditing /\ now \in Nat /\ latency \in Nat /\ rejected \in Nat
        /\ escalated \in BOOLEAN /\ outcome = "none"
    BY DEF Init, Auditing
  <2> QED BY <2>1, <2>2, <2>3, <2>4, <2>5 DEF TypeOK
<1>4. FirstValidWins
  BY <1>1 DEF Init, FirstValidWins, Decided
<1>5. ControlInv /\ LogInv
  BY DEF Init, ControlInv, LogInv, Verdicts, Waiting, Decided
<1>6. TimeInv
  BY ConstantsAssumption DEF Init, TimeInv, WaitIsBounded, TimeoutNotEarly
<1> QED BY <1>3, <1>4, <1>5, <1>6 DEF GateInv

\* What the handler assigns, and to what.
LEMMA SignalTypes ==
  ASSUME TypeOK, NEW s \in Signal, DecisionSignal(s)
  PROVE  /\ pc' \in Waiting \cup Auditing \cup {"closed"}
         /\ due' \in Nat /\ latency' \in Nat
         /\ decision' \in Signal /\ rejected' \in Nat
         /\ delivered' \in Seq(Signal)
         /\ UNCHANGED <<now, escalated, outcome, log>>
BY ConstantsAssumption DEF TypeOK, DecisionSignal, ReadDecision, Waiting,
   Auditing

\* The event of a recorded decision names an approver other than the subject.
LEMMA DecisionEventType ==
  ASSUME TypeOK, FirstValidWins, Decided
  PROVE  /\ DecisionEvent \in Events
         /\ DecisionEvent.actor = decision.approver
         /\ DecisionEvent.head = decision.approver
         /\ DecisionEvent.type = IF Granted THEN "granted" ELSE "denied"
<1>1. decision \in Signal /\ Acceptable(decision)
  BY DEF TypeOK, FirstValidWins
<1>2. decision.approver \in Principals \ {Subject} /\ ChainHead(decision) = decision.approver
  BY <1>1, AcceptableNames
<1> QED BY <1>2 DEF DecisionEvent, Events

\* Every step preserves the types.
LEMMA NextTypeOK ==
  ASSUME TypeOK, FirstValidWins, ControlInv, [Next]_vars
  PROVE  TypeOK'
<1>1. CASE EmitRequested
  BY <1>1, ConstantsAssumption DEF vars, gateVars, signalVars, gatewayVars,
     TypeOK, Waiting, Auditing, EmitRequested, AuditFails, AwaitDecision,
     ReadDecision, Platform, Events
<1>2. CASE EscalateT1
  BY <1>2, ConstantsAssumption DEF vars, gateVars, signalVars, gatewayVars,
     TypeOK, Waiting, Auditing, EscalateT1
<1>3. CASE EmitEscalated
  BY <1>3, ConstantsAssumption DEF vars, gateVars, signalVars, gatewayVars,
     TypeOK, Waiting, Auditing, EmitEscalated, AuditFails, AwaitDecision,
     ReadDecision, Platform, SecondWait, Events
<1>4. CASE TimeoutT2
  BY <1>4, ConstantsAssumption DEF vars, gateVars, signalVars, gatewayVars,
     TypeOK, Waiting, Auditing, TimeoutT2, ReadDecision
<1>5. CASE EmitTimeout
  BY <1>5, ConstantsAssumption DEF vars, gateVars, signalVars, gatewayVars,
     TypeOK, Waiting, Auditing, EmitTimeout, AuditFails, Platform, Events
<1>6. CASE EmitDecision
  BY <1>6, DecisionEventType, ConstantsAssumption DEF vars, gateVars,
     signalVars, gatewayVars, TypeOK, Waiting, Auditing, EmitDecision,
     AuditFails, ControlInv
<1>7. CASE CancelByParent
  BY <1>7, DecisionEventType DEF vars, gateVars, signalVars, gatewayVars,
     TypeOK, Waiting, Auditing, CancelByParent, Pending, Platform, Events,
     ControlInv
<1>8. CASE Tick
  BY <1>8 DEF vars, gateVars, signalVars, gatewayVars, TypeOK, Waiting,
     Auditing, Tick
<1>9. CASE RawSignal
  <2>1. PICK s \in RawSignals : DecisionSignal(s)
    BY <1>9 DEF RawSignal
  <2>2. s \in Signal
    BY ConstantsAssumption
  <2> QED BY <1>9, <2>1, <2>2, SignalTypes, ConstantsAssumption DEF RawSignal,
             TypeOK, gatewayVars
<1>10. ASSUME NEW r \in Requests, PostDecision(r) PROVE TypeOK'
  BY <1>10, ConstantsAssumption DEF vars, gateVars, signalVars, gatewayVars,
     TypeOK, Waiting, Auditing, PostDecision, Answer
<1>11. ASSUME NEW r \in Requests, Describe(r) PROVE TypeOK'
  BY <1>11 DEF vars, gateVars, signalVars, gatewayVars, TypeOK, Waiting,
     Auditing, Describe
<1>12. ASSUME NEW r \in Requests, QueryAndCheck(r) PROVE TypeOK'
  <2>1. Refusal(post[r], Status(sawClosed[r])) \in
          {"not_found", "already_decided", "forbidden", "stale", "none"}
    BY DEF Refusal
  <2> QED BY <1>12, <2>1 DEF QueryAndCheck, Answer, TypeOK, gateVars, signalVars
<1>13. ASSUME NEW r \in Requests, SignalGate(r) PROVE TypeOK'
  <2>0. post[r] \in Post
    BY DEF TypeOK
  <2>1. SignalOf(post[r]) \in Signal
    BY <2>0 DEF SignalOf, Signal, Post
  <2>2. phase' \in [Requests -> {"idle", "posted", "described", "signalling", "answered"}]
        /\ answer' \in [Requests -> {"none", "bad_request", "not_found", "already_decided",
                                     "forbidden", "stale", "accepted", "error"}]
    BY <1>13 DEF SignalGate, Answer, TypeOK
  <2>3. CASE DecisionSignal(SignalOf(post[r]))
    BY <1>13, <2>1, <2>2, <2>3, SignalTypes DEF SignalGate, TypeOK
  <2>4. CASE UNCHANGED <<gateVars, signalVars>>
    BY <1>13, <2>2, <2>4 DEF SignalGate, TypeOK, gateVars, signalVars
  <2> QED BY <1>13, <2>3, <2>4 DEF SignalGate
<1>14. CASE UNCHANGED vars
  BY <1>14 DEF vars, gateVars, signalVars, gatewayVars, TypeOK, Waiting,
     Auditing
<1> QED BY <1>1, <1>2, <1>3, <1>4, <1>5, <1>6, <1>7, <1>8, <1>9, <1>10, <1>11,
           <1>12, <1>13, <1>14 DEF Next, Audit, Timer, Call, Idle

\* Steps that run no handler keep what it keeps.
LEMMA FirstUnchanged ==
  ASSUME FirstValidWins, UNCHANGED <<decision, rejected, delivered>>
  PROVE  FirstValidWins'
BY DEF FirstValidWins, Decided, Acceptable

\* Every step keeps the first acceptable signal.
LEMMA NextFirstValidWins ==
  ASSUME TypeOK, FirstValidWins, [Next]_vars
  PROVE  FirstValidWins'
<1>1. CASE EmitRequested
  BY <1>1, FirstUnchanged DEF EmitRequested, gateVars, signalVars, gatewayVars
<1>2. CASE EscalateT1
  BY <1>2, FirstUnchanged DEF EscalateT1, gateVars, signalVars, gatewayVars
<1>3. CASE EmitEscalated
  BY <1>3, FirstUnchanged DEF EmitEscalated, gateVars, signalVars, gatewayVars
<1>4. CASE TimeoutT2
  BY <1>4, FirstUnchanged DEF TimeoutT2, gateVars, signalVars, gatewayVars
<1>5. CASE EmitTimeout
  BY <1>5, FirstUnchanged DEF EmitTimeout, gateVars, signalVars, gatewayVars
<1>6. CASE EmitDecision
  BY <1>6, FirstUnchanged DEF EmitDecision, gateVars, signalVars, gatewayVars
<1>7. CASE CancelByParent
  BY <1>7, FirstUnchanged DEF CancelByParent, gateVars, signalVars, gatewayVars
<1>8. CASE Tick
  BY <1>8, FirstUnchanged DEF Tick, gateVars, signalVars, gatewayVars
<1>9. CASE RawSignal
  BY <1>9, ConstantsAssumption, HandlerKeepsFirst DEF RawSignal
<1>10. ASSUME NEW r \in Requests, PostDecision(r) PROVE FirstValidWins'
  BY <1>10, FirstUnchanged DEF PostDecision, gateVars, signalVars, gatewayVars
<1>11. ASSUME NEW r \in Requests, Describe(r) PROVE FirstValidWins'
  BY <1>11, FirstUnchanged DEF Describe, gateVars, signalVars, gatewayVars
<1>12. ASSUME NEW r \in Requests, QueryAndCheck(r) PROVE FirstValidWins'
  BY <1>12, FirstUnchanged DEF QueryAndCheck, gateVars, signalVars, gatewayVars
<1>13. ASSUME NEW r \in Requests, SignalGate(r) PROVE FirstValidWins'
  <2>1. SignalOf(post[r]) \in Signal
    BY DEF TypeOK, SignalOf, Signal, Post
  <2> QED BY <1>13, <2>1, HandlerKeepsFirst, FirstUnchanged DEF SignalGate,
             signalVars
<1>14. CASE UNCHANGED vars
  BY <1>14 DEF FirstValidWins, Decided, Acceptable, vars, signalVars
<1> QED BY <1>1, <1>2, <1>3, <1>4, <1>5, <1>6, <1>7, <1>8, <1>9, <1>10, <1>11,
           <1>12, <1>13, <1>14 DEF Next, Audit, Timer, Call, Idle

\* Every step preserves ControlInv.
LEMMA NextControlInv ==
  ASSUME TypeOK, ControlInv, [Next]_vars
  PROVE  ControlInv'
<1>1. CASE EmitRequested
  BY <1>1 DEF vars, gateVars, signalVars, gatewayVars, ControlInv, Waiting,
     Auditing, Decided, Granted, EmitRequested, AuditFails, AwaitDecision,
     ReadDecision, Platform
<1>2. CASE EscalateT1
  BY <1>2 DEF vars, gateVars, signalVars, gatewayVars, ControlInv, Waiting,
     Auditing, Decided, Granted, EscalateT1
<1>3. CASE EmitEscalated
  BY <1>3 DEF vars, gateVars, signalVars, gatewayVars, ControlInv, Waiting,
     Auditing, Decided, Granted, EmitEscalated, AuditFails, AwaitDecision,
     ReadDecision, Platform, SecondWait
<1>4. CASE TimeoutT2
  BY <1>4 DEF vars, gateVars, signalVars, gatewayVars, ControlInv, Waiting,
     Auditing, Decided, Granted, TimeoutT2, ReadDecision
<1>5. CASE EmitTimeout
  BY <1>5 DEF vars, gateVars, signalVars, gatewayVars, ControlInv, Waiting,
     Auditing, Decided, Granted, EmitTimeout, AuditFails, Platform
<1>6. CASE EmitDecision
  BY <1>6 DEF vars, gateVars, signalVars, gatewayVars, ControlInv, Waiting,
     Auditing, Decided, Granted, EmitDecision, AuditFails, DecisionEvent
<1>7. CASE CancelByParent
  BY <1>7 DEF vars, gateVars, signalVars, gatewayVars, ControlInv, Waiting,
     Auditing, Decided, Granted, CancelByParent, Pending, Platform,
     DecisionEvent
<1>8. CASE Tick
  BY <1>8 DEF vars, gateVars, signalVars, gatewayVars, ControlInv, Waiting,
     Auditing, Decided, Granted, Tick
<1>9. CASE RawSignal
  <2>1. CASE UNCHANGED <<gateVars, signalVars>>
    BY <2>1 DEF ControlInv, gateVars, signalVars, Decided, Granted
  <2>2. ASSUME NEW s, DecisionSignal(s), pc # "closed" PROVE ControlInv'
    <3>1. Acceptable(s) => s # NoDecision
      BY DEF Acceptable, NoDecision
    <3> QED BY <2>2, <3>1 DEF DecisionSignal, ReadDecision, ControlInv,
               Waiting, Decided, Granted
  <2> QED BY <1>9, <2>1, <2>2 DEF RawSignal
<1>10. ASSUME NEW r \in Requests, PostDecision(r) PROVE ControlInv'
  BY <1>10 DEF vars, gateVars, signalVars, gatewayVars, ControlInv, Waiting,
     Auditing, Decided, Granted, PostDecision, Answer
<1>11. ASSUME NEW r \in Requests, Describe(r) PROVE ControlInv'
  BY <1>11 DEF vars, gateVars, signalVars, gatewayVars, ControlInv, Waiting,
     Auditing, Decided, Granted, Describe
<1>12. ASSUME NEW r \in Requests, QueryAndCheck(r) PROVE ControlInv'
  BY <1>12 DEF vars, gateVars, signalVars, gatewayVars, ControlInv, Waiting,
     Auditing, Decided, Granted, QueryAndCheck, Answer
<1>13. ASSUME NEW r \in Requests, SignalGate(r) PROVE ControlInv'
  <2>1. CASE UNCHANGED <<gateVars, signalVars>>
    BY <2>1 DEF ControlInv, gateVars, signalVars, Decided, Granted
  <2>2. ASSUME NEW s, DecisionSignal(s), pc # "closed" PROVE ControlInv'
    <3>1. Acceptable(s) => s # NoDecision
      BY DEF Acceptable, NoDecision
    <3> QED BY <2>2, <3>1 DEF DecisionSignal, ReadDecision, ControlInv,
               Waiting, Decided, Granted
  <2> QED BY <1>13, <2>1, <2>2 DEF SignalGate
<1>14. CASE UNCHANGED vars
  BY <1>14 DEF vars, gateVars, signalVars, gatewayVars, ControlInv, Waiting,
     Auditing, Decided, Granted
<1> QED BY <1>1, <1>2, <1>3, <1>4, <1>5, <1>6, <1>7, <1>8, <1>9, <1>10, <1>11,
           <1>12, <1>13, <1>14 DEF Next, Audit, Timer, Call, Idle

\* Steps that change neither the decision nor the record keep LogInv.
LEMMA LogUnchanged ==
  ASSUME LogInv, UNCHANGED <<decision, outcome, log>>
  PROVE  LogInv'
BY DEF LogInv, Verdicts, DecisionEvent, Granted, ChainHead

\* Every step preserves LogInv.
LEMMA NextLogInv ==
  ASSUME TypeOK, ControlInv, LogInv, [Next]_vars
  PROVE  LogInv'
<1>1. CASE EmitRequested
  <2>1. /\ outcome = "none" /\ outcome' \in {"none", "failed"}
        /\ log' \in {log, log \cup {Platform("requested")}}
    BY <1>1 DEF EmitRequested, AuditFails, ControlInv
  <2>2. Platform("requested").type \notin {"granted", "denied", "timeout"}
    BY DEF Platform
  <2> QED BY <2>1, <2>2 DEF LogInv, Verdicts
<1>2. CASE EscalateT1
  BY <1>2, LogUnchanged DEF EscalateT1, gateVars, signalVars, gatewayVars
<1>3. CASE EmitEscalated
  <2>1. /\ outcome = "none" /\ outcome' \in {"none", "failed"}
        /\ log' \in {log, log \cup {Platform("escalated")}}
    BY <1>3 DEF EmitEscalated, AuditFails, ControlInv
  <2>2. Platform("escalated").type \notin {"granted", "denied", "timeout"}
    BY DEF Platform
  <2> QED BY <2>1, <2>2 DEF LogInv, Verdicts
<1>4. CASE TimeoutT2
  BY <1>4, LogUnchanged DEF TimeoutT2, gateVars, signalVars, gatewayVars
<1>5. CASE EmitTimeout
  <2>1. /\ outcome = "none" /\ outcome' \in {"timeout", "failed"}
        /\ outcome' = "timeout" => log' = log \cup {Platform("timeout")}
    BY <1>5 DEF EmitTimeout, AuditFails, ControlInv
  <2>2. Platform("timeout").type = "timeout"
    BY DEF Platform
  <2>3. \A e \in log : e.type \notin {"granted", "denied", "timeout"}
    BY <2>1 DEF LogInv, Verdicts
  <2> QED BY <2>1, <2>2, <2>3 DEF LogInv, Verdicts, Platform
<1>6. CASE EmitDecision
  <2>1. /\ outcome = "none" /\ outcome' \in {"approved", "denied", "failed"}
        /\ outcome' # "failed" => log' = log \cup {DecisionEvent}
        /\ UNCHANGED decision
    BY <1>6 DEF EmitDecision, AuditFails, ControlInv, signalVars
  <2>2. DecisionEvent.type \in {"granted", "denied"}
    BY DEF DecisionEvent
  <2>3. DecisionEvent' = DecisionEvent
    BY <2>1 DEF DecisionEvent, Granted, ChainHead
  <2>4. \A e \in log : e.type \notin {"granted", "denied", "timeout"}
    BY <2>1 DEF LogInv, Verdicts
  <2> QED BY <2>1, <2>2, <2>3, <2>4 DEF LogInv, Verdicts
<1>7. CASE CancelByParent
  BY <1>7 DEF CancelByParent, LogInv
<1>8. CASE Tick
  BY <1>8, LogUnchanged DEF Tick, gateVars, signalVars, gatewayVars
<1>9. CASE RawSignal
  <2>1. CASE UNCHANGED <<gateVars, signalVars>>
    BY <2>1, LogUnchanged DEF gateVars, signalVars
  <2>2. ASSUME NEW s, DecisionSignal(s), pc # "closed" PROVE LogInv'
    <3>1. outcome = "none" /\ UNCHANGED <<outcome, log>>
      BY <2>2 DEF DecisionSignal, ControlInv
    <3> QED BY <3>1 DEF LogInv, Verdicts
  <2> QED BY <1>9, <2>1, <2>2 DEF RawSignal
<1>10. ASSUME NEW r \in Requests, PostDecision(r) PROVE LogInv'
  BY <1>10, LogUnchanged DEF PostDecision, gateVars, signalVars, gatewayVars
<1>11. ASSUME NEW r \in Requests, Describe(r) PROVE LogInv'
  BY <1>11, LogUnchanged DEF Describe, gateVars, signalVars, gatewayVars
<1>12. ASSUME NEW r \in Requests, QueryAndCheck(r) PROVE LogInv'
  BY <1>12, LogUnchanged DEF QueryAndCheck, gateVars, signalVars, gatewayVars
<1>13. ASSUME NEW r \in Requests, SignalGate(r) PROVE LogInv'
  <2>1. CASE UNCHANGED <<gateVars, signalVars>>
    BY <2>1, LogUnchanged DEF gateVars, signalVars
  <2>2. ASSUME NEW s, DecisionSignal(s), pc # "closed" PROVE LogInv'
    <3>1. outcome = "none" /\ UNCHANGED <<outcome, log>>
      BY <2>2 DEF DecisionSignal, ControlInv
    <3> QED BY <3>1 DEF LogInv, Verdicts
  <2> QED BY <1>13, <2>1, <2>2 DEF SignalGate
<1>14. CASE UNCHANGED vars
  BY LogUnchanged, <1>14 DEF vars, gateVars, signalVars, gatewayVars, LogInv,
     Verdicts
<1> QED BY <1>1, <1>2, <1>3, <1>4, <1>5, <1>6, <1>7, <1>8, <1>9, <1>10, <1>11,
           <1>12, <1>13, <1>14 DEF Next, Audit, Timer, Call, Idle

\* Every step preserves TimeInv.
LEMMA NextTimeInv ==
  ASSUME TypeOK, ControlInv, TimeInv, [Next]_vars
  PROVE  TimeInv'
<1>1. CASE EmitRequested
  BY <1>1, ConstantsAssumption DEF vars, gateVars, signalVars, gatewayVars,
     TimeInv, WaitIsBounded, TimeoutNotEarly, TypeOK, EmitRequested,
     AuditFails, AwaitDecision, ReadDecision, Platform, Waiting, Auditing,
     ControlInv
<1>2. CASE EscalateT1
  BY <1>2, ConstantsAssumption DEF vars, gateVars, signalVars, gatewayVars,
     TimeInv, WaitIsBounded, TimeoutNotEarly, TypeOK, EscalateT1, Waiting,
     Auditing, ControlInv
<1>3. CASE EmitEscalated
  BY <1>3, ConstantsAssumption DEF vars, gateVars, signalVars, gatewayVars,
     TimeInv, WaitIsBounded, TimeoutNotEarly, TypeOK, EmitEscalated,
     AuditFails, AwaitDecision, ReadDecision, Platform, SecondWait, Waiting,
     Auditing, ControlInv
<1>4. CASE TimeoutT2
  BY <1>4, ConstantsAssumption DEF vars, gateVars, signalVars, gatewayVars,
     TimeInv, WaitIsBounded, TimeoutNotEarly, TypeOK, TimeoutT2, ReadDecision,
     Waiting, Auditing, ControlInv
<1>5. CASE EmitTimeout
  BY <1>5, ConstantsAssumption DEF vars, gateVars, signalVars, gatewayVars,
     TimeInv, WaitIsBounded, TimeoutNotEarly, TypeOK, EmitTimeout, AuditFails,
     Platform, Waiting, Auditing, ControlInv
<1>6. CASE EmitDecision
  BY <1>6, ConstantsAssumption DEF vars, gateVars, signalVars, gatewayVars,
     TimeInv, WaitIsBounded, TimeoutNotEarly, TypeOK, EmitDecision, AuditFails,
     Waiting, Auditing, ControlInv
<1>7. CASE CancelByParent
  BY <1>7, ConstantsAssumption DEF vars, gateVars, signalVars, gatewayVars,
     TimeInv, WaitIsBounded, TimeoutNotEarly, TypeOK, CancelByParent, Pending,
     Platform, Waiting, Auditing, ControlInv
<1>8. CASE Tick
  BY <1>8, ConstantsAssumption DEF vars, gateVars, signalVars, gatewayVars,
     TimeInv, WaitIsBounded, TimeoutNotEarly, TypeOK, Tick, Waiting, Auditing
<1>9. CASE RawSignal
  BY <1>9, ConstantsAssumption DEF vars, gateVars, signalVars, gatewayVars,
     TimeInv, WaitIsBounded, TimeoutNotEarly, TypeOK, RawSignal,
     DecisionSignal, ReadDecision, Waiting, Auditing, ControlInv
<1>10. ASSUME NEW r \in Requests, PostDecision(r) PROVE TimeInv'
  BY <1>10, ConstantsAssumption DEF vars, gateVars, signalVars, gatewayVars,
     TimeInv, WaitIsBounded, TimeoutNotEarly, TypeOK, PostDecision, Answer,
     Waiting, Auditing
<1>11. ASSUME NEW r \in Requests, Describe(r) PROVE TimeInv'
  BY <1>11, ConstantsAssumption DEF vars, gateVars, signalVars, gatewayVars,
     TimeInv, WaitIsBounded, TimeoutNotEarly, TypeOK, Describe, Waiting,
     Auditing
<1>12. ASSUME NEW r \in Requests, QueryAndCheck(r) PROVE TimeInv'
  BY <1>12, ConstantsAssumption DEF vars, gateVars, signalVars, gatewayVars,
     TimeInv, WaitIsBounded, TimeoutNotEarly, TypeOK, QueryAndCheck, Answer,
     Waiting, Auditing
<1>13. ASSUME NEW r \in Requests, SignalGate(r) PROVE TimeInv'
  BY <1>13, ConstantsAssumption DEF vars, gateVars, signalVars, gatewayVars,
     TimeInv, WaitIsBounded, TimeoutNotEarly, TypeOK, SignalGate,
     DecisionSignal, ReadDecision, Answer, Waiting, Auditing, ControlInv
<1>14. CASE UNCHANGED vars
  BY <1>14 DEF vars, gateVars, signalVars, gatewayVars, TimeInv, WaitIsBounded,
     TimeoutNotEarly, TypeOK
<1> QED BY <1>1, <1>2, <1>3, <1>4, <1>5, <1>6, <1>7, <1>8, <1>9, <1>10, <1>11,
           <1>12, <1>13, <1>14 DEF Next, Audit, Timer, Call, Idle

\* The inductive invariant of the gate.
THEOREM GateInvariant == Spec => []GateInv
<1>1. Init => GateInv
  BY InitGateInv
<1>2. GateInv /\ [Next]_vars => GateInv'
  BY NextTypeOK, NextFirstValidWins, NextControlInv, NextLogInv,
     NextTimeInv DEF GateInv
<1> QED BY <1>1, <1>2, PTL DEF Spec

\* No path of ApprovalWorkflow grants without an accepted signal of another
\* principal on the digest of this subject, and the ledger names that principal.
THEOREM GrantAuthorised == Spec => []GrantIsAuthorised
<1>1. GateInv => GrantIsAuthorised
  <2> SUFFICES ASSUME GateInv, outcome = "approved"
               PROVE  /\ decision.decision = "approve" /\ decision.digest
                      /\ decision.approver \in Principals \ {Subject}
                      /\ [type |-> "granted", actor |-> decision.approver,
                          head |-> decision.approver] \in log
    BY DEF GrantIsAuthorised
  <2>1. Decided /\ Granted /\ decision \in Signal /\ Acceptable(decision)
    BY DEF GateInv, ControlInv, FirstValidWins, TypeOK
  <2>2. decision.approver \in Principals \ {Subject} /\ ChainHead(decision) = decision.approver
    BY <2>1, AcceptableNames
  <2>3. DecisionEvent \in log
    BY DEF GateInv, LogInv, Verdicts
  <2> QED BY <2>1, <2>2, <2>3 DEF DecisionEvent, Granted, Acceptable
<1> QED BY <1>1, GateInvariant, PTL

\* First valid decision wins, for any number of signals in any order.
THEOREM FirstDecisionWins == Spec => []FirstValidWins
<1>1. GateInv => FirstValidWins
  BY DEF GateInv
<1> QED BY <1>1, GateInvariant, PTL

\* The verdict recorded by emitApprovalAudit is the verdict returned.
THEOREM OutcomeRecorded == Spec => []RecordMatchesOutcome
<1>1. GateInv => RecordMatchesOutcome
  <2> SUFFICES ASSUME GateInv PROVE RecordMatchesOutcome
    OBVIOUS
  <2>1. {e.type : e \in log} \cap {"granted", "denied", "timeout"} = {e.type : e \in Verdicts}
    BY DEF Verdicts
  <2>2. DecisionEvent.type = (IF Granted THEN "granted" ELSE "denied")
        /\ Platform("timeout").type = "timeout"
    BY DEF DecisionEvent, Platform
  <2>3. outcome = "none" => Verdicts = {}
    BY DEF GateInv, LogInv
  <2>4. outcome = "timeout" => {e.type : e \in Verdicts} = {"timeout"}
    BY <2>2 DEF GateInv, LogInv
  <2>5. outcome \in {"approved", "denied"} =>
          {e.type : e \in Verdicts} = {DecisionEvent.type}
    BY DEF GateInv, LogInv
  <2>6. /\ outcome = "approved" => {e.type : e \in Verdicts} = {"granted"}
        /\ outcome = "denied" => {e.type : e \in Verdicts} = {"denied"}
    BY <2>2, <2>5 DEF GateInv, ControlInv
  <2> QED BY <2>1, <2>3, <2>4, <2>6 DEF RecordMatchesOutcome
<1> QED BY <1>1, GateInvariant, PTL

\* Deny by default never comes before deny_after_s, whatever the audits take.
THEOREM NeverEarly == Spec => []TimeoutNotEarly
<1>1. GateInv => TimeoutNotEarly
  BY DEF GateInv, TimeInv
<1> QED BY <1>1, GateInvariant, PTL

\* The gate holds its step for at most deny_after_s and three audits.
THEOREM BoundedWait == Spec => []WaitIsBounded
<1>1. GateInv => WaitIsBounded
  BY DEF GateInv, TimeInv
<1> QED BY <1>1, GateInvariant, PTL

\* The decision of ApprovalWorkflow is sound: granted only on the first valid
\* decision of another principal, and recorded as it is returned.
THEOREM DecisionSound == Spec => []DecisionIsSound
<1>1. GateInv => TypeOK
  BY DEF GateInv
<1>2. TypeOK /\ GrantIsAuthorised /\ FirstValidWins /\ RecordMatchesOutcome
        => DecisionIsSound
  BY DEF DecisionIsSound
<1> QED BY <1>1, <1>2, GateInvariant, GrantAuthorised, FirstDecisionWins,
           OutcomeRecorded, PTL

\* The two waits and the audits between them add up to deny_after_s, no less
\* and by no more than the audits take.
THEOREM DeadlineExact == Spec => []DeadlineIsExact
<1>1. TimeoutNotEarly /\ WaitIsBounded => DeadlineIsExact
  BY DEF DeadlineIsExact
<1> QED BY <1>1, NeverEarly, BoundedWait, PTL
\* A call that reaches the signal has passed the checks of the decision route,
\* and one that was answered "accepted" left a decision behind.
CallInv ==
  \A r \in Requests :
    /\ phase[r] = "signalling" => Acceptable(SignalOf(post[r]))
    /\ answer[r] = "accepted" => Decided

\* The route's checks on its view, stale or not, cover those of the handler.
LEMMA RouteChecksSuffice ==
  ASSUME NEW p \in Post, NEW status, Refusal(p, status) = "none"
  PROVE  Acceptable(SignalOf(p))
<1>1. p.tenant /\ status = "pending" /\ p.sub # Subject /\ p.digest
  BY DEF Refusal, Post
<1>2. p.decision \in {"approve", "deny"} /\ p.sub \in Principals
  BY DEF Post
<1> QED BY <1>1, <1>2, ConstantsAssumption DEF Acceptable, SignalOf

\* A signal never takes a decision away, and an acceptable one leaves one.
LEMMA SignalDecides ==
  ASSUME NEW s, DecisionSignal(s)
  PROVE  /\ Decided => Decided'
         /\ Acceptable(s) => Decided'
BY DEF DecisionSignal, Decided, Acceptable, NoDecision

\* Steps of the gate and of raw signals leave the calls alone.
LEMMA CallsUnchanged ==
  ASSUME CallInv, UNCHANGED gatewayVars, Decided => Decided'
  PROVE  CallInv'
BY DEF CallInv, gatewayVars, Acceptable, SignalOf

\* Every step preserves CallInv.
LEMMA NextCallInv ==
  ASSUME TypeOK, CallInv, [Next]_vars
  PROVE  CallInv'
<1>1. CASE Audit \/ Timer \/ CancelByParent \/ Tick \/ UNCHANGED vars
  <2>1. UNCHANGED gatewayVars /\ UNCHANGED decision
    BY <1>1 DEF Audit, Timer, CancelByParent, Tick, EmitRequested, EmitEscalated,
       EmitTimeout, EmitDecision, EscalateT1, TimeoutT2, vars, signalVars
  <2> QED BY <2>1, CallsUnchanged DEF Decided
<1>2. CASE RawSignal
  BY <1>2, SignalDecides, CallsUnchanged DEF RawSignal
<1>3. ASSUME NEW r \in Requests, PostDecision(r) PROVE CallInv'
  <2>1. PICK p \in Posts : /\ post' = [post EXCEPT ![r] = p]
                           /\ \/ phase' = [phase EXCEPT ![r] = "posted"] /\ UNCHANGED answer
                              \/ /\ answer' = [answer EXCEPT ![r] = "bad_request"]
                                 /\ phase' = [phase EXCEPT ![r] = "answered"]
    BY <1>3 DEF PostDecision, Answer
  <2> QED BY <1>3, <2>1 DEF PostDecision, CallInv, TypeOK, signalVars, Decided,
             Acceptable, SignalOf
<1>4. ASSUME NEW r \in Requests, Describe(r) PROVE CallInv'
  BY <1>4 DEF Describe, CallInv, TypeOK, signalVars, Decided, Acceptable, SignalOf
<1>5. ASSUME NEW r \in Requests, QueryAndCheck(r) PROVE CallInv'
  <2>1. /\ UNCHANGED <<post, decision>>
        /\ \/ /\ phase' = [phase EXCEPT ![r] = "signalling"] /\ UNCHANGED answer
              /\ Refusal(post[r], Status(sawClosed[r])) = "none"
           \/ /\ phase' = [phase EXCEPT ![r] = "answered"]
              /\ \E a : answer' = [answer EXCEPT ![r] = a] /\ a # "accepted"
    <3> DEFINE refusal == Refusal(post[r], Status(sawClosed[r]))
    <3>1. refusal # "accepted"
      BY DEF Refusal
    <3>2. refusal = "none" => phase' = [phase EXCEPT ![r] = "signalling"] /\ UNCHANGED answer
      BY <1>5 DEF QueryAndCheck
    <3>3. refusal # "none" => /\ answer' = [answer EXCEPT ![r] = refusal]
                              /\ phase' = [phase EXCEPT ![r] = "answered"]
      BY <1>5 DEF QueryAndCheck, Answer
    <3>4. UNCHANGED <<post, decision>>
      BY <1>5 DEF QueryAndCheck, signalVars
    <3> HIDE DEF refusal
    <3> QED BY <3>1, <3>2, <3>3, <3>4 DEF refusal
  <2>2. post[r] \in Post
    BY DEF TypeOK
  <2>3. CASE Refusal(post[r], Status(sawClosed[r])) = "none"
                /\ phase' = [phase EXCEPT ![r] = "signalling"] /\ UNCHANGED answer
    <3>1. Acceptable(SignalOf(post[r]))
      BY <2>2, <2>3, RouteChecksSuffice
    <3> QED BY <2>1, <2>3, <3>1 DEF CallInv, TypeOK, Decided, Acceptable, SignalOf
  <2>4. ASSUME NEW a, answer' = [answer EXCEPT ![r] = a], a # "accepted",
               phase' = [phase EXCEPT ![r] = "answered"]
        PROVE  CallInv'
    BY <2>1, <2>4 DEF CallInv, TypeOK, Decided, Acceptable, SignalOf
  <2> QED BY <2>1, <2>3, <2>4
<1>6. ASSUME NEW r \in Requests, SignalGate(r) PROVE CallInv'
  <2>1. /\ phase[r] = "signalling" /\ UNCHANGED post
        /\ phase' = [phase EXCEPT ![r] = "answered"]
    BY <1>6 DEF SignalGate, Answer
  <2>2. CASE DecisionSignal(SignalOf(post[r]))
    <3>1. Decided'
      BY <2>1, <2>2, SignalDecides DEF CallInv
    <3> QED BY <2>1, <3>1 DEF CallInv, TypeOK, Acceptable, SignalOf
  <2>3. CASE Answer(r, "error") /\ UNCHANGED signalVars
    BY <2>1, <2>3 DEF CallInv, TypeOK, Answer, signalVars, Decided, Acceptable,
           SignalOf
  <2> QED BY <1>6, <2>2, <2>3 DEF SignalGate
<1> QED BY <1>1, <1>2, <1>3, <1>4, <1>5, <1>6 DEF Next, Call, Idle

\* A call the gateway answered with "accepted" has a decision on the gate,
\* though it was checked against a view that may have been stale by then.
THEOREM AcceptedDecided == Spec => []AcceptedIsDecided
<1>1. Init => CallInv
  BY DEF Init, CallInv
<1>2. GateInv => TypeOK
  BY DEF GateInv
<1>3. CallInv => AcceptedIsDecided
  BY DEF CallInv, AcceptedIsDecided
<1> QED BY <1>1, <1>2, <1>3, NextCallInv, GateInvariant, PTL DEF Spec

-----------------------------------------------------------------------------
(* The fleet canceller.                                                    *)

\* A halt of key k has been put into the bucket.
EverHalted(k) == \E i \in DOMAIN hist : hist[i].active /\ hist[i].key = k

\* What the watcher and the sweeps act on are halts that were put, however old
\* by now, and what a sweep is about to cancel is covered by one of them.
HaltsWerePut ==
  /\ \A k \in Seen : EverHalted(k)
  /\ \A s \in Sweeps : \A k \in sweep[s].snap : EverHalted(k)
  /\ \A s \in Sweeps : sweep[s].at = "cancel" =>
       /\ sweep[s].cur \in Tasks
       /\ {"fleet", Owner[sweep[s].cur]} \cap sweep[s].snap # {}

\* A task in the hands of a sweep of the running episode bears its mark.
MarksAreHeld ==
  \A s \in Sweeps : sweep[s].attached =>
    /\ sweep[s].at = "cancel" /\ sweep[s].key \in HaltKeys
    /\ sweep[s].cur \in marked[sweep[s].key]

HaltInv ==
  /\ HaltTypeOK /\ SweepWhileHalted /\ OtherTenantsUntouched /\ OneCanceller
  /\ HaltsWerePut /\ MarksAreHeld

-----------------------------------------------------------------------------
(* The flags after one more flip.                                          *)

\* What the bucket holds.
LEMMA BucketType ==
  ASSUME HaltTypeOK
  PROVE  /\ hist \in Seq(Flip) /\ Len(hist) \in Nat /\ DOMAIN hist = 1..Len(hist)
         /\ \A i \in 1..Len(hist) : /\ hist[i] \in Flip /\ hist[i].key \in HaltKeys
                                    /\ hist[i].active \in BOOLEAN
<1>1. hist \in Seq(Flip)
  BY DEF HaltTypeOK
<1>2. \A i \in 1..Len(hist) : hist[i] \in Flip
  BY <1>1
<1>3. \A f \in Flip : f.key \in HaltKeys /\ f.active \in BOOLEAN
  BY DEF Flip
<1> QED BY <1>1, <1>2, <1>3

\* The last flip of a key counts, and no other key is touched.
LEMMA ActiveStep ==
  ASSUME HaltTypeOK, NEW n \in Nat, n < Len(hist)
  PROVE  Active(n + 1) = IF hist[n + 1].active THEN Active(n) \cup {hist[n + 1].key}
                                               ELSE Active(n) \ {hist[n + 1].key}
<1>1. hist[n + 1].key \in HaltKeys /\ hist[n + 1].active \in BOOLEAN
  BY BucketType
<1> DEFINE Last(k, i, m) == /\ hist[i].key = k /\ hist[i].active
                            /\ \A j \in (i + 1)..m : hist[j].key # k
<1>2. \A m : Active(m) = {k \in HaltKeys : \E i \in 1..m : Last(k, i, m)}
  BY DEF Active
<1>3. ASSUME NEW k \in HaltKeys, k # hist[n + 1].key
      PROVE  (\E i \in 1..(n + 1) : Last(k, i, n + 1)) <=> (\E i \in 1..n : Last(k, i, n))
  <2>1. ASSUME NEW i \in 1..n PROVE Last(k, i, n + 1) <=> Last(k, i, n)
    BY <1>3
  <2>2. ~Last(k, n + 1, n + 1)
    BY <1>3
  <2>3. 1..(n + 1) = (1..n) \cup {n + 1}
    OBVIOUS
  <2> HIDE DEF Last
  <2> QED BY <2>1, <2>2, <2>3
<1>4. (\E i \in 1..(n + 1) : Last(hist[n + 1].key, i, n + 1)) <=> hist[n + 1].active
  <2>1. \A i \in 1..n : ~Last(hist[n + 1].key, i, n + 1)
    OBVIOUS
  <2>2. Last(hist[n + 1].key, n + 1, n + 1) <=> hist[n + 1].active
    OBVIOUS
  <2>3. 1..(n + 1) = (1..n) \cup {n + 1}
    OBVIOUS
  <2> HIDE DEF Last
  <2> QED BY <2>1, <2>2, <2>3
<1> HIDE DEF Last
<1>5. \A k \in HaltKeys : k # hist[n + 1].key => (k \in Active(n + 1) <=> k \in Active(n))
  BY <1>2, <1>3
<1>6. hist[n + 1].key \in Active(n + 1) <=> hist[n + 1].active
  BY <1>1, <1>2, <1>4
<1>7. \A m : Active(m) \subseteq HaltKeys
  BY <1>2
<1>8. CASE hist[n + 1].active
  <2>1. \A k : k \in Active(n + 1) <=> k \in Active(n) \/ k = hist[n + 1].key
    BY <1>5, <1>6, <1>7, <1>8
  <2> QED BY <2>1, <1>8
<1>9. CASE ~hist[n + 1].active
  <2>1. \A k : k \in Active(n + 1) <=> k \in Active(n) /\ k # hist[n + 1].key
    BY <1>5, <1>6, <1>7, <1>9
  <2> QED BY <2>1, <1>9
<1> QED BY <1>8, <1>9

\* A flip that has not been delivered changes nothing for the watcher.
LEMMA ActiveOfPrefix ==
  ASSUME HaltTypeOK, NEW f \in Flip, hist' = Append(hist, f), pos' = pos
  PROVE  Seen' = Seen
<1>1. \A i \in 1..pos : hist'[i] = hist[i]
  BY BucketType DEF HaltTypeOK
<1>2. pos \in Nat
  BY BucketType DEF HaltTypeOK
<1>3. ASSUME NEW i \in 1..pos, NEW j \in (i + 1)..pos
      PROVE  hist'[j] = hist[j]
  <2>1. j \in 1..pos
    BY <1>2
  <2> QED BY <1>1, <2>1
<1>4. ASSUME NEW k \in Seen PROVE k \in Seen'
  <2>1. PICK i \in 1..pos : /\ hist[i].key = k /\ hist[i].active
                            /\ \A j \in (i + 1)..pos : hist[j].key # k
    BY DEF Seen, Active
  <2>2. /\ hist'[i].key = k /\ hist'[i].active
        /\ \A j \in (i + 1)..pos : hist'[j].key # k
    BY <1>1, <1>3, <2>1
  <2> QED BY <2>2 DEF Seen, Active, HaltKeys
<1>5. ASSUME NEW k \in Seen' PROVE k \in Seen
  <2>1. PICK i \in 1..pos : /\ hist'[i].key = k /\ hist'[i].active
                            /\ \A j \in (i + 1)..pos : hist'[j].key # k
    BY DEF Seen, Active
  <2>2. /\ hist[i].key = k /\ hist[i].active
        /\ \A j \in (i + 1)..pos : hist[j].key # k
    BY <1>1, <1>3, <2>1
  <2> QED BY <2>2 DEF Seen, Active, HaltKeys
<1> QED BY <1>4, <1>5

\* The watcher knows of no halt that was not put.
LEMMA SeenWasPut ==
  ASSUME HaltTypeOK, NEW n \in 0..Len(hist)
  PROVE  \A k \in Active(n) : EverHalted(k)
BY BucketType DEF Active, EverHalted

-----------------------------------------------------------------------------
(* Initial states and types.                                               *)

LEMMA InitHaltInv == HaltInit => HaltInv
<1> SUFFICES ASSUME HaltInit PROVE HaltInv
  OBVIOUS
<1>1. Active(0) = {}
  BY DEF Active
<1>2. /\ hist = <<>> /\ pos = 0 /\ started = FALSE /\ sweeping = FALSE
      /\ marked = [k \in HaltKeys |-> {}] /\ sweep = [s \in Sweeps |-> IdleSweep]
      /\ \A t \in Tasks : task[t] \in {"new", "running"}
      /\ task \in [Tasks -> {"new", "running"}] /\ faults = 0
  BY DEF HaltInit
<1>3. HaltTypeOK
  <2>1. hist \in Seq(Flip) /\ pos \in 0..Len(hist)
    BY <1>2
  <2>2. IdleSweep \in SweepType
    BY DEF IdleSweep, SweepType
  <2>3. sweep \in [Sweeps -> SweepType] /\ marked \in [HaltKeys -> SUBSET Tasks]
    BY <1>2, <2>2
  <2>4. task \in [Tasks -> {"new", "admitted", "refused", "running", "cancelling", "ended"}]
    BY <1>2
  <2>5. started \in BOOLEAN /\ sweeping \in BOOLEAN
    BY <1>2
  <2>6. faults \in 0..MaxFaults
    BY <1>2, HaltAssumption
  <2> QED BY <2>1, <2>3, <2>4, <2>5, <2>6 DEF HaltTypeOK
<1>4. SweepWhileHalted /\ OtherTenantsUntouched /\ OneCanceller
  BY <1>2 DEF SweepWhileHalted, OtherTenantsUntouched, OneCanceller, IdleSweep
<1>5. HaltsWerePut /\ MarksAreHeld
  BY <1>1, <1>2 DEF HaltsWerePut, MarksAreHeld, Seen, IdleSweep
<1> QED BY <1>3, <1>4, <1>5 DEF HaltInv

\* The records the canceller makes are sweeps.
LEMMA SweepTypes ==
  ASSUME HaltTypeOK
  PROVE  /\ sweep \in [Sweeps -> SweepType]
         /\ IdleSweep \in SweepType
         /\ \A s \in Sweeps, halts \in SUBSET HaltKeys : Sweep(s, halts) \in SweepType
         /\ \A k : Detached(k) \in [Sweeps -> SweepType]
         /\ \A s \in Sweeps : Next1(s) \in SweepType
         /\ Open \subseteq Tasks
         /\ \A n : Active(n) \subseteq HaltKeys
<1>1. sweep \in [Sweeps -> SweepType]
  BY DEF HaltTypeOK
<1>2. IdleSweep \in SweepType
  BY DEF IdleSweep, SweepType
<1>3. \A s \in Sweeps, halts \in SUBSET HaltKeys : Sweep(s, halts) \in SweepType
  BY DEF Sweep, IdleSweep, SweepType
<1>4. \A k : Detached(k) \in [Sweeps -> SweepType]
  BY <1>1 DEF Detached, SweepType
<1>5. \A s \in Sweeps : Next1(s) \in SweepType
  BY <1>1 DEF Next1, SweepType
<1>6. Open \subseteq Tasks /\ \A n : Active(n) \subseteq HaltKeys
  BY DEF Open, Active
<1> QED BY <1>1, <1>2, <1>3, <1>4, <1>5, <1>6

\* Every step preserves the types.
LEMMA NextHaltTypeOK ==
  ASSUME HaltTypeOK, [HaltNext]_haltVars
  PROVE  HaltTypeOK'
<1> USE HaltAssumption DEF HaltTypeOK
<1>1. ASSUME NEW k \in HaltKeys, NEW a \in BOOLEAN, Put(k, a) PROVE HaltTypeOK'
  <2>1. hist' \in Seq(Flip) /\ Len(hist') = Len(hist) + 1
    BY <1>1 DEF Put, Flip
  <2> QED BY <1>1, <2>1, BucketType DEF Put, HaltKeys, Flip, SweepType
<1>2. CASE Deliver
  <2>1. hist[pos + 1].key \in HaltKeys /\ pos + 1 \in 0..Len(hist)
    BY <1>2, BucketType DEF Deliver
  <2>2. sweep' \in [Sweeps -> SweepType]
    BY <1>2, SweepTypes DEF Deliver, Free
  <2>3. marked' \in [HaltKeys -> SUBSET Tasks] /\ sweeping' \in BOOLEAN
    BY <1>2, <2>1 DEF Deliver, StillSweeping
  <2> QED BY <1>2, <2>1, <2>2, <2>3 DEF Deliver, HaltKeys
<1>3. CASE StartCanceller
  <2>1. sweep' \in [Sweeps -> SweepType]
    BY <1>3, SweepTypes DEF StartCanceller, Free, Halts, Seen
  <2> QED BY <1>3, <2>1 DEF StartCanceller, HaltKeys
<1>4. CASE SweepTick
  <2>1. sweep' \in [Sweeps -> SweepType]
    BY <1>4, SweepTypes DEF SweepTick, Free, Halts, Seen
  <2> QED BY <1>4, <2>1 DEF SweepTick, StillSweeping, HaltKeys
<1>5. CASE Restart
  <2>1. sweep' \in [Sweeps -> SweepType]
    BY <1>5, SweepTypes DEF Restart
  <2>2. task' \in [Tasks -> {"new", "admitted", "refused", "running", "cancelling", "ended"}]
    BY <1>5 DEF Restart
  <2>3. marked' \in [HaltKeys -> SUBSET Tasks] /\ pos' \in 0..Len(hist)
    BY <1>5, BucketType DEF Restart
  <2>4. started' \in BOOLEAN /\ sweeping' \in BOOLEAN /\ hist' = hist
    BY <1>5 DEF Restart
  <2>5. faults' \in 0..MaxFaults
    BY <1>5 DEF Restart
  <2> QED BY <2>1, <2>2, <2>3, <2>4, <2>5 DEF HaltKeys
<1>6. ASSUME NEW t \in Tasks, Submit(t) \/ StartTask(t) \/ EndTask(t) PROVE HaltTypeOK'
  BY <1>6 DEF Submit, StartTask, EndTask, HaltKeys
<1>7. ASSUME NEW s \in Sweeps, List(s) \/ ListFails(s) \/ Done(s) PROVE HaltTypeOK'
  <2>1. [sweep[s] EXCEPT !.at = "next", !.todo = Open] \in SweepType
    BY SweepTypes DEF SweepType
  <2>2. sweep' \in [Sweeps -> SweepType]
    BY <1>7, <2>1, SweepTypes DEF List, ListFails, Done, Set
  <2> QED BY <1>7, <2>2 DEF List, ListFails, Done, HaltKeys
<1>8. ASSUME NEW s \in Sweeps, NEW t \in Tasks, Take(s, t) PROVE HaltTypeOK'
  <2> DEFINE k == CoveringHalt(t, sweep[s].snap)
  <2>1. k # "none" => k \in HaltKeys
    BY DEF CoveringHalt, HaltKeys
  <2> DEFINE rest == [sweep[s] EXCEPT !.todo = @ \ {t}]
  <2>2. /\ rest \in SweepType
        /\ k \in HaltKeys =>
             [rest EXCEPT !.at = "cancel", !.cur = t, !.key = k, !.attached = TRUE] \in SweepType
    <3> HIDE DEF k
    <3>1. PICK old \in SweepType : old = sweep[s]
      BY SweepTypes
    <3>2. PICK todo \in SUBSET Tasks : todo = old.todo \ {t}
      BY DEF SweepType
    <3>3. rest = [old EXCEPT !.todo = todo]
      BY <3>1, <3>2
    <3>4. rest \in SweepType
      BY <3>3 DEF SweepType
    <3> HIDE DEF rest
    <3> QED BY <3>4 DEF SweepType
  <2>4. sweep' \in [Sweeps -> SweepType]
    <3>1. \/ k # "none" /\ sweep' = [sweep EXCEPT ![s] =
                [rest EXCEPT !.at = "cancel", !.cur = t, !.key = k, !.attached = TRUE]]
          \/ sweep' = [sweep EXCEPT ![s] = rest]
      BY <1>8 DEF Take, Set
    <3> HIDE DEF k, rest
    <3> QED BY <2>1, <2>2, <3>1, SweepTypes
  <2>3. marked' \in [HaltKeys -> SUBSET Tasks]
    BY <1>8, <2>1 DEF Take
  <2> QED BY <1>8, <2>3, <2>4 DEF Take, HaltKeys
<1>9. ASSUME NEW s \in Sweeps, Cancel(s) PROVE HaltTypeOK'
  <2>1. sweep' \in [Sweeps -> SweepType]
    BY <1>9, SweepTypes DEF Cancel, Set
  <2> QED BY <1>9, <2>1 DEF Cancel, HaltKeys
<1>10. ASSUME NEW s \in Sweeps, CancelFails(s) PROVE HaltTypeOK'
  <2>1. sweep' \in [Sweeps -> SweepType]
    BY <1>10, SweepTypes DEF CancelFails, Set
  <2>2. marked' \in [HaltKeys -> SUBSET Tasks]
    BY <1>10 DEF CancelFails, Unmarked
  <2> QED BY <1>10, <2>1, <2>2 DEF CancelFails, HaltKeys
<1>11. CASE UNCHANGED haltVars
  BY <1>11 DEF haltVars, HaltKeys
<1>12. FlipFleet => \E k \in HaltKeys, a \in BOOLEAN : Put(k, a)
  BY DEF FlipFleet, HaltKeys
<1>13. FlipTenant => \E k \in HaltKeys, a \in BOOLEAN : Put(k, a)
  BY DEF FlipTenant, HaltKeys
<1> QED BY <1>1, <1>2, <1>3, <1>4, <1>5, <1>6, <1>7, <1>8, <1>9, <1>10, <1>11,
           <1>12, <1>13 DEF HaltNext, Work

-----------------------------------------------------------------------------
(* The steps.                                                              *)

\* The watcher's flags depend on the bucket and its position only.
LEMMA SeenUnchanged ==
  ASSUME UNCHANGED <<hist, pos>>
  PROVE  /\ Seen' = Seen
         /\ \A k : EverHalted(k) => EverHalted(k)'
BY DEF Seen, Active, HaltKeys, EverHalted

\* What was halted once was halted, whatever is put later.
LEMMA PutKeeps ==
  ASSUME HaltTypeOK, NEW k \in HaltKeys, NEW a \in BOOLEAN, Put(k, a)
  PROVE  /\ Seen' = Seen
         /\ \A j : EverHalted(j) => EverHalted(j)'
<1> DEFINE f == [key |-> k, active |-> a]
<1>1. f \in Flip /\ hist' = Append(hist, f) /\ pos' = pos
  BY DEF Put, Flip
<1>2. Seen' = Seen
  BY <1>1, ActiveOfPrefix
<1>3. \A i \in DOMAIN hist : i \in DOMAIN hist' /\ hist'[i] = hist[i]
  BY <1>1, BucketType
<1> QED BY <1>2, <1>3 DEF EverHalted

\* A flip, of whichever key, is a Put.
LEMMA FlipsArePuts ==
  ASSUME FlipFleet \/ FlipTenant
  PROVE  \E k \in HaltKeys, a \in BOOLEAN : Put(k, a)
<1>1. FlipFleet => \E k \in HaltKeys, a \in BOOLEAN : Put(k, a)
  BY DEF FlipFleet, HaltKeys
<1>2. FlipTenant => \E k \in HaltKeys, a \in BOOLEAN : Put(k, a)
  BY HaltAssumption DEF FlipTenant, HaltKeys
<1> QED BY <1>1, <1>2

\* The timer is armed while a halt is known.
LEMMA NextSweepWhileHalted ==
  ASSUME HaltTypeOK, SweepWhileHalted, [HaltNext]_haltVars
  PROVE  SweepWhileHalted'
<1> USE DEF SweepWhileHalted, AnyHaltActive, Halts
<1>1. CASE FlipFleet \/ FlipTenant
  BY <1>1, FlipsArePuts, PutKeeps DEF Put
<1>2. CASE Deliver
  <2>1. pos \in Nat /\ pos < Len(hist) /\ Seen' = Active(pos + 1)
    BY <1>2, BucketType DEF Deliver, HaltTypeOK, Seen, Active, HaltKeys
  <2>2. hist[pos + 1].active \/ Seen' \subseteq Seen
    BY <2>1, ActiveStep DEF Seen
  <2>3. started' = started
    BY <1>2 DEF Deliver
  <2>4. started => sweeping' = TRUE \/ (/\ ~hist[pos + 1].active
                                        /\ sweeping' = (sweeping /\ Seen' # {}))
    BY <1>2, <2>1 DEF Deliver, StillSweeping
  <2>5. ~started => sweeping' = sweeping
    BY <1>2 DEF Deliver
  <2> QED BY <2>2, <2>3, <2>4, <2>5
<1>3. CASE StartCanceller
  BY <1>3, SeenUnchanged DEF StartCanceller
<1>4. CASE SweepTick
  BY <1>4, SeenUnchanged DEF SweepTick, StillSweeping
<1>5. CASE Restart
  BY <1>5 DEF Restart
<1>6. ASSUME NEW t \in Tasks, Submit(t) \/ StartTask(t) \/ EndTask(t)
      PROVE SweepWhileHalted'
  BY <1>6, SeenUnchanged DEF Submit, StartTask, EndTask
<1>7. ASSUME NEW s \in Sweeps, Work(s) \/ ListFails(s) \/ CancelFails(s)
      PROVE  SweepWhileHalted'
  BY <1>7, SeenUnchanged DEF Work, List, Take, Cancel, Done, ListFails, CancelFails
<1>8. CASE UNCHANGED haltVars
  BY <1>8, SeenUnchanged DEF haltVars
<1> QED BY <1>1, <1>2, <1>3, <1>4, <1>5, <1>6, <1>7, <1>8 DEF HaltNext

\* A sweep that is not attached, or whose record is kept, keeps its part of the
\* marks when they only grow, and of the exclusion.
LEMMA SameHolders ==
  ASSUME MarksAreHeld, OneCanceller,
         \A s \in Sweeps : sweep'[s].attached =>
           /\ sweep[s].attached /\ sweep'[s].at = sweep[s].at
           /\ sweep'[s].cur = sweep[s].cur /\ sweep'[s].key = sweep[s].key
           /\ sweep[s].cur \in marked'[sweep[s].key]
  PROVE  MarksAreHeld' /\ OneCanceller'
BY DEF MarksAreHeld, OneCanceller, HaltKeys

\* Marks and exclusion.
LEMMA NextHolders ==
  ASSUME HaltTypeOK, MarksAreHeld, OneCanceller, [HaltNext]_haltVars
  PROVE  MarksAreHeld' /\ OneCanceller'
<1>1. CASE FlipFleet \/ FlipTenant
  <2>1. UNCHANGED <<sweep, marked>>
    BY <1>1 DEF FlipFleet, FlipTenant, Put
  <2> QED BY <2>1, SameHolders DEF MarksAreHeld
<1>2. CASE Deliver
  <2> DEFINE key == hist[pos + 1].key
  <2>1. CASE ~started
    BY <1>2, <2>1, SameHolders DEF Deliver, MarksAreHeld
  <2>2. CASE started
    <3>1. marked' = [marked EXCEPT ![key] = {}]
      BY <1>2, <2>2 DEF Deliver
    <3>2. ASSUME NEW s \in Sweeps, sweep'[s].attached
          PROVE  sweep[s].attached /\ sweep'[s] = sweep[s] /\ sweep[s].key # key
      <4>1. PICK d : d = Detached(key)
        OBVIOUS
      <4>2. /\ d = [r \in Sweeps |-> d[r]]
            /\ d[s] = IF sweep[s].key = key THEN [sweep[s] EXCEPT !.attached = FALSE] ELSE sweep[s]
        BY <4>1 DEF Detached
      <4>3. sweep[s] \in SweepType
        BY DEF HaltTypeOK
      <4>4. ~[sweep[s] EXCEPT !.attached = FALSE].attached
        BY <4>3 DEF SweepType
      <4>5. sweep' = d \/ \E r \in Sweeps : \E halts : sweep' = [d EXCEPT ![r] = Sweep(r, halts)]
        BY <1>2, <2>2, <4>1 DEF Deliver, Free
      <4>6. \A r, halts : ~Sweep(r, halts).attached
        BY DEF Sweep, IdleSweep
      <4>7. sweep'[s] = d[s]
        BY <3>2, <4>2, <4>5, <4>6
      <4>8. QED
        BY <3>2, <4>2, <4>4, <4>7
    <3> QED BY <3>1, <3>2, SameHolders DEF MarksAreHeld, HaltTypeOK
  <2> QED BY <2>1, <2>2
<1>3. CASE StartCanceller \/ SweepTick
  <2>1. /\ marked' = marked
        /\ \A s \in Sweeps : sweep'[s].attached => sweep'[s] = sweep[s]
    BY <1>3 DEF StartCanceller, SweepTick, Sweep, IdleSweep, HaltTypeOK
  <2> QED BY <2>1, SameHolders DEF MarksAreHeld
<1>4. CASE Restart
  BY <1>4, SameHolders DEF Restart, IdleSweep
<1>5. ASSUME NEW t \in Tasks, Submit(t) \/ StartTask(t) \/ EndTask(t)
      PROVE  MarksAreHeld' /\ OneCanceller'
  BY <1>5, SameHolders DEF Submit, StartTask, EndTask, MarksAreHeld
<1>6. ASSUME NEW s \in Sweeps, List(s) \/ ListFails(s) \/ Done(s)
      PROVE  MarksAreHeld' /\ OneCanceller'
  <2>1. sweep[s].at \in {"list", "next"} /\ ~sweep[s].attached
    BY <1>6 DEF List, ListFails, Done, MarksAreHeld
  <2>2. ~sweep'[s].attached /\ \A r \in Sweeps \ {s} : sweep'[r] = sweep[r]
    <3>1. sweep[s] \in SweepType /\ sweep \in [Sweeps -> SweepType]
      BY DEF HaltTypeOK
    <3>2. CASE List(s)
      BY <2>1, <3>1, <3>2 DEF List, Set, SweepType
    <3>3. CASE ListFails(s) \/ Done(s)
      BY <3>1, <3>3 DEF ListFails, Done, Set, IdleSweep
    <3> QED BY <1>6, <3>2, <3>3
  <2>3. marked' = marked
    BY <1>6 DEF List, ListFails, Done
  <2> QED BY <2>2, <2>3, SameHolders DEF MarksAreHeld
<1>7. ASSUME NEW s \in Sweeps, NEW t \in Tasks, Take(s, t)
      PROVE  MarksAreHeld' /\ OneCanceller'
  <2> DEFINE k == CoveringHalt(t, sweep[s].snap)
  <2>1. sweep[s].at = "next" /\ ~sweep[s].attached /\ sweep[s] \in SweepType
    BY <1>7 DEF Take, MarksAreHeld, HaltTypeOK
  <2>2. k # "none" => k \in HaltKeys
    BY DEF CoveringHalt, HaltKeys, HaltTypeOK, SweepType
  <2>3. CASE /\ k # "none" /\ t \notin marked[k]
             /\ marked' = [marked EXCEPT ![k] = @ \cup {t}]
             /\ Set(s, [[sweep[s] EXCEPT !.todo = @ \ {t}]
                          EXCEPT !.at = "cancel", !.cur = t, !.key = k, !.attached = TRUE])
    <3> HIDE DEF k
    <3>1. /\ sweep'[s].at = "cancel" /\ sweep'[s].cur = t /\ sweep'[s].key = k
          /\ \A r \in Sweeps \ {s} : sweep'[r] = sweep[r]
      BY <2>1, <2>3 DEF Set, HaltTypeOK, SweepType
    <3>2. t \in marked'[k] /\ \A j \in HaltKeys : marked[j] \subseteq marked'[j]
      BY <2>2, <2>3 DEF HaltTypeOK
    <3>3. MarksAreHeld'
      BY <2>2, <2>3, <3>1, <3>2 DEF MarksAreHeld, HaltKeys
    <3>4. ASSUME NEW r \in Sweeps \ {s}, sweep[r].attached, sweep[r].key = k
          PROVE  sweep[r].cur # t
      BY <2>3, <3>4 DEF MarksAreHeld
    <3> QED BY <3>1, <3>3, <3>4 DEF OneCanceller
  <2>4. CASE Set(s, [sweep[s] EXCEPT !.todo = @ \ {t}]) /\ UNCHANGED marked
    <3>1. ~sweep'[s].attached /\ \A r \in Sweeps \ {s} : sweep'[r] = sweep[r]
      BY <2>1, <2>4 DEF Set, HaltTypeOK, SweepType
    <3> QED BY <2>4, <3>1, SameHolders DEF MarksAreHeld
  <2> QED BY <1>7, <2>3, <2>4 DEF Take
<1>8. ASSUME NEW s \in Sweeps, Cancel(s) \/ CancelFails(s)
      PROVE  MarksAreHeld' /\ OneCanceller'
  <2>1. ~sweep'[s].attached /\ \A r \in Sweeps \ {s} : sweep'[r] = sweep[r]
    BY <1>8 DEF Cancel, CancelFails, Set, Next1, HaltTypeOK, SweepType
  <2>2. ASSUME NEW r \in Sweeps \ {s}, sweep[r].attached
        PROVE  sweep[r].cur \in marked'[sweep[r].key]
    <3>1. sweep[r].key \in HaltKeys /\ sweep[r].cur \in marked[sweep[r].key]
      BY <2>2 DEF MarksAreHeld
    <3>2. CASE Cancel(s) \/ ~sweep[s].attached
      BY <1>8, <3>1, <3>2 DEF Cancel, CancelFails, Unmarked
    <3>3. CASE CancelFails(s) /\ sweep[s].attached
      <4>1. marked' = [marked EXCEPT ![sweep[s].key] = @ \ {sweep[s].cur}]
        BY <3>3 DEF CancelFails, Unmarked
      <4>2. sweep[r].key = sweep[s].key => sweep[r].cur # sweep[s].cur
        BY <2>2, <3>3 DEF OneCanceller
      <4> QED BY <3>1, <4>1, <4>2 DEF HaltTypeOK
    <3> QED BY <1>8, <3>2, <3>3
  <2> QED BY <2>1, <2>2, SameHolders
<1>9. CASE UNCHANGED haltVars
  BY <1>9, SameHolders DEF haltVars, MarksAreHeld
<1> QED BY <1>1, <1>2, <1>3, <1>4, <1>5, <1>6, <1>7, <1>8, <1>9 DEF HaltNext, Work

\* Halts a sweep acts on were put, and it cancels what they cover.
LEMMA NextHaltsWerePut ==
  ASSUME HaltTypeOK, HaltsWerePut, [HaltNext]_haltVars
  PROVE  HaltsWerePut'
<1> DEFINE Sound(r) == /\ \A k \in r.snap : EverHalted(k)
                       /\ r.at = "cancel" => /\ r.cur \in Tasks
                                             /\ {"fleet", Owner[r.cur]} \cap r.snap # {}
<1>1. HaltsWerePut <=> (\A k \in Seen : EverHalted(k)) /\ (\A s \in Sweeps : Sound(sweep[s]))
  BY DEF HaltsWerePut
<1>2. HaltsWerePut' <=> (\A k \in Seen' : EverHalted(k)') /\ (\A s \in Sweeps : Sound(sweep[s])')
  BY DEF HaltsWerePut
<1>3. CASE FlipFleet \/ FlipTenant
  <2>1. /\ sweep' = sweep /\ Seen' = Seen
        /\ \A j : EverHalted(j) => EverHalted(j)'
    BY <1>3, FlipsArePuts, PutKeeps DEF Put
  <2> HIDE DEF EverHalted
  <2> QED BY <1>1, <1>2, <2>1
<1> SUFFICES ASSUME UNCHANGED hist PROVE HaltsWerePut'
  <2>1. FlipFleet \/ FlipTenant \/ UNCHANGED hist
    BY DEF HaltNext, Deliver, StartCanceller, SweepTick, Restart, Submit, StartTask,
           EndTask, Work, List, Take, Cancel, Done, ListFails, CancelFails, haltVars
  <2> QED BY <1>3, <2>1
<1>4. \A k : EverHalted(k)' <=> EverHalted(k)
  BY DEF EverHalted
<1>5. Seen' \subseteq Seen \/ \A k \in Seen' : EverHalted(k)
  <2>1. CASE Deliver
    <3>1. Seen' = Active(pos + 1) /\ pos + 1 \in 0..Len(hist)
      BY <2>1, BucketType DEF Deliver, Seen, Active, HaltKeys, HaltTypeOK
    <3> QED BY <3>1, SeenWasPut
  <2>2. CASE Restart
    <3>1. Seen' = {}
      BY <2>2 DEF Restart, Seen, Active
    <3> QED BY <3>1
  <2>3. CASE UNCHANGED pos
    BY <2>3, SeenUnchanged
  <2>4. Deliver \/ Restart \/ UNCHANGED pos
    BY DEF HaltNext, FlipFleet, FlipTenant, Put, StartCanceller, SweepTick, Submit,
           StartTask, EndTask, Work, List, Take, Cancel, Done, ListFails,
           CancelFails, haltVars
  <2> QED BY <2>1, <2>2, <2>3, <2>4
<1>6. ASSUME NEW s \in Sweeps PROVE Sound(sweep'[s])
  <2>1. Sound(sweep[s]) /\ sweep[s] \in SweepType
    BY <1>1 DEF HaltTypeOK
  <2>2. CASE sweep'[s] = sweep[s]
    BY <2>1, <2>2
  <2>3. CASE \E halts : sweep'[s] = Sweep(s, halts) /\ \A k \in halts : EverHalted(k)
    BY <2>3 DEF Sweep, IdleSweep
  <2>4. CASE sweep'[s] = IdleSweep
    BY <2>4 DEF IdleSweep
  <2>5. CASE \E k : sweep' = Detached(k)
    BY <2>1, <2>5 DEF Detached, SweepType
  <2>6. CASE Deliver
    <3>1. \A k \in Active(pos + 1) : EverHalted(k)
      BY <2>6, BucketType, SeenWasPut DEF Deliver, HaltTypeOK
    <3>2. \/ sweep' = sweep \/ \E k : sweep' = Detached(k)
          \/ \E k : \E x \in Sweeps : sweep' = [Detached(k) EXCEPT ![x] = Sweep(x, Active(pos + 1))]
      BY <2>6 DEF Deliver, Free
    <3>3. ASSUME NEW k, NEW x \in Sweeps,
                 sweep' = [Detached(k) EXCEPT ![x] = Sweep(x, Active(pos + 1))]
          PROVE  Sound(sweep'[s])
      <4>1. \/ s = x /\ sweep'[s] = Sweep(s, Active(pos + 1))
            \/ sweep'[s] = [sweep[s] EXCEPT !.attached = FALSE]
            \/ sweep'[s] = sweep[s]
        BY <3>3 DEF Detached
      <4>2. Sound([sweep[s] EXCEPT !.attached = FALSE])
        BY <2>1 DEF SweepType
      <4> QED BY <2>2, <2>3, <3>1, <4>1, <4>2
    <3> QED BY <2>2, <2>5, <3>2, <3>3
  <2>7. CASE StartCanceller \/ SweepTick
    <3>1. sweep'[s] = sweep[s] \/ sweep'[s] = Sweep(s, Halts)
      BY <2>7 DEF StartCanceller, SweepTick, HaltTypeOK, Free
    <3> QED BY <1>1, <2>2, <2>3, <3>1 DEF Halts
  <2>8. CASE Restart
    BY <2>4, <2>8 DEF Restart
  <2>9. ASSUME NEW r \in Sweeps, List(r) \/ ListFails(r) \/ Done(r) PROVE Sound(sweep'[s])
    <3>1. \/ sweep'[s] = sweep[s] \/ sweep'[s] = IdleSweep
          \/ sweep'[s] = [sweep[s] EXCEPT !.at = "next", !.todo = Open]
      BY <2>9 DEF List, ListFails, Done, Set, HaltTypeOK
    <3>2. Sound([sweep[s] EXCEPT !.at = "next", !.todo = Open])
      BY <2>1 DEF SweepType
    <3> QED BY <2>2, <2>4, <3>1, <3>2
  <2>10. ASSUME NEW r \in Sweeps, NEW t \in Tasks, Take(r, t) PROVE Sound(sweep'[s])
    <3> DEFINE k == CoveringHalt(t, sweep[r].snap)
               rest == [sweep[r] EXCEPT !.todo = @ \ {t}]
    <3>1. \/ sweep'[s] = sweep[s]
          \/ s = r /\ sweep'[s] = rest
          \/ /\ s = r /\ k # "none"
             /\ sweep'[s] = [rest EXCEPT !.at = "cancel", !.cur = t, !.key = k, !.attached = TRUE]
      BY <2>10 DEF Take, Set, HaltTypeOK
    <3>2. s = r => Sound(rest)
      BY <2>1 DEF SweepType
    <3>3. s = r /\ k # "none" => {"fleet", Owner[t]} \cap sweep[s].snap # {}
      BY DEF CoveringHalt
    <3>4. s = r /\ k # "none" =>
            Sound([rest EXCEPT !.at = "cancel", !.cur = t, !.key = k, !.attached = TRUE])
      <4> HIDE DEF k
      <4> QED BY <2>1, <3>3 DEF SweepType
    <3> HIDE DEF k, rest
    <3> QED BY <2>2, <3>1, <3>2, <3>4
  <2>11. ASSUME NEW r \in Sweeps, Cancel(r) \/ CancelFails(r) PROVE Sound(sweep'[s])
    <3>1. sweep'[s] = sweep[s] \/ sweep'[s] = Next1(s)
      BY <2>11 DEF Cancel, CancelFails, Set, HaltTypeOK
    <3>2. Sound(Next1(s))
      BY <2>1 DEF Next1, SweepType
    <3> QED BY <2>2, <3>1, <3>2
  <2>12. CASE UNCHANGED sweep
    BY <2>2, <2>12
  <2> QED BY <2>6, <2>7, <2>8, <2>9, <2>10, <2>11, <2>12 DEF HaltNext, FlipFleet,
         FlipTenant, Put, Submit, StartTask, EndTask, Work, haltVars
<1>7. \A s \in Sweeps : Sound(sweep[s])'
  BY <1>4, <1>6
<1>8. \A k \in Seen' : EverHalted(k)'
  BY <1>1, <1>4, <1>5
<1> QED BY <1>2, <1>7, <1>8

\* A task that is being cancelled was covered by a halt that was put.
LEMMA NextOtherTenants ==
  ASSUME HaltTypeOK, HaltsWerePut, OtherTenantsUntouched, [HaltNext]_haltVars
  PROVE  OtherTenantsUntouched'
<1>1. OtherTenantsUntouched <=>
        \A t \in Tasks : task[t] = "cancelling" => \E k \in {"fleet", Owner[t]} : EverHalted(k)
  BY DEF OtherTenantsUntouched, EverHalted
<1>2. OtherTenantsUntouched' <=>
        \A t \in Tasks : task'[t] = "cancelling" => \E k \in {"fleet", Owner[t]} : EverHalted(k)'
  BY DEF OtherTenantsUntouched, EverHalted
<1>3. \A k : EverHalted(k) => EverHalted(k)'
  <2>1. CASE FlipFleet \/ FlipTenant
    BY <2>1, FlipsArePuts, PutKeeps
  <2>2. CASE UNCHANGED hist
    BY <2>2 DEF EverHalted
  <2>3. FlipFleet \/ FlipTenant \/ UNCHANGED hist
    BY DEF HaltNext, Deliver, StartCanceller, SweepTick, Restart, Submit, StartTask,
           EndTask, Work, List, Take, Cancel, Done, ListFails, CancelFails, haltVars
  <2> QED BY <2>1, <2>2, <2>3
<1>4. ASSUME NEW t \in Tasks, task'[t] = "cancelling"
      PROVE  \E k \in {"fleet", Owner[t]} : EverHalted(k)
  <2>1. CASE task[t] = "cancelling"
    BY <1>1, <2>1
  <2>2. ASSUME NEW s \in Sweeps, Cancel(s), task[t] # "cancelling"
        PROVE  \E k \in {"fleet", Owner[t]} : EverHalted(k)
    <3>1. sweep[s].at = "cancel" /\ sweep[s].cur = t
      BY <1>4, <2>2 DEF Cancel, HaltTypeOK
    <3> QED BY <3>1 DEF HaltsWerePut
  <2>3. task[t] = "cancelling" \/ \E s \in Sweeps : Cancel(s)
    BY <1>4 DEF HaltNext, FlipFleet, FlipTenant, Put, Deliver, StartCanceller,
           SweepTick, Restart, Submit, StartTask, EndTask, Work, List, Take, Done,
           ListFails, CancelFails, haltVars, HaltTypeOK
  <2> QED BY <2>1, <2>2, <2>3
<1> QED BY <1>2, <1>3, <1>4

-----------------------------------------------------------------------------
(* Theorems.                                                               *)

\* The inductive invariant of the canceller.
THEOREM HaltInvariant == HaltSpec => []HaltInv
<1>1. HaltInv /\ [HaltNext]_haltVars => HaltInv'
  BY NextHaltTypeOK, NextSweepWhileHalted, NextHolders, NextHaltsWerePut,
         NextOtherTenants DEF HaltInv
<1> QED BY <1>1, InitHaltInv, PTL DEF HaltSpec

\* FleetCanceller carries out a halt as long as its watcher knows of one, on
\* tasks of tenants that were halted only, each in the hands of one sweep of an
\* episode, for any number of sweeps, flips, failures and restarts.
THEOREM HaltScoped == HaltSpec => []HaltIsScoped
<1>1. HaltInv => HaltIsScoped
  BY DEF HaltInv, HaltIsScoped
<1> QED BY <1>1, HaltInvariant, PTL
=============================================================================
