-------------------------- MODULE AgentStepProofs ---------------------------
(***************************************************************************)
(* One dispatch of AgentStepWorkflow, for any versions, agents and number  *)
(* of changes of routing and kill flags.                                   *)
(***************************************************************************)
EXTENDS AgentStep, TLAPS

\* What is true of the dispatch in each phase: nothing has run before the
\* shield, a cancel is pending only from the shield on, and the result is set
\* when the execution has returned it.
Early == Preflight \cup {"announcing", "mirroring"}
ShapeInv ==
  /\ pin = NoCard <=> kind # "compensation"
  /\ pc \notin {"start", "routing", "returned"} => card \in Cards
  /\ pc \in {"start", "routing"} => card = NoCard /\ ~judge /\ verdict = "none"
  /\ pc \in Early => attempts = 0 /\ ~effects /\ ~finished /\ ~asked
  /\ pc = "executing" => attempts < MaxAttempts /\ ~finished
  /\ pc \in Early \cup {"executing"} => result = "none"
  /\ pc \in {"recording", "judging"} => (finished <=> result = "completed")
  /\ pc \in {"recording", "judging"} => result \in {"completed", "failed"}
  /\ pc = "judging" => judge
  /\ route = "pinned" => ~judge
  /\ pc = "returned" => result \in {"completed", "failed"}

\* After a checkpoint every blocking halt in force is fresh.
HaltInv ==
  pc \in {"authorizing", "brokering"} \cup Dispatched =>
    /\ {"capability", AgentOf[card]} \cap flags \subseteq fresh
    /\ kind # "compensation" => Broad \cap flags \subseteq fresh

\* After the second routing an approved card is the one routed, while the
\* routing stays as it was.
RouteInv ==
  pc \in {"posthalt", "brokering"} \cup Dispatched /\ verdict = "require-approval" /\ settled =>
    Routed(NoCard, FALSE).card = card

\* A gated dispatch is no compensator, and a compensator is its pin.
GroundsInv ==
  /\ pc \in {"digesting", "gate", "rerouting", "posthalt"} =>
       verdict = "require-approval" /\ kind # "compensation"
  /\ pc \in {"brokering"} \cup Dispatched =>
       (verdict = "require-approval" => kind # "compensation")
  /\ kind = "compensation" /\ card # NoCard => card = pin /\ mirror = NoCard
  /\ pc \notin Dispatched \cup {"returned"} => grounds = "none"
  /\ GroundsMatchDispatch

StepInv ==
  /\ TypeOK /\ ShapeInv /\ HaltInv /\ RouteInv /\ GroundsInv
  /\ RefusalIsHonest /\ CompletionIsReported

\* The bounds.
LEMMA BoundsAreNat == MaxAttempts \in Nat \ {0} /\ MaxChanges \in Nat
BY ConstantsAssumption

\* No version is called like the absence of one.
LEMMA NoCardIsNone == NoCard \notin Cards
BY ConstantsAssumption

\* resolveRoute returns a registered version or none.
LEMMA RoutedTypes ==
  ASSUME TypeOK, NEW b \in BOOLEAN
  PROVE  /\ Routed(pin, b).card \in Cards \cup {NoCard}
         /\ Routed(pin, b).mirror \in Cards \cup {NoCard}
         /\ Routed(pin, b).route \in {"pinned", "active", "canary"}
         /\ pin # NoCard => Routed(pin, b).card = pin /\ Routed(pin, b).mirror = NoCard
BY DEF TypeOK, DispatchTypes, WorldTypes, Routed

\* Initial states.
LEMMA InitStepInv == Init => StepInv
<1> SUFFICES ASSUME Init PROVE StepInv
  OBVIOUS
<1>1. DispatchTypes
  BY DEF Init, DispatchTypes
<1>2. ProgressTypes /\ WorldTypes
  <2>1. ProgressTypes
    <3>1. pc = "start" /\ attempts = 0 /\ result = "none" /\ why = "none"
      BY DEF Init
    <3>2. asked = FALSE /\ effects = FALSE /\ finished = FALSE /\ executed = FALSE
      BY DEF Init
    <3>3. attempts \in 0..MaxAttempts
      BY <3>1, BoundsAreNat
    <3> QED BY <3>1, <3>2, <3>3 DEF ProgressTypes, Preflight
  <2>2. /\ active \in Cards \cup {NoCard} /\ canary \in Cards \cup {NoCard}
        /\ shadow \in Cards \cup {NoCard} /\ covered \in BOOLEAN
    BY DEF Init
  <2>3. flags = {} /\ fresh = {} /\ changes = 0 /\ settled = FALSE
    BY DEF Init
  <2>4. changes \in 0..MaxChanges
    BY <2>3, BoundsAreNat
  <2> QED BY <2>1, <2>2, <2>3, <2>4 DEF WorldTypes
<1>3. ShapeInv
  <2>1. pin = NoCard <=> kind # "compensation"
    BY NoCardIsNone DEF Init
  <2>2. pc = "start" /\ card = NoCard /\ verdict = "none" /\ attempts = 0 /\ result = "none"
    BY DEF Init
  <2>3. ~judge /\ ~effects /\ ~finished /\ ~asked
    BY DEF Init
  <2> QED BY <2>1, <2>2, <2>3 DEF ShapeInv
<1>4. HaltInv /\ RouteInv /\ GroundsInv
  BY DEF Init, HaltInv, RouteInv, GroundsInv, GroundsMatchDispatch, Dispatched
<1>5. RefusalIsHonest /\ CompletionIsReported
  BY DEF Init, RefusalIsHonest, CompletionIsReported
<1> QED BY <1>1, <1>2, <1>3, <1>4, <1>5 DEF StepInv, TypeOK

\* Every step preserves the types of the dispatch.
LEMMA NextDispatchTypes ==
  ASSUME TypeOK, [Next]_vars
  PROVE  DispatchTypes'
<1> USE DEF vars, dispatchVars, routeVars, executeVars, resultVars,
        routingVars, worldVars, historyVars, DispatchTypes
<1>1. CASE DepthGuard
  BY <1>1 DEF DepthGuard, TypeOK
<1>2. CASE ResolveRoute
  <2>1. /\ Routed(pin, kind = "probe").card \in Cards \cup {NoCard}
        /\ Routed(pin, kind = "probe").mirror \in Cards \cup {NoCard}
        /\ Routed(pin, kind = "probe").route \in {"pinned", "active", "canary"}
        /\ pin # NoCard => /\ Routed(pin, kind = "probe").card = pin
                           /\ Routed(pin, kind = "probe").mirror = NoCard
    BY RoutedTypes
  <2>2. judge' \in BOOLEAN /\ card' \in Cards \cup {NoCard}
    BY <1>2, <2>1 DEF ResolveRoute, TypeOK
  <2>3. mirror' \in Cards \cup {NoCard} /\ route' \in {"none", "pinned", "active", "canary"}
    BY <1>2, <2>1 DEF ResolveRoute, TypeOK
  <2> QED BY <1>2, <2>2, <2>3 DEF ResolveRoute, TypeOK
<1>3. CASE PreHalt
  BY <1>3 DEF PreHalt, TypeOK
<1>4. CASE AuthorizeDelegation
  BY <1>4 DEF AuthorizeDelegation, TypeOK
<1>5. CASE DigestSubject
  BY <1>5 DEF DigestSubject, TypeOK
<1>6. CASE GateCloses
  BY <1>6 DEF GateCloses, TypeOK
<1>7. CASE Reroute
  BY <1>7 DEF Reroute, TypeOK
<1>8. CASE PostHalt
  BY <1>8 DEF PostHalt, TypeOK
<1>9. CASE BrokerToken
  BY <1>9 DEF BrokerToken, TypeOK
<1>10. CASE EmitDispatched
  BY <1>10 DEF EmitDispatched, TypeOK
<1>11. CASE StartShadow
  BY <1>11 DEF StartShadow, TypeOK
<1>12. CASE ExecuteCapability
  BY <1>12 DEF ExecuteCapability, TypeOK
<1>13. CASE EmitCompleted
  BY <1>13 DEF EmitCompleted, TypeOK
<1>14. CASE StartJudge
  BY <1>14 DEF StartJudge, TypeOK
<1>15. CASE Cancel
  BY <1>15 DEF Cancel, TypeOK
<1>16. CASE ChangeRouting
  BY <1>16 DEF ChangeRouting, TypeOK
<1>17. CASE RaiseFlag
  BY <1>17 DEF RaiseFlag, TypeOK
<1>18. CASE LiftFlag
  BY <1>18 DEF LiftFlag, TypeOK
<1>19. CASE UNCHANGED vars
  BY <1>19 DEF TypeOK
<1> QED BY <1>1, <1>2, <1>3, <1>4, <1>5, <1>6, <1>7, <1>8, <1>9, <1>10, <1>11,
           <1>12, <1>13, <1>14, <1>15, <1>16, <1>17, <1>18, <1>19 DEF Next,
           Workflow, World, Closed

\* Every step preserves the types of its progress.
LEMMA NextProgressTypes ==
  ASSUME TypeOK, ShapeInv, [Next]_vars
  PROVE  ProgressTypes'
<1> USE DEF vars, dispatchVars, routeVars, executeVars, resultVars,
        routingVars, worldVars, historyVars, ProgressTypes
<1>1. CASE DepthGuard
  BY <1>1 DEF DepthGuard, Return, Fails, Throws, GoTo, TypeOK, Preflight,
     Dispatched
<1>2. CASE ResolveRoute
  BY <1>2 DEF ResolveRoute, Return, Fails, Throws, GoTo, TypeOK, Preflight,
     Dispatched
<1>3. CASE PreHalt
  BY <1>3 DEF PreHalt, Return, Fails, Throws, GoTo, CheckKillSwitch, TypeOK,
     Preflight, Dispatched
<1>4. CASE AuthorizeDelegation
  BY <1>4 DEF AuthorizeDelegation, Return, Fails, Throws, GoTo, TypeOK,
     Preflight, Dispatched
<1>5. CASE DigestSubject
  BY <1>5 DEF DigestSubject, Return, Fails, Throws, GoTo, TypeOK, Preflight,
     Dispatched
<1>6. CASE GateCloses
  BY <1>6 DEF GateCloses, Return, Fails, Throws, GoTo, TypeOK, Preflight,
     Dispatched
<1>7. CASE Reroute
  BY <1>7 DEF Reroute, Return, Fails, Throws, GoTo, TypeOK, Preflight,
     Dispatched
<1>8. CASE PostHalt
  BY <1>8 DEF PostHalt, Return, Fails, Throws, GoTo, CheckKillSwitch, TypeOK,
     Preflight, Dispatched
<1>9. CASE BrokerToken
  BY <1>9 DEF BrokerToken, Return, Fails, Throws, GoTo, TypeOK, Preflight,
     Dispatched
<1>10. CASE EmitDispatched
  BY <1>10 DEF EmitDispatched, Return, Fails, Throws, GoTo, TypeOK, Preflight,
     Dispatched
<1>11. CASE StartShadow
  BY <1>11 DEF StartShadow, Return, Fails, Throws, GoTo, TypeOK, Preflight,
     Dispatched
<1>12. CASE ExecuteCapability
  <2>1. attempts' \in 0..MaxAttempts
    BY <1>12, BoundsAreNat DEF ExecuteCapability, TypeOK, ShapeInv
  <2>2. effects' \in BOOLEAN /\ finished' \in BOOLEAN /\ executed' \in BOOLEAN
    BY <1>12 DEF ExecuteCapability, Fails, Return, GoTo, TypeOK
  <2>3. /\ pc' \in Dispatched \cup {"returned"}
        /\ result' \in {"none", "completed", "failed"} /\ why' \in {why, "execute"}
    BY <1>12 DEF ExecuteCapability, Fails, Return, GoTo, TypeOK, Dispatched
  <2> QED BY <1>12, <2>1, <2>2, <2>3 DEF ExecuteCapability, TypeOK
<1>13. CASE EmitCompleted
  BY <1>13 DEF EmitCompleted, Return, Fails, Throws, GoTo, Finish, Judged,
     TypeOK, Preflight, Dispatched
<1>14. CASE StartJudge
  BY <1>14 DEF StartJudge, Return, Fails, Throws, GoTo, Finish, TypeOK,
     Preflight, Dispatched
<1>15. CASE Cancel
  BY <1>15 DEF Cancel, Return, Fails, Throws, GoTo, Shielded, TypeOK,
     Preflight, Dispatched
<1>16. CASE ChangeRouting
  BY <1>16 DEF ChangeRouting, TypeOK, Preflight, Dispatched
<1>17. CASE RaiseFlag
  BY <1>17 DEF RaiseFlag, TypeOK, Preflight, Dispatched
<1>18. CASE LiftFlag
  BY <1>18 DEF LiftFlag, TypeOK, Preflight, Dispatched
<1>19. CASE UNCHANGED vars
  BY <1>19 DEF TypeOK
<1> QED BY <1>1, <1>2, <1>3, <1>4, <1>5, <1>6, <1>7, <1>8, <1>9, <1>10, <1>11,
           <1>12, <1>13, <1>14, <1>15, <1>16, <1>17, <1>18, <1>19 DEF Next,
           Workflow, World, Closed

\* Every step preserves the types of routing and flags.
LEMMA NextWorldTypes ==
  ASSUME TypeOK, [Next]_vars
  PROVE  WorldTypes'
<1> USE DEF vars, dispatchVars, routeVars, executeVars, resultVars,
        routingVars, worldVars, historyVars, WorldTypes
<1>1. CASE DepthGuard
  BY <1>1, BoundsAreNat DEF DepthGuard, TypeOK
<1>2. CASE ResolveRoute
  BY <1>2, BoundsAreNat DEF ResolveRoute, TypeOK
<1>3. CASE PreHalt
  BY <1>3, BoundsAreNat DEF PreHalt, TypeOK
<1>4. CASE AuthorizeDelegation
  BY <1>4, BoundsAreNat DEF AuthorizeDelegation, TypeOK
<1>5. CASE DigestSubject
  BY <1>5, BoundsAreNat DEF DigestSubject, TypeOK
<1>6. CASE GateCloses
  BY <1>6, BoundsAreNat DEF GateCloses, TypeOK
<1>7. CASE Reroute
  BY <1>7, BoundsAreNat DEF Reroute, TypeOK
<1>8. CASE PostHalt
  BY <1>8, BoundsAreNat DEF PostHalt, TypeOK
<1>9. CASE BrokerToken
  BY <1>9, BoundsAreNat DEF BrokerToken, TypeOK
<1>10. CASE EmitDispatched
  BY <1>10, BoundsAreNat DEF EmitDispatched, TypeOK
<1>11. CASE StartShadow
  BY <1>11, BoundsAreNat DEF StartShadow, TypeOK
<1>12. CASE ExecuteCapability
  BY <1>12, BoundsAreNat DEF ExecuteCapability, TypeOK
<1>13. CASE EmitCompleted
  BY <1>13, BoundsAreNat DEF EmitCompleted, TypeOK
<1>14. CASE StartJudge
  BY <1>14, BoundsAreNat DEF StartJudge, TypeOK
<1>15. CASE Cancel
  BY <1>15, BoundsAreNat DEF Cancel, TypeOK
<1>16. CASE ChangeRouting
  <2>3. changes < MaxChanges /\ changes' = changes + 1 /\ changes \in 0..MaxChanges
    BY <1>16 DEF ChangeRouting, TypeOK
  <2>1. changes' \in 0..MaxChanges
    BY <2>3, BoundsAreNat
  <2>4. settled' \in BOOLEAN /\ covered' \in BOOLEAN
    BY <1>16 DEF ChangeRouting
  <2>2. /\ active' \in Cards \cup {NoCard} /\ canary' \in Cards \cup {NoCard}
        /\ shadow' \in Cards \cup {NoCard} /\ UNCHANGED <<flags, fresh>>
    BY <1>16 DEF ChangeRouting
  <2> QED BY <2>1, <2>2, <2>4 DEF TypeOK
<1>17. CASE RaiseFlag
  BY <1>17, BoundsAreNat DEF RaiseFlag, TypeOK
<1>18. CASE LiftFlag
  BY <1>18, BoundsAreNat DEF LiftFlag, TypeOK
<1>19. CASE UNCHANGED vars
  BY <1>19 DEF TypeOK
<1> QED BY <1>1, <1>2, <1>3, <1>4, <1>5, <1>6, <1>7, <1>8, <1>9, <1>10, <1>11,
           <1>12, <1>13, <1>14, <1>15, <1>16, <1>17, <1>18, <1>19 DEF Next,
           Workflow, World, Closed

\* Every step preserves ShapeInv.
LEMMA NextShapeInv ==
  ASSUME TypeOK, ShapeInv, [Next]_vars
  PROVE  ShapeInv'
<1> USE DEF vars, dispatchVars, routeVars, executeVars, resultVars,
        routingVars, worldVars, historyVars, TypeOK, DispatchTypes,
        ProgressTypes, ShapeInv, Preflight, Dispatched, Early
<1>1. CASE DepthGuard
  BY <1>1 DEF DepthGuard, Return, Fails, Throws, GoTo
<1>2. CASE ResolveRoute
  <2>1. /\ Routed(pin, kind = "probe").card \in Cards \cup {NoCard}
        /\ Routed(pin, kind = "probe").mirror \in Cards \cup {NoCard}
        /\ Routed(pin, kind = "probe").route \in {"pinned", "active", "canary"}
        /\ pin # NoCard => /\ Routed(pin, kind = "probe").card = pin
                           /\ Routed(pin, kind = "probe").mirror = NoCard
    BY RoutedTypes
  <2>2. CASE pc' = "prehalt"
    <3>1. /\ card' \in Cards /\ (route' = "pinned" => ~judge')
          /\ UNCHANGED <<kind, pin, attempts, effects, finished, asked, result>>
      BY <1>2, <2>1, <2>2 DEF ResolveRoute, Throws, Fails, Return, GoTo
    <3> QED BY <1>2, <2>2, <3>1 DEF ResolveRoute
  <2>3. CASE pc' = "returned"
    <3>1. /\ result' = "failed"
          /\ UNCHANGED <<kind, pin, card, route, judge, attempts, effects, finished, asked>>
      BY <1>2, <2>3 DEF ResolveRoute, Throws, Fails, Return, GoTo
    <3> QED BY <1>2, <2>3, <3>1 DEF ResolveRoute
  <2> QED BY <1>2, <2>2, <2>3 DEF ResolveRoute, Throws, Fails, Return, GoTo
<1>3. CASE PreHalt
  BY <1>3 DEF PreHalt, Return, Fails, Throws, GoTo, CheckKillSwitch
<1>4. CASE AuthorizeDelegation
  BY <1>4 DEF AuthorizeDelegation, Return, Fails, Throws, GoTo
<1>5. CASE DigestSubject
  BY <1>5 DEF DigestSubject, Return, Fails, Throws, GoTo
<1>6. CASE GateCloses
  BY <1>6 DEF GateCloses, Return, Fails, Throws, GoTo
<1>7. CASE Reroute
  BY <1>7 DEF Reroute, Return, Fails, Throws, GoTo
<1>8. CASE PostHalt
  BY <1>8 DEF PostHalt, Return, Fails, Throws, GoTo, CheckKillSwitch
<1>9. CASE BrokerToken
  BY <1>9 DEF BrokerToken, Return, Fails, Throws, GoTo
<1>10. CASE EmitDispatched
  BY <1>10, BoundsAreNat DEF EmitDispatched, Return, Fails, Throws, GoTo
<1>11. CASE StartShadow
  BY <1>11, BoundsAreNat DEF StartShadow, Return, Fails, Throws, GoTo
<1>12. CASE ExecuteCapability
  <2>1. /\ attempts \in Nat /\ pin' = pin /\ kind' = kind /\ judge' = judge /\ route' = route
        /\ card' = card /\ pc = "executing" /\ ~finished /\ card \in Cards
    BY <1>12, BoundsAreNat DEF ExecuteCapability
  <2>2. CASE pc' = "recording"
    <3>1. \/ result' = "completed" /\ finished' = TRUE
          \/ result' = "failed" /\ finished' = finished
      BY <1>12, <2>2 DEF ExecuteCapability, Fails, Return, GoTo
    <3> QED BY <2>1, <2>2, <3>1
  <2>3. CASE pc' = "executing"
    BY <1>12, <2>1, <2>3, BoundsAreNat DEF ExecuteCapability, Fails, Return,
       GoTo
  <2>4. CASE pc' = "returned"
    BY <1>12, <2>1, <2>4 DEF ExecuteCapability, Fails, Return, GoTo
  <2> QED BY <1>12, <2>2, <2>3, <2>4 DEF ExecuteCapability, Fails, Return, GoTo
<1>13. CASE EmitCompleted
  BY <1>13 DEF EmitCompleted, Return, Fails, Throws, GoTo, Finish, Judged
<1>14. CASE StartJudge
  BY <1>14 DEF StartJudge, Return, Fails, Throws, GoTo, Finish
<1>15. CASE Cancel
  BY <1>15 DEF Cancel, Return, Fails, Throws, GoTo, Shielded
<1>16. CASE ChangeRouting
  BY <1>16 DEF ChangeRouting
<1>17. CASE RaiseFlag
  BY <1>17 DEF RaiseFlag
<1>18. CASE LiftFlag
  BY <1>18 DEF LiftFlag
<1>19. CASE UNCHANGED vars
  BY <1>19
<1> QED BY <1>1, <1>2, <1>3, <1>4, <1>5, <1>6, <1>7, <1>8, <1>9, <1>10, <1>11,
           <1>12, <1>13, <1>14, <1>15, <1>16, <1>17, <1>18, <1>19 DEF Next,
           Workflow, World, Closed

\* Every step preserves HaltInv.
LEMMA NextHaltInv ==
  ASSUME TypeOK, HaltInv, [Next]_vars
  PROVE  HaltInv'
<1> USE DEF vars, dispatchVars, routeVars, executeVars, resultVars,
        routingVars, worldVars, historyVars, HaltInv, Preflight, Dispatched,
        Early
<1>1. CASE DepthGuard
  BY <1>1 DEF DepthGuard, Return, Fails, Throws, GoTo
<1>2. CASE ResolveRoute
  BY <1>2 DEF ResolveRoute, Return, Fails, Throws, GoTo
<1>3. CASE PreHalt
  BY <1>3 DEF PreHalt, Return, Fails, Throws, GoTo, CheckKillSwitch, Halted
<1>4. CASE AuthorizeDelegation
  BY <1>4 DEF AuthorizeDelegation, Return, Fails, Throws, GoTo
<1>5. CASE DigestSubject
  BY <1>5 DEF DigestSubject, Return, Fails, Throws, GoTo
<1>6. CASE GateCloses
  BY <1>6 DEF GateCloses, Return, Fails, Throws, GoTo
<1>7. CASE Reroute
  BY <1>7 DEF Reroute, Return, Fails, Throws, GoTo
<1>8. CASE PostHalt
  BY <1>8 DEF PostHalt, Return, Fails, Throws, GoTo, CheckKillSwitch, Halted
<1>9. CASE BrokerToken
  BY <1>9 DEF BrokerToken, Return, Fails, Throws, GoTo
<1>10. CASE EmitDispatched
  BY <1>10 DEF EmitDispatched, Return, Fails, Throws, GoTo
<1>11. CASE StartShadow
  BY <1>11 DEF StartShadow, Return, Fails, Throws, GoTo
<1>12. CASE ExecuteCapability
  BY <1>12 DEF ExecuteCapability, Return, Fails, Throws, GoTo
<1>13. CASE EmitCompleted
  BY <1>13 DEF EmitCompleted, Return, Fails, Throws, GoTo, Finish, Judged
<1>14. CASE StartJudge
  BY <1>14 DEF StartJudge, Return, Fails, Throws, GoTo, Finish
<1>15. CASE Cancel
  BY <1>15 DEF Cancel, Return, Fails, Throws, GoTo, Shielded
<1>16. CASE ChangeRouting
  BY <1>16 DEF ChangeRouting
<1>17. CASE RaiseFlag
  BY <1>17 DEF RaiseFlag
<1>18. CASE LiftFlag
  BY <1>18 DEF LiftFlag
<1>19. CASE UNCHANGED vars
  BY <1>19
<1> QED BY <1>1, <1>2, <1>3, <1>4, <1>5, <1>6, <1>7, <1>8, <1>9, <1>10, <1>11,
           <1>12, <1>13, <1>14, <1>15, <1>16, <1>17, <1>18, <1>19 DEF Next,
           Workflow, World, Closed

\* Every step preserves RouteInv.
LEMMA NextRouteInv ==
  ASSUME TypeOK, ShapeInv, GroundsInv, RouteInv, [Next]_vars
  PROVE  RouteInv'
<1> USE DEF vars, dispatchVars, routeVars, executeVars, resultVars,
        routingVars, worldVars, historyVars, RouteInv, Preflight, Dispatched,
        Early
<1>1. CASE DepthGuard
  BY <1>1 DEF DepthGuard, Return, Fails, Throws, GoTo, Routed
<1>2. CASE ResolveRoute
  BY <1>2 DEF ResolveRoute, Return, Fails, Throws, GoTo, Routed
<1>3. CASE PreHalt
  BY <1>3 DEF PreHalt, Return, Fails, Throws, GoTo, CheckKillSwitch, Routed
<1>4. CASE AuthorizeDelegation
  BY <1>4 DEF AuthorizeDelegation, Return, Fails, Throws, GoTo, Routed,
     GroundsInv
<1>5. CASE DigestSubject
  BY <1>5 DEF DigestSubject, Return, Fails, Throws, GoTo, Routed
<1>6. CASE GateCloses
  BY <1>6 DEF GateCloses, Return, Fails, Throws, GoTo, Routed
<1>7. CASE Reroute
  BY <1>7 DEF Reroute, Return, Fails, Throws, GoTo, Routed
<1>8. CASE PostHalt
  BY <1>8 DEF PostHalt, Return, Fails, Throws, GoTo, CheckKillSwitch, Routed
<1>9. CASE BrokerToken
  BY <1>9 DEF BrokerToken, Return, Fails, Throws, GoTo, Routed
<1>10. CASE EmitDispatched
  BY <1>10 DEF EmitDispatched, Return, Fails, Throws, GoTo, Routed
<1>11. CASE StartShadow
  BY <1>11 DEF StartShadow, Return, Fails, Throws, GoTo, Routed
<1>12. CASE ExecuteCapability
  BY <1>12 DEF ExecuteCapability, Return, Fails, Throws, GoTo, Routed
<1>13. CASE EmitCompleted
  BY <1>13 DEF EmitCompleted, Return, Fails, Throws, GoTo, Finish, Judged,
     Routed
<1>14. CASE StartJudge
  BY <1>14 DEF StartJudge, Return, Fails, Throws, GoTo, Finish, Routed
<1>15. CASE Cancel
  BY <1>15 DEF Cancel, Return, Fails, Throws, GoTo, Shielded, Routed
<1>16. CASE ChangeRouting
  BY <1>16 DEF ChangeRouting, Routed
<1>17. CASE RaiseFlag
  BY <1>17 DEF RaiseFlag, Routed
<1>18. CASE LiftFlag
  BY <1>18 DEF LiftFlag, Routed
<1>19. CASE UNCHANGED vars
  BY <1>19 DEF Routed
<1> QED BY <1>1, <1>2, <1>3, <1>4, <1>5, <1>6, <1>7, <1>8, <1>9, <1>10, <1>11,
           <1>12, <1>13, <1>14, <1>15, <1>16, <1>17, <1>18, <1>19 DEF Next,
           Workflow, World, Closed

\* Every step preserves GroundsInv.
LEMMA NextGroundsInv ==
  ASSUME TypeOK, ShapeInv, GroundsInv, [Next]_vars
  PROVE  GroundsInv'
<1> USE DEF vars, dispatchVars, routeVars, executeVars, resultVars,
        routingVars, worldVars, historyVars, GroundsInv, GroundsMatchDispatch,
        TypeOK, DispatchTypes, ProgressTypes, ShapeInv, Preflight, Dispatched,
        Early
<1>1. CASE DepthGuard
  BY <1>1 DEF DepthGuard, Return, Fails, Throws, GoTo
<1>2. CASE ResolveRoute
  <2>1. /\ Routed(pin, kind = "probe").card \in Cards \cup {NoCard}
        /\ Routed(pin, kind = "probe").mirror \in Cards \cup {NoCard}
        /\ Routed(pin, kind = "probe").route \in {"pinned", "active", "canary"}
        /\ pin # NoCard => /\ Routed(pin, kind = "probe").card = pin
                           /\ Routed(pin, kind = "probe").mirror = NoCard
    BY RoutedTypes
  <2> QED BY <1>2, <2>1 DEF ResolveRoute, Return, Fails, Throws, GoTo
<1>3. CASE PreHalt
  BY <1>3 DEF PreHalt, Return, Fails, Throws, GoTo, CheckKillSwitch
<1>4. CASE AuthorizeDelegation
  BY <1>4 DEF AuthorizeDelegation, Return, Fails, Throws, GoTo
<1>5. CASE DigestSubject
  BY <1>5 DEF DigestSubject, Return, Fails, Throws, GoTo
<1>6. CASE GateCloses
  BY <1>6 DEF GateCloses, Return, Fails, Throws, GoTo
<1>7. CASE Reroute
  BY <1>7 DEF Reroute, Return, Fails, Throws, GoTo
<1>8. CASE PostHalt
  BY <1>8 DEF PostHalt, Return, Fails, Throws, GoTo, CheckKillSwitch
<1>9. CASE BrokerToken
  <2>1. /\ pc = "brokering" /\ UNCHANGED <<kind, pin, card, mirror, verdict>>
        /\ card \in Cards /\ (verdict = "require-approval" => kind # "compensation")
    BY <1>9 DEF BrokerToken
  <2>2. CASE pc' = "announcing" /\ verdict = "require-approval" /\ grounds' = "approval"
    BY <2>1, <2>2
  <2>3. CASE /\ pc' = "announcing" /\ verdict # "require-approval"
             /\ kind = "compensation" /\ grounds' = "compensation"
    <3>1. card' = pin' /\ mirror' = NoCard
      BY <2>1, <2>3, NoCardIsNone
    <3> QED BY <2>1, <2>3, <3>1
  <2>5. CASE /\ pc' = "announcing" /\ verdict # "require-approval"
             /\ kind # "compensation" /\ grounds' = "capability"
    BY <2>1, <2>5
  <2>4. CASE pc' = "returned" /\ UNCHANGED grounds
    BY <2>1, <2>4
  <2> QED BY <1>9, <2>2, <2>3, <2>4, <2>5 DEF BrokerToken, Throws, Fails,
             Return, GoTo
<1>10. CASE EmitDispatched
  BY <1>10 DEF EmitDispatched, Return, Fails, Throws, GoTo
<1>11. CASE StartShadow
  BY <1>11 DEF StartShadow, Return, Fails, Throws, GoTo
<1>12. CASE ExecuteCapability
  BY <1>12 DEF ExecuteCapability, Return, Fails, Throws, GoTo
<1>13. CASE EmitCompleted
  BY <1>13 DEF EmitCompleted, Return, Fails, Throws, GoTo, Finish, Judged
<1>14. CASE StartJudge
  BY <1>14 DEF StartJudge, Return, Fails, Throws, GoTo, Finish
<1>15. CASE Cancel
  BY <1>15 DEF Cancel, Return, Fails, Throws, GoTo, Shielded
<1>16. CASE ChangeRouting
  BY <1>16 DEF ChangeRouting
<1>17. CASE RaiseFlag
  BY <1>17 DEF RaiseFlag
<1>18. CASE LiftFlag
  BY <1>18 DEF LiftFlag
<1>19. CASE UNCHANGED vars
  BY <1>19
<1> QED BY <1>1, <1>2, <1>3, <1>4, <1>5, <1>6, <1>7, <1>8, <1>9, <1>10, <1>11,
           <1>12, <1>13, <1>14, <1>15, <1>16, <1>17, <1>18, <1>19 DEF Next,
           Workflow, World, Closed

\* Every step keeps the report honest.
LEMMA NextHonest ==
  ASSUME TypeOK, ShapeInv, RefusalIsHonest, CompletionIsReported, [Next]_vars
  PROVE  (RefusalIsHonest /\ CompletionIsReported)'
<1> USE DEF vars, dispatchVars, routeVars, executeVars, resultVars,
        routingVars, worldVars, historyVars, RefusalIsHonest,
        CompletionIsReported, TypeOK, DispatchTypes, ProgressTypes, ShapeInv,
        Preflight, Dispatched, Early
<1>1. CASE DepthGuard
  BY <1>1 DEF DepthGuard, Return, Fails, Throws, GoTo
<1>2. CASE ResolveRoute
  BY <1>2 DEF ResolveRoute, Return, Fails, Throws, GoTo
<1>3. CASE PreHalt
  BY <1>3 DEF PreHalt, Return, Fails, Throws, GoTo, CheckKillSwitch
<1>4. CASE AuthorizeDelegation
  BY <1>4 DEF AuthorizeDelegation, Return, Fails, Throws, GoTo
<1>5. CASE DigestSubject
  BY <1>5 DEF DigestSubject, Return, Fails, Throws, GoTo
<1>6. CASE GateCloses
  BY <1>6 DEF GateCloses, Return, Fails, Throws, GoTo
<1>7. CASE Reroute
  BY <1>7 DEF Reroute, Return, Fails, Throws, GoTo
<1>8. CASE PostHalt
  BY <1>8 DEF PostHalt, Return, Fails, Throws, GoTo, CheckKillSwitch
<1>9. CASE BrokerToken
  BY <1>9 DEF BrokerToken, Return, Fails, Throws, GoTo
<1>10. CASE EmitDispatched
  BY <1>10 DEF EmitDispatched, Return, Fails, Throws, GoTo
<1>11. CASE StartShadow
  BY <1>11 DEF StartShadow, Return, Fails, Throws, GoTo
<1>12. CASE ExecuteCapability
  <2>1. ~finished /\ judge' = judge
    BY <1>12 DEF ExecuteCapability
  <2>2. pc' = "returned" => why' = "execute" /\ ~finished'
    BY <1>12, <2>1 DEF ExecuteCapability, Fails, Return, GoTo
  <2> QED BY <2>1, <2>2
<1>13. CASE EmitCompleted
  BY <1>13 DEF EmitCompleted, Return, Fails, Throws, GoTo, Finish, Judged
<1>14. CASE StartJudge
  BY <1>14 DEF StartJudge, Return, Fails, Throws, GoTo, Finish
<1>15. CASE Cancel
  BY <1>15 DEF Cancel, Return, Fails, Throws, GoTo, Shielded
<1>16. CASE ChangeRouting
  BY <1>16 DEF ChangeRouting
<1>17. CASE RaiseFlag
  BY <1>17 DEF RaiseFlag
<1>18. CASE LiftFlag
  BY <1>18 DEF LiftFlag
<1>19. CASE UNCHANGED vars
  BY <1>19
<1> QED BY <1>1, <1>2, <1>3, <1>4, <1>5, <1>6, <1>7, <1>8, <1>9, <1>10, <1>11,
           <1>12, <1>13, <1>14, <1>15, <1>16, <1>17, <1>18, <1>19 DEF Next,
           Workflow, World, Closed

\* The inductive invariant of one dispatch.
THEOREM StepInvariant == Spec => []StepInv
<1>1. Init => StepInv
  BY InitStepInv
<1>2. StepInv /\ [Next]_vars => StepInv'
  BY NextDispatchTypes, NextProgressTypes, NextWorldTypes, NextShapeInv,
     NextHaltInv, NextRouteInv, NextGroundsInv, NextHonest DEF StepInv, TypeOK
<1> QED BY <1>1, <1>2, PTL DEF Spec

\* A halt in force since the route or the grant lets nothing be dispatched,
\* whatever else operators change in between.
THEOREM HaltStops == Spec => []HaltStopsDispatch
<1>1. StepInv => HaltStopsDispatch
  BY DEF StepInv, HaltInv, RouteInv, GroundsInv, HaltStopsDispatch, Dispatched
<1> QED BY <1>1, StepInvariant, PTL

\* A granted approval never covers a version the routing has moved away from.
THEOREM ApprovalCovers == Spec => []ApprovalCoversWhatRuns
<1>1. StepInv => ApprovalCoversWhatRuns
  BY DEF StepInv, HaltInv, RouteInv, GroundsInv, ApprovalCoversWhatRuns,
     Dispatched
<1> QED BY <1>1, StepInvariant, PTL

\* No gated write without approval grounds, no compensator behind a gate.
THEOREM GroundsMatch == Spec => []GroundsMatchDispatch
<1>1. StepInv => GroundsMatchDispatch
  BY DEF StepInv, HaltInv, RouteInv, GroundsInv, GroundsMatchDispatch,
     Dispatched
<1> QED BY <1>1, StepInvariant, PTL

\* A step that reports not executed has not touched the tools.
THEOREM HonestRefusal == Spec => []RefusalIsHonest
<1>1. StepInv => RefusalIsHonest
  BY DEF StepInv, HaltInv, RouteInv, GroundsInv, RefusalIsHonest, Dispatched
<1> QED BY <1>1, StepInvariant, PTL

\* A completed execution reaches the task workflow with its metadata.
THEOREM CompletionReported == Spec => []CompletionIsReported
<1>1. StepInv => CompletionIsReported
  BY DEF StepInv, HaltInv, RouteInv, GroundsInv, CompletionIsReported,
     Dispatched
<1> QED BY <1>1, StepInvariant, PTL

\* Every step of the workflow is a step of the child of TaskSaga, or none.
LEMMA StepSimulates ==
  ASSUME StepInv, StepInv', [Next]_vars
  PROVE  [Contract!Next]_(Contract!contractVars)
<1> USE DEF vars, dispatchVars, routeVars, executeVars, resultVars,
        routingVars, worldVars, historyVars, StepPhase, Shielded, StepInv,
        ShapeInv, TypeOK, DispatchTypes, ProgressTypes, Preflight, Dispatched,
        Early, Contract!Next, Contract!contractVars, Contract!Sample,
        Contract!PreflightFails, Contract!BeginExecute, Contract!NoteCancel,
        Contract!Ran, Contract!EndExecute
<1>1. CASE DepthGuard
  BY <1>1 DEF DepthGuard, Return, Fails, Throws, GoTo
<1>2. CASE ResolveRoute
  BY <1>2 DEF ResolveRoute, Return, Fails, Throws, GoTo
<1>3. CASE PreHalt
  BY <1>3 DEF PreHalt, Return, Fails, Throws, GoTo, CheckKillSwitch
<1>4. CASE AuthorizeDelegation
  BY <1>4 DEF AuthorizeDelegation, Return, Fails, Throws, GoTo
<1>5. CASE DigestSubject
  BY <1>5 DEF DigestSubject, Return, Fails, Throws, GoTo
<1>6. CASE GateCloses
  BY <1>6 DEF GateCloses, Return, Fails, Throws, GoTo
<1>7. CASE Reroute
  BY <1>7 DEF Reroute, Return, Fails, Throws, GoTo
<1>8. CASE PostHalt
  BY <1>8 DEF PostHalt, Return, Fails, Throws, GoTo, CheckKillSwitch
<1>9. CASE BrokerToken
  BY <1>9 DEF BrokerToken, Return, Fails, Throws, GoTo
<1>10. CASE EmitDispatched
  BY <1>10 DEF EmitDispatched, Return, Fails, Throws, GoTo
<1>11. CASE StartShadow
  BY <1>11 DEF StartShadow, Return, Fails, Throws, GoTo
<1>12. CASE ExecuteCapability
  BY <1>12 DEF ExecuteCapability, Return, Fails, Throws, GoTo
<1>13. CASE EmitCompleted
  BY <1>13 DEF EmitCompleted, Return, Fails, Throws, GoTo, Finish, Judged
<1>14. CASE StartJudge
  BY <1>14 DEF StartJudge, Return, Fails, Throws, GoTo, Finish
<1>15. CASE Cancel
  BY <1>15 DEF Cancel, Return, Fails, Throws, GoTo, Shielded
<1>16. CASE ChangeRouting
  BY <1>16 DEF ChangeRouting
<1>17. CASE RaiseFlag
  BY <1>17 DEF RaiseFlag
<1>18. CASE LiftFlag
  BY <1>18 DEF LiftFlag
<1>19. CASE UNCHANGED vars
  BY <1>19
<1> QED BY <1>1, <1>2, <1>3, <1>4, <1>5, <1>6, <1>7, <1>8, <1>9, <1>10, <1>11,
           <1>12, <1>13, <1>14, <1>15, <1>16, <1>17, <1>18, <1>19 DEF Next,
           Workflow, World, Closed

\* AgentStepWorkflow implements the child TaskWorkflow is modelled with.
THEOREM StepRefinement == Spec => ImplementsStep
<1>1. Init => Contract!Init
  <2> SUFFICES ASSUME Init PROVE Contract!Init
    OBVIOUS
  <2>1. pc = "start"
    BY DEF Init
  <2>3. StepPhase = "preflight"
    BY <2>1 DEF StepPhase, Preflight, Shielded
  <2>2. asked = FALSE /\ judge = FALSE /\ finished = FALSE
    BY DEF Init
  <2> QED BY <2>1, <2>2, <2>3 DEF Contract!Init
<1>2. StepInv /\ StepInv' /\ [Next]_vars => [Contract!Next]_(Contract!contractVars)
  BY StepSimulates
<1> QED BY <1>1, <1>2, StepInvariant, PTL DEF Spec, ImplementsStep,
           Contract!Spec

\* What AgentStepWorkflow dispatches is grounded: not halted, the version the
\* approver saw, with the grounds that its policy and its role demand.
THEOREM DispatchGrounded == Spec => []DispatchIsGrounded
<1>1. HaltStopsDispatch /\ ApprovalCoversWhatRuns /\ GroundsMatchDispatch
        => DispatchIsGrounded
  BY DEF DispatchIsGrounded
<1> QED BY <1>1, HaltStops, ApprovalCovers, GroundsMatch, PTL

\* The step's result is honest about the tools in both directions.
THEOREM OutcomeHonest == Spec => []OutcomeIsHonest
<1>1. StepInv => TypeOK
  BY DEF StepInv
<1>2. TypeOK /\ RefusalIsHonest /\ CompletionIsReported => OutcomeIsHonest
  BY DEF OutcomeIsHonest
<1> QED BY <1>1, <1>2, StepInvariant, HonestRefusal, CompletionReported, PTL
=============================================================================
