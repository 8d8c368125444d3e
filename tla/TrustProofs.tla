---------------------------- MODULE TrustProofs -----------------------------
(***************************************************************************)
(* Who acts and what is on record.  The identities on the bus, for any     *)
(* workers, keys, clients and restarts (BusIdentity); the audit chain,     *)
(* for any writers, events, old rows, pages and faults (AuditChain).       *)
(* They are two specifications, and each theorem is about one of them.     *)
(***************************************************************************)
EXTENDS BusIdentity, AuditChain, FiniteSetTheorems, SequenceTheorems,
        WellFoundedInduction, TLAPS

-----------------------------------------------------------------------------
(* Bus identities.                                                         *)

Loaded == \E chosen \in LoadSet : load = chosen.workers /\ scope = chosen.scope

(* The domains of the workers' state, and what the service has heard of.   *)
Shape ==
  /\ now = 0 /\ up \in BOOLEAN
  /\ bucket \in Seq(SUBSET scope.flags) /\ heard[Service] \in 1..Len(bucket)
  /\ DOMAIN heard = Watchers
  /\ DOMAIN keys \in {{1}, {1, 2}}
  /\ DOMAIN token = Workers /\ DOMAIN session = Workers
  /\ plan \in [Workers -> {"none", "boot", "refresh", "retry"}]
  /\ holds \in [Workers -> Nat] /\ timer \in [Workers -> Nat]
  /\ backoff \in [Workers -> Nat] /\ flagged \in [Workers -> Nat]
  /\ failures \in Nat /\ keyAge \in Nat

(* A client id stands for one client, and a worker's for its own.          *)
ClientsAreKnown ==
  /\ IsFiniteSet(clients)
  /\ \A c \in clients : c.id \in Nat \ {0} /\ (c \in StaticClients \/ IsAgent(c.principal))
  /\ \A c, d \in clients : c.id = d.id => c = d
  /\ \A c \in clients, w \in Workers :
       c.id = holds[w] => /\ c.principal = load[w].principal /\ c.tenant = load[w].tenant
                          /\ c.roles = load[w].roles

(* A worker holds the id it was configured with, or one that its team      *)
(* provisioned and no configured client has.                               *)
HoldsOwn ==
  \A w \in Workers :
    /\ load[w].static => holds[w] = load[w].id
    /\ ~load[w].static /\ holds[w] # 0 =>
         /\ \A v \in Workers : load[v].static => holds[w] # load[v].id
         /\ load[w].team.tenant = load[w].tenant \/ "platform" \in load[w].team.roles

(* A worker's token is its own, and no session is for longer than it.      *)
TokensAreOwn ==
  \A w \in Workers :
    /\ token[w] # NoToken => /\ holds[w] # 0 /\ token[w].exp \in 0..DefaultTtl
                             /\ {"sub", "tenant", "roles", "key", "exp"} \subseteq DOMAIN token[w]
                             /\ token[w].sub = load[w].principal /\ token[w].tenant = load[w].tenant
                             /\ token[w].roles = load[w].roles
    /\ session[w] # NoSession => /\ token[w] # NoToken /\ session[w].exp \in 1..DefaultTtl
                                 /\ DOMAIN session[w] = {"account", "agent", "exp"}

(* While the service refuses a worker its token only ages.                 *)
FlaggedFade ==
  \A w \in Workers :
    /\ flagged[w] > 0 => Refused(w, View(Service))
    /\ token[w] # NoToken => token[w].exp + flagged[w] <= MaxTtl
    /\ flagged[w] <= MaxTtl

(* A live token is signed with the key in use, or with the one before by   *)
(* the time of the rotation.                                               *)
KeysCover ==
  ~scope.ephemeral =>
    \A w \in Workers : token[w] # NoToken /\ token[w].exp > 0 =>
      \/ token[w].key = keys[1]
      \/ 2 \in DOMAIN keys /\ token[w].key = keys[2] /\ token[w].exp + keyAge <= MaxTtl

(* Counters and timers stay in their ranges, and only a worker with an id  *)
(* plans a mint.                                                           *)
Bounded ==
  /\ failures <= scope.faults /\ keyAge <= MaxTtl
  /\ \A w \in Workers : /\ timer[w] <= Max({MaxTtl, RetryDelay, MaxBackoff})
                        /\ backoff[w] \in 1..MaxBackoff
                        /\ holds[w] # 0 \/ plan[w] = "none"

IdentityInv ==
  /\ Loaded /\ Shape /\ ClientsAreKnown /\ HoldsOwn /\ TokensAreOwn /\ FlaggedFade /\ KeysCover
  /\ Bounded /\ OneHolder /\ SessionsAreOwn

-----------------------------------------------------------------------------
(* Operators.                                                              *)

\* A nonempty set of subsets of a finite set has a smallest one.
LEMMA SmallestSet ==
  ASSUME NEW S, IsFiniteSet(S), NEW B \in SUBSET SUBSET S, B # {}
  PROVE  \E T \in B : \A U \in B : U \subseteq T => U = T
<1> DEFINE R == StrictSubsetOrdering(S)
<1>1. IsWellFoundedOn(R, FiniteSubsetsOf(S))
  BY FS_StrictSubsetOrderingWellFounded
<1>2. B \subseteq FiniteSubsetsOf(S)
  BY FS_Subset DEF FiniteSubsetsOf
<1>3. PICK T \in B : \A U \in B : ~(<<U, T>> \in R)
  <2> HIDE DEF R
  <2> QED BY <1>1, <1>2, WFMin
<1>4. ASSUME NEW U \in B, U \subseteq T, U # T PROVE FALSE
  <2>1. <<U, T>> \in R
    BY <1>4 DEF StrictSubsetOrdering
  <2> HIDE DEF R
  <2>2. QED
    BY <1>3, <2>1
<1>5. QED
  BY <1>4

\* A nonempty set of naturals that is part of a finite set has a greatest
\* element.
LEMMA GreatestElement ==
  ASSUME NEW F, IsFiniteSet(F)
  PROVE  \A S \in SUBSET F : S # {} /\ S \subseteq Nat => \E m \in S : \A y \in S : m >= y
<1> DEFINE B == {T \in SUBSET F : T # {} /\ T \subseteq Nat /\ \A m \in T : \E y \in T : ~(m >= y)}
<1> SUFFICES ASSUME B # {} PROVE FALSE
  BY DEF B
<1>1. PICK T \in B : \A U \in B : U \subseteq T => U = T
  <2>1. B \in SUBSET SUBSET F
    OBVIOUS
  <2> HIDE DEF B
  <2> QED BY <2>1, SmallestSet
<1>2. T \subseteq F /\ T # {} /\ T \subseteq Nat /\ \A m \in T : \E y \in T : ~(m >= y)
  BY <1>1 DEF B
<1>3. PICK t \in T : TRUE
  BY <1>2
<1>4. T \ {t} \in SUBSET F /\ T \ {t} \subseteq T /\ T \ {t} # T
  BY <1>2, <1>3
<1>5. T \ {t} \notin B
  <2> HIDE DEF B
  <2> QED BY <1>1, <1>4
<1>6. CASE T \ {t} = {}
  <2>1. t \in Nat /\ \A y \in T : y = t
    BY <1>2, <1>3, <1>6
  <2> QED BY <1>2, <1>3, <2>1
<1>7. CASE T \ {t} # {}
  <2>1. PICK m \in T \ {t} : \A y \in T \ {t} : m >= y
    BY <1>2, <1>4, <1>5, <1>7 DEF B
  <2>2. m \in Nat /\ t \in Nat
    BY <1>2, <1>3, <2>1
  <2>3. CASE m >= t
    <3>1. \A y \in T : m >= y
      BY <2>1, <2>3
    <3> QED BY <1>2, <2>1, <3>1
  <2>4. CASE ~(m >= t)
    <3>1. \A y \in T : t >= y
      BY <1>2, <2>1, <2>2, <2>4
    <3> QED BY <1>2, <1>3, <3>1
  <2> QED BY <2>3, <2>4
<1> QED BY <1>6, <1>7

(* The smaller of two numbers, as the back-off and the counters use it.    *)
LEMMA MinOfTwo ==
  ASSUME NEW a \in Nat, NEW b \in Nat
  PROVE  Min({a, b}) = IF a <= b THEN a ELSE b
<1>1. \E x \in {a, b} : \A y \in {a, b} : x <= y
  OBVIOUS
<1>2. Min({a, b}) \in {a, b} /\ \A y \in {a, b} : Min({a, b}) <= y
  BY <1>1 DEF Min
<1> QED BY <1>2

(* The largest of a finite set of numbers, as the next client id uses it.  *)
LEMMA MaxOfSet ==
  ASSUME NEW S \in SUBSET Nat, IsFiniteSet(S), S # {}
  PROVE  Max(S) \in S /\ \A y \in S : Max(S) >= y
<1>1. \E m \in S : \A y \in S : m >= y
  BY GreatestElement
<1> QED BY <1>1 DEF Max

(* As many ids as clients, when no two clients share one.                  *)
LEMMA IdsDistinct ==
  ASSUME NEW S, IsFiniteSet(S), \A c, d \in S : c.id = d.id => c = d
  PROVE  Cardinality({c.id : c \in S}) = Cardinality(S)
<1> DEFINE T == {c.id : c \in S}
           f == [c \in S |-> c.id]
<1>1. f \in Bijection(S, T)
  BY DEF Bijection, Injection, IsInjective, Surjection
<1>2. ExistsBijection(S, T)
  BY <1>1 DEF ExistsBijection
<1> HIDE DEF T
<1>3. Cardinality(T) = Cardinality(S)
  BY <1>2, FS_Bijection
<1> QED BY <1>3 DEF T

(* The lifetimes and delays of a worker's client.                          *)
LEMMA Delays ==
  /\ ClampTtl(0) = DefaultTtl /\ DefaultTtl \in 1..MaxTtl
  /\ RefreshDelay(DefaultTtl) \in 1..MaxTtl
  /\ Max({MaxTtl, RetryDelay, MaxBackoff}) \in Nat
  /\ MaxTtl <= Max({MaxTtl, RetryDelay, MaxBackoff})
  /\ RetryDelay <= Max({MaxTtl, RetryDelay, MaxBackoff})
  /\ MaxBackoff <= Max({MaxTtl, RetryDelay, MaxBackoff})
<1>1. DefaultTtl \in Nat \ {0} /\ MaxTtl \in Nat \ {0} /\ DefaultTtl <= MaxTtl
  BY TokenAssumption
<1>2. RetryDelay \in Nat \ {0} /\ MaxBackoff \in Nat \ {0}
  BY BusIdentityAssumption
<1>3. ClampTtl(0) = DefaultTtl
  BY DEF ClampTtl
<1>4. (DefaultTtl * 2) \div 3 \in Nat /\ (DefaultTtl * 2) \div 3 <= DefaultTtl
  BY <1>1
<1>5. RefreshDelay(DefaultTtl) \in 1..MaxTtl
  BY <1>1, <1>4 DEF RefreshDelay
<1> DEFINE S == {MaxTtl, RetryDelay, MaxBackoff}
<1>6. S \in SUBSET Nat /\ S # {} /\ IsFiniteSet(S)
  <2>1. IsFiniteSet({MaxTtl} \cup {RetryDelay} \cup {MaxBackoff})
    BY FS_Singleton, FS_Union
  <2>2. {MaxTtl} \cup {RetryDelay} \cup {MaxBackoff} = S
    OBVIOUS
  <2> QED BY <1>1, <1>2, <2>1, <2>2
<1>7. MaxTtl \in S /\ RetryDelay \in S /\ MaxBackoff \in S
  OBVIOUS
<1>8. Max(S) \in S /\ \A y \in S : Max(S) >= y
  <2> HIDE DEF S
  <2> QED BY <1>6, MaxOfSet
<1>9. Max(S) \in Nat
  BY <1>6, <1>8
<1> QED BY <1>1, <1>2, <1>3, <1>5, <1>7, <1>8, <1>9

-----------------------------------------------------------------------------
(* What each part of the invariant reads: a step that leaves that alone    *)
(* keeps the part.                                                         *)

(* StaticClients is a function of the load.                                *)
LEMMA ClientsFrame ==
  ASSUME ClientsAreKnown, UNCHANGED <<load, clients, holds>>
  PROVE  ClientsAreKnown'
BY DEF ClientsAreKnown, StaticClients

LEMMA HoldsFrame ==
  ASSUME HoldsOwn, UNCHANGED <<load, holds>>
  PROVE  HoldsOwn'
BY DEF HoldsOwn

LEMMA TokensFrame ==
  ASSUME TokensAreOwn, UNCHANGED <<load, holds, token, session>>
  PROVE  TokensAreOwn'
BY DEF TokensAreOwn

LEMMA KeysFrame ==
  ASSUME KeysCover, UNCHANGED <<scope, token, keys, keyAge>>
  PROVE  KeysCover'
BY DEF KeysCover

LEMMA HolderFrame ==
  ASSUME OneHolder, UNCHANGED <<load, clients>>
  PROVE  OneHolder'
BY DEF OneHolder, StaticClients

LEMMA SessionsFrame ==
  ASSUME SessionsAreOwn, UNCHANGED <<load, token, session>>
  PROVE  SessionsAreOwn'
BY DEF SessionsAreOwn

LEMMA BoundedFrame ==
  ASSUME Bounded, UNCHANGED <<scope, failures, keyAge, timer, backoff, holds, plan>>
  PROVE  Bounded'
BY DEF Bounded

(* The service refuses whom it refused, as long as its view is the same.   *)
LEMMA RefusedFrame ==
  ASSUME UNCHANGED load, View(Service)' = View(Service), NEW w
  PROVE  Refused(w, View(Service))' <=> Refused(w, View(Service))
BY DEF Refused, Denied, FleetHalt, AgentSuspension, CapabilitySuspension,
       RiskClassSuspension, PrincipalDenied, Flag

LEMMA FlaggedFrame ==
  ASSUME FlaggedFade, UNCHANGED <<load, token, flagged>>, View(Service)' = View(Service)
  PROVE  FlaggedFade'
<1>1. \A w \in Workers : Refused(w, View(Service))' <=> Refused(w, View(Service))
  BY RefusedFrame
<1> QED BY <1>1 DEF FlaggedFade

(* A view that is not delivered to does not change.                        *)
LEMMA ViewFrame ==
  ASSUME UNCHANGED <<bucket, heard>>
  PROVE  View(Service)' = View(Service)
BY DEF View

(* What is loaded stays so, and the configuration is what was asserted.    *)
LEMMA LoadedFacts ==
  ASSUME Loaded
  PROVE  /\ \A w \in Workers :
              /\ load[w].id \in Nat /\ load[w].static \in BOOLEAN
              /\ load[w].static => load[w].id # 0
              /\ ~load[w].static => load[w].roles = {"agent"}
         /\ \A v, w \in Workers :
              load[v].static /\ load[w].static /\ load[v].id = load[w].id => v = w
         /\ scope.faults \in Nat /\ scope.ephemeral \in BOOLEAN
BY LoadAssumption DEF Loaded

(* A mint is for the worker's own client, which the service does not       *)
(* refuse.                                                                 *)
LEMMA MintsOwn ==
  ASSUME ClientsAreKnown, NEW w \in Workers, Mints(w)
  PROVE  /\ ClientOf(w) \in clients /\ ClientOf(w).id = holds[w] /\ holds[w] # 0
         /\ ClientOf(w).principal = load[w].principal /\ ClientOf(w).tenant = load[w].tenant
         /\ ClientOf(w).roles = load[w].roles
         /\ ~Refused(w, View(Service))
<1>1. \E c \in clients : c.id = holds[w]
  BY DEF Mints, Registered
<1>2. ClientOf(w) \in clients /\ ClientOf(w).id = holds[w]
  BY <1>1 DEF ClientOf
<1>3. /\ ClientOf(w).principal = load[w].principal /\ ClientOf(w).tenant = load[w].tenant
      /\ ClientOf(w).roles = load[w].roles /\ holds[w] # 0
  BY <1>2 DEF ClientsAreKnown
<1>4. ~Refused(w, View(Service))
  <2> DEFINE p == load[w].principal
             agents == {q \in {p} : IsAgent(q)}
  <2>1. ~Denied(View(Service), agents # {}, agents, {p}, NoCapability, FALSE)
    BY <1>3 DEF Mints, MayIssue
  <2>2. agents # {} <=> IsAgent(p)
    OBVIOUS
  <2>3. \A q \in {p} : IsAgent(q) => q \in agents
    OBVIOUS
  <2> HIDE DEF agents, p
  <2>4. ~Denied(View(Service), IsAgent(p), {p}, {p}, NoCapability, FALSE)
    BY <2>1, <2>2, <2>3 DEF Denied
  <2> QED BY <2>4 DEF Refused, p
<1> QED BY <1>2, <1>3, <1>4

(* The values of a function on a finite set are finitely many.             *)
LEMMA FiniteImage ==
  ASSUME NEW S, IsFiniteSet(S), NEW f
  PROVE  IsFiniteSet({f[x] : x \in S})
<1> DEFINE T == {f[x] : x \in S}
           g == [x \in S |-> f[x]]
<1>1. g \in Surjection(S, T)
  BY DEF Surjection
<1> HIDE DEF T, g
<1>2. IsFiniteSet(T)
  BY <1>1, FS_Surjection
<1> QED BY <1>2 DEF T

(* An id that is handed out is nobody's and was nobody's.                  *)
LEMMA NextIdFresh ==
  ASSUME Loaded, Shape, ClientsAreKnown, NEW w \in Workers
  PROVE  /\ NextId \in Nat \ {0}
         /\ \A c \in clients : c.id # NextId
         /\ \A v \in Workers : holds[v] # NextId /\ load[v].id # NextId
<1> DEFINE A == {c.id : c \in clients}
           B == {load[v].id : v \in Workers}
           C == {holds[v] : v \in Workers}
           S == A \cup B \cup C
<1>1. S \in SUBSET Nat
  BY LoadedFacts DEF Shape, ClientsAreKnown
<1>2. S # {}
  OBVIOUS
<1>3. IsFiniteSet(S)
  <2> DEFINE f == [c \in clients |-> c.id]
             g == [v \in Workers |-> load[v].id]
  <2>1. A = {f[c] : c \in clients} /\ B = {g[v] : v \in Workers}
    OBVIOUS
  <2>2. IsFiniteSet(clients) /\ IsFiniteSet(Workers)
    BY LoadAssumption DEF ClientsAreKnown
  <2> HIDE DEF f, g
  <2>3. IsFiniteSet({f[c] : c \in clients}) /\ IsFiniteSet({g[v] : v \in Workers})
    BY <2>2, FiniteImage
  <2>4. IsFiniteSet(C)
    BY <2>2, FiniteImage
  <2>5. IsFiniteSet(A) /\ IsFiniteSet(B)
    BY <2>1, <2>3
  <2> HIDE DEF A, B, C
  <2> QED BY <2>4, <2>5, FS_Union
<1>4. Max(S) \in S /\ \A y \in S : Max(S) >= y
  <2> HIDE DEF S
  <2> QED BY <1>1, <1>2, <1>3, MaxOfSet
<1>5. Max(S) \in Nat /\ \A y \in S : y \in Nat /\ y # Max(S) + 1
  <2>1. PICK m \in S : m = Max(S)
    BY <1>4
  <2>2. S \subseteq Nat
    BY <1>1
  <2> HIDE DEF S
  <2>3. m \in Nat /\ \A y \in S : y \in Nat /\ m >= y
    BY <1>4, <2>1, <2>2
  <2>4. \A y \in S : y # m + 1
    BY <2>3
  <2> QED BY <2>1, <2>3, <2>4
<1>6. NextId = Max(S) + 1
  BY DEF NextId
<1>7. /\ \A c \in clients : c.id \in S
      /\ \A v \in Workers : holds[v] \in S /\ load[v].id \in S
  OBVIOUS
<1> HIDE DEF S
<1>8. NextId \in Nat \ {0} /\ \A y \in S : y # NextId
  BY <1>5, <1>6
<1> QED BY <1>7, <1>8

-----------------------------------------------------------------------------
(* The steps.                                                              *)

(* A sequence of one element.                                              *)
LEMMA OneElement == \A S : \A x \in S : <<x>> \in Seq(S)
OBVIOUS

LEMMA InitKeeps ==
  ASSUME Init
  PROVE  IdentityInv
<1> USE DEF Init
<1>1. Loaded
  BY DEF Loaded
<1>2. Shape
  <2>1. bucket = <<{}>> /\ heard[Service] = 1 /\ DOMAIN heard = Watchers
    BY BusIdentityAssumption DEF KillSwitchInit
  <2>2. <<{}>> \in Seq(SUBSET scope.flags)
    BY OneElement
  <2>3. Len(bucket) = 1
    BY <2>1
  <2>4. heard[Service] \in 1..Len(bucket)
    BY <2>1, <2>3
  <2>5. bucket \in Seq(SUBSET scope.flags) /\ heard[Service] \in 1..Len(bucket)
    BY <2>1, <2>2, <2>4
  <2>6. MaxTtl \in Nat
    BY TokenAssumption
  <2>7. holds \in [Workers -> Nat] /\ flagged \in [Workers -> Nat]
    BY <1>1, LoadedFacts
  <2> QED BY <2>1, <2>6, <2>7, <2>5 DEF Shape
<1>3. ClientsAreKnown
  <2>1. IsFiniteSet(clients)
    <3> DEFINE D == {v \in Workers : load[v].static}
               f == [w \in D |-> [id |-> load[w].id, principal |-> load[w].principal,
                                  tenant |-> load[w].tenant, roles |-> load[w].roles, scopes |-> {}]]
    <3>1. IsFiniteSet(D)
      BY LoadAssumption, FS_Subset
    <3>2. clients = {f[w] : w \in D}
      BY DEF StaticClients
    <3> HIDE DEF D, f
    <3> QED BY <3>1, <3>2, FiniteImage
  <2>2. \A c \in clients : \E v \in Workers : load[v].static /\ c.id = load[v].id
          /\ c = [id |-> load[v].id, principal |-> load[v].principal, tenant |-> load[v].tenant,
                  roles |-> load[v].roles, scopes |-> {}]
    BY DEF StaticClients
  <2>3. \A c \in clients : c.id \in Nat \ {0} /\ c \in StaticClients
    BY <1>1, <2>2, LoadedFacts
  <2>4. \A c, d \in clients : c.id = d.id => c = d
    <3> TAKE c, d \in clients
    <3> HAVE c.id = d.id
    <3>1. PICK v \in Workers : load[v].static /\ c.id = load[v].id
          /\ c = [id |-> load[v].id, principal |-> load[v].principal, tenant |-> load[v].tenant,
                  roles |-> load[v].roles, scopes |-> {}]
      BY <2>2
    <3>2. PICK w \in Workers : load[w].static /\ d.id = load[w].id
          /\ d = [id |-> load[w].id, principal |-> load[w].principal, tenant |-> load[w].tenant,
                  roles |-> load[w].roles, scopes |-> {}]
      BY <2>2
    <3>3. v = w
      BY <1>1, <3>1, <3>2, LoadedFacts
    <3> QED BY <3>1, <3>2, <3>3
  <2>5. \A c \in clients, w \in Workers :
          c.id = holds[w] => /\ c.principal = load[w].principal /\ c.tenant = load[w].tenant
                             /\ c.roles = load[w].roles
    <3> TAKE c \in clients, w \in Workers
    <3> HAVE c.id = holds[w]
    <3>1. PICK v \in Workers : load[v].static /\ c.id = load[v].id
          /\ c = [id |-> load[v].id, principal |-> load[v].principal, tenant |-> load[v].tenant,
                  roles |-> load[v].roles, scopes |-> {}]
      BY <2>2
    <3>2. load[w].static /\ load[w].id = load[v].id
      BY <1>1, <2>3, <3>1, LoadedFacts
    <3>3. v = w
      BY <1>1, <3>1, <3>2, LoadedFacts
    <3> QED BY <3>1, <3>3
  <2> QED BY <2>1, <2>3, <2>4, <2>5 DEF ClientsAreKnown
<1>4. HoldsOwn
  BY DEF HoldsOwn
<1>5. TokensAreOwn /\ SessionsAreOwn /\ KeysCover
  BY DEF TokensAreOwn, SessionsAreOwn, KeysCover
<1>6. FlaggedFade
  BY TokenAssumption DEF FlaggedFade
<1>7. Bounded
  <2>1. MaxTtl \in Nat /\ MaxBackoff \in Nat \ {0}
    BY TokenAssumption, BusIdentityAssumption
  <2>2. \A w \in Workers : holds[w] # 0 \/ plan[w] = "none"
    BY <1>1, LoadedFacts
  <2>3. \A w \in Workers : timer[w] <= Max({MaxTtl, RetryDelay, MaxBackoff})
    BY Delays
  <2>4. failures <= scope.faults /\ keyAge <= MaxTtl
    BY <1>1, <2>1, LoadedFacts
  <2>5. \A w \in Workers : backoff[w] \in 1..MaxBackoff
    BY <2>1
  <2> QED BY <2>2, <2>3, <2>4, <2>5 DEF Bounded
<1>8. OneHolder
  BY DEF OneHolder
<1> QED BY <1>1, <1>2, <1>3, <1>4, <1>5, <1>6, <1>7, <1>8 DEF IdentityInv

(* A session that ends leaves the worker its token.                        *)
LEMMA DisconnectKeeps ==
  ASSUME IdentityInv, NEW w \in Workers, Disconnect(w)
  PROVE  IdentityInv'
<1> USE DEF IdentityInv
<1>1. UNCHANGED <<bucket, heard, now, load, scope, up, clients, keys, keyAge, holds, token, timer, plan, backoff, flagged>>
  BY DEF Disconnect, switchVars, serviceVars
<1>2. failures < scope.faults /\ failures' = failures + 1 /\ session' = [session EXCEPT ![w] = NoSession]
  BY DEF Disconnect, BusFault
<1>3. scope.faults \in Nat
  BY LoadedFacts
<1>4. Loaded' /\ Shape'
  BY <1>1, <1>2 DEF Loaded, Shape
<1>5. ClientsAreKnown' /\ HoldsOwn' /\ KeysCover' /\ OneHolder'
  BY <1>1, ClientsFrame, HoldsFrame, KeysFrame, HolderFrame
<1>6. \A v \in Workers : session'[v] # NoSession => session'[v] = session[v] /\ session[v] # NoSession
  BY <1>2 DEF Shape
<1>7. TokensAreOwn' /\ SessionsAreOwn'
  BY <1>1, <1>6 DEF TokensAreOwn, SessionsAreOwn
<1>8. FlaggedFade'
  BY <1>1, ViewFrame, FlaggedFrame
<1>9. Bounded'
  <2>1. failures' <= scope.faults
    BY <1>2, <1>3 DEF Shape
  <2> QED BY <1>1, <2>1 DEF Bounded
<1> QED BY <1>4, <1>5, <1>7, <1>8, <1>9

(* A worker that is admitted shows its own token, and gets what that has   *)
(* left to live.                                                           *)
LEMMA ConnectKeeps ==
  ASSUME IdentityInv, NEW w \in Workers, Connect(w)
  PROVE  IdentityInv'
<1> USE DEF IdentityInv
<1>1. UNCHANGED <<bucket, heard, now, load, scope, failures, up, clients, keys, keyAge, holds, token, timer, plan, backoff, flagged>>
  BY DEF Connect, switchVars, serviceVars
<1>2. session' = [session EXCEPT ![w] = BusSession(token[w])] /\ Admits(token[w], View(Service))
  BY DEF Connect
<1>3. Loaded' /\ Shape'
  BY <1>1, <1>2 DEF Loaded, Shape
<1>4. ClientsAreKnown' /\ HoldsOwn' /\ KeysCover' /\ OneHolder' /\ Bounded'
  BY <1>1, ClientsFrame, HoldsFrame, KeysFrame, HolderFrame, BoundedFrame
<1>5. FlaggedFade'
  BY <1>1, ViewFrame, FlaggedFrame
<1>6. /\ token[w] # NoToken /\ token[w].exp \in 1..DefaultTtl
      /\ "agent" \in load[w].roles /\ IsAgent(load[w].principal)
      /\ load[w].tenant \in DOMAIN Accounts
      /\ BusSession(token[w]).account = Accounts[load[w].tenant]
      /\ BusSession(token[w]).agent = AgentOf[load[w].principal]
      /\ BusSession(token[w]).exp = token[w].exp
  <2>1. token[w] # NoToken /\ now < token[w].exp /\ now = 0
    BY <1>2 DEF Admits, Valid, Shape
  <2>2. token[w].exp \in 0..DefaultTtl /\ DefaultTtl \in Nat
    BY <2>1, TokenAssumption DEF TokensAreOwn
  <2>3. /\ token[w].sub = load[w].principal /\ token[w].tenant = load[w].tenant
        /\ token[w].roles = load[w].roles
    BY <2>1 DEF TokensAreOwn
  <2>4. "agent" \in token[w].roles /\ IsAgent(token[w].sub) /\ token[w].tenant \in DOMAIN Accounts
    BY <1>2 DEF Admits
  <2>5. token[w].exp \in 1..DefaultTtl
    BY <2>1, <2>2
  <2> QED BY <2>1, <2>3, <2>4, <2>5 DEF BusSession
<1>7. load[w].static \/ load[w].team.tenant = load[w].tenant \/ "platform" \in load[w].team.roles
  BY <1>6, LoadedFacts DEF HoldsOwn, TokensAreOwn
<1>8. session'[w] = BusSession(token[w]) /\ \A v \in Workers : v # w => session'[v] = session[v]
  BY <1>2 DEF Shape
<1>9. TokensAreOwn'
  <2>1. DOMAIN BusSession(token[w]) = {"account", "agent", "exp"}
    BY DEF BusSession
  <2> QED BY <1>1, <1>6, <1>8, <2>1 DEF TokensAreOwn
<1>10. SessionsAreOwn'
  <2> SUFFICES ASSUME NEW v \in Workers, session'[v] # NoSession
               PROVE  /\ "agent" \in load[v].roles /\ IsAgent(load[v].principal)
                      /\ load[v].tenant \in DOMAIN Accounts
                      /\ session'[v].account = Accounts[load[v].tenant]
                      /\ session'[v].agent = AgentOf[load[v].principal]
                      /\ session'[v].exp <= token[v].exp
                      /\ load[v].static \/ load[v].team.tenant = load[v].tenant \/ "platform" \in load[v].team.roles
    BY <1>1 DEF SessionsAreOwn
  <2>1. CASE v = w
    BY <1>6, <1>7, <1>8, <2>1
  <2>2. CASE v # w
    BY <1>8, <2>2 DEF SessionsAreOwn
  <2> QED BY <2>1, <2>2
<1> QED BY <1>3, <1>4, <1>5, <1>9, <1>10

(* A minted token is the worker's own, which the service does not refuse.  *)
LEMMA RefreshKeeps ==
  ASSUME IdentityInv, NEW w \in Workers, Refresh(w)
  PROVE  IdentityInv'
<1> USE DEF IdentityInv
<1> DEFINE minted == Issue(ClientOf(w), Bus, {}, 0, keys[1])
<1>1. UNCHANGED <<bucket, heard, now, load, scope, failures, up, clients, keys, keyAge, holds, session, flagged>>
  BY DEF Refresh, switchVars, serviceVars
<1>2. /\ token' = [token EXCEPT ![w] = minted]
      /\ timer' = [timer EXCEPT ![w] = RefreshDelay(DefaultTtl)]
      /\ plan' = [plan EXCEPT ![w] = "refresh"]
      /\ backoff' = [backoff EXCEPT ![w] = 1]
      /\ Mints(w)
  BY DEF Refresh
<1>3. /\ ClientOf(w).principal = load[w].principal /\ ClientOf(w).tenant = load[w].tenant
      /\ ClientOf(w).roles = load[w].roles /\ holds[w] # 0 /\ ~Refused(w, View(Service))
  BY <1>2, MintsOwn
<1>4. /\ minted.sub = load[w].principal /\ minted.tenant = load[w].tenant
      /\ minted.roles = load[w].roles /\ minted.key = keys[1] /\ minted.exp = DefaultTtl
  BY <1>3, Delays DEF Issue, Sign, Shape
<1> HIDE DEF minted
<1>5. token'[w] = minted /\ \A v \in Workers : v # w => token'[v] = token[v]
  BY <1>2 DEF Shape
<1>6. DefaultTtl \in 1..MaxTtl /\ DefaultTtl \in Nat /\ MaxTtl \in Nat /\ MaxBackoff \in Nat \ {0}
  BY TokenAssumption, BusIdentityAssumption
<1>7. RefreshDelay(DefaultTtl) \in Nat /\ RefreshDelay(DefaultTtl) <= Max({MaxTtl, RetryDelay, MaxBackoff})
  <2>1. Max({MaxTtl, RetryDelay, MaxBackoff}) \in Nat
    BY Delays
  <2> QED BY <1>6, <2>1, Delays
<1>8. Loaded' /\ Shape'
  BY <1>1, <1>2, <1>7 DEF Loaded, Shape
<1>9. ClientsAreKnown' /\ HoldsOwn' /\ OneHolder'
  BY <1>1, ClientsFrame, HoldsFrame, HolderFrame
<1>10. TokensAreOwn'
  <2>1. minted.exp \in 0..DefaultTtl /\ minted # NoToken
    BY <1>4, <1>6 DEF NoToken
  <2>2. {"sub", "tenant", "roles", "key", "exp"} \subseteq DOMAIN minted
    BY DEF minted, Issue, Sign
  <2>3. \A v \in Workers : session[v] # NoSession => /\ session[v].exp \in 1..DefaultTtl
                                                     /\ DOMAIN session[v] = {"account", "agent", "exp"}
    BY DEF TokensAreOwn
  <2>4. \A v \in Workers : token'[v] # NoToken =>
          /\ holds[v] # 0 /\ token'[v].exp \in 0..DefaultTtl
          /\ {"sub", "tenant", "roles", "key", "exp"} \subseteq DOMAIN token'[v]
          /\ token'[v].sub = load[v].principal /\ token'[v].tenant = load[v].tenant
          /\ token'[v].roles = load[v].roles
    BY <1>3, <1>4, <1>5, <2>1, <2>2 DEF TokensAreOwn
  <2>5. \A v \in Workers : session[v] # NoSession => token'[v] # NoToken
    BY <1>5, <2>1 DEF TokensAreOwn
  <2> QED BY <1>1, <2>3, <2>4, <2>5 DEF TokensAreOwn
<1>11. FlaggedFade'
  <2>1. View(Service)' = View(Service)
    BY <1>1, ViewFrame
  <2>2. flagged[w] = 0
    BY <1>3 DEF FlaggedFade, Shape
  <2>3. \A v \in Workers : Refused(v, View(Service))' <=> Refused(v, View(Service))
    BY <1>1, <2>1, RefusedFrame
  <2>4. minted.exp + flagged[w] <= MaxTtl
    BY <1>4, <1>6, <2>2
  <2> QED BY <1>1, <1>5, <2>3, <2>4 DEF FlaggedFade
<1>12. KeysCover'
  BY <1>1, <1>4, <1>5 DEF KeysCover
<1>13. Bounded'
  <2>1. \A v \in Workers : v # w => timer'[v] = timer[v] /\ backoff'[v] = backoff[v] /\ plan'[v] = plan[v]
    BY <1>2 DEF Shape
  <2>2. timer'[w] = RefreshDelay(DefaultTtl) /\ backoff'[w] = 1
    BY <1>2 DEF Shape
  <2> QED BY <1>1, <1>3, <1>6, <1>7, <2>1, <2>2 DEF Bounded
<1>14. SessionsAreOwn'
  <2>1. session[w] # NoSession => session[w].exp <= minted.exp
    BY <1>4, <1>6 DEF TokensAreOwn
  <2> QED BY <1>1, <1>5, <2>1 DEF SessionsAreOwn
<1> QED BY <1>8, <1>9, <1>10, <1>11, <1>12, <1>13, <1>14

(* A mint that fails moves the worker's timer and its plan.                *)
LEMMA RefreshFailsKeeps ==
  ASSUME IdentityInv, NEW w \in Workers, RefreshFails(w)
  PROVE  IdentityInv'
<1> USE DEF IdentityInv
<1>1. UNCHANGED <<bucket, heard, now, load, scope, up, clients, keys, keyAge, holds, token, session, flagged>>
  BY DEF RefreshFails, switchVars, serviceVars
<1>2. failures' = failures \/ (failures < scope.faults /\ failures' = failures + 1)
  BY DEF RefreshFails, BusFault
<1>3. /\ scope.faults \in Nat /\ failures \in Nat /\ MaxBackoff \in Nat \ {0} /\ RetryDelay \in Nat
      /\ plan[w] # "none"
  BY LoadedFacts, BusIdentityAssumption DEF Shape, RefreshFails, Due
<1>4. failures' \in Nat /\ failures' <= scope.faults
  BY <1>2, <1>3 DEF Bounded
<1>5. backoff[w] \in 1..MaxBackoff /\ backoff[w] \in Nat /\ 2 * backoff[w] \in Nat
  BY DEF Bounded, Shape
<1>6. Min({2 * backoff[w], MaxBackoff}) \in 1..MaxBackoff
  BY <1>3, <1>5, MinOfTwo
<1> DEFINE top == Max({MaxTtl, RetryDelay, MaxBackoff})
<1>7. top \in Nat /\ RetryDelay <= top /\ MaxBackoff <= top
  BY Delays
<1> HIDE DEF top
<1>8. /\ timer' = [timer EXCEPT ![w] = backoff[w]] \/ timer' = [timer EXCEPT ![w] = RetryDelay] \/ timer' = timer
      /\ backoff' = backoff \/ backoff' = [backoff EXCEPT ![w] = Min({2 * backoff[w], MaxBackoff})]
      /\ plan' = plan \/ plan' = [plan EXCEPT ![w] = "retry"] \/ plan' = [plan EXCEPT ![w] = "none"]
  <2>1. AfterFailure(w)
    BY DEF RefreshFails
  <2>2. CASE plan[w] = "boot"
    BY <2>1, <2>2 DEF AfterFailure
  <2>3. CASE plan[w] = "refresh"
    BY <2>1, <2>3 DEF AfterFailure
  <2>4. CASE plan[w] = "retry"
    BY <2>1, <2>4 DEF AfterFailure
  <2>5. plan[w] \in {"boot", "refresh", "retry"}
    BY <1>3 DEF Shape
  <2> QED BY <2>2, <2>3, <2>4, <2>5
<1>9. Loaded'
  BY <1>1 DEF Loaded
<1>10. timer' \in [Workers -> Nat] /\ \A v \in Workers : timer'[v] <= top
  <2>1. timer \in [Workers -> Nat] /\ \A v \in Workers : timer[v] <= top
    BY DEF Shape, Bounded, top
  <2>2. backoff[w] \in Nat /\ backoff[w] <= top /\ RetryDelay \in Nat /\ RetryDelay <= top
    BY <1>3, <1>5, <1>7
  <2> QED BY <1>8, <2>1, <2>2
<1>11. backoff' \in [Workers -> Nat] /\ \A v \in Workers : backoff'[v] \in 1..MaxBackoff
  <2>1. backoff \in [Workers -> Nat] /\ \A v \in Workers : backoff[v] \in 1..MaxBackoff
    BY DEF Shape, Bounded
  <2> QED BY <1>3, <1>6, <1>8, <2>1
<1>12. /\ plan' \in [Workers -> {"none", "boot", "refresh", "retry"}]
       /\ \A v \in Workers : holds[v] # 0 \/ plan'[v] = "none"
  <2>1. holds[w] # 0 /\ plan \in [Workers -> {"none", "boot", "refresh", "retry"}]
    BY <1>3 DEF Bounded, Shape
  <2>2. \A v \in Workers : v # w => plan'[v] = plan[v]
    BY <1>8, <2>1
  <2>3. \A v \in Workers : holds[v] # 0 \/ plan[v] = "none"
    BY DEF Bounded
  <2> QED BY <1>8, <2>1, <2>2, <2>3
<1>13. Shape'
  BY <1>1, <1>4, <1>10, <1>11, <1>12 DEF Shape
<1>14. Bounded'
  BY <1>1, <1>4, <1>10, <1>11, <1>12 DEF Bounded, top
<1>15. ClientsAreKnown' /\ HoldsOwn' /\ TokensAreOwn' /\ KeysCover' /\ OneHolder' /\ SessionsAreOwn'
  BY <1>1, ClientsFrame, HoldsFrame, TokensFrame, KeysFrame, HolderFrame,
         SessionsFrame
<1>16. FlaggedFade'
  BY <1>1, ViewFrame, FlaggedFrame
<1> QED BY <1>9, <1>13, <1>14, <1>15, <1>16

LEMMA StopKeeps ==
  ASSUME IdentityInv, Stop
  PROVE  IdentityInv'
<1> USE DEF IdentityInv
<1>1. UNCHANGED <<bucket, heard, now, load, scope, clients, keys, keyAge, holds, token, timer, plan, backoff, session, flagged>>
  BY DEF Stop, switchVars, workerVars
<1>2. up' = FALSE /\ failures < scope.faults /\ failures' = failures + 1
  BY DEF Stop, BusFault
<1>3. scope.faults \in Nat
  BY LoadedFacts
<1>4. Loaded' /\ Shape'
  <2>1. failures' \in Nat
    BY <1>2 DEF Shape
  <2> QED BY <1>1, <1>2, <2>1 DEF Loaded, Shape
<1>5. Bounded'
  <2>1. failures' <= scope.faults
    BY <1>2, <1>3 DEF Shape
  <2> QED BY <1>1, <2>1 DEF Bounded
<1>6. ClientsAreKnown' /\ HoldsOwn' /\ TokensAreOwn' /\ KeysCover' /\ OneHolder' /\ SessionsAreOwn'
  BY <1>1, ClientsFrame, HoldsFrame, TokensFrame, KeysFrame, HolderFrame,
         SessionsFrame
<1>7. FlaggedFade'
  BY <1>1, ViewFrame, FlaggedFrame
<1> QED BY <1>4, <1>5, <1>6, <1>7

(* The service does not see a flag before the watch delivers it.           *)
LEMMA PutKeeps ==
  ASSUME IdentityInv, Put
  PROVE  IdentityInv'
<1> USE DEF IdentityInv
<1>1. UNCHANGED <<heard, now, load, scope, failures, up, clients, keys, keyAge, holds, token, timer, plan, backoff, session, flagged>>
  <2>1. UNCHANGED heard
    BY DEF Put, Flip, PutFlag
  <2> QED BY <2>1 DEF Put, workerVars, serviceVars
<1>2. PICK flag \in scope.flags, active \in BOOLEAN :
        bucket' = Append(bucket, IF active THEN Active \cup {flag} ELSE Active \ {flag})
  BY DEF Put, Flip, PutFlag
<1> DEFINE S == SUBSET scope.flags
           e == IF active THEN Active \cup {flag} ELSE Active \ {flag}
<1>3. bucket \in Seq(S) /\ heard[Service] \in 1..Len(bucket)
  BY DEF Shape
<1>4. e \in S
  <2>1. Len(bucket) \in 1..Len(bucket)
    BY <1>3
  <2>2. Active \in S
    BY <1>3, <2>1 DEF Active
  <2> QED BY <2>2
<1> HIDE DEF S, e
<1>5. /\ bucket' \in Seq(S) /\ Len(bucket') = Len(bucket) + 1
      /\ bucket'[heard[Service]] = bucket[heard[Service]]
  BY <1>2, <1>3, <1>4 DEF e
<1>6. heard[Service] \in 1..Len(bucket')
  BY <1>3, <1>5
<1>7. Loaded' /\ Shape'
  BY <1>1, <1>5, <1>6 DEF Loaded, Shape, S
<1>8. /\ ClientsAreKnown' /\ HoldsOwn' /\ TokensAreOwn' /\ KeysCover' /\ OneHolder'
      /\ SessionsAreOwn' /\ Bounded'
  BY <1>1, ClientsFrame, HoldsFrame, TokensFrame, KeysFrame, HolderFrame,
         SessionsFrame, BoundedFrame
<1>9. FlaggedFade'
  <2>1. View(Service)' = View(Service)
    BY <1>1, <1>5 DEF View
  <2> QED BY <1>1, <2>1, FlaggedFrame
<1> QED BY <1>7, <1>8, <1>9

(* What the service hears may end the refusal, and with it the count.      *)
LEMMA HearKeeps ==
  ASSUME IdentityInv, Hear
  PROVE  IdentityInv'
<1> USE DEF IdentityInv
<1>1. UNCHANGED <<bucket, now, load, scope, failures, up, clients, keys, keyAge, holds, token, timer, plan, backoff, session>>
  <2>1. UNCHANGED bucket
    BY DEF Hear, Deliver
  <2> QED BY <2>1 DEF Hear, workerVars, serviceVars
<1>2. /\ heard[Service] < Len(bucket)
      /\ heard' = [heard EXCEPT ![Service] = @ + 1]
      /\ flagged' = [w \in Workers |-> IF Refused(w, View(Service)') THEN flagged[w] ELSE 0]
  BY DEF Hear, Deliver
<1>3. DOMAIN heard' = Watchers /\ heard'[Service] \in 1..Len(bucket)
  <2>1. heard[Service] \in 1..Len(bucket) /\ Service \in DOMAIN heard /\ Len(bucket) \in Nat
    BY BusIdentityAssumption DEF Shape
  <2>2. heard'[Service] = heard[Service] + 1 /\ DOMAIN heard' = DOMAIN heard
    BY <1>2, <2>1
  <2> QED BY <1>2, <2>1, <2>2 DEF Shape
<1>4. flagged' \in [Workers -> Nat]
  BY <1>2 DEF Shape
<1>5. Loaded' /\ Shape'
  BY <1>1, <1>3, <1>4 DEF Loaded, Shape
<1>6. /\ ClientsAreKnown' /\ HoldsOwn' /\ TokensAreOwn' /\ KeysCover' /\ OneHolder'
      /\ SessionsAreOwn' /\ Bounded'
  BY <1>1, ClientsFrame, HoldsFrame, TokensFrame, KeysFrame, HolderFrame,
         SessionsFrame, BoundedFrame
<1>7. FlaggedFade'
  <2>1. \A w \in Workers : Refused(w, View(Service)') <=> Refused(w, View(Service))'
    BY <1>1 DEF Refused, Denied, FleetHalt, AgentSuspension, CapabilitySuspension,
           RiskClassSuspension, PrincipalDenied, Flag
  <2>2. \A w \in Workers : /\ flagged'[w] > 0 => Refused(w, View(Service)')
                           /\ flagged'[w] = flagged[w] \/ flagged'[w] = 0
    BY <1>2
  <2>3. \A w \in Workers : token[w] # NoToken => token[w].exp \in 0..DefaultTtl /\ token[w].exp <= MaxTtl
    BY TokenAssumption DEF TokensAreOwn
  <2>4. MaxTtl \in Nat /\ DefaultTtl \in Nat
    BY TokenAssumption
  <2>5. \A w \in Workers : token[w] # NoToken => token[w].exp + flagged'[w] <= MaxTtl
    <3> TAKE w \in Workers
    <3>1. CASE flagged'[w] = flagged[w]
      BY <3>1 DEF FlaggedFade
    <3>2. CASE flagged'[w] = 0
      BY <2>3, <2>4, <3>2
    <3> QED BY <2>2, <3>1, <3>2
  <2>6. \A w \in Workers : flagged'[w] <= MaxTtl
    BY <2>2, <2>4 DEF FlaggedFade
  <2> QED BY <1>1, <2>1, <2>2, <2>5, <2>6 DEF FlaggedFade
<1> QED BY <1>5, <1>6, <1>7

(* A service that starts has its configured clients, and the key it had,   *)
(* or one that came after it no sooner than a token's life.                *)
LEMMA StartKeeps ==
  ASSUME IdentityInv, Start
  PROVE  IdentityInv'
<1> USE DEF IdentityInv
<1>1. UNCHANGED <<bucket, now, load, scope, failures, holds, token, timer, plan, backoff, session>>
  <2>1. UNCHANGED bucket
    BY DEF Start, Forget
  <2> QED BY <2>1 DEF Start, workerVars
<1>2. /\ up' = TRUE /\ clients' = StaticClients /\ flagged' = [w \in Workers |-> 0]
      /\ heard' = [heard EXCEPT ![Service] = 1]
  BY DEF Start, Forget
<1>3. MaxTtl \in Nat /\ DefaultTtl \in Nat /\ DefaultTtl <= MaxTtl
  BY TokenAssumption
<1>4. \/ scope.ephemeral /\ keys' = <<keys[1] + 1>> /\ keyAge' = 0
      \/ ~scope.ephemeral /\ UNCHANGED <<keys, keyAge>>
      \/ ~scope.ephemeral /\ keyAge >= MaxTtl /\ keys' = <<keys[1] + 1, keys[1]>> /\ keyAge' = 0
  BY DEF Start, LoadKeys
<1>5. Loaded'
  BY <1>1 DEF Loaded
<1>6. Shape'
  <2>1. DOMAIN keys' \in {{1}, {1, 2}} /\ keyAge' \in Nat /\ keyAge' <= MaxTtl
    BY <1>3, <1>4 DEF Shape, Bounded
  <2>2. DOMAIN heard' = Watchers /\ heard'[Service] \in 1..Len(bucket)
    <3>1. heard'[Service] = 1 /\ DOMAIN heard' = Watchers
      BY <1>2, BusIdentityAssumption DEF Shape
    <3>2. heard[Service] \in 1..Len(bucket) /\ Len(bucket) \in Nat
      BY DEF Shape
    <3> QED BY <3>1, <3>2
  <2>3. flagged' \in [Workers -> Nat]
    BY <1>2
  <2> QED BY <1>1, <1>2, <2>1, <2>2, <2>3 DEF Shape
<1>7. ClientsAreKnown'
  <2> DEFINE D == {v \in Workers : load[v].static}
             f == [w \in D |-> [id |-> load[w].id, principal |-> load[w].principal,
                                tenant |-> load[w].tenant, roles |-> load[w].roles, scopes |-> {}]]
  <2>1. IsFiniteSet(clients')
    <3>1. IsFiniteSet(D)
      BY LoadAssumption, FS_Subset
    <3>2. clients' = {f[w] : w \in D}
      BY <1>2 DEF StaticClients
    <3> HIDE DEF D, f
    <3> QED BY <3>1, <3>2, FiniteImage
  <2>2. \A c \in clients' : \E v \in Workers : load[v].static /\ c.id = load[v].id
          /\ c = [id |-> load[v].id, principal |-> load[v].principal, tenant |-> load[v].tenant,
                  roles |-> load[v].roles, scopes |-> {}]
    BY <1>2 DEF StaticClients
  <2> HIDE DEF D, f
  <2>3. \A c \in clients' : c.id \in Nat \ {0} /\ c \in StaticClients'
    BY <1>1, <1>2, <2>2, LoadedFacts DEF StaticClients
  <2>4. \A c, d \in clients' : c.id = d.id => c = d
    <3> TAKE c, d \in clients'
    <3> HAVE c.id = d.id
    <3>1. PICK v \in Workers : load[v].static /\ c.id = load[v].id
          /\ c = [id |-> load[v].id, principal |-> load[v].principal, tenant |-> load[v].tenant,
                  roles |-> load[v].roles, scopes |-> {}]
      BY <2>2
    <3>2. PICK w \in Workers : load[w].static /\ d.id = load[w].id
          /\ d = [id |-> load[w].id, principal |-> load[w].principal, tenant |-> load[w].tenant,
                  roles |-> load[w].roles, scopes |-> {}]
      BY <2>2
    <3>3. v = w
      BY <3>1, <3>2, LoadedFacts
    <3> QED BY <3>1, <3>2, <3>3
  <2>5. \A c \in clients', w \in Workers :
          c.id = holds[w] => /\ c.principal = load[w].principal /\ c.tenant = load[w].tenant
                             /\ c.roles = load[w].roles
    <3> TAKE c \in clients', w \in Workers
    <3> HAVE c.id = holds[w]
    <3>1. PICK v \in Workers : load[v].static /\ c.id = load[v].id
          /\ c = [id |-> load[v].id, principal |-> load[v].principal, tenant |-> load[v].tenant,
                  roles |-> load[v].roles, scopes |-> {}]
      BY <2>2
    <3>2. load[w].static /\ load[w].id = load[v].id
      BY <2>3, <3>1, LoadedFacts DEF HoldsOwn
    <3>3. v = w
      BY <3>1, <3>2, LoadedFacts
    <3> QED BY <3>1, <3>3
  <2> QED BY <1>1, <2>1, <2>3, <2>4, <2>5 DEF ClientsAreKnown
<1>8. HoldsOwn' /\ TokensAreOwn' /\ SessionsAreOwn'
  BY <1>1, HoldsFrame, TokensFrame, SessionsFrame
<1>9. FlaggedFade'
  <2>1. \A w \in Workers : token[w] # NoToken => token[w].exp \in 0..DefaultTtl
    BY DEF TokensAreOwn
  <2>2. \A w \in Workers : flagged'[w] = 0
    BY <1>2
  <2>3. \A w \in Workers : token[w] # NoToken => token[w].exp + flagged'[w] <= MaxTtl
    BY <1>3, <2>1, <2>2
  <2> QED BY <1>1, <1>3, <2>2, <2>3 DEF FlaggedFade
<1>10. KeysCover'
  <2>1. CASE scope.ephemeral
    BY <1>1, <2>1 DEF KeysCover
  <2>2. CASE UNCHANGED <<keys, keyAge>>
    BY <1>1, <2>2, KeysFrame
  <2>3. CASE ~scope.ephemeral /\ keyAge >= MaxTtl /\ keys' = <<keys[1] + 1, keys[1]>> /\ keyAge' = 0
    <3>1. \A w \in Workers : token[w] # NoToken => token[w].exp \in Nat /\ token[w].exp + 0 <= MaxTtl
      BY <1>3 DEF TokensAreOwn
    <3>2. \A w \in Workers : token[w] # NoToken /\ token[w].exp > 0 => token[w].key = keys[1]
      <4> TAKE w \in Workers
      <4> HAVE token[w] # NoToken /\ token[w].exp > 0
      <4>1. keyAge \in Nat /\ keyAge >= MaxTtl /\ token[w].exp \in Nat /\ token[w].exp > 0
        BY <2>3, <3>1 DEF Shape
      <4>2. ~(token[w].exp + keyAge <= MaxTtl)
        BY <1>3, <4>1
      <4> QED BY <2>3, <4>2 DEF KeysCover
    <3>3. keys'[2] = keys[1] /\ 2 \in DOMAIN keys' /\ keyAge' = 0
      BY <2>3
    <3> QED BY <1>1, <3>1, <3>2, <3>3 DEF KeysCover
  <2> QED BY <1>4, <2>1, <2>2, <2>3
<1>11. Bounded'
  <2>1. keyAge' <= MaxTtl
    BY <1>3, <1>4 DEF Bounded
  <2> QED BY <1>1, <2>1 DEF Bounded
<1>12. OneHolder'
  BY <1>1, <1>2 DEF OneHolder, StaticClients
<1> QED BY <1>5, <1>6, <1>7, <1>8, <1>9, <1>10, <1>11, <1>12

(* A team that provisions its worker gets an identity nobody has.          *)
LEMMA ProvisionKeeps ==
  ASSUME IdentityInv, NEW w \in Workers, Provision(w)
  PROVE  IdentityInv'
<1> USE DEF IdentityInv
<1> DEFINE new == Provisioned(NextId, load[w].principal, load[w].tenant)
<1>1. UNCHANGED <<bucket, heard, now, load, scope, up, keys, keyAge, flagged>>
  BY DEF Provision, switchVars
<1>2. /\ ~load[w].static /\ MayProvision(clients, load[w].team, load[w].principal, load[w].tenant)
      /\ clients' = clients \cup {new}
  BY DEF Provision
<1>3. \/ /\ holds' = [holds EXCEPT ![w] = NextId] /\ plan' = [plan EXCEPT ![w] = "boot"]
         /\ timer' = [timer EXCEPT ![w] = 0] /\ backoff' = [backoff EXCEPT ![w] = 1]
         /\ token' = [token EXCEPT ![w] = NoToken] /\ session' = [session EXCEPT ![w] = NoSession]
         /\ UNCHANGED failures
      \/ /\ failures < scope.faults /\ failures' = failures + 1
         /\ UNCHANGED <<holds, plan, timer, backoff, token, session>>
  BY DEF Provision, BusFault
<1>4. /\ NextId \in Nat \ {0} /\ \A c \in clients : c.id # NextId
      /\ \A v \in Workers : holds[v] # NextId /\ load[v].id # NextId
  BY NextIdFresh
<1>5. /\ new.id = NextId /\ new.principal = load[w].principal /\ new.tenant = load[w].tenant
      /\ new.roles = {"agent"} /\ IsAgent(new.principal)
  BY <1>2 DEF Provisioned, MayProvision
<1>6. load[w].roles = {"agent"}
  BY <1>2, LoadedFacts
<1> DEFINE n == NextId
<1> HIDE DEF new, n
<1>7. \A v \in Workers : v # w => /\ holds'[v] = holds[v] /\ token'[v] = token[v]
                                  /\ session'[v] = session[v] /\ plan'[v] = plan[v]
                                  /\ timer'[v] = timer[v] /\ backoff'[v] = backoff[v]
  BY <1>3 DEF Shape
<1>8. \/ /\ holds'[w] = NextId /\ token'[w] = NoToken /\ session'[w] = NoSession
         /\ timer'[w] = 0 /\ backoff'[w] = 1
      \/ /\ holds'[w] = holds[w] /\ token'[w] = token[w] /\ session'[w] = session[w]
         /\ plan'[w] = plan[w] /\ timer'[w] = timer[w] /\ backoff'[w] = backoff[w]
  BY <1>3 DEF Shape
<1>9. scope.faults \in Nat /\ failures \in Nat /\ failures <= scope.faults
  BY LoadedFacts DEF Shape, Bounded
<1>10. failures' \in Nat /\ failures' <= scope.faults
  BY <1>3, <1>9
<1>11. MaxBackoff \in Nat \ {0} /\ Max({MaxTtl, RetryDelay, MaxBackoff}) \in Nat
  BY Delays, BusIdentityAssumption
<1>12. Loaded'
  BY <1>1 DEF Loaded
<1>13. Shape'
  <2>1. /\ DOMAIN token' = Workers /\ DOMAIN session' = Workers
        /\ plan' \in [Workers -> {"none", "boot", "refresh", "retry"}]
        /\ holds' \in [Workers -> Nat] /\ timer' \in [Workers -> Nat] /\ backoff' \in [Workers -> Nat]
    <3> USE DEF Shape
    <3>1. DOMAIN token' = Workers /\ DOMAIN session' = Workers
      BY <1>3
    <3>2. plan' \in [Workers -> {"none", "boot", "refresh", "retry"}]
      BY <1>3
    <3>3. holds' \in [Workers -> Nat]
      BY <1>3, <1>4
    <3>4. timer' \in [Workers -> Nat] /\ backoff' \in [Workers -> Nat]
      BY <1>3
    <3> QED BY <3>1, <3>2, <3>3, <3>4
  <2> QED BY <1>1, <1>10, <2>1 DEF Shape
<1>14. ClientsAreKnown'
  <2>1. IsFiniteSet(clients')
    BY <1>2, FS_AddElement DEF ClientsAreKnown
  <2>2. \A c \in clients' : c.id \in Nat \ {0} /\ (c \in StaticClients' \/ IsAgent(c.principal))
    <3>1. StaticClients' = StaticClients
      BY <1>1 DEF StaticClients
    <3> QED BY <1>2, <1>4, <1>5, <3>1 DEF ClientsAreKnown
  <2>3. \A c, d \in clients' : c.id = d.id => c = d
    BY <1>2, <1>4, <1>5 DEF ClientsAreKnown
  <2>4. \A c \in clients', v \in Workers :
          c.id = holds'[v] => /\ c.principal = load[v].principal /\ c.tenant = load[v].tenant
                              /\ c.roles = load[v].roles
    <3> TAKE c \in clients', v \in Workers
    <3> HAVE c.id = holds'[v]
    <3>1. CASE c \in clients
      BY <1>4, <1>7, <1>8, <3>1 DEF ClientsAreKnown
    <3>2. CASE c = new
      <4>1. v = w
        BY <1>4, <1>5, <1>7, <3>2
      <4> QED BY <1>5, <1>6, <3>2, <4>1
    <3> QED BY <1>2, <3>1, <3>2
  <2> QED BY <1>1, <2>1, <2>2, <2>3, <2>4 DEF ClientsAreKnown
<1>15. HoldsOwn'
  <2>1. load[w].team.tenant = load[w].tenant \/ "platform" \in load[w].team.roles
    BY <1>2 DEF MayProvision
  <2> QED BY <1>1, <1>2, <1>4, <1>7, <1>8, <2>1 DEF HoldsOwn
<1>16. TokensAreOwn'
  <2> SUFFICES ASSUME NEW v \in Workers
               PROVE  (token[v] # NoToken => holds[v] # 0) /\ (token'[v] # NoToken => holds'[v] # 0 /\ token'[v] = token[v])
                      /\ (session'[v] # NoSession => session'[v] = session[v] /\ token'[v] = token[v])
    BY <1>1 DEF TokensAreOwn
  <2>1. token[v] # NoToken => holds[v] # 0
    BY DEF TokensAreOwn
  <2> QED BY <1>7, <1>8, <2>1
<1>17. FlaggedFade'
  <2>1. \A v \in Workers : Refused(v, View(Service))' <=> Refused(v, View(Service))
    BY <1>1, ViewFrame, RefusedFrame
  <2>2. \A v \in Workers : token'[v] # NoToken => token'[v] = token[v]
    BY <1>7, <1>8
  <2> QED BY <1>1, <2>1, <2>2 DEF FlaggedFade
<1>18. KeysCover'
  <2>1. \A v \in Workers : token'[v] # NoToken => token'[v] = token[v]
    BY <1>7, <1>8
  <2> QED BY <1>1, <2>1 DEF KeysCover
<1>19. Bounded'
  <2>1. ASSUME NEW v \in Workers PROVE timer'[v] <= Max({MaxTtl, RetryDelay, MaxBackoff})
    <3>1. timer[v] <= Max({MaxTtl, RetryDelay, MaxBackoff})
      BY DEF Bounded
    <3>2. timer'[v] = timer[v] \/ timer'[v] = 0
      BY <1>7, <1>8
    <3> QED BY <1>11, <3>1, <3>2
  <2>2. \A v \in Workers : backoff'[v] \in 1..MaxBackoff
    BY <1>7, <1>8, <1>11 DEF Bounded
  <2>3. \A v \in Workers : holds'[v] # 0 \/ plan'[v] = "none"
    BY <1>4, <1>7, <1>8 DEF Bounded
  <2> QED BY <1>1, <1>10, <2>1, <2>2, <2>3 DEF Bounded
<1>20. OneHolder'
  <2>1. StaticClients' = StaticClients
    BY <1>1 DEF StaticClients
  <2>2. \A c \in clients : c.tenant = new.tenant => AgentOf[c.principal] # AgentOf[new.principal]
    <3> SUFFICES ASSUME NEW c \in clients, c.tenant = new.tenant,
                        AgentOf[c.principal] = AgentOf[new.principal]
                 PROVE  FALSE
      OBVIOUS
    <3>1. IsAgent(c.principal)
      BY <1>5 DEF IsAgent
    <3> QED BY <1>2, <1>5, <3>1 DEF MayProvision, AgentIdentityTaken
  <2> QED BY <1>2, <2>1, <2>2 DEF OneHolder
<1>21. SessionsAreOwn'
  <2>1. \A v \in Workers : session'[v] # NoSession => session'[v] = session[v] /\ token'[v] = token[v]
    BY <1>7, <1>8
  <2> QED BY <1>1, <2>1 DEF SessionsAreOwn
<1> QED BY <1>12, <1>13, <1>14, <1>15, <1>16, <1>17, <1>18, <1>19, <1>20, <1>21

(* A tick ages every token and session alike, and counts a refusal.        *)
LEMMA TickKeeps ==
  ASSUME IdentityInv, Tick
  PROVE  IdentityInv'
<1> USE DEF IdentityInv
<1>1. UNCHANGED <<bucket, heard, now, load, scope, failures, up, clients, keys, holds, plan, backoff>>
  BY DEF Tick, switchVars
<1>2. /\ token' = [w \in Workers |-> IF token[w] = NoToken THEN NoToken ELSE Aged(token[w])]
      /\ timer' = [w \in Workers |-> IF timer[w] > 0 THEN timer[w] - 1 ELSE 0]
      /\ session' = [w \in Workers |-> IF session[w] = NoSession \/ session[w].exp <= 1 THEN NoSession
                                       ELSE Aged(session[w])]
      /\ keyAge' = Min({keyAge + 1, MaxTtl})
      /\ flagged' = [w \in Workers |-> IF Refused(w, View(Service)) THEN Min({flagged[w] + 1, MaxTtl}) ELSE 0]
  BY DEF Tick
<1>3. MaxTtl \in Nat /\ DefaultTtl \in Nat /\ DefaultTtl <= MaxTtl
  BY TokenAssumption
<1>4. keyAge' \in Nat /\ keyAge' <= MaxTtl /\ keyAge' <= keyAge + 1
  <2>1. keyAge \in Nat /\ keyAge + 1 \in Nat
    BY DEF Shape
  <2>2. Min({keyAge + 1, MaxTtl}) = IF keyAge + 1 <= MaxTtl THEN keyAge + 1 ELSE MaxTtl
    BY <1>3, <2>1, MinOfTwo
  <2> QED BY <1>2, <1>3, <2>1, <2>2
<1>5. \A w \in Workers : /\ flagged'[w] \in Nat /\ flagged'[w] <= MaxTtl
                         /\ flagged'[w] <= flagged[w] + 1
                         /\ flagged'[w] > 0 => Refused(w, View(Service))
  <2> TAKE w \in Workers
  <2>1. flagged[w] \in Nat
    BY DEF Shape
  <2>2. Min({flagged[w] + 1, MaxTtl}) = IF flagged[w] + 1 <= MaxTtl THEN flagged[w] + 1 ELSE MaxTtl
    BY <1>3, <2>1, MinOfTwo
  <2>3. flagged'[w] = IF Refused(w, View(Service)) THEN Min({flagged[w] + 1, MaxTtl}) ELSE 0
    BY <1>2
  <2>4. CASE Refused(w, View(Service))
    BY <1>3, <2>1, <2>2, <2>3, <2>4
  <2>5. CASE ~Refused(w, View(Service))
    BY <1>3, <2>1, <2>3, <2>5
  <2> QED BY <2>4, <2>5
<1>6. \A w \in Workers : token'[w] # NoToken =>
        /\ token[w] # NoToken /\ token'[w] = Aged(token[w])
        /\ token'[w].exp = IF token[w].exp > 0 THEN token[w].exp - 1 ELSE 0
        /\ token'[w].sub = token[w].sub /\ token'[w].tenant = token[w].tenant
        /\ token'[w].roles = token[w].roles /\ token'[w].key = token[w].key
        /\ DOMAIN token'[w] = DOMAIN token[w] /\ token[w].exp \in 0..DefaultTtl
        /\ token'[w].exp \in 0..DefaultTtl
  <2> TAKE w \in Workers
  <2> HAVE token'[w] # NoToken
  <2>1. token[w] # NoToken /\ token'[w] = Aged(token[w])
    BY <1>2
  <2>2. {"sub", "tenant", "roles", "key", "exp"} \subseteq DOMAIN token[w] /\ token[w].exp \in 0..DefaultTtl
    BY <2>1 DEF TokensAreOwn
  <2>3. /\ Aged(token[w]).exp = IF token[w].exp > 0 THEN token[w].exp - 1 ELSE 0
        /\ Aged(token[w]).sub = token[w].sub /\ Aged(token[w]).tenant = token[w].tenant
        /\ Aged(token[w]).roles = token[w].roles /\ Aged(token[w]).key = token[w].key
        /\ DOMAIN Aged(token[w]) = DOMAIN token[w]
    BY <2>2 DEF Aged
  <2>4. Aged(token[w]).exp \in 0..DefaultTtl
    BY <1>3, <2>2, <2>3
  <2> QED BY <2>1, <2>2, <2>3, <2>4
<1>7. \A w \in Workers : session'[w] # NoSession =>
        /\ session[w] # NoSession /\ session[w].exp \in 2..DefaultTtl /\ token[w] # NoToken
        /\ session'[w].exp = session[w].exp - 1
        /\ session'[w].account = session[w].account /\ session'[w].agent = session[w].agent
        /\ DOMAIN session'[w] = {"account", "agent", "exp"}
        /\ session[w].exp <= token[w].exp
  <2> TAKE w \in Workers
  <2> HAVE session'[w] # NoSession
  <2>1. session[w] # NoSession /\ ~(session[w].exp <= 1) /\ session'[w] = Aged(session[w])
    BY <1>2
  <2>2. /\ DOMAIN session[w] = {"account", "agent", "exp"} /\ session[w].exp \in 1..DefaultTtl
        /\ token[w] # NoToken
    BY <2>1 DEF TokensAreOwn
  <2>3. session[w].exp \in 2..DefaultTtl
    BY <1>3, <2>1, <2>2
  <2>4. /\ Aged(session[w]).exp = session[w].exp - 1
        /\ Aged(session[w]).account = session[w].account /\ Aged(session[w]).agent = session[w].agent
        /\ DOMAIN Aged(session[w]) = DOMAIN session[w]
    BY <2>2, <2>3 DEF Aged
  <2>5. session[w].exp <= token[w].exp
    BY <2>1 DEF SessionsAreOwn
  <2> QED BY <2>1, <2>2, <2>3, <2>4, <2>5
<1>8. \A w \in Workers : session'[w] # NoSession =>
        /\ token'[w] # NoToken /\ session'[w].exp \in 1..DefaultTtl /\ session'[w].exp <= token'[w].exp
  <2> TAKE w \in Workers
  <2> HAVE session'[w] # NoSession
  <2>1. token[w] # NoToken /\ session[w].exp \in 2..DefaultTtl /\ session[w].exp <= token[w].exp
    BY <1>7
  <2>2. {"sub", "tenant", "roles", "key", "exp"} \subseteq DOMAIN token[w] /\ token[w].exp \in 0..DefaultTtl
    BY <2>1 DEF TokensAreOwn
  <2>3. Aged(token[w]).exp = token[w].exp - 1
    BY <1>3, <2>1, <2>2 DEF Aged
  <2>4. Aged(token[w]) # NoToken
    <3>1. Aged(token[w]).exp # 0
      BY <1>3, <2>1, <2>2, <2>3
    <3>2. NoToken.exp = 0
      BY DEF NoToken
    <3> QED BY <3>1, <3>2
  <2>5. token'[w] = Aged(token[w])
    BY <1>2, <2>1
  <2>6. session'[w].exp = session[w].exp - 1
    BY <1>7
  <2>7. session'[w].exp \in 1..DefaultTtl /\ session'[w].exp <= token[w].exp - 1
    BY <1>3, <2>1, <2>2, <2>6
  <2> QED BY <2>3, <2>4, <2>5, <2>7
<1>9. timer' \in [Workers -> Nat] /\ \A w \in Workers : timer'[w] <= Max({MaxTtl, RetryDelay, MaxBackoff})
  <2> DEFINE top == Max({MaxTtl, RetryDelay, MaxBackoff})
  <2>1. top \in Nat /\ \A w \in Workers : timer[w] \in Nat /\ timer[w] <= top
    BY Delays DEF Shape, Bounded
  <2> HIDE DEF top
  <2>2. \A w \in Workers : timer'[w] \in Nat /\ timer'[w] <= top
    BY <1>2, <2>1
  <2>3. timer' \in [Workers -> Nat]
    BY <1>2, <2>2
  <2> QED BY <2>2, <2>3 DEF top
<1>10. Loaded'
  BY <1>1 DEF Loaded
<1>11. Shape'
  <2>1. DOMAIN token' = Workers /\ DOMAIN session' = Workers
    BY <1>2
  <2>2. flagged' \in [Workers -> Nat]
    BY <1>2, <1>5
  <2> QED BY <1>1, <1>4, <1>9, <2>1, <2>2 DEF Shape
<1>12. ClientsAreKnown' /\ HoldsOwn' /\ OneHolder'
  BY <1>1, ClientsFrame, HoldsFrame, HolderFrame
<1>13. TokensAreOwn'
  <2> SUFFICES ASSUME NEW w \in Workers
               PROVE  /\ token'[w] # NoToken => /\ holds[w] # 0 /\ token'[w].exp \in 0..DefaultTtl
                                                /\ {"sub", "tenant", "roles", "key", "exp"} \subseteq DOMAIN token'[w]
                                                /\ token'[w].sub = load[w].principal /\ token'[w].tenant = load[w].tenant
                                                /\ token'[w].roles = load[w].roles
                      /\ session'[w] # NoSession => /\ token'[w] # NoToken /\ session'[w].exp \in 1..DefaultTtl
                                                    /\ DOMAIN session'[w] = {"account", "agent", "exp"}
    BY <1>1 DEF TokensAreOwn
  <2>1. CASE token'[w] # NoToken
    <3>1. /\ holds[w] # 0 /\ {"sub", "tenant", "roles", "key", "exp"} \subseteq DOMAIN token[w]
          /\ token[w].sub = load[w].principal /\ token[w].tenant = load[w].tenant
          /\ token[w].roles = load[w].roles
      BY <1>6, <2>1 DEF TokensAreOwn
    <3> QED BY <1>6, <1>7, <1>8, <2>1, <3>1
  <2>2. CASE token'[w] = NoToken
    BY <1>7, <1>8, <2>2
  <2> QED BY <2>1, <2>2
<1>14. FlaggedFade'
  <2>1. \A w \in Workers : Refused(w, View(Service))' <=> Refused(w, View(Service))
    BY <1>1, ViewFrame, RefusedFrame
  <2>2. \A w \in Workers : token'[w] # NoToken => token'[w].exp + flagged'[w] <= MaxTtl
    <3> TAKE w \in Workers
    <3> HAVE token'[w] # NoToken
    <3>1. /\ token'[w].exp = IF token[w].exp > 0 THEN token[w].exp - 1 ELSE 0
          /\ token[w] # NoToken /\ token[w].exp \in Nat
      BY <1>3, <1>6
    <3>2. token[w].exp + flagged[w] <= MaxTtl
      BY <3>1 DEF FlaggedFade
    <3>3. flagged[w] \in Nat /\ flagged'[w] \in Nat /\ flagged'[w] <= flagged[w] + 1 /\ flagged'[w] <= MaxTtl
      BY <1>5 DEF Shape
    <3>4. CASE token[w].exp > 0
      BY <1>3, <3>1, <3>2, <3>3, <3>4
    <3>5. CASE ~(token[w].exp > 0)
      BY <1>3, <3>1, <3>3, <3>5
    <3> QED BY <3>4, <3>5
  <2> QED BY <1>5, <2>1, <2>2 DEF FlaggedFade
<1>15. KeysCover'
  <2> SUFFICES ASSUME ~scope.ephemeral, NEW w \in Workers, token'[w] # NoToken,
                      token'[w].exp > 0
               PROVE  \/ token'[w].key = keys[1]
                      \/ 2 \in DOMAIN keys /\ token'[w].key = keys[2] /\ token'[w].exp + keyAge' <= MaxTtl
    BY <1>1 DEF KeysCover
  <2>1. /\ token[w] # NoToken /\ token'[w].key = token[w].key /\ token[w].exp \in Nat
        /\ token'[w].exp = IF token[w].exp > 0 THEN token[w].exp - 1 ELSE 0
    BY <1>3, <1>6
  <2>2. token[w].exp > 0 /\ token'[w].exp = token[w].exp - 1
    BY <2>1
  <2>3. \/ token[w].key = keys[1]
        \/ 2 \in DOMAIN keys /\ token[w].key = keys[2] /\ token[w].exp + keyAge <= MaxTtl
    BY <2>1, <2>2 DEF KeysCover
  <2>4. token[w].exp + keyAge <= MaxTtl => token'[w].exp + keyAge' <= MaxTtl
    <3>1. \A e, k, l, m \in Nat : l <= k + 1 /\ e + k <= m => (e - 1) + l <= m
      OBVIOUS
    <3>2. keyAge \in Nat /\ keyAge' \in Nat /\ keyAge' <= keyAge + 1
      BY <1>4 DEF Shape
    <3> QED BY <1>3, <2>1, <2>2, <3>1, <3>2
  <2> QED BY <2>1, <2>3, <2>4
<1>16. Bounded'
  BY <1>1, <1>4, <1>9 DEF Bounded
<1>17. SessionsAreOwn'
  BY <1>1, <1>7, <1>8 DEF SessionsAreOwn
<1> QED BY <1>10, <1>11, <1>12, <1>13, <1>14, <1>15, <1>16, <1>17

(* Everything the invariant reads is a variable of the specification.      *)
LEMMA StutterKeeps ==
  ASSUME IdentityInv, UNCHANGED vars
  PROVE  IdentityInv'
<1> USE DEF IdentityInv
<1>1. UNCHANGED <<bucket, heard, now, load, scope, failures, up, clients, keys, keyAge,
                  holds, token, timer, plan, backoff, session, flagged>>
  BY DEF vars, switchVars, serviceVars, workerVars
<1>2. Loaded' /\ Shape'
  BY <1>1 DEF Loaded, Shape
<1>3. /\ ClientsAreKnown' /\ HoldsOwn' /\ TokensAreOwn' /\ KeysCover' /\ OneHolder'
      /\ SessionsAreOwn' /\ Bounded'
  BY <1>1, ClientsFrame, HoldsFrame, TokensFrame, KeysFrame, HolderFrame,
         SessionsFrame, BoundedFrame
<1>4. FlaggedFade'
  BY <1>1, ViewFrame, FlaggedFrame
<1> QED BY <1>2, <1>3, <1>4

-----------------------------------------------------------------------------
(* What the invariant says.                                                *)

LEMMA ShapeIsTyped ==
  ASSUME IdentityInv
  PROVE  TypeOK
<1> USE DEF IdentityInv
<1>1. failures \in 0..scope.faults /\ keyAge \in 0..MaxTtl
  BY LoadedFacts, TokenAssumption DEF Shape, Bounded
<1>2. Cardinality({c.id : c \in clients}) = Cardinality(clients)
  BY IdsDistinct DEF ClientsAreKnown
<1>3. MaxTtl \in Nat /\ DefaultTtl \in Nat /\ DefaultTtl <= MaxTtl
  BY TokenAssumption
<1>4. \A w \in Workers : /\ session[w] # NoSession => session[w].exp \in 1..MaxTtl
                         /\ token[w] # NoToken => token[w].exp \in 0..MaxTtl
  BY <1>3 DEF TokensAreOwn
<1>5. \A w \in Workers : timer[w] \in 0..Max({MaxTtl, RetryDelay, MaxBackoff})
  <2> DEFINE top == Max({MaxTtl, RetryDelay, MaxBackoff})
  <2>1. top \in Nat /\ \A w \in Workers : timer[w] \in Nat /\ timer[w] <= top
    BY Delays DEF Shape, Bounded
  <2> HIDE DEF top
  <2>2. \A w \in Workers : timer[w] \in 0..top
    BY <2>1
  <2> QED BY <2>2 DEF top
<1>6. \A w \in Workers : backoff[w] \in 1..MaxBackoff /\ (holds[w] # 0 \/ plan[w] = "none")
  BY DEF Bounded
<1> QED BY <1>1, <1>2, <1>4, <1>5, <1>6 DEF TypeOK

LEMMA RefusedFades ==
  ASSUME IdentityInv
  PROVE  RevokedFades
<1> SUFFICES ASSUME NEW w \in Workers, flagged[w] = MaxTtl
             PROVE  session[w] = NoSession /\ (token[w] = NoToken \/ token[w].exp = 0)
  BY DEF RevokedFades
<1>1. MaxTtl \in Nat /\ DefaultTtl \in Nat
  BY TokenAssumption
<1>2. token[w] = NoToken \/ token[w].exp = 0
  <2>1. token[w] # NoToken => token[w].exp \in 0..DefaultTtl /\ token[w].exp + MaxTtl <= MaxTtl
    BY DEF IdentityInv, TokensAreOwn, FlaggedFade
  <2> QED BY <1>1, <2>1
<1>3. ASSUME session[w] # NoSession PROVE FALSE
  <2>1. token[w] # NoToken /\ session[w].exp \in 1..DefaultTtl /\ session[w].exp <= token[w].exp
    BY <1>3 DEF IdentityInv, TokensAreOwn, SessionsAreOwn
  <2> QED BY <1>1, <1>2, <2>1
<1> QED BY <1>2, <1>3

LEMMA KeysVerify ==
  ASSUME IdentityInv
  PROVE  TokensVerify
<1>1. 1 \in DOMAIN keys
  BY DEF IdentityInv, Shape
<1> QED BY <1>1 DEF IdentityInv, KeysCover, TokensVerify, Jwks

-----------------------------------------------------------------------------
(* The invariant of the token service, its workers and the auth callout:   *)
(* whoever is registered, minted for or admitted is who it says it is.     *)
THEOREM IdentityInvariant == Spec => []IdentityInv
<1>1. Init => IdentityInv
  BY InitKeeps
<1>2. IdentityInv /\ [Next]_vars => IdentityInv'
  <2> SUFFICES ASSUME IdentityInv, [Next]_vars PROVE IdentityInv'
    OBVIOUS
  <2>1. ASSUME NEW w \in Workers, Provision(w) PROVE IdentityInv'
    BY <2>1, ProvisionKeeps
  <2>2. ASSUME NEW w \in Workers, Refresh(w) PROVE IdentityInv'
    BY <2>2, RefreshKeeps
  <2>3. ASSUME NEW w \in Workers, RefreshFails(w) PROVE IdentityInv'
    BY <2>3, RefreshFailsKeeps
  <2>4. ASSUME NEW w \in Workers, Connect(w) PROVE IdentityInv'
    BY <2>4, ConnectKeeps
  <2>5. ASSUME NEW w \in Workers, Disconnect(w) PROVE IdentityInv'
    BY <2>5, DisconnectKeeps
  <2>6. CASE Stop
    BY <2>6, StopKeeps
  <2>7. CASE Start
    BY <2>7, StartKeeps
  <2>8. CASE Put
    BY <2>8, PutKeeps
  <2>9. CASE Hear
    BY <2>9, HearKeeps
  <2>10. CASE Tick
    BY <2>10, TickKeeps
  <2>11. CASE UNCHANGED vars
    BY <2>11, StutterKeeps
  <2> QED BY <2>1, <2>2, <2>3, <2>4, <2>5, <2>6, <2>7, <2>8, <2>9, <2>10, <2>11
     DEF Next
<1> QED BY <1>1, <1>2, PTL DEF Spec

(* A bus identity is registered for one owner however often provisioning   *)
(* is tried, its answer lost or the service restarted, and whoever the     *)
(* auth callout admitted is there as itself, in its tenant's account and   *)
(* no longer than its token lives (clients.ts, bus-auth/core.ts).          *)
THEOREM IdentitySound == Spec => []IdentityIsOwn
<1>1. IdentityInv => IdentityIsOwn
  BY ShapeIsTyped DEF IdentityInv, IdentityIsOwn
<1> QED BY <1>1, IdentityInvariant, PTL

(* A worker refused for as long as a token lives has no live token and no  *)
(* session, and with configured keys a live token verifies over every      *)
(* restart and rotation (tokens.ts, keys.ts).                              *)
THEOREM TokensTimely == Spec => []TokensAreTimely
<1>1. IdentityInv => TokensAreTimely
  BY RefusedFades, KeysVerify DEF TokensAreTimely
<1> QED BY <1>1, IdentityInvariant, PTL

-----------------------------------------------------------------------------
(* The audit chain.                                                        *)

\* Place 0 is the anchor of the chain; any other is a row's.
Anchored(seq, hash) ==
  \/ seq = 0 /\ hash = Genesis
  \/ \E f \in Chained : table[f].seq = seq /\ table[f].hash = hash

Truthful(e) == table[e].hash = ComputeRecordHash(table[e].seq, table[e].prev, table[e].event)

\* No two rows share a place, one is the last, and the stream's events are never
\* stored without a place.
OnePlaceEach ==
  /\ IsFiniteSet(Chained)
  /\ \A e, f \in Chained : table[e].seq = table[f].seq => e = f
  /\ Chained # {} => \E t \in Chained : \A f \in Chained : table[f].seq <= table[t].seq
  /\ \A e \in Events : table[e] # NoRow => e \in Chained

\* An untouched chain: the places have no gap and every row says what it records
\* and hangs on the one before.
Linked ==
  ~tampered =>
    /\ \A e \in Chained : /\ table[e].event = e /\ Truthful(e)
                           /\ Anchored(table[e].seq - 1, table[e].prev)
    /\ {table[e].seq : e \in Chained} = 1..Cardinality(Chained)
    /\ LegacyEvents \subseteq Stored

\* A cached head is a row of the chain, if no longer the last.  Of the rows a
\* writer still has to chain, those that another one has chained meanwhile lie
\* beyond the head it goes on from.  What a writer appends has passed the schema,
\* and it acknowledges what is in the chain.
WriterSound(r) ==
  /\ r.at \in {"rows", "update", "insert"} => r.head # NoHead
  /\ r.at \in {"load", "insert", "ack"} => r.ev \in Events
  /\ r.ev \notin Malformed
  /\ ~tampered /\ r.head # NoHead => Anchored(r.head.seq, r.head.hash)
  /\ tampered => r.at \notin {"rows", "update"}
  /\ r.at = "update" => \A e \in r.todo \cap Chained : table[e].seq > r.head.seq
  /\ r.at = "ack" => tampered \/ r.ev \in Chained
WritersSound == \A w \in Writers : WriterSound(writer[w])

Settled == AckedIsRecorded /\ (tampered => Null = {})

\* What tampering leaves behind: row f hangs on the record of an event e that
\* nobody can put back, and no truthful row takes its place.
FlawAt(f, e) ==
  /\ table[f].seq > 1 /\ e \notin queue \cup InFlight
  /\ \E p \in Hash : table[f].prev = Append(p, <<table[f].seq - 1, e>>)
  /\ \A g \in Chained : table[g].seq = table[f].seq - 1 /\ table[g].hash = table[f].prev
                           => ~Truthful(g)
Flawed == tampered => \E f \in Chained, e \in All : FlawAt(f, e)

\* A walk hangs on the row before its next page; one begun after tampering has
\* passed only truthful rows, each hanging on the one before.
WalkSound ==
  /\ walk.late => tampered
  /\ walk.at = "page" /\ (walk.late \/ ~tampered) => Anchored(walk.seq - 1, walk.prev)
  /\ walk.at = "page" /\ walk.late =>
       /\ \A i \in 1..walk.seq - 1 : \E g \in Chained : table[g].seq = i /\ Truthful(g)
       /\ \A f \in Chained : 1 < table[f].seq /\ table[f].seq < walk.seq =>
            \E g \in Chained : table[g].seq = table[f].seq - 1 /\ table[g].hash = table[f].prev
  /\ AlarmIsTrue

ChainInv ==
  /\ ChainTypeOK /\ OnePlaceEach /\ Linked /\ WritersSound /\ Settled /\ Flawed /\ WalkSound

-----------------------------------------------------------------------------
(* Rows in order.                                                          *)

Placing(R) == /\ IsFiniteSet(R) /\ \A r \in R : r.seq \in Nat
              /\ \A r, q \in R : r.seq = q.seq => r = q
\* The rows before a row, and their number.
Before(R, r) == {q \in R : q.seq < r.seq}
RowRank(R, r) == Cardinality(Before(R, r))

\* The number of the rows before a row grows with its place.
LEMMA RankGrows ==
  ASSUME NEW R, Placing(R)
  PROVE  /\ \A r \in R : RowRank(R, r) \in 0..Cardinality(R) - 1
         /\ \A r, q \in R : r.seq < q.seq => RowRank(R, r) < RowRank(R, q)
<1> USE DEF Placing
<1>1. ASSUME NEW A, A \subseteq R, NEW r, r \in R, r \notin A
      PROVE  IsFiniteSet(A) /\ Cardinality(A) \in Nat /\ Cardinality(A \cup {r}) = Cardinality(A) + 1
  <2>1. IsFiniteSet(A)
    BY <1>1, FS_Subset
  <2>2. QED
    BY <1>1, <2>1, FS_AddElement, FS_CardinalityType
<1>2. ASSUME NEW A, A \subseteq R, NEW B, B \subseteq A
      PROVE Cardinality(B) <= Cardinality(A)
  <2>1. IsFiniteSet(A)
    BY <1>2, FS_Subset
  <2>2. QED
    BY <1>2, <2>1, FS_Subset
<1>3. ASSUME NEW r \in R, NEW A, A \subseteq R, Before(R, r) \cup {r} \subseteq A
      PROVE  RowRank(R, r) \in Nat /\ RowRank(R, r) < Cardinality(A)
  <2> DEFINE B == Before(R, r)
  <2>1. B \subseteq R /\ r \notin B
    BY DEF Before
  <2>2. Cardinality(B) \in Nat /\ Cardinality(B \cup {r}) = Cardinality(B) + 1
    BY <2>1, <1>1
  <2>3. Cardinality(B \cup {r}) <= Cardinality(A)
    BY <1>2, <1>3
  <2>4. Cardinality(A) \in Nat
    BY <1>3, FS_Subset, FS_CardinalityType
  <2>5. QED
    BY <2>2, <2>3, <2>4 DEF RowRank
<1>4. ASSUME NEW r \in R PROVE RowRank(R, r) \in 0..Cardinality(R) - 1
  <2>1. Before(R, r) \cup {r} \subseteq R
    BY DEF Before
  <2>2. Cardinality(R) \in Nat
    BY FS_CardinalityType
  <2>3. QED
    BY <1>3, <2>1, <2>2
<1>5. ASSUME NEW r \in R, NEW q \in R, r.seq < q.seq PROVE RowRank(R, r) < RowRank(R, q)
  <2>1. Before(R, r) \cup {r} \subseteq Before(R, q) /\ Before(R, q) \subseteq R
    BY <1>5 DEF Before
  <2>2. QED
    BY <1>3, <2>1 DEF RowRank
<1>6. QED
  BY <1>4, <1>5

\* Rows in order: each once, by increasing place.
LEMMA InOrderSorts ==
  ASSUME NEW R, Placing(R)
  PROVE  /\ InOrder(R) \in Seq(R) /\ Cardinality(R) \in Nat /\ Len(InOrder(R)) = Cardinality(R)
         /\ \A i, j \in 1..Cardinality(R) : i < j => InOrder(R)[i].seq < InOrder(R)[j].seq
         /\ \A r \in R : \E i \in 1..Cardinality(R) : InOrder(R)[i] = r
<1> DEFINE n == Cardinality(R)
           f == [r \in R |-> RowRank(R, r) + 1]
           o == InOrder(R)
<1>1. n \in Nat
  BY FS_CardinalityType DEF Placing
<1>2. /\ \A r \in R : RowRank(R, r) \in 0..n - 1
      /\ \A r, q \in R : r.seq < q.seq => RowRank(R, r) < RowRank(R, q)
  BY RankGrows
<1>3. \A r, q \in R : RowRank(R, r) = RowRank(R, q) => r = q
  <2>1. ASSUME NEW r \in R, NEW q \in R, RowRank(R, r) = RowRank(R, q), r # q PROVE FALSE
    <3>1. r.seq < q.seq \/ q.seq < r.seq
      BY <2>1 DEF Placing
    <3>2. QED
      BY <1>1, <1>2, <2>1, <3>1
  <2>2. QED
    BY <2>1
<1>4. \A k \in 1..n : \E r \in R : RowRank(R, r) = k - 1
  <2>1. f \in Injection(R, 1..n)
    <3>1. f \in [R -> 1..n]
      BY <1>1, <1>2
    <3>2. \A r, q \in R : f[r] = f[q] => r = q
      BY <1>1, <1>2, <1>3
    <3> HIDE DEF f
    <3>3. QED
      BY <3>1, <3>2 DEF Injection, IsInjective
  <2>2. IsFiniteSet(R) /\ IsFiniteSet(1..n) /\ Cardinality(1..n) = n
    BY <1>1, FS_Interval DEF Placing
  <2>3. f \in Surjection(R, 1..n)
    <3> HIDE DEF f
    <3> QED BY <1>1, <2>1, <2>2, FS_Injection
  <2>4. ASSUME NEW k \in 1..n PROVE \E r \in R : RowRank(R, r) = k - 1
    <3>1. PICK r \in R : f[r] = k
      BY <2>3 DEF Surjection
    <3>2. QED
      BY <1>1, <1>2, <3>1
  <2>5. QED
    BY <2>4
<1>5. \A k \in 1..n : o[k] \in R /\ RowRank(R, o[k]) = k - 1
  <2> TAKE k \in 1..n
  <2>1. o[k] = CHOOSE r \in R : RowRank(R, r) = k - 1
    BY DEF InOrder, RowRank, Before
  <2>2. QED
    BY <1>4, <2>1
<1>6. o \in [1..n -> R]
  BY <1>5 DEF InOrder
<1> HIDE DEF n, o, f
<1>7. \A i, j \in 1..n : i < j => o[i].seq < o[j].seq
  <2>1. ASSUME NEW i \in 1..n, NEW j \in 1..n, i < j, ~(o[i].seq < o[j].seq) PROVE FALSE
    <3>1. o[i] \in R /\ o[j] \in R /\ RowRank(R, o[i]) = i - 1 /\ RowRank(R, o[j]) = j - 1
      BY <1>5
    <3>2. o[j].seq < o[i].seq \/ o[i] = o[j]
      BY <2>1, <3>1 DEF Placing
    <3>3. CASE o[j].seq < o[i].seq
      <4>1. RowRank(R, o[j]) < RowRank(R, o[i])
        BY <1>2, <3>1, <3>3
      <4>2. QED
        BY <1>1, <2>1, <3>1, <4>1
    <3>4. CASE o[i] = o[j]
      BY <1>1, <2>1, <3>1, <3>4
    <3>5. QED
      BY <3>2, <3>3, <3>4
  <2>2. QED
    BY <2>1
<1>8. \A r \in R : \E i \in 1..n : o[i] = r
  <2> TAKE r \in R
  <2>1. RowRank(R, r) \in 0..n - 1
    BY <1>2
  <2>2. RowRank(R, r) + 1 \in 1..n /\ (RowRank(R, r) + 1) - 1 = RowRank(R, r)
    BY <1>1, <2>1
  <2>3. RowRank(R, o[RowRank(R, r) + 1]) = RowRank(R, r) /\ o[RowRank(R, r) + 1] \in R
    BY <1>5, <2>2
  <2>4. QED
    BY <1>3, <2>2, <2>3
<1>9. o \in Seq(R) /\ Len(o) = n
  BY <1>1, <1>6
<1>10. QED
  BY <1>1, <1>7, <1>8, <1>9 DEF n, o

\* A nonempty set of naturals has a least element.
LEMMA LeastElement ==
  ASSUME NEW S \in SUBSET Nat, S # {}
  PROVE  \E m \in S : \A k \in S : m <= k
<1> DEFINE R == OpToRel(<, Nat)
<1>1. IsWellFoundedOn(R, Nat)
  BY NatLessThanWellFounded
<1>2. PICK m \in S : \A k \in S : ~(<<k, m>> \in R)
  <2> HIDE DEF R
  <2> QED BY <1>1, WFMin
<1>3. ASSUME NEW k \in S PROVE m <= k
  <2>1. k < m => <<k, m>> \in R
    BY DEF OpToRel
  <2> HIDE DEF R
  <2>2. QED
    BY <1>2, <2>1
<1>4. QED
  BY <1>3

-----------------------------------------------------------------------------
(* Hashes and rows.                                                        *)

\* Hashes are sequences of what they were computed from.
LEMMA HashType ==
  /\ Genesis \in Hash
  /\ \A p \in Hash, s \in Nat, e \in All \cup {"forged"} :
       ComputeRecordHash(s, p, e) \in Hash /\ ComputeRecordHash(s, p, e) = Append(p, <<s, e>>)
<1>1. Genesis \in Hash
  BY DEF Genesis, Hash
<1>2. \A p \in Hash, s \in Nat, e \in All \cup {"forged"} :
        ComputeRecordHash(s, p, e) \in Hash /\ ComputeRecordHash(s, p, e) = Append(p, <<s, e>>)
  BY DEF Hash, ComputeRecordHash
<1>3. QED
  BY <1>1, <1>2

\* A sequence tells its last element.
LEMMA AppendTells ==
  ASSUME NEW S, NEW p \in Seq(S), NEW q \in Seq(S), NEW x, NEW y,
         Append(p, x) = Append(q, y)
  PROVE  p = q /\ x = y
<1> DEFINE T == S \cup {x, y}
<1>1. p \in Seq(T) /\ q \in Seq(T) /\ x \in T /\ y \in T
  OBVIOUS
<1>2. /\ Len(Append(p, x)) = Len(p) + 1 /\ Len(Append(q, y)) = Len(q) + 1
      /\ Append(p, x)[Len(p) + 1] = x /\ Append(q, y)[Len(q) + 1] = y
      /\ \A i \in 1..Len(p) : Append(p, x)[i] = p[i]
      /\ \A i \in 1..Len(q) : Append(q, y)[i] = q[i]
      /\ Len(p) \in Nat /\ Len(q) \in Nat
  BY <1>1
<1>3. Len(p) = Len(q) /\ x = y
  BY <1>2
<1>4. \A i \in 1..Len(p) : p[i] = q[i]
  BY <1>2, <1>3
<1>5. QED
  BY <1>3, <1>4, SeqEqual

\* A hash says what it was computed from.
LEMMA HashTells ==
  ASSUME NEW p \in Hash, NEW q \in Hash, NEW x, NEW y, Append(p, x) = Append(q, y)
  PROVE  p = q /\ x = y
<1> DEFINE S == Nat \X (All \cup {"forged"})
<1>1. p \in Seq(S) /\ q \in Seq(S)
  BY DEF Hash
<1> HIDE DEF S
<1>2. QED
  BY <1>1, AppendTells

\* A new row.
LEMMA NewRowType ==
  ASSUME NEW s \in Nat, NEW p \in Hash, NEW e \in All \cup {"forged"}
  PROVE  /\ Row(s, p, e) \in RowType /\ Row(s, p, e) # NoRow
         /\ Row(s, p, e).seq = s /\ Row(s, p, e).prev = p /\ Row(s, p, e).event = e
         /\ Row(s, p, e).hash = Append(p, <<s, e>>)
<1>1. ComputeRecordHash(s, p, e) \in Hash /\ ComputeRecordHash(s, p, e) = Append(p, <<s, e>>)
  BY HashType
<1>2. Row(s, p, e) \in RowType
  BY <1>1 DEF Row, RowType
<1>3. QED
  BY <1>1, <1>2, ChainAssumption DEF Row

\* What the table holds.
LEMMA TableType ==
  ASSUME ChainTypeOK
  PROVE  /\ \A e \in All : table[e] # NoRow =>
              /\ table[e] \in RowType /\ table[e].seq \in Nat /\ table[e].prev \in Hash
              /\ table[e].hash \in Hash /\ table[e].event \in All \cup {"forged"}
              /\ table[e] = [seq |-> table[e].seq, prev |-> table[e].prev,
                             hash |-> table[e].hash, event |-> table[e].event]
         /\ Chained \subseteq All /\ \A e \in Chained : table[e] # NoRow /\ table[e].seq \in Nat \ {0}
         /\ Chained \subseteq Stored
BY DEF ChainTypeOK, RowType, Chained, Stored

\* The last row, or the anchor of the empty chain.
LEMMA HeadIsLast ==
  ASSUME ChainTypeOK, OnePlaceEach
  PROVE  /\ ChainHead \in HeadType /\ ChainHead # NoHead
         /\ Anchored(ChainHead.seq, ChainHead.hash)
         /\ \A f \in Chained : table[f].seq <= ChainHead.seq
<1>1. CASE Chained = {}
  <2>1. ChainHead = [seq |-> 0, hash |-> Genesis]
    BY <1>1 DEF ChainHead, Head0
  <2>2. ChainHead \in HeadType /\ ChainHead.seq = 0 /\ ChainHead.hash = Genesis
    BY <2>1, HashType DEF HeadType
  <2>3. Anchored(ChainHead.seq, ChainHead.hash)
    BY <2>2 DEF Anchored
  <2>4. QED
    BY <1>1, <2>2, <2>3, ChainAssumption
<1>2. CASE Chained # {}
  <2> DEFINE t == CHOOSE e \in Chained : \A f \in Chained : table[f].seq <= table[e].seq
  <2>1. t \in Chained /\ \A f \in Chained : table[f].seq <= table[t].seq
    BY <1>2 DEF OnePlaceEach
  <2>2. ChainHead = [seq |-> table[t].seq, hash |-> table[t].hash]
    BY <1>2 DEF ChainHead
  <2> HIDE DEF t
  <2>3. table[t].seq \in Nat /\ table[t].hash \in Hash
    BY <2>1, TableType
  <2>4. QED
    BY <2>1, <2>2, <2>3, ChainAssumption DEF HeadType, Anchored
<1>3. QED
  BY <1>1, <1>2

\* An anchor names one hash.
LEMMA AnchorUnique ==
  ASSUME ChainTypeOK, OnePlaceEach, NEW s, NEW x, NEW y, Anchored(s, x), Anchored(s, y)
  PROVE  x = y
BY TableType DEF Anchored, OnePlaceEach

-----------------------------------------------------------------------------
(* The table.                                                              *)

\* As long as the table stays, so does what is said of it.
LEMMA TableStays ==
  ASSUME UNCHANGED <<table, tampered>>
  PROVE  /\ Chained' = Chained /\ Stored' = Stored /\ Null' = Null
         /\ \A s, x : Anchored(s, x)' <=> Anchored(s, x)
         /\ \A e : Truthful(e)' <=> Truthful(e)
         /\ OnePlaceEach => OnePlaceEach'
         /\ Linked => Linked'
<1>1. Chained' = Chained /\ Stored' = Stored
  BY DEF Chained, Stored
<1>2. Null' = Null
  BY <1>1 DEF Null
<1>3. \A s, x : Anchored(s, x)' <=> Anchored(s, x)
  BY <1>1 DEF Anchored
<1>4. \A e : Truthful(e)' <=> Truthful(e)
  BY DEF Truthful
<1>5. OnePlaceEach => OnePlaceEach'
  BY <1>1 DEF OnePlaceEach
<1>6. Linked => Linked'
  BY <1>1, <1>3, <1>4 DEF Linked
<1>7. QED
  BY <1>1, <1>2, <1>3, <1>4, <1>5, <1>6

\* A step that adds a row: of an event without a place, at a place nobody has,
\* after a row its writer knows.
AddsRow ==
  \E e \in All \ (Chained \cup Malformed) : \E h \in HeadType :
    /\ ~Taken(h.seq + 1) /\ (~tampered => Anchored(h.seq, h.hash))
    /\ table' = [table EXCEPT ![e] = Row(h.seq + 1, h.hash, e)]

\* A row is put at a place nobody has, after the row its writer knows.
LEMMA RowAdded ==
  ASSUME ChainTypeOK, OnePlaceEach, Linked, NEW e \in All, e \notin Chained,
         NEW h \in HeadType, ~tampered => Anchored(h.seq, h.hash), ~Taken(h.seq + 1),
         table' = [table EXCEPT ![e] = Row(h.seq + 1, h.hash, e)], tampered' = tampered
  PROVE  /\ Chained' = Chained \cup {e} /\ Null' = Null \ {e}
         /\ table' \in [All -> RowType \cup {NoRow}]
         /\ \A f \in Chained : table'[f] = table[f]
         /\ table'[e].seq = h.seq + 1 /\ table'[e].hash = Append(h.hash, <<h.seq + 1, e>>)
         /\ Truthful(e)' /\ \A f \in Chained : Truthful(f)' <=> Truthful(f)
         /\ \A s, x : Anchored(s, x) => Anchored(s, x)'
         /\ ~tampered => \A s, x : Anchored(s, x) => s <= h.seq
         /\ OnePlaceEach' /\ Linked'
<1> DEFINE row == Row(h.seq + 1, h.hash, e)
<1>1. h.seq \in Nat /\ h.hash \in Hash /\ h.seq + 1 \in Nat
  BY DEF HeadType
<1>2. /\ row \in RowType /\ row # NoRow /\ row.seq = h.seq + 1 /\ row.prev = h.hash /\ row.event = e
      /\ row.hash = Append(h.hash, <<h.seq + 1, e>>)
      /\ row.hash = ComputeRecordHash(h.seq + 1, h.hash, e)
  <2>1. row.hash = ComputeRecordHash(h.seq + 1, h.hash, e)
    BY DEF Row
  <2>2. e \in All \cup {"forged"}
    OBVIOUS
  <2>3. PICK s \in Nat : s = h.seq + 1
    BY <1>1
  <2>4. row = Row(s, h.hash, e)
    BY <2>3
  <2> HIDE DEF row
  <2>5. QED
    BY <1>1, <2>1, <2>2, <2>3, <2>4, NewRowType
<1> HIDE DEF row
<1>3. table' = [table EXCEPT ![e] = row] /\ table \in [All -> RowType \cup {NoRow}]
  BY DEF row, ChainTypeOK
<1>4. table'[e] = row /\ \A f \in All : f # e => table'[f] = table[f]
  BY <1>3
<1>5. Stored' = Stored \cup {e}
  BY <1>2, <1>4 DEF Stored
<1>6. Chained' = Chained \cup {e}
  BY <1>1, <1>2, <1>4, <1>5 DEF Chained, Stored
<1>7. Null' = Null \ {e}
  BY <1>5, <1>6 DEF Null
<1>8. \A f \in Chained : table'[f] = table[f]
  BY <1>4, TableType
<1>9. table' \in [All -> RowType \cup {NoRow}]
  BY <1>2, <1>3
<1>10. Truthful(e)' /\ \A f \in Chained : Truthful(f)' <=> Truthful(f)
  BY <1>2, <1>4, <1>8 DEF Truthful
<1>11. \A s, x : Anchored(s, x) => Anchored(s, x)'
  BY <1>6, <1>8 DEF Anchored
<1>12. \A f \in Chained : table[f].seq # h.seq + 1 /\ table[f].seq \in Nat \ {0}
  BY TableType DEF Taken
<1>13. OnePlaceEach'
  <2>1. IsFiniteSet(Chained')
    BY <1>6, FS_AddElement DEF OnePlaceEach
  <2>2. \A f, g \in Chained' : table'[f].seq = table'[g].seq => f = g
    BY <1>2, <1>4, <1>6, <1>8, <1>12 DEF OnePlaceEach
  <2>3. \E t \in Chained' : \A f \in Chained' : table'[f].seq <= table'[t].seq
    <3>1. CASE Chained = {}
      BY <1>1, <1>2, <1>4, <1>6, <3>1
    <3>2. CASE Chained # {}
      <4>1. PICK t \in Chained : \A f \in Chained : table[f].seq <= table[t].seq
        BY <3>2 DEF OnePlaceEach
      <4>2. CASE h.seq + 1 <= table[t].seq
        BY <1>2, <1>4, <1>6, <1>8, <4>1, <4>2
      <4>3. CASE ~(h.seq + 1 <= table[t].seq)
        <5>1. \A f \in Chained : table[f].seq <= h.seq + 1
          BY <1>1, <1>12, <4>1, <4>3
        <5>2. QED
          BY <1>1, <1>2, <1>4, <1>6, <1>8, <5>1
      <4>4. QED
        BY <4>2, <4>3
    <3>3. QED
      BY <3>1, <3>2
  <2>4. \A f \in Events : table'[f] # NoRow => f \in Chained'
    BY <1>4, <1>6 DEF OnePlaceEach, All
  <2>5. QED
    BY <2>1, <2>2, <2>3, <2>4 DEF OnePlaceEach
<1>14. Linked'
  <2> SUFFICES ASSUME ~tampered
               PROVE  /\ \A f \in Chained' : /\ table'[f].event = f /\ Truthful(f)'
                                             /\ Anchored(table[f].seq - 1, table[f].prev)'
                      /\ {table'[f].seq : f \in Chained'} = 1..Cardinality(Chained')
                      /\ LegacyEvents \subseteq Stored'
    BY DEF Linked
  <2>1. Anchored(h.seq, h.hash)
    OBVIOUS
  <2>2. (h.seq + 1) - 1 = h.seq
    BY <1>1
  <2>3. ASSUME NEW f \in Chained'
        PROVE  table'[f].event = f /\ Truthful(f)' /\ Anchored(table[f].seq - 1, table[f].prev)'
    <3>1. CASE f = e
      <4>1. Anchored(h.seq, h.hash)'
        BY <1>11, <2>1
      <4>2. table'[f].seq - 1 = h.seq /\ table'[f].prev = h.hash /\ table'[f].event = f
        BY <1>2, <1>4, <2>2, <3>1
      <4>3. QED
        BY <1>10, <3>1, <4>1, <4>2 DEF Anchored
    <3>2. CASE f \in Chained
      <4>1. table[f].event = f /\ Truthful(f) /\ Anchored(table[f].seq - 1, table[f].prev)
        BY <3>2 DEF Linked
      <4>2. table'[f] = table[f] /\ Truthful(f)'
        BY <1>8, <1>10, <3>2, <4>1
      <4>3. PICK s, x : s = table[f].seq - 1 /\ x = table[f].prev
        OBVIOUS
      <4>4. Anchored(s, x)'
        BY <1>11, <4>1, <4>3
      <4>5. QED
        BY <4>1, <4>2, <4>3, <4>4 DEF Anchored
    <3>3. QED
      BY <1>6, <3>1, <3>2
  <2>4. {table'[f].seq : f \in Chained'} = 1..Cardinality(Chained')
    <3> DEFINE n == Cardinality(Chained)
    <3>1. n \in Nat /\ Cardinality(Chained') = n + 1
      BY <1>6, FS_AddElement, FS_CardinalityType DEF OnePlaceEach
    <3>2. {table[f].seq : f \in Chained} = 1..n
      BY DEF Linked
    <3>3. h.seq \in 0..n /\ h.seq + 1 \notin 1..n
      <4>1. h.seq = 0 \/ \E f \in Chained : table[f].seq = h.seq
        BY <2>1 DEF Anchored
      <4>2. h.seq \in {0} \cup 1..n
        BY <3>2, <4>1
      <4>3. h.seq + 1 \notin {table[f].seq : f \in Chained}
        BY <1>12
      <4>4. QED
        BY <3>1, <3>2, <4>2, <4>3
    <3> HIDE DEF n
    <3>4. h.seq = n
      BY <1>1, <3>1, <3>3
    <3>5. {table'[f].seq : f \in Chained'} = {table[f].seq : f \in Chained} \cup {n + 1}
      BY <1>2, <1>4, <1>6, <1>8, <3>4
    <3>6. \A m \in Nat : 1..(m + 1) = (1..m) \cup {m + 1}
      OBVIOUS
    <3>7. QED
      BY <3>1, <3>2, <3>5, <3>6, Zenon
  <2>5. LegacyEvents \subseteq Stored'
    BY <1>5 DEF Linked
  <2>6. QED
    BY <2>3, <2>4, <2>5
<1>15. ASSUME ~tampered, NEW s, NEW x, Anchored(s, x) PROVE s <= h.seq
  <2> DEFINE n == Cardinality(Chained)
  <2>1. n \in Nat /\ {table[f].seq : f \in Chained} = 1..n
    BY <1>15, FS_CardinalityType DEF OnePlaceEach, Linked
  <2>2. \A t \in Nat : t \in {0} \cup 1..n => t + 1 \in 1..n \/ t = n
    BY <2>1
  <2>3. h.seq \in {0} \cup 1..n /\ s \in {0} \cup 1..n
    BY <1>15, <2>1 DEF Anchored
  <2>4. h.seq + 1 \notin 1..n
    BY <1>12, <2>1
  <2> HIDE DEF n
  <2>5. QED
    BY <1>1, <2>1, <2>2, <2>3, <2>4
<1>16. QED
  BY <1>2, <1>4, <1>6, <1>7, <1>8, <1>9, <1>10, <1>11, <1>13, <1>14, <1>15

-----------------------------------------------------------------------------
(* Two kinds of steps: those of a writer that leave the table, and those   *)
(* that add a row.                                                         *)

\* What a flaw hangs on stays out of the writers' hands.
LEMMA FlawStays ==
  ASSUME Flawed, UNCHANGED <<table, tampered>>,
         queue' \cup InFlight' \subseteq queue \cup InFlight
  PROVE  Flawed'
<1> SUFFICES ASSUME tampered PROVE \E f \in Chained', e \in All : FlawAt(f, e)'
  BY DEF Flawed
<1>1. PICK f \in Chained, e \in All : FlawAt(f, e)
  BY DEF Flawed
<1>2. Chained' = Chained /\ \A g : Truthful(g)' <=> Truthful(g)
  BY TableStays
<1>3. FlawAt(f, e)'
  BY <1>1, <1>2 DEF FlawAt
<1>4. QED
  BY <1>1, <1>2, <1>3

LEMMA QuietStep ==
  ASSUME ChainInv, UNCHANGED <<table, tampered, walk>>, triggers' \in BOOLEAN,
         faults' \in Nat,
         NEW w \in Writers, NEW r \in WriterType, WriterSound(r),
         writer' = [writer EXCEPT ![w] = r],
         queue' \subseteq Events, queue' \cup ({r.ev} \ {"none"}) \subseteq queue \cup InFlight,
         acked' \subseteq Events, tampered \/ acked' \subseteq acked \cup Chained \cup Malformed
  PROVE  ChainInv'
<1> USE DEF ChainInv
<1>1. /\ Chained' = Chained /\ Null' = Null /\ \A s, x : Anchored(s, x)' <=> Anchored(s, x)
      /\ \A e : Truthful(e)' <=> Truthful(e)
      /\ OnePlaceEach' /\ Linked'
  BY TableStays
<1>2. writer' \in [Writers -> WriterType] /\ writer'[w] = r
      /\ \A v \in Writers : v # w => writer'[v] = writer[v]
  BY DEF ChainTypeOK
<1>3. ChainTypeOK'
  BY <1>2 DEF ChainTypeOK
<1>4. ASSUME NEW v \in Writers PROVE WriterSound(writer[v])'
  <2>1. PICK q : q = writer'[v]
    OBVIOUS
  <2>2. WriterSound(q)
    BY <1>2, <2>1 DEF WritersSound
  <2>3. QED
    BY <1>1, <2>1, <2>2 DEF WriterSound
<1>5. Settled'
  BY <1>1 DEF Settled, AckedIsRecorded
<1>6. Flawed'
  <2>1. queue' \cup InFlight' \subseteq queue \cup InFlight
    BY <1>2 DEF InFlight
  <2>2. QED
    BY <2>1, FlawStays
<1>7. WalkSound'
  BY <1>1 DEF WalkSound, AlarmIsTrue
<1>8. QED
  BY <1>1, <1>3, <1>4, <1>5, <1>6, <1>7 DEF WritersSound

LEMMA RowStep ==
  ASSUME ChainInv, UNCHANGED <<tampered, walk, triggers>>, faults' \in Nat,
         NEW e \in All, e \notin Chained, NEW h \in HeadType, ~Taken(h.seq + 1),
         ~tampered => Anchored(h.seq, h.hash), tampered => e \in InFlight,
         table' = [table EXCEPT ![e] = Row(h.seq + 1, h.hash, e)],
         NEW w \in Writers, NEW r \in WriterType, WriterSound(r)',
         writer' = [writer EXCEPT ![w] = r],
         queue' \subseteq Events, queue' \cup ({r.ev} \ {"none"}) \subseteq queue \cup InFlight,
         UNCHANGED acked
  PROVE  ChainInv'
<1> USE DEF ChainInv
<1>1. /\ Chained' = Chained \cup {e} /\ Null' = Null \ {e}
      /\ table' \in [All -> RowType \cup {NoRow}]
      /\ \A f \in Chained : table'[f] = table[f]
      /\ table'[e].seq = h.seq + 1 /\ table'[e].hash = Append(h.hash, <<h.seq + 1, e>>)
      /\ \A f \in Chained : Truthful(f)' <=> Truthful(f)
      /\ \A s, x : Anchored(s, x) => Anchored(s, x)'
      /\ ~tampered => \A s, x : Anchored(s, x) => s <= h.seq
      /\ OnePlaceEach' /\ Linked'
  BY RowAdded
<1>2. writer' \in [Writers -> WriterType] /\ writer'[w] = r
      /\ \A v \in Writers : v # w => writer'[v] = writer[v]
  BY DEF ChainTypeOK
<1>3. ChainTypeOK'
  BY <1>1, <1>2 DEF ChainTypeOK
<1>4. h.seq \in Nat /\ h.hash \in Hash
  BY DEF HeadType
<1>5. ASSUME NEW v \in Writers PROVE WriterSound(writer[v])'
  <2>1. CASE v = w
    BY <1>2, <2>1 DEF WriterSound, Anchored, Chained, Stored
  <2>2. CASE v # w
    <3>1. PICK q : q = writer[v]
      OBVIOUS
    <3>2. WriterSound(q) /\ writer'[v] = q /\ q \in WriterType
      BY <1>2, <2>2, <3>1 DEF WritersSound, ChainTypeOK
    <3>3. q.head # NoHead => q.head.seq \in Nat
      BY <3>2 DEF WriterType, HeadType
    <3>4. ~tampered /\ q.head # NoHead => Anchored(q.head.seq, q.head.hash)' /\ q.head.seq <= h.seq
      BY <1>1, <3>2 DEF WriterSound
    <3>5. ASSUME q.at = "update", NEW f \in q.todo \cap Chained'
          PROVE  table'[f].seq > q.head.seq
      <4>1. ~tampered /\ q.head # NoHead
        BY <3>2, <3>5 DEF WriterSound
      <4>2. CASE f = e
        BY <1>1, <1>4, <3>3, <3>4, <4>1, <4>2
      <4>3. CASE f \in Chained
        BY <1>1, <3>2, <3>5, <4>3 DEF WriterSound
      <4>4. QED
        BY <1>1, <4>2, <4>3
    <3>6. q.at = "ack" => tampered \/ q.ev \in Chained'
      BY <1>1, <3>2 DEF WriterSound
    <3>7. QED
      BY <3>2, <3>4, <3>5, <3>6 DEF WriterSound
  <2>3. QED
    BY <2>1, <2>2
<1>6. Settled'
  BY <1>1 DEF Settled, AckedIsRecorded
<1>7. Flawed'
  <2> SUFFICES ASSUME tampered PROVE \E f \in Chained', x \in All : FlawAt(f, x)'
    BY DEF Flawed
  <2>1. PICK f \in Chained, x \in All : FlawAt(f, x)
    BY DEF Flawed
  <2>2. x \notin queue' \cup InFlight' /\ x # e
    BY <1>2, <2>1 DEF FlawAt, InFlight
  <2>3. PICK p \in Hash : table[f].prev = Append(p, <<table[f].seq - 1, x>>)
    BY <2>1 DEF FlawAt
  <2>4. table[f].prev # Append(h.hash, <<h.seq + 1, e>>)
    <3>1. PICK y, z : y = <<table[f].seq - 1, x>> /\ z = <<h.seq + 1, e>>
      OBVIOUS
    <3>2. y # z
      BY <2>2, <3>1
    <3>3. Append(p, y) # Append(h.hash, z)
      BY <1>4, <2>3, <3>2, HashTells
    <3>4. QED
      BY <2>3, <3>1, <3>3
  <2>5. table'[f] = table[f] /\ f \in Chained'
    BY <1>1
  <2>6. ASSUME NEW g \in Chained', table'[g].seq = table[f].seq - 1,
               table'[g].hash = table[f].prev
        PROVE  ~Truthful(g)'
    <3>1. g \in Chained
      BY <1>1, <2>4, <2>6
    <3>2. QED
      BY <1>1, <2>1, <2>6, <3>1 DEF FlawAt
  <2>7. FlawAt(f, x)'
    BY <2>1, <2>2, <2>5, <2>6 DEF FlawAt
  <2>8. QED
    BY <2>5, <2>7
<1>8. WalkSound'
  <2>1. walk.at = "page" /\ (walk.late \/ ~tampered) => Anchored(walk.seq - 1, walk.prev)'
    BY <1>1 DEF WalkSound
  <2>2. ASSUME walk.at = "page", walk.late, NEW i \in 1..walk.seq - 1
        PROVE  \E g \in Chained' : table'[g].seq = i /\ Truthful(g)'
    <3>1. PICK g \in Chained : table[g].seq = i /\ Truthful(g)
      BY <2>2 DEF WalkSound
    <3>2. QED
      BY <1>1, <3>1
  <2>3. ASSUME walk.at = "page", walk.late,
               NEW f \in Chained', 1 < table'[f].seq, table'[f].seq < walk.seq
        PROVE  \E g \in Chained' : table'[g].seq = table'[f].seq - 1 /\ table'[g].hash = table'[f].prev
    <3>1. f \in Chained
      <4>1. ASSUME f = e PROVE FALSE
        <5>1. h.seq + 1 \in 1..walk.seq - 1
          BY <1>1, <1>4, <2>3, <4>1 DEF ChainTypeOK, WalkType
        <5>2. QED
          BY <2>3, <5>1 DEF WalkSound, Taken
      <4>2. QED
        BY <1>1, <4>1
    <3>2. PICK g \in Chained : table[g].seq = table[f].seq - 1 /\ table[g].hash = table[f].prev
      BY <1>1, <2>3, <3>1 DEF WalkSound
    <3>3. QED
      BY <1>1, <3>1, <3>2
  <2>4. QED
    BY <2>1, <2>2, <2>3 DEF WalkSound, AlarmIsTrue, Anchored
<1>9. QED
  BY <1>1, <1>3, <1>5, <1>6, <1>7, <1>8 DEF WritersSound

-----------------------------------------------------------------------------
(* Pages and walks.                                                        *)

\* The rows of the table each have a place of their own.
LEMMA RowsPlaced ==
  ASSUME ChainTypeOK, OnePlaceEach, NEW from \in Nat
  PROVE  Placing(RowsFrom(from))
<1> DEFINE F == {f \in Chained : table[f].seq >= from}
           R == {table[e] : e \in F}
           t == [e \in F |-> table[e]]
<1>1. RowsFrom(from) = R
  BY DEF RowsFrom
<1>2. IsFiniteSet(F)
  BY FS_Subset DEF OnePlaceEach
<1>3. t \in Surjection(F, R)
  <2>1. t \in [F -> R] /\ \A r \in R : \E e \in F : t[e] = r
    OBVIOUS
  <2> HIDE DEF t, R, F
  <2>2. QED
    BY <2>1 DEF Surjection
<1>4. IsFiniteSet(R)
  <2> HIDE DEF t, R, F
  <2> QED BY <1>2, <1>3, FS_Surjection
<1>5. \A r \in R : r.seq \in Nat
  BY TableType
<1>6. \A r, q \in R : r.seq = q.seq => r = q
  BY DEF OnePlaceEach
<1>7. QED
  BY <1>1, <1>4, <1>5, <1>6 DEF Placing

\* The rows of an untouched chain from a place on follow each other without a
\* gap and hang on the anchor before that place.
LEMMA OrderHolds ==
  ASSUME ChainTypeOK, OnePlaceEach, Linked, ~tampered, NEW from \in Nat \ {0}, NEW prev,
         Anchored(from - 1, prev)
  PROVE  LET order == InOrder(RowsFrom(from))
         IN \A i \in 1..Len(order) :
              RowHolds(order[i], from + i - 1, IF i = 1 THEN prev ELSE order[i - 1].hash)
<1> DEFINE R == RowsFrom(from)
           order == InOrder(R)
           n == Cardinality(R)
           N == Cardinality(Chained)
<1>1. /\ order \in Seq(R) /\ n \in Nat /\ Len(order) = n
      /\ \A i, j \in 1..n : i < j => order[i].seq < order[j].seq
      /\ \A r \in R : \E i \in 1..n : order[i] = r
  <2>1. Placing(R)
    BY RowsPlaced
  <2> HIDE DEF R
  <2>2. QED
    BY <2>1, InOrderSorts
<1>2. \A i \in 1..n : \E g \in Chained : order[i] = table[g] /\ table[g].seq >= from
  <2>1. \A i \in 1..n : order[i] \in R
    BY <1>1
  <2> HIDE DEF order, n
  <2>2. QED
    BY <2>1 DEF RowsFrom
<1>3. N \in Nat /\ {table[e].seq : e \in Chained} = 1..N
  BY FS_CardinalityType DEF OnePlaceEach, Linked
<1>4. \A p \in from..N : \E j \in 1..n : order[j].seq = p
  <2> TAKE p \in from..N
  <2>1. PICK g \in Chained : table[g].seq = p
    BY <1>3
  <2>2. table[g] \in R
    BY <1>3, <2>1 DEF RowsFrom
  <2>3. QED
    BY <1>1, <2>1, <2>2
<1>5. \A i \in 1..n : order[i].seq \in from..N
  <2> TAKE i \in 1..n
  <2>1. PICK g \in Chained : order[i] = table[g] /\ table[g].seq >= from
    BY <1>2
  <2>2. table[g].seq \in 1..N
    BY <1>3
  <2>3. QED
    BY <2>1, <2>2
<1> HIDE DEF R, order, n, N
<1>6. \A i \in 1..n : order[i].seq = from + i - 1
  <2> DEFINE B == {i \in 1..n : order[i].seq # from + i - 1}
  <2> SUFFICES ASSUME B # {} PROVE FALSE
    OBVIOUS
  <2>1. PICK i \in B : \A k \in B : i <= k
    <3>1. B \in SUBSET Nat
      OBVIOUS
    <3> HIDE DEF B
    <3> QED BY <3>1, LeastElement
  <2>2. i \in 1..n /\ order[i].seq # from + i - 1 /\ \A k \in 1..n : k < i => order[k].seq = from + k - 1
    BY <2>1
  <2> HIDE DEF B
  <2>3. order[i].seq > from + i - 1
    <3>1. CASE i = 1
      BY <1>5, <2>2, <3>1
    <3>2. CASE i # 1
      <4>1. i - 1 \in 1..n /\ i - 1 < i
        BY <1>1, <2>2, <3>2
      <4>2. order[i - 1].seq = from + (i - 1) - 1 /\ order[i - 1].seq < order[i].seq
        BY <1>1, <2>2, <4>1
      <4>3. order[i].seq \in Nat
        BY <1>5, <2>2
      <4>4. QED
        BY <2>2, <4>2, <4>3
    <3>3. QED
      BY <3>1, <3>2
  <2>4. from + i - 1 \in from..N
    BY <1>1, <1>3, <1>5, <2>2, <2>3
  <2>5. PICK j \in 1..n : order[j].seq = from + i - 1
    BY <1>4, <2>4
  <2>6. CASE j < i
    BY <1>1, <2>2, <2>5, <2>6
  <2>7. CASE j = i
    BY <2>2, <2>5, <2>7
  <2>8. CASE j > i
    <3>1. order[i].seq < order[j].seq
      BY <1>1, <2>2, <2>8
    <3>2. order[i].seq \in Nat
      BY <1>5, <2>2
    <3>3. QED
      BY <2>3, <2>5, <3>1, <3>2, <2>2
  <2>9. QED
    BY <1>1, <2>2, <2>6, <2>7, <2>8
<1>7. ASSUME NEW i \in 1..n
      PROVE  RowHolds(order[i], from + i - 1, IF i = 1 THEN prev ELSE order[i - 1].hash)
  <2>1. PICK g \in Chained : order[i] = table[g]
    BY <1>2
  <2>2. Truthful(g) /\ Anchored(table[g].seq - 1, table[g].prev) /\ table[g].seq = from + i - 1
    BY <1>6, <2>1 DEF Linked
  <2>3. table[g].prev = IF i = 1 THEN prev ELSE order[i - 1].hash
    <3>1. CASE i = 1
      <4>1. table[g].seq - 1 = from - 1
        BY <2>2, <3>1
      <4>2. Anchored(from - 1, table[g].prev)
        BY <2>2, <4>1
      <4>3. QED
        BY <3>1, <4>2, AnchorUnique
    <3>2. CASE i # 1
      <4>1. i - 1 \in 1..n
        BY <1>1, <3>2
      <4>2. PICK f \in Chained : order[i - 1] = table[f]
        BY <1>2, <4>1
      <4>3. table[f].seq = from + (i - 1) - 1
        BY <1>6, <4>1, <4>2
      <4>4. table[g].seq - 1 = table[f].seq
        BY <1>1, <2>2, <4>3
      <4>5. Anchored(table[f].seq, table[f].hash) /\ Anchored(table[f].seq, table[g].prev)
        BY <2>2, <4>4 DEF Anchored
      <4>6. table[f].hash = table[g].prev
        BY <4>5, AnchorUnique
      <4>7. QED
        BY <3>2, <4>2, <4>6
    <3>3. QED
      BY <3>1, <3>2
  <2>4. QED
    BY <2>1, <2>2, <2>3 DEF RowHolds, Truthful
<1>8. QED
  BY <1>1, <1>7 DEF order, R

\* A page is the first rows in order, and all of them when it is not full.
LEMMA PageIsPrefix ==
  ASSUME ChainTypeOK, OnePlaceEach, NEW from \in Nat \ {0}
  PROVE  LET page == Page(from)  order == InOrder(RowsFrom(from))
         IN /\ Len(page) \in Nat /\ Len(page) <= PageSize /\ Len(page) <= Len(order)
            /\ DOMAIN page = 1..Len(page) /\ \A i \in 1..Len(page) : page[i] = order[i]
            /\ \A i \in 1..Len(page) : \E g \in Chained : page[i] = table[g]
            /\ Len(page) < PageSize => \A g \in Chained : table[g].seq >= from =>
                 \E i \in 1..Len(page) : page[i] = table[g]
<1> DEFINE R == RowsFrom(from)
           order == InOrder(R)
           page == Page(from)
           k == IF Len(order) < PageSize THEN Len(order) ELSE PageSize
<1>1. /\ order \in Seq(R) /\ Len(order) \in Nat
      /\ \A r \in R : \E i \in 1..Len(order) : order[i] = r
  <2>1. Placing(R)
    BY RowsPlaced
  <2> HIDE DEF R
  <2>2. QED
    BY <2>1, InOrderSorts
<1>2. page = SubSeq(order, 1, k)
  BY DEF Page
<1>3. \A r \in R : \E g \in Chained : r = table[g]
  BY DEF RowsFrom
<1>4. \A g \in Chained : table[g].seq >= from => table[g] \in R
  BY DEF RowsFrom
<1> HIDE DEF R, order, page
<1>5. k \in Nat /\ k <= Len(order) /\ k <= PageSize
  BY <1>1, ChainAssumption
<1>6. page \in Seq(R) /\ Len(page) = k /\ \A i \in 1..k : page[i] = order[i]
  BY <1>1, <1>2, <1>5
<1>7. DOMAIN page = 1..Len(page) /\ \A i \in 1..Len(page) : page[i] \in R
  BY <1>6
<1>8. Len(page) < PageSize => Len(page) = Len(order)
  BY <1>1, <1>6
<1>9. QED
  BY <1>1, <1>3, <1>4, <1>5, <1>6, <1>7, <1>8 DEF order, page, R

\* A step of the verification leaves the rest.
LEMMA WalkStep ==
  ASSUME ChainInv, UNCHANGED <<ledger, writer, queue, acked, faults>>, walk' \in WalkType,
         WalkSound'
  PROVE  ChainInv'
<1> USE DEF ChainInv, ledger
<1>1. /\ Chained' = Chained /\ Null' = Null /\ \A s, x : Anchored(s, x)' <=> Anchored(s, x)
      /\ OnePlaceEach' /\ Linked'
  BY TableStays
<1>2. ChainTypeOK'
  BY DEF ChainTypeOK
<1>3. WritersSound'
  <2> SUFFICES ASSUME NEW v \in Writers PROVE WriterSound(writer[v])'
    BY DEF WritersSound
  <2>1. PICK q : q = writer'[v]
    OBVIOUS
  <2>2. WriterSound(q)
    BY <2>1 DEF WritersSound
  <2>3. QED
    BY <1>1, <2>1, <2>2 DEF WriterSound
<1>4. Settled'
  BY <1>1 DEF Settled, AckedIsRecorded
<1>5. Flawed'
  BY FlawStays DEF InFlight
<1>6. QED
  BY <1>1, <1>2, <1>3, <1>4, <1>5

LEMMA StartWalkKeeps ==
  ASSUME ChainInv, StartWalk PROVE ChainInv'
<1>1. /\ UNCHANGED <<ledger, writer, queue, acked, faults>>
      /\ walk' = [at |-> "page", seq |-> 1, prev |-> Genesis, late |-> tampered]
  BY DEF StartWalk, NoWalk
<1>2. walk' \in WalkType
  BY <1>1, HashType DEF WalkType, ChainInv, ChainTypeOK
<1>3. Anchored(walk.seq - 1, walk.prev)'
  BY <1>1 DEF Anchored
<1>4. tampered' = tampered
  BY <1>1 DEF ledger
<1>5. WalkSound'
  <2>1. ASSUME NEW f \in Chained', 1 < table'[f].seq, table'[f].seq < 1 PROVE FALSE
    <3>1. ChainTypeOK /\ table' = table /\ Chained' = Chained
      BY <1>1, TableStays DEF ChainInv, ledger
    <3>2. table'[f].seq \in Nat
      BY <3>1, TableType
    <3>3. QED
      BY <2>1, <3>2
  <2>2. 1..walk'.seq - 1 = {}
    BY <1>1
  <2>3. QED
    BY <1>1, <1>3, <1>4, <2>1, <2>2 DEF WalkSound, AlarmIsTrue
<1>6. QED
  BY <1>1, <1>2, <1>5, WalkStep

\* A page that holds shows truthful rows at the next places.
LEMMA PageShows ==
  ASSUME ChainInv, walk.at = "page", NEW page, page = Page(walk.seq),
         PageHolds(page, walk.seq, walk.prev)
  PROVE  \A i \in 1..Len(page) : \E g \in Chained :
           /\ page[i] = table[g] /\ table[g].seq = walk.seq + i - 1 /\ Truthful(g)
           /\ table[g].prev = IF i = 1 THEN walk.prev ELSE page[i - 1].hash
<1>1. walk.seq \in Nat \ {0} /\ ChainTypeOK /\ OnePlaceEach
  BY DEF ChainInv, ChainTypeOK, WalkType
<1>2. DOMAIN page = 1..Len(page) /\ \A i \in 1..Len(page) : \E g \in Chained : page[i] = table[g]
  BY <1>1, PageIsPrefix
<1>3. QED
  BY <1>2 DEF PageHolds, RowHolds, Truthful

\* What a walk begun after tampering has passed: on the page, too, every row
\* hangs on a truthful one.
LEMMA PagePassed ==
  ASSUME ChainInv, walk.at = "page", walk.late, NEW page, page = Page(walk.seq),
         PageHolds(page, walk.seq, walk.prev),
         NEW i \in 1..Len(page), NEW f \in Chained, page[i] = table[f], table[f].seq > 1
  PROVE  \E g \in Chained : /\ table[g].seq = table[f].seq - 1 /\ table[g].hash = table[f].prev
                            /\ Truthful(g)
<1>1. \A j \in 1..Len(page) : \E g \in Chained :
           /\ page[j] = table[g] /\ table[g].seq = walk.seq + j - 1 /\ Truthful(g)
           /\ table[g].prev = IF j = 1 THEN walk.prev ELSE page[j - 1].hash
  BY PageShows
<1>2. walk.seq \in Nat \ {0} /\ OnePlaceEach /\ WalkSound /\ Len(page) \in Nat
  BY PageIsPrefix DEF ChainInv, ChainTypeOK, WalkType
<1>3. table[f].seq = walk.seq + i - 1 /\ table[f].prev = IF i = 1 THEN walk.prev ELSE page[i - 1].hash
  BY <1>1
<1>4. CASE i = 1
  <2>1. Anchored(walk.seq - 1, walk.prev) /\ walk.seq - 1 # 0 /\ walk.seq - 1 \in 1..walk.seq - 1
    BY <1>2, <1>3, <1>4 DEF WalkSound
  <2>2. PICK g \in Chained : table[g].seq = walk.seq - 1 /\ table[g].hash = walk.prev
    BY <2>1 DEF Anchored
  <2>3. PICK k \in Chained : table[k].seq = walk.seq - 1 /\ Truthful(k)
    BY <1>2, <2>1 DEF WalkSound
  <2>4. k = g
    BY <1>2, <2>2, <2>3 DEF OnePlaceEach
  <2>5. QED
    BY <1>2, <1>3, <1>4, <2>2, <2>3, <2>4
<1>5. CASE i # 1
  <2>1. i - 1 \in 1..Len(page)
    BY <1>2, <1>5
  <2>2. PICK g \in Chained : page[i - 1] = table[g] /\ table[g].seq = walk.seq + (i - 1) - 1 /\ Truthful(g)
    BY <1>1, <2>1
  <2>3. table[g].seq = table[f].seq - 1
    BY <1>2, <1>3, <2>2
  <2>4. QED
    BY <1>3, <1>5, <2>2, <2>3
<1>6. QED
  BY <1>4, <1>5

LEMMA WalkPageKeeps ==
  ASSUME ChainInv, WalkPage PROVE ChainInv'
<1>1. PICK page : page = Page(walk.seq)
  OBVIOUS
<1>2. PICK n : n = Len(page)
  OBVIOUS
<1>3. /\ walk.at = "page" /\ UNCHANGED <<ledger, writer, queue, acked, faults>>
      /\ walk' = IF ~PageHolds(page, walk.seq, walk.prev) THEN [walk EXCEPT !.at = "failed"]
                 ELSE IF n < PageSize THEN [walk EXCEPT !.at = "verified"]
                 ELSE [walk EXCEPT !.seq = @ + n, !.prev = page[n].hash]
  BY <1>1, <1>2 DEF WalkPage
<1>4. /\ ChainTypeOK /\ OnePlaceEach /\ WalkSound /\ walk \in WalkType /\ walk.seq \in Nat \ {0}
      /\ Linked /\ Flawed
  BY DEF ChainInv, ChainTypeOK, WalkType
<1>5. /\ n \in Nat /\ n <= PageSize /\ DOMAIN page = 1..n
      /\ n <= Len(InOrder(RowsFrom(walk.seq)))
      /\ \A i \in 1..n : page[i] = InOrder(RowsFrom(walk.seq))[i]
      /\ n < PageSize => \A g \in Chained : table[g].seq >= walk.seq =>
            \E i \in 1..n : page[i] = table[g]
  BY <1>1, <1>2, <1>4, PageIsPrefix
<1>6. PageSize \in Nat \ {0}
  BY ChainAssumption
<1>7. /\ table' = table /\ Chained' = Chained /\ tampered' = tampered
      /\ \A s, x : Anchored(s, x)' <=> Anchored(s, x)
      /\ \A g : Truthful(g)' <=> Truthful(g)
  <2>1. UNCHANGED <<table, tampered>>
    BY <1>3 DEF ledger
  <2>2. QED
    BY <2>1, TableStays
<1>8. CASE ~PageHolds(page, walk.seq, walk.prev)
  <2>1. walk' = [walk EXCEPT !.at = "failed"]
    BY <1>3, <1>8
  <2>2. tampered
    <3> SUFFICES ASSUME ~tampered PROVE FALSE
      OBVIOUS
    <3>1. Anchored(walk.seq - 1, walk.prev)
      BY <1>3, <1>4 DEF WalkSound
    <3>2. PICK o : o = InOrder(RowsFrom(walk.seq))
      OBVIOUS
    <3>3. \A i \in 1..Len(o) : RowHolds(o[i], walk.seq + i - 1, IF i = 1 THEN walk.prev ELSE o[i - 1].hash)
      BY <1>4, <3>1, <3>2, OrderHolds
    <3>4. Len(o) \in Nat
      <4>1. PICK R : R = RowsFrom(walk.seq)
        OBVIOUS
      <4>2. Placing(R)
        BY <1>4, <4>1, RowsPlaced
      <4>3. QED
        BY <3>2, <4>1, <4>2, InOrderSorts
    <3>5. ASSUME NEW i \in DOMAIN page
          PROVE  RowHolds(page[i], walk.seq + i - 1, IF i = 1 THEN walk.prev ELSE page[i - 1].hash)
      <4>1. i \in 1..Len(o) /\ page[i] = o[i]
        BY <1>5, <3>2, <3>4
      <4>2. i # 1 => page[i - 1] = o[i - 1]
        BY <1>5, <3>2
      <4>3. QED
        BY <3>3, <4>1, <4>2
    <3>6. QED
      BY <1>8, <3>5 DEF PageHolds
  <2>3. walk' \in WalkType
    BY <1>4, <2>1 DEF WalkType
  <2>4. WalkSound'
    BY <1>4, <1>7, <2>1, <2>2 DEF WalkSound, AlarmIsTrue, WalkType
  <2>5. QED
    BY <1>3, <2>3, <2>4, WalkStep
<1>9. CASE PageHolds(page, walk.seq, walk.prev) /\ n < PageSize
  <2>1. walk' = [walk EXCEPT !.at = "verified"]
    BY <1>3, <1>9
  <2>2. ~walk.late
    <3> SUFFICES ASSUME walk.late PROVE FALSE
      OBVIOUS
    <3>1. PICK f \in Chained, e \in All : FlawAt(f, e)
      BY <1>4 DEF WalkSound, Flawed
    <3>2. table[f].seq > 1 /\ table[f].seq \in Nat
      BY <1>4, <3>1, TableType DEF FlawAt
    <3>3. \E g \in Chained : /\ table[g].seq = table[f].seq - 1 /\ table[g].hash = table[f].prev
                             /\ Truthful(g)
      <4>1. CASE table[f].seq < walk.seq
        <5>1. PICK g \in Chained : table[g].seq = table[f].seq - 1 /\ table[g].hash = table[f].prev
          BY <1>3, <1>4, <3>2, <4>1 DEF WalkSound
        <5>2. table[f].seq - 1 \in 1..walk.seq - 1
          BY <1>4, <3>2, <4>1
        <5>3. PICK k \in Chained : table[k].seq = table[f].seq - 1 /\ Truthful(k)
          BY <1>3, <1>4, <5>2 DEF WalkSound
        <5>4. k = g
          BY <1>4, <5>1, <5>3 DEF OnePlaceEach
        <5>5. QED
          BY <5>1, <5>3, <5>4
      <4>2. CASE table[f].seq >= walk.seq
        <5>1. PICK i \in 1..n : page[i] = table[f]
          BY <1>5, <1>9, <4>2
        <5>2. QED
          BY <1>1, <1>2, <1>3, <1>9, <3>2, <5>1, PagePassed
      <4>3. QED
        BY <1>4, <3>2, <4>1, <4>2
    <3>4. QED
      BY <3>1, <3>3 DEF FlawAt
  <2>3. walk' \in WalkType
    BY <1>4, <2>1 DEF WalkType
  <2>4. WalkSound'
    BY <1>4, <1>7, <2>1, <2>2 DEF WalkSound, AlarmIsTrue, WalkType
  <2>5. QED
    BY <1>3, <2>3, <2>4, WalkStep
<1>10. CASE PageHolds(page, walk.seq, walk.prev) /\ ~(n < PageSize)
  <2>1. walk' = [walk EXCEPT !.seq = @ + n, !.prev = page[n].hash] /\ n = PageSize /\ n \in 1..n
    BY <1>3, <1>5, <1>6, <1>10
  <2>2. \A i \in 1..n : \E g \in Chained :
          page[i] = table[g] /\ table[g].seq = walk.seq + i - 1 /\ Truthful(g)
    BY <1>1, <1>2, <1>3, <1>10, PageShows
  <2>3. PICK l \in Chained : page[n] = table[l] /\ table[l].seq = walk.seq + n - 1
    BY <2>1, <2>2
  <2>4. table[l].hash \in Hash
    BY <1>4, <2>3, TableType
  <2>5. /\ walk'.at = "page" /\ walk'.seq = walk.seq + n /\ walk'.prev = table[l].hash
        /\ walk'.late = walk.late /\ walk' \in WalkType /\ walk'.seq - 1 = table[l].seq
    <3>1. page[n].hash \in Hash /\ walk.seq + n \in Nat \ {0}
      BY <1>4, <1>5, <2>3, <2>4
    <3>2. walk' \in WalkType
      BY <1>4, <2>1, <3>1 DEF WalkType
    <3>3. /\ walk'.at = "page" /\ walk'.seq = walk.seq + n /\ walk'.prev = page[n].hash
          /\ walk'.late = walk.late
      BY <1>3, <1>4, <2>1 DEF WalkType
    <3>4. page[n].hash = table[l].hash
      BY <2>3
    <3>5. walk'.seq - 1 = table[l].seq
      <4>1. walk.seq \in Nat /\ n \in Nat
        BY <1>4, <1>5
      <4>2. (walk.seq + n) - 1 = walk.seq + (n - 1)
        BY <4>1
      <4>3. QED
        BY <2>3, <3>3, <4>2
    <3>6. QED
      BY <3>2, <3>3, <3>4, <3>5
  <2>6. PICK s, x : s = walk'.seq - 1 /\ x = walk'.prev /\ Anchored(s, x)
    <3>1. PICK s, x : s = walk'.seq - 1 /\ x = walk'.prev
      OBVIOUS
    <3>2. Anchored(s, x)
      BY <2>3, <2>5, <3>1 DEF Anchored
    <3>3. QED
      BY <3>1, <3>2
  <2>7. ASSUME walk.late, NEW i \in 1..walk'.seq - 1
        PROVE  \E g \in Chained : table[g].seq = i /\ Truthful(g)
    <3>1. CASE i < walk.seq
      <4>1. i \in 1..walk.seq - 1
        BY <1>4, <3>1
      <4>2. QED
        BY <1>3, <1>4, <2>7, <4>1 DEF WalkSound
    <3>2. CASE i >= walk.seq
      <4>1. PICK j \in 1..n : i = walk.seq + j - 1
        <5>1. i - walk.seq + 1 \in 1..n /\ i = walk.seq + (i - walk.seq + 1) - 1
          BY <1>4, <1>5, <2>5, <3>2
        <5>2. QED
          BY <5>1
      <4>2. QED
        BY <2>2, <4>1
    <3>3. QED
      BY <1>4, <3>1, <3>2
  <2>8. ASSUME walk.late, NEW f \in Chained, 1 < table[f].seq, table[f].seq < walk'.seq
        PROVE  \E g \in Chained : table[g].seq = table[f].seq - 1 /\ table[g].hash = table[f].prev
    <3>1. table[f].seq \in Nat
      BY <1>4, TableType
    <3>2. CASE table[f].seq < walk.seq
      BY <1>3, <1>4, <2>8, <3>2 DEF WalkSound
    <3>3. CASE table[f].seq >= walk.seq
      <4>1. PICK j \in 1..n : table[f].seq = walk.seq + j - 1
        <5>1. /\ table[f].seq - walk.seq + 1 \in 1..n
              /\ table[f].seq = walk.seq + (table[f].seq - walk.seq + 1) - 1
          BY <1>4, <1>5, <2>5, <2>8, <3>1, <3>3
        <5>2. QED
          BY <5>1
      <4>2. PICK g \in Chained : page[j] = table[g] /\ table[g].seq = walk.seq + j - 1
        BY <2>2
      <4>3. g = f
        BY <1>4, <4>1, <4>2 DEF OnePlaceEach
      <4>4. page[j] = table[f] /\ table[f].seq > 1
        BY <2>8, <3>1, <4>2, <4>3
      <4>5. QED
        BY <1>1, <1>2, <1>3, <1>10, <2>8, <4>4, PagePassed
    <3>4. QED
      BY <1>4, <3>1, <3>2, <3>3
  <2>9. WalkSound'
    <3>1. walk'.late => tampered'
      BY <1>4, <1>7, <2>5 DEF WalkSound
    <3>2. Anchored(walk.seq - 1, walk.prev)'
      <4>1. Anchored(s, x)'
        BY <1>7, <2>6
      <4>2. QED
        BY <2>6, <4>1 DEF Anchored
    <3>3. ASSUME walk.late, NEW i \in 1..walk'.seq - 1
          PROVE  \E g \in Chained' : table'[g].seq = i /\ Truthful(g)'
      <4>1. PICK g \in Chained : table[g].seq = i /\ Truthful(g)
        BY <2>7, <3>3
      <4>2. QED
        BY <1>7, <4>1
    <3>4. QED
      BY <1>7, <2>5, <2>8, <3>1, <3>2, <3>3 DEF WalkSound, AlarmIsTrue
  <2>10. QED
    BY <1>3, <2>5, <2>9, WalkStep
<1>11. QED
  BY <1>8, <1>9, <1>10

-----------------------------------------------------------------------------
(* The steps of a writer.                                                  *)

LEMMA WriterFacts ==
  ASSUME ChainInv, NEW w \in Writers
  PROVE  \E q \in WriterType :
           /\ q = writer[w] /\ WriterSound(q) /\ q.ev \in InFlight \cup {"none"}
           /\ q.at \in {"down", "backfill", "rows", "update", "recreate", "ready", "load", "insert", "ack"}
           /\ q.head \in HeadType \cup {NoHead} /\ q.ev \in Events \cup {"none"} /\ q.attempt \in 0..1
           /\ q.todo \subseteq LegacyEvents
<1>1. writer[w] \in WriterType /\ WriterSound(writer[w])
  BY DEF ChainInv, ChainTypeOK, WritersSound
<1>2. writer[w].ev \in InFlight \cup {"none"}
  BY DEF InFlight
<1>3. QED
  BY <1>1, <1>2 DEF WriterType

\* Booting, apart from the rows chained.
LEMMA BootKeeps ==
  ASSUME ChainInv, NEW w \in Writers,
         DropTriggers(w) \/ ReadHead(w) \/ ReadRows(w) \/ Backfilled(w) \/ RecreateTriggers(w)
  PROVE  ChainInv'
<1> USE DEF ledger, Goto
<1>1. PICK q \in WriterType :
           /\ q = writer[w] /\ WriterSound(q) /\ q.ev \in InFlight \cup {"none"}
           /\ q.head \in HeadType \cup {NoHead} /\ q.ev \in Events \cup {"none"} /\ q.attempt \in 0..1
           /\ q.todo \subseteq LegacyEvents
  BY WriterFacts
<1>2. /\ ChainTypeOK /\ OnePlaceEach /\ Settled /\ writer \in [Writers -> WriterType]
      /\ queue \subseteq Events /\ acked \subseteq Events /\ triggers \in BOOLEAN /\ faults \in Nat
  BY DEF ChainInv, ChainTypeOK
<1>3. ASSUME NEW r \in WriterType, WriterSound(r), r.ev = q.ev,
             writer' = [writer EXCEPT ![w] = r],
             UNCHANGED <<table, queue, acked, walk, tampered, faults>>, triggers' \in BOOLEAN
      PROVE  ChainInv'
  BY <1>1, <1>2, <1>3, QuietStep
<1>4. CASE DropTriggers(w) \/ Backfilled(w) \/ (ReadHead(w) /\ Null = {})
  <2>1. PICK at \in {"backfill", "recreate"} : writer' = [writer EXCEPT ![w].at = at]
    BY <1>4 DEF DropTriggers, Backfilled, ReadHead
  <2>2. PICK r : r = [q EXCEPT !.at = at]
    OBVIOUS
  <2>3. r \in WriterType /\ r.ev = q.ev /\ WriterSound(r)
    BY <1>1, <2>1, <2>2 DEF WriterType, WriterSound
  <2>4. writer' = [writer EXCEPT ![w] = r]
    BY <1>1, <1>2, <2>1, <2>2 DEF WriterType
  <2>5. UNCHANGED <<table, queue, acked, walk, tampered, faults>> /\ triggers' \in BOOLEAN
    BY <1>2, <1>4 DEF DropTriggers, Backfilled, ReadHead
  <2>6. QED
    BY <1>3, <2>3, <2>4, <2>5
<1>5. CASE ReadHead(w) /\ Null # {}
  <2>1. PICK h : h = ChainHead
    OBVIOUS
  <2>2. h \in HeadType /\ h # NoHead /\ Anchored(h.seq, h.hash)
    BY <1>2, <2>1, HeadIsLast
  <2>3. writer' = [writer EXCEPT ![w].at = "rows", ![w].head = h]
    BY <1>5, <2>1 DEF ReadHead
  <2>4. PICK r : r = [q EXCEPT !.at = "rows", !.head = h]
    OBVIOUS
  <2>5. ~tampered
    BY <1>2, <1>5 DEF Settled
  <2>6. r \in WriterType /\ r.ev = q.ev /\ WriterSound(r)
    BY <1>1, <2>2, <2>4, <2>5 DEF WriterType, WriterSound
  <2>7. writer' = [writer EXCEPT ![w] = r]
    BY <1>1, <1>2, <2>3, <2>4 DEF WriterType
  <2>8. QED
    BY <1>2, <1>3, <1>5, <2>6, <2>7 DEF ReadHead
<1>6. CASE ReadRows(w)
  <2>1. PICK rows : rows = Null
    OBVIOUS
  <2>2. rows \subseteq LegacyEvents /\ rows \cap Chained = {}
    BY <1>2, <2>1 DEF Null, Stored, All, OnePlaceEach
  <2>3. writer' = [writer EXCEPT ![w].at = "update", ![w].todo = rows] /\ q.at = "rows"
    BY <1>1, <1>6, <2>1 DEF ReadRows
  <2>4. PICK r : r = [q EXCEPT !.at = "update", !.todo = rows]
    OBVIOUS
  <2>5. r \in WriterType /\ r.ev = q.ev /\ WriterSound(r)
    BY <1>1, <2>2, <2>3, <2>4 DEF WriterType, WriterSound
  <2>6. writer' = [writer EXCEPT ![w] = r]
    BY <1>1, <1>2, <2>3, <2>4 DEF WriterType
  <2>7. QED
    BY <1>2, <1>3, <1>6, <2>5, <2>6 DEF ReadRows
<1>7. CASE RecreateTriggers(w)
  <2>1. writer' = [writer EXCEPT ![w].at = "ready", ![w].head = NoHead]
    BY <1>7 DEF RecreateTriggers
  <2>2. PICK r : r = [q EXCEPT !.at = "ready", !.head = NoHead]
    OBVIOUS
  <2>3. r \in WriterType /\ r.ev = q.ev /\ WriterSound(r)
    BY <1>1, <2>2 DEF WriterType, WriterSound
  <2>4. writer' = [writer EXCEPT ![w] = r]
    BY <1>1, <1>2, <2>1, <2>2 DEF WriterType
  <2>5. QED
    BY <1>3, <1>7, <2>3, <2>4 DEF RecreateTriggers
<1>8. QED
  BY <1>4, <1>5, <1>6, <1>7

\* Consuming, apart from the row inserted.
LEMMA ConsumeKeeps ==
  ASSUME ChainInv, NEW w \in Writers,
         (\E e \in Events : Fetch(w, e)) \/ LoadHead(w) \/ Conflict(w) \/ Ack(w)
  PROVE  ChainInv'
<1> USE DEF ledger
<1>1. PICK q \in WriterType :
           /\ q = writer[w] /\ WriterSound(q) /\ q.ev \in InFlight \cup {"none"}
           /\ q.at \in {"down", "backfill", "rows", "update", "recreate", "ready", "load", "insert", "ack"}
           /\ q.head \in HeadType \cup {NoHead} /\ q.ev \in Events \cup {"none"} /\ q.attempt \in 0..1
           /\ q.todo \subseteq LegacyEvents
  BY WriterFacts
<1>2. /\ ChainTypeOK /\ OnePlaceEach /\ Settled /\ writer \in [Writers -> WriterType]
      /\ queue \subseteq Events /\ acked \subseteq Events /\ triggers \in BOOLEAN /\ faults \in Nat
  BY DEF ChainInv, ChainTypeOK
<1>3. ASSUME NEW r \in WriterType, WriterSound(r), writer' = [writer EXCEPT ![w] = r],
             UNCHANGED <<ledger, walk, faults>>,
             queue' \subseteq Events, queue' \cup ({r.ev} \ {"none"}) \subseteq queue \cup InFlight,
             acked' \subseteq Events, tampered \/ acked' \subseteq acked \cup Chained \cup Malformed
      PROVE  ChainInv'
  BY <1>1, <1>2, <1>3, QuietStep
<1>4. ASSUME NEW e \in Events, Fetch(w, e) PROVE ChainInv'
  <2>1. CASE e \in Malformed
    <3>1. writer' = [writer EXCEPT ![w] = q]
      BY <1>1, <1>2, <1>4, <2>1 DEF Fetch
    <3>2. queue' = queue \ {e} /\ acked' = acked \cup {e} /\ UNCHANGED <<ledger, walk, faults>>
      BY <1>4, <2>1 DEF Fetch
    <3>3. QED
      BY <1>1, <1>2, <1>3, <2>1, <3>1, <3>2
  <2>2. CASE e \notin Malformed
    <3>1. PICK at : at = IF q.head = NoHead THEN "load" ELSE "insert"
      OBVIOUS
    <3>2. PICK r : r = [q EXCEPT !.ev = e, !.attempt = 0, !.at = at]
      OBVIOUS
    <3>3. r \in WriterType
      <4>1. at \in {"load", "insert"} /\ 0 \in 0..1
        BY <3>1
      <4>2. QED
        BY <1>1, <3>2, <4>1 DEF WriterType
    <3>4. r.ev = e /\ r.head = q.head /\ r.at = at
      BY <1>1, <3>2 DEF WriterType
    <3>5. WriterSound(r)
      BY <1>1, <2>2, <3>1, <3>4 DEF WriterSound
    <3>6. writer' = [writer EXCEPT ![w].ev = e, ![w].attempt = 0, ![w].at = at]
      BY <1>1, <1>4, <2>2, <3>1 DEF Fetch
    <3>7. writer' = [writer EXCEPT ![w] = r]
      BY <1>1, <1>2, <3>2, <3>6 DEF WriterType
    <3>8. /\ queue' = queue \ {e} /\ e \in queue /\ acked' = acked
          /\ UNCHANGED <<ledger, walk, faults>>
      BY <1>4, <2>2 DEF Fetch
    <3>9. QED
      BY <1>2, <1>3, <3>3, <3>4, <3>5, <3>7, <3>8
  <2>3. QED
    BY <2>1, <2>2
<1>5. ASSUME LoadHead(w) PROVE ChainInv'
  <2>1. PICK h : h = ChainHead
    OBVIOUS
  <2>2. h \in HeadType /\ h # NoHead /\ Anchored(h.seq, h.hash)
    BY <1>2, <2>1, HeadIsLast
  <2>3. writer' = [writer EXCEPT ![w].at = "insert", ![w].head = h] /\ q.at = "load"
    BY <1>1, <1>5, <2>1 DEF LoadHead
  <2>4. PICK r : r = [q EXCEPT !.at = "insert", !.head = h]
    OBVIOUS
  <2>5. r \in WriterType /\ r.ev = q.ev /\ WriterSound(r)
    BY <1>1, <2>2, <2>3, <2>4 DEF WriterType, WriterSound
  <2>6. writer' = [writer EXCEPT ![w] = r]
    BY <1>1, <1>2, <2>3, <2>4 DEF WriterType
  <2>7. UNCHANGED <<ledger, queue, acked, walk, faults>>
    BY <1>5 DEF LoadHead
  <2>8. QED
    BY <1>1, <1>2, <1>3, <2>5, <2>6, <2>7
<1>6. PICK naked : naked = [q EXCEPT !.at = "ready", !.ev = "none", !.attempt = 0]
  OBVIOUS
<1>7. naked \in WriterType /\ naked.ev = "none" /\ WriterSound(naked) /\ naked = Naked(w)
  <2>1. naked \in WriterType /\ naked = Naked(w)
    <3>1. 0 \in 0..1
      OBVIOUS
    <3>2. naked = Naked(w)
      BY <1>1, <1>6 DEF Naked
    <3>3. QED
      BY <1>1, <1>6, <3>1, <3>2 DEF WriterType
  <2>2. naked.at = "ready" /\ naked.ev = "none" /\ naked.head = q.head
    BY <1>1, <1>6 DEF WriterType
  <2>3. QED
    BY <1>1, <2>1, <2>2, ChainAssumption DEF WriterSound
<1>8. ASSUME Conflict(w) PROVE ChainInv'
  <2>1. q.at = "insert" /\ q.ev \in Events /\ q.ev \in InFlight
    BY <1>1, <1>8, ChainAssumption DEF Conflict, WriterSound
  <2>2. UNCHANGED <<ledger, acked, walk, faults>>
    BY <1>8 DEF Conflict
  <2>3. CASE writer' = [writer EXCEPT ![w].at = "load", ![w].attempt = 1] /\ UNCHANGED queue
    <3>1. PICK r : r = [q EXCEPT !.at = "load", !.attempt = 1]
      OBVIOUS
    <3>2. r \in WriterType /\ r.ev = q.ev /\ WriterSound(r)
      <4>1. 1 \in 0..1
        OBVIOUS
      <4>2. r \in WriterType
        BY <1>1, <3>1, <4>1 DEF WriterType
      <4>3. r.ev = q.ev /\ r.head = q.head /\ r.at = "load"
        BY <1>1, <3>1 DEF WriterType
      <4>4. QED
        BY <1>1, <2>1, <4>2, <4>3 DEF WriterSound
    <3>3. writer' = [writer EXCEPT ![w] = r]
      BY <1>1, <1>2, <2>3, <3>1 DEF WriterType
    <3>4. QED
      BY <1>1, <1>2, <1>3, <2>2, <2>3, <3>2, <3>3
  <2>4. CASE writer' = [writer EXCEPT ![w] = naked] /\ queue' = queue \cup ({q.ev} \ acked)
    BY <1>2, <1>3, <1>7, <2>1, <2>2, <2>4
  <2>5. QED
    BY <1>1, <1>7, <1>8, <2>3, <2>4 DEF Conflict
<1>9. ASSUME Ack(w) PROVE ChainInv'
  <2>1. q.at = "ack" /\ q.ev \in Events /\ (tampered \/ q.ev \in Chained)
    BY <1>1, <1>9 DEF Ack, WriterSound
  <2>2. /\ acked' = acked \cup {q.ev} /\ queue' = queue \ {q.ev}
        /\ writer' = [writer EXCEPT ![w] = naked] /\ UNCHANGED <<ledger, walk, faults>>
    BY <1>1, <1>7, <1>9 DEF Ack
  <2>3. QED
    BY <1>2, <1>3, <1>7, <2>1, <2>2
<1>10. QED
  BY <1>4, <1>5, <1>8, <1>9

\* The row inserted, and its failure.
LEMMA InsertKeeps ==
  ASSUME ChainInv, NEW w \in Writers, Insert(w) \/ InsertFails(w)
  PROVE  ChainInv' /\ (table' = table \/ AddsRow)
<1> USE DEF ledger
<1>1. PICK q \in WriterType :
           /\ q = writer[w] /\ WriterSound(q) /\ q.ev \in InFlight \cup {"none"}
           /\ q.at \in {"down", "backfill", "rows", "update", "recreate", "ready", "load", "insert", "ack"}
           /\ q.head \in HeadType \cup {NoHead} /\ q.ev \in Events \cup {"none"} /\ q.attempt \in 0..1
           /\ q.todo \subseteq LegacyEvents
  BY WriterFacts
<1>2. /\ ChainTypeOK /\ OnePlaceEach /\ Linked /\ writer \in [Writers -> WriterType]
      /\ queue \subseteq Events /\ acked \subseteq Events /\ triggers \in BOOLEAN /\ faults \in Nat
  BY DEF ChainInv, ChainTypeOK
<1>3. PICK e, h : e = q.ev /\ h = q.head
  OBVIOUS
<1>4. /\ q.at = "insert" /\ e \in Events /\ e \notin Malformed /\ "none" \notin Malformed
      /\ e \in All /\ e \in InFlight
      /\ h \in HeadType /\ h # NoHead
      /\ ~tampered => Anchored(h.seq, h.hash)
  BY <1>1, <1>3, ChainAssumption DEF Insert, InsertFails, WriterSound, All
<1>5. h.seq \in Nat /\ h.hash \in Hash
  BY <1>4 DEF HeadType
<1>6. PICK new : new = Row(h.seq + 1, h.hash, e)
  OBVIOUS
<1>7. /\ new \in RowType /\ new.seq = h.seq + 1
      /\ new.hash = Append(h.hash, <<h.seq + 1, e>>) /\ NewRow(w) = new
  <2>1. PICK s \in Nat, p \in Hash : s = h.seq + 1 /\ p = h.hash
    BY <1>5
  <2>2. new = Row(s, p, e)
    BY <1>6, <2>1
  <2>3. new \in RowType /\ new.seq = s /\ new.hash = Append(p, <<s, e>>)
    BY <1>4, <2>2, NewRowType
  <2>4. NewRow(w) = new
    BY <1>1, <1>3, <1>6 DEF NewRow
  <2>5. QED
    BY <2>1, <2>3, <2>4
<1>8. PICK naked : naked = [q EXCEPT !.at = "ready", !.ev = "none", !.attempt = 0]
  OBVIOUS
<1>9. /\ naked \in WriterType /\ naked.ev = "none" /\ naked = Naked(w)
      /\ naked.at = "ready" /\ naked.head = h
  <2>1. naked \in WriterType /\ naked = Naked(w)
    <3>1. 0 \in 0..1
      OBVIOUS
    <3>2. naked = Naked(w)
      BY <1>1, <1>8 DEF Naked
    <3>3. QED
      BY <1>1, <1>8, <3>1, <3>2 DEF WriterType
  <2>2. QED
    BY <1>1, <1>3, <1>8, <2>1 DEF WriterType
<1>10. CASE Inserts(w) = "inserted" /\ table' = [table EXCEPT ![e] = new]
  <2>1. e \notin Stored /\ e \notin Chained /\ ~Taken(h.seq + 1)
    BY <1>1, <1>3, <1>10 DEF Inserts, Chained
  <2>2. tampered' = tampered /\ UNCHANGED <<walk, triggers, acked>> /\ faults' \in Nat
    BY <1>2 DEF Insert, InsertFails
  <2>3. /\ Chained' = Chained \cup {e} /\ table'[e].seq = h.seq + 1
        /\ table'[e].hash = Append(h.hash, <<h.seq + 1, e>>)
        /\ \A s, x : Anchored(s, x) => Anchored(s, x)'
    BY <1>2, <1>4, <1>6, <1>10, <2>1, <2>2, RowAdded
  <2>4. ASSUME NEW r \in WriterType, WriterSound(r)', writer' = [writer EXCEPT ![w] = r],
               queue' \subseteq Events, queue' \cup ({r.ev} \ {"none"}) \subseteq queue \cup InFlight
        PROVE  ChainInv'
    BY <1>4, <1>6, <1>10, <2>1, <2>2, <2>4, RowStep
  <2>5. ASSUME Insert(w) PROVE ChainInv'
    <3>1. PICK s, x : s = h.seq + 1 /\ x = Append(h.hash, <<h.seq + 1, e>>)
      OBVIOUS
    <3>2. s \in Nat /\ x \in Hash /\ Anchored(s, x)'
      <4>1. x \in Hash
        BY <1>7, <3>1 DEF RowType
      <4>2. Anchored(s, x)'
        BY <2>3, <3>1 DEF Anchored
      <4>3. QED
        BY <1>5, <3>1, <4>1, <4>2
    <3>3. PICK g : g = [seq |-> s, hash |-> x]
      OBVIOUS
    <3>4. g \in HeadType /\ g # NoHead /\ g.seq = s /\ g.hash = x
      BY <3>2, <3>3, ChainAssumption DEF HeadType
    <3>5. PICK r : r = [q EXCEPT !.at = "ack", !.head = g]
      OBVIOUS
    <3>6. r \in WriterType /\ r.ev = e /\ r.head = g /\ r.at = "ack"
      BY <1>1, <1>3, <3>4, <3>5 DEF WriterType
    <3>7. WriterSound(r)'
      BY <1>4, <2>3, <3>2, <3>4, <3>6 DEF WriterSound
    <3>8. Advanced(w) = g
      BY <1>7, <1>10, <3>1, <3>3 DEF Advanced
    <3>9. writer' = [writer EXCEPT ![w] = r] /\ queue' = queue
      <4>1. writer' = [writer EXCEPT ![w].at = "ack", ![w].head = g] /\ queue' = queue
        BY <2>5, <3>8 DEF Insert
      <4>2. QED
        BY <1>1, <1>2, <3>5, <4>1 DEF WriterType
    <3>10. QED
      BY <1>2, <1>4, <2>4, <3>6, <3>7, <3>9
  <2>6. ASSUME InsertFails(w) PROVE ChainInv'
    <3>1. writer' = [writer EXCEPT ![w] = naked] /\ queue' = queue \cup ({e} \ acked)
      BY <1>1, <1>3, <1>9, <2>6 DEF InsertFails
    <3>2. WriterSound(naked)'
      BY <1>4, <1>9, <2>2, <2>3 DEF WriterSound
    <3>3. QED
      BY <1>2, <1>4, <1>9, <2>4, <3>1, <3>2
  <2>7. AddsRow
    BY <1>4, <1>6, <1>10, <2>1 DEF AddsRow
  <2>8. QED
    BY <2>5, <2>6, <2>7
<1>11. CASE table' = table
  <2>1. ASSUME NEW r \in WriterType, WriterSound(r), writer' = [writer EXCEPT ![w] = r],
               queue' \subseteq Events, queue' \cup ({r.ev} \ {"none"}) \subseteq queue \cup InFlight
        PROVE  ChainInv'
    <3>1. UNCHANGED <<table, tampered, walk>> /\ triggers' \in BOOLEAN /\ faults' \in Nat
      BY <1>2, <1>11 DEF Insert, InsertFails
    <3>2. acked' \subseteq Events /\ (tampered \/ acked' \subseteq acked \cup Chained \cup Malformed)
      BY <1>2 DEF Insert, InsertFails
    <3>3. QED
      BY <2>1, <3>1, <3>2, QuietStep
  <2>2. ASSUME InsertFails(w) PROVE ChainInv'
    <3>1. writer' = [writer EXCEPT ![w] = naked] /\ queue' = queue \cup ({e} \ acked)
      BY <1>1, <1>3, <1>9, <2>2 DEF InsertFails
    <3>2. WriterSound(naked)
      BY <1>4, <1>9 DEF WriterSound
    <3>3. QED
      BY <1>2, <1>4, <1>9, <2>1, <3>1, <3>2
  <2>3. ASSUME Insert(w), Inserts(w) # "inserted" PROVE ChainInv'
    <3>1. e \in Stored
      BY <1>1, <1>3, <2>3 DEF Insert, Inserts
    <3>2. e \in Chained
      BY <1>2, <1>4, <3>1 DEF OnePlaceEach, Stored
    <3>3. PICK r : r = [q EXCEPT !.at = "ack"]
      OBVIOUS
    <3>4. r \in WriterType /\ r.ev = e /\ r.head = h /\ r.at = "ack"
      BY <1>1, <1>3, <3>3 DEF WriterType
    <3>5. WriterSound(r)
      BY <1>4, <3>2, <3>4 DEF WriterSound
    <3>6. writer' = [writer EXCEPT ![w] = r] /\ queue' = queue
      <4>1. writer' = [writer EXCEPT ![w].at = "ack", ![w].head = h] /\ queue' = queue
        BY <1>1, <1>3, <2>3 DEF Insert, Advanced
      <4>2. QED
        BY <1>1, <1>2, <1>3, <3>3, <4>1 DEF WriterType
    <3>7. QED
      BY <1>2, <1>4, <2>1, <3>4, <3>5, <3>6
  <2>4. CASE Insert(w) /\ Inserts(w) = "inserted"
    <3>1. table' = [table EXCEPT ![e] = new]
      BY <1>1, <1>3, <1>7, <2>4 DEF Insert
    <3>2. QED
      BY <1>10, <2>4, <3>1
  <2>5. QED
    BY <1>11, <2>2, <2>3, <2>4
<1>12. QED
  <2>1. table' = table \/ (Inserts(w) = "inserted" /\ table' = [table EXCEPT ![e] = new])
    BY <1>1, <1>3, <1>7 DEF Insert, InsertFails
  <2>2. QED
    BY <1>10, <1>11, <2>1

\* Crashes and late acknowledgements.
LEMMA FaultKeeps ==
  ASSUME ChainInv, (\E w \in Writers : Crash(w)) \/ (\E e \in Events : Redeliver(e))
  PROVE  ChainInv'
<1> USE DEF ledger
<1>1. /\ ChainTypeOK /\ writer \in [Writers -> WriterType]
      /\ queue \subseteq Events /\ acked \subseteq Events /\ triggers \in BOOLEAN /\ faults \in Nat
  BY DEF ChainInv, ChainTypeOK
<1>2. ASSUME NEW w \in Writers, Crash(w) PROVE ChainInv'
  <2>1. PICK q \in WriterType :
           q = writer[w] /\ q.ev \in InFlight \cup {"none"} /\ q.ev \in Events \cup {"none"}
    BY WriterFacts
  <2>2. PICK r : r = Off
    OBVIOUS
  <2>3. r \in WriterType /\ WriterSound(r) /\ r.ev = "none"
    BY <2>2, ChainAssumption DEF Off, WriterType, WriterSound
  <2>4. /\ writer' = [writer EXCEPT ![w] = r] /\ queue' = queue \cup (({q.ev} \ {"none"}) \ acked)
        /\ UNCHANGED <<ledger, acked, walk>> /\ faults' \in Nat
    BY <1>1, <1>2, <2>1, <2>2 DEF Crash
  <2>5. QED
    BY <1>1, <2>1, <2>3, <2>4, QuietStep
<1>3. ASSUME NEW e \in Events, Redeliver(e) PROVE ChainInv'
  <2>1. PICK w \in Writers : e = writer[w].ev
    BY <1>3 DEF Redeliver, InFlight
  <2>2. PICK q \in WriterType : q = writer[w] /\ WriterSound(q) /\ q.ev \in InFlight \cup {"none"}
    BY WriterFacts
  <2>3. /\ writer' = [writer EXCEPT ![w] = q] /\ queue' = queue \cup {e} /\ e \in InFlight
        /\ UNCHANGED <<ledger, acked, walk>> /\ faults' \in Nat
    BY <1>1, <1>3, <2>2 DEF Redeliver
  <2>4. QED
    BY <1>1, <2>2, <2>3, QuietStep
<1>4. QED
  BY <1>2, <1>3

-----------------------------------------------------------------------------
(* Chaining the old rows.                                                  *)

\* The first of some old rows is one of them.
LEMMA FirstIsOne ==
  ASSUME NEW rows, rows \subseteq LegacyEvents, rows # {}
  PROVE  First(rows) \in rows
<1> DEFINE I == {i \in DOMAIN Legacy : Legacy[i] \in rows}
<1>1. DOMAIN Legacy = 1..Len(Legacy) /\ Len(Legacy) \in Nat
  BY ChainAssumption
<1>2. I \in SUBSET Nat /\ I # {}
  <2>1. \A e \in LegacyEvents : \E i \in DOMAIN Legacy : Legacy[i] = e
    BY DEF LegacyEvents, Range
  <2>2. QED
    BY <1>1, <2>1
<1>3. PICK m \in I : \A k \in I : m <= k
  <2> HIDE DEF I
  <2> QED BY <1>2, LeastElement
<1>4. \A j \in 1..m - 1 : Legacy[j] \notin rows
  BY <1>1, <1>3
<1>5. \E e \in rows : \E i \in DOMAIN Legacy : Legacy[i] = e /\ \A j \in 1..i - 1 : Legacy[j] \notin rows
  BY <1>3, <1>4
<1>6. QED
  BY <1>5 DEF First

LEMMA BackfillKeeps ==
  ASSUME ChainInv, NEW w \in Writers, Backfill(w)
  PROVE  ChainInv' /\ (table' = table \/ AddsRow)
<1> USE DEF ledger
<1>1. PICK q \in WriterType :
           /\ q = writer[w] /\ WriterSound(q) /\ q.ev \in InFlight \cup {"none"}
           /\ q.at \in {"down", "backfill", "rows", "update", "recreate", "ready", "load", "insert", "ack"}
           /\ q.head \in HeadType \cup {NoHead} /\ q.ev \in Events \cup {"none"} /\ q.attempt \in 0..1
           /\ q.todo \subseteq LegacyEvents
  BY WriterFacts
<1>2. /\ ChainTypeOK /\ OnePlaceEach /\ Linked /\ writer \in [Writers -> WriterType]
      /\ queue \subseteq Events /\ acked \subseteq Events /\ triggers \in BOOLEAN /\ faults \in Nat
  BY DEF ChainInv, ChainTypeOK
<1>3. PICK e : e = First(q.todo)
  OBVIOUS
<1>4. PICK h : h = q.head
  OBVIOUS
<1>5. /\ q.at = "update" /\ q.todo # {} /\ h \in HeadType /\ h # NoHead
      /\ ~tampered /\ Anchored(h.seq, h.hash) /\ q.ev \notin Malformed
      /\ \A f \in q.todo \cap Chained : table[f].seq > h.seq
  BY <1>1, <1>4 DEF Backfill, WriterSound
<1>6. e \in q.todo /\ e \in LegacyEvents /\ e \in All
  BY <1>1, <1>3, <1>5, FirstIsOne DEF All
<1>7. PICK s \in Nat, p \in Hash : s = h.seq + 1 /\ p = h.hash /\ s - 1 = h.seq
  BY <1>5 DEF HeadType
<1>8. PICK new : new = Row(s, p, e)
  OBVIOUS
<1>9. /\ new \in RowType /\ new.seq = s /\ new.prev = p /\ new.event = e
      /\ new.hash = Append(p, <<s, e>>)
  BY <1>6, <1>8, NewRowType
<1>10. PICK g : g = [seq |-> s, hash |-> new.hash]
  OBVIOUS
<1>11. g \in HeadType /\ g # NoHead /\ g.seq = s /\ g.hash = new.hash
  <2>1. g.seq = s /\ g.hash = new.hash
    BY <1>10
  <2>2. new.hash \in Hash
    BY <1>9 DEF RowType
  <2>3. g \in HeadType
    BY <1>10, <2>2 DEF HeadType
  <2>4. QED
    BY <2>1, <2>3, ChainAssumption
<1>12. PICK r : r = [q EXCEPT !.todo = @ \ {e}, !.head = g]
  OBVIOUS
<1>13. /\ r \in WriterType /\ r.at = "update" /\ r.ev = q.ev /\ r.head = g
       /\ r.todo = q.todo \ {e}
  BY <1>1, <1>5, <1>11, <1>12 DEF WriterType
<1>14. UNCHANGED <<triggers, queue, acked, walk, tampered, faults>>
  BY DEF Backfill
<1>15. CASE writer' = [writer EXCEPT ![w] = Off] /\ UNCHANGED table
  <2>1. PICK off : off = Off
    OBVIOUS
  <2>2. off \in WriterType /\ WriterSound(off) /\ off.ev = "none"
    BY <2>1, ChainAssumption DEF Off, WriterType, WriterSound
  <2>3. QED
    BY <1>2, <1>14, <1>15, <2>1, <2>2, QuietStep
<1>16. CASE /\ \A f \in Chained \ {e} : table[f].seq # s
            /\ table' = [table EXCEPT ![e] = new] /\ writer' = [writer EXCEPT ![w] = r]
  <2>1. \A f \in (q.todo \ {e}) \cap Chained : table[f].seq > s
    <3> TAKE f \in (q.todo \ {e}) \cap Chained
    <3>1. table[f].seq \in Nat /\ table[f].seq > h.seq /\ table[f].seq # s
      BY <1>2, <1>5, <1>16, TableType
    <3>2. h.seq \in Nat
      BY <1>5 DEF HeadType
    <3>3. QED
      BY <1>7, <3>1, <3>2
  <2>2. CASE e \notin Chained
    <3>1. ~Taken(h.seq + 1) /\ table' = [table EXCEPT ![e] = Row(h.seq + 1, h.hash, e)]
      BY <1>7, <1>8, <1>16, <2>2 DEF Taken
    <3>2. /\ Chained' = Chained \cup {e} /\ \A f \in Chained : table'[f] = table[f]
          /\ table'[e].seq = s /\ table'[e].hash = new.hash
      <4>1. /\ Chained' = Chained \cup {e} /\ \A f \in Chained : table'[f] = table[f]
            /\ table'[e].seq = h.seq + 1 /\ table'[e].hash = Append(h.hash, <<h.seq + 1, e>>)
        BY <1>2, <1>5, <1>6, <1>14, <2>2, <3>1, RowAdded
      <4>2. QED
        BY <1>7, <1>9, <4>1
    <3>3. Anchored(s, new.hash)'
      BY <3>2 DEF Anchored
    <3>4. \A f \in r.todo \cap Chained' : table'[f].seq > s
      BY <1>13, <2>1, <3>2
    <3>5. WriterSound(r)'
      BY <1>5, <1>11, <1>13, <1>14, <3>3, <3>4 DEF WriterSound
    <3>6. queue' \subseteq Events /\ queue' \cup ({r.ev} \ {"none"}) \subseteq queue \cup InFlight
      BY <1>1, <1>2, <1>13, <1>14
    <3>7. UNCHANGED <<tampered, walk, triggers>> /\ faults' \in Nat /\ UNCHANGED acked
      BY <1>2, <1>14
    <3>8. ChainInv'
      BY <1>5, <1>6, <1>13, <1>16, <2>2, <3>1, <3>5, <3>6, <3>7, RowStep
    <3>9. AddsRow
      <4>1. e \notin Malformed
        BY <1>6, ChainAssumption
      <4>2. QED
        BY <1>5, <1>6, <2>2, <3>1, <4>1 DEF AddsRow
    <3>10. QED
      BY <3>8, <3>9
  <2>3. CASE e \in Chained
    <3>1. table[e].seq = s
      <4> DEFINE n == Cardinality(Chained)
      <4>1. n \in Nat /\ {table[f].seq : f \in Chained} = 1..n
        BY <1>2, <1>5, FS_CardinalityType DEF OnePlaceEach, Linked
      <4>2. table[e].seq \in 1..n /\ table[e].seq > h.seq
        BY <1>5, <1>6, <2>3, <4>1
      <4>3. s \in 1..n
        <5>1. h.seq \in Nat
          BY <1>5 DEF HeadType
        <5>2. PICK t \in 1..n : t = table[e].seq
          BY <4>2
        <5> HIDE DEF n
        <5>3. QED
          BY <1>7, <4>1, <4>2, <5>1, <5>2
      <4>4. PICK f \in Chained : table[f].seq = s
        BY <4>1, <4>3
      <4>5. QED
        BY <1>16, <4>4
    <3>2. table[e].event = e /\ Truthful(e) /\ Anchored(table[e].seq - 1, table[e].prev)
      BY <1>2, <1>5, <2>3 DEF Linked
    <3>3. table[e].prev = p
      <4>1. Anchored(h.seq, table[e].prev)
        BY <1>7, <3>1, <3>2
      <4>2. QED
        BY <1>2, <1>5, <1>7, <4>1, AnchorUnique
    <3>4. table[e] = new
      <4>1. table[e] = [seq |-> table[e].seq, prev |-> table[e].prev,
                        hash |-> table[e].hash, event |-> table[e].event]
        BY <1>2, <1>6, <2>3, TableType
      <4>2. QED
        BY <1>8, <3>1, <3>2, <3>3, <4>1 DEF Row, Truthful
    <3>5. table' = table
      BY <1>2, <1>6, <1>16, <3>4 DEF ChainTypeOK
    <3>6. Anchored(s, new.hash)
      BY <2>3, <3>1, <3>4 DEF Anchored
    <3>7. WriterSound(r)
      BY <1>5, <1>11, <1>13, <2>1, <3>6 DEF WriterSound
    <3>8. queue' \subseteq Events /\ queue' \cup ({r.ev} \ {"none"}) \subseteq queue \cup InFlight
      BY <1>1, <1>2, <1>13, <1>14
    <3>9. UNCHANGED <<table, tampered, walk>> /\ triggers' \in BOOLEAN /\ faults' \in Nat
          /\ acked' \subseteq Events /\ (tampered \/ acked' \subseteq acked \cup Chained \cup Malformed)
      BY <1>2, <1>14, <3>5
    <3>10. QED
      BY <1>13, <1>16, <3>5, <3>7, <3>8, <3>9, QuietStep
  <2>4. QED
    BY <2>2, <2>3
<1>17. QED
  <2>1. \/ writer' = [writer EXCEPT ![w] = Off] /\ UNCHANGED table
        \/ /\ \A f \in Chained \ {e} : table[f].seq # s
           /\ table' = [table EXCEPT ![e] = new]
           /\ writer' = [writer EXCEPT ![w].todo = @ \ {e}, ![w].head = g]
    BY <1>1, <1>3, <1>4, <1>7, <1>8, <1>9, <1>10 DEF Backfill
  <2>2. [writer EXCEPT ![w].todo = @ \ {e}, ![w].head = g] = [writer EXCEPT ![w] = r]
    BY <1>1, <1>2, <1>12 DEF WriterType
  <2>3. QED
    BY <1>15, <1>16, <2>1, <2>2

-----------------------------------------------------------------------------
(* Tampering.                                                              *)

\* Whatever somebody does to a record in the middle of the chain, the row that
\* hangs on it tells.
LEMMA TamperKeeps ==
  ASSUME ChainInv, Tamper PROVE ChainInv'
<1>1. PICK e \in Chained :
        /\ e \notin InFlight \cup queue /\ table[e].seq < ChainHead.seq
        /\ table' \in {[table EXCEPT ![e].event = "forged"],
                       [table EXCEPT ![e] = Row(@.seq, @.prev, "forged")],
                       [table EXCEPT ![e] = NoRow]}
  BY DEF Tamper
<1>2. /\ ~tampered /\ tampered' = TRUE /\ Null = {}
      /\ \A w \in Writers : writer[w].at \notin {"rows", "update"}
      /\ UNCHANGED <<triggers, writer, queue, acked, walk, faults>>
  BY DEF Tamper
<1>3. ChainTypeOK /\ OnePlaceEach /\ Linked /\ WritersSound /\ Settled /\ WalkSound
  BY DEF ChainInv
<1>4. PICK old : old = table[e]
  OBVIOUS
<1>5. /\ e \in All /\ old \in RowType /\ old # NoRow /\ old.seq \in Nat \ {0} /\ old.prev \in Hash
      /\ old = [seq |-> old.seq, prev |-> old.prev, hash |-> old.hash, event |-> old.event]
  BY <1>3, <1>4, TableType
<1>6. old.event = e /\ old.hash = Append(old.prev, <<old.seq, e>>)
  <2>1. old.event = e /\ old.hash = ComputeRecordHash(old.seq, old.prev, e)
    BY <1>2, <1>3, <1>4 DEF Linked, Truthful
  <2>2. QED
    BY <2>1 DEF ComputeRecordHash
<1>7. e # "forged"
  BY <1>5, ChainAssumption
<1>8. PICK x \in RowType \cup {NoRow} :
        /\ table' = [table EXCEPT ![e] = x]
        /\ x # NoRow => /\ x \in RowType /\ x.seq = old.seq
                        /\ ~(/\ x.hash = old.hash
                             /\ x.hash = ComputeRecordHash(x.seq, x.prev, x.event))
  <2>1. table \in [All -> RowType \cup {NoRow}]
    BY <1>3 DEF ChainTypeOK
  <2>2. CASE table' = [table EXCEPT ![e].event = "forged"]
    <3>1. PICK x : x = [old EXCEPT !.event = "forged"]
      OBVIOUS
    <3>2. x \in RowType
      BY <1>5, <3>1 DEF RowType
    <3>3. x.seq = old.seq /\ x.prev = old.prev /\ x.hash = old.hash /\ x.event = "forged"
      BY <1>5, <3>1 DEF RowType
    <3>4. Append(old.prev, <<old.seq, "forged">>) # old.hash
      <4>1. PICK y, z : y = <<old.seq, "forged">> /\ z = <<old.seq, e>>
        OBVIOUS
      <4>2. y # z
        BY <1>7, <4>1
      <4>3. Append(old.prev, y) # Append(old.prev, z)
        BY <1>5, <4>2, HashTells
      <4>4. QED
        BY <1>6, <4>1, <4>3
    <3>5. ~(x.hash = old.hash /\ x.hash = ComputeRecordHash(x.seq, x.prev, x.event))
      BY <3>3, <3>4 DEF ComputeRecordHash
    <3>6. table' = [table EXCEPT ![e] = x]
      BY <1>4, <2>2, <3>1
    <3>7. QED
      BY <3>2, <3>3, <3>5, <3>6
  <2>3. CASE table' = [table EXCEPT ![e] = Row(@.seq, @.prev, "forged")]
    <3>1. PICK x : x = Row(old.seq, old.prev, "forged")
      OBVIOUS
    <3>2. x \in RowType /\ x.seq = old.seq /\ x.hash = Append(old.prev, <<old.seq, "forged">>)
      BY <1>5, <3>1, NewRowType
    <3>3. x.hash # old.hash
      <4>1. PICK y, z : y = <<old.seq, "forged">> /\ z = <<old.seq, e>>
        OBVIOUS
      <4>2. y # z
        BY <1>7, <4>1
      <4>3. Append(old.prev, y) # Append(old.prev, z)
        BY <1>5, <4>2, HashTells
      <4>4. QED
        BY <1>6, <3>2, <4>1, <4>3
    <3>4. table' = [table EXCEPT ![e] = x]
      BY <1>4, <2>3, <3>1
    <3>5. QED
      BY <3>2, <3>3, <3>4
  <2>4. CASE table' = [table EXCEPT ![e] = NoRow]
    BY <2>4
  <2>5. QED
    BY <1>1, <2>2, <2>3, <2>4
<1>9. /\ table' \in [All -> RowType \cup {NoRow}] /\ table'[e] = x
      /\ \A f \in All : f # e => table'[f] = table[f]
  BY <1>3, <1>5, <1>8 DEF ChainTypeOK
<1>10. /\ Stored' = IF x = NoRow THEN Stored \ {e} ELSE Stored
       /\ Chained' = IF x = NoRow THEN Chained \ {e} ELSE Chained
  <2>1. e \in Stored /\ (x # NoRow => x.seq > 0)
    BY <1>5, <1>8 DEF Chained
  <2>2. Stored' = IF x = NoRow THEN Stored \ {e} ELSE Stored
    BY <1>9, <2>1 DEF Stored
  <2>3. Chained' = IF x = NoRow THEN Chained \ {e} ELSE Chained
    BY <1>5, <1>8, <1>9, <2>1, <2>2 DEF Chained, Stored
  <2>4. QED
    BY <2>2, <2>3
<1>11. \A f \in Chained' : f \in Chained /\ f \in All /\ table'[f].seq = table[f].seq
  BY <1>3, <1>4, <1>8, <1>9, <1>10, TableType
<1>12. ChainTypeOK'
  BY <1>2, <1>3, <1>9 DEF ChainTypeOK
<1>13. PICK t \in Chained : t # e /\ old.seq < table[t].seq /\ \A f \in Chained : table[f].seq <= table[t].seq
  <2>1. PICK t \in Chained : \A f \in Chained : table[f].seq <= table[t].seq
    BY <1>3 DEF OnePlaceEach
  <2>2. ChainHead.seq <= table[t].seq /\ ChainHead.seq \in Nat /\ table[t].seq \in Nat
    <3>1. PICK k : k = ChainHead
      OBVIOUS
    <3>2. k \in HeadType /\ Anchored(k.seq, k.hash)
      BY <1>3, <3>1, HeadIsLast
    <3>3. k.seq \in Nat /\ table[t].seq \in Nat
      BY <1>3, <2>1, <3>2, TableType DEF HeadType
    <3>4. k.seq <= table[t].seq
      BY <2>1, <3>2, <3>3 DEF Anchored
    <3>5. QED
      BY <3>1, <3>3, <3>4
  <2>3. old.seq < table[t].seq
    BY <1>1, <1>4, <1>5, <2>2
  <2>4. QED
    BY <1>4, <1>5, <2>1, <2>2, <2>3
<1>14. OnePlaceEach'
  <2>1. IsFiniteSet(Chained')
    BY <1>3, <1>10, FS_Subset DEF OnePlaceEach
  <2>2. \A f, g \in Chained' : table'[f].seq = table'[g].seq => f = g
    BY <1>3, <1>11 DEF OnePlaceEach
  <2>3. t \in Chained' /\ \A f \in Chained' : table'[f].seq <= table'[t].seq
    BY <1>10, <1>11, <1>13
  <2>4. \A f \in Events : table'[f] # NoRow => f \in Chained'
    <3>1. ASSUME NEW f \in Events, table'[f] # NoRow PROVE f \in Chained'
      <4>1. f \in All
        BY DEF All
      <4>2. CASE f = e
        BY <1>9, <1>10, <3>1, <4>2
      <4>3. CASE f # e
        <5>1. f \in Chained
          BY <1>3, <1>9, <3>1, <4>1, <4>3 DEF OnePlaceEach
        <5>2. QED
          BY <1>10, <4>3, <5>1
      <4>4. QED
        BY <4>2, <4>3
    <3>2. QED
      BY <3>1
  <2>5. QED
    BY <2>1, <2>2, <2>3, <2>4 DEF OnePlaceEach
<1>15. WritersSound'
  <2> SUFFICES ASSUME NEW v \in Writers PROVE WriterSound(writer[v])'
    BY DEF WritersSound
  <2>1. PICK q : q = writer[v]
    OBVIOUS
  <2>2. WriterSound(q) /\ writer'[v] = q /\ q.at \notin {"rows", "update"}
    BY <1>2, <1>3, <2>1 DEF WritersSound
  <2>3. QED
    BY <1>2, <2>2 DEF WriterSound
<1>16. Settled'
  <2>1. Null' = {}
    BY <1>2, <1>10 DEF Null
  <2>2. QED
    BY <1>2, <2>1 DEF Settled, AckedIsRecorded
<1>17. Flawed'
  <2>1. PICK f \in Chained : table[f].seq = old.seq + 1
    <3> DEFINE n == Cardinality(Chained)
    <3>1. n \in Nat /\ {table[g].seq : g \in Chained} = 1..n
      BY <1>2, <1>3, FS_CardinalityType DEF OnePlaceEach, Linked
    <3>2. PICK k \in 1..n : k = table[t].seq
      BY <1>13, <3>1
    <3> HIDE DEF n
    <3>3. old.seq + 1 \in 1..n
      BY <1>5, <1>13, <3>1, <3>2
    <3>4. QED
      BY <3>1, <3>3
  <2>2. f # e /\ f \in All /\ table'[f] = table[f] /\ f \in Chained'
    <3>1. f # e
      BY <1>4, <1>5, <2>1
    <3>2. QED
      BY <1>3, <1>9, <1>10, <3>1, TableType
  <2>3. (old.seq + 1) - 1 = old.seq /\ old.seq + 1 > 1
    BY <1>5
  <2>4. table[f].prev = old.hash
    <3>1. Anchored(old.seq, table[f].prev)
      <4>1. Anchored(table[f].seq - 1, table[f].prev)
        BY <1>2, <1>3 DEF Linked
      <4>2. QED
        BY <2>1, <2>3, <4>1
    <3>2. Anchored(old.seq, old.hash)
      BY <1>4 DEF Anchored
    <3>3. QED
      BY <1>3, <3>1, <3>2, AnchorUnique
  <2>5. ASSUME NEW g \in Chained', table'[g].seq = old.seq, table'[g].hash = old.hash
        PROVE  ~Truthful(g)'
    <3>1. g = e
      BY <1>3, <1>4, <1>11, <2>5 DEF OnePlaceEach
    <3>2. x # NoRow
      BY <1>10, <3>1
    <3>3. QED
      BY <1>8, <1>9, <2>5, <3>1, <3>2 DEF Truthful
  <2>6. FlawAt(f, e)'
    <3>1. e \notin queue' \cup InFlight'
      BY <1>1, <1>2 DEF InFlight
    <3>2. table'[f].seq > 1 /\ table'[f].seq - 1 = old.seq /\ table'[f].prev = old.hash
      BY <2>1, <2>2, <2>3, <2>4
    <3>3. \E p \in Hash : table'[f].prev = Append(p, <<table'[f].seq - 1, e>>)
      BY <1>5, <1>6, <3>2
    <3>4. QED
      BY <2>5, <3>1, <3>2, <3>3 DEF FlawAt
  <2>7. QED
    BY <1>5, <2>2, <2>6 DEF Flawed
<1>18. WalkSound' /\ Linked'
  BY <1>2, <1>3 DEF WalkSound, AlarmIsTrue, Linked
<1>19. QED
  BY <1>12, <1>14, <1>15, <1>16, <1>17, <1>18 DEF ChainInv

-----------------------------------------------------------------------------
(* The start, and every step.                                              *)

LEMMA InitHolds == ChainInit => ChainInv
<1> SUFFICES ASSUME ChainInit PROVE ChainInv
  OBVIOUS
<1> USE DEF ChainInit
<1>1. Genesis \in Hash
  BY HashType
<1>2. \A e \in LegacyEvents : Unchained(e) \in RowType /\ Unchained(e).seq = 0 /\ Unchained(e) # NoRow
  <2> TAKE e \in LegacyEvents
  <2>1. Unchained(e) \in RowType /\ Unchained(e).seq = 0
    BY <1>1 DEF Unchained, RowType, All
  <2>2. QED
    BY <2>1, ChainAssumption
<1>3. LegacyEvents \subseteq All /\ Events \subseteq All /\ LegacyEvents \cap Events = {}
  BY ChainAssumption DEF All
<1>4. /\ table \in [All -> RowType \cup {NoRow}] /\ \A e \in LegacyEvents : table[e] = Unchained(e)
      /\ \A e \in Events : table[e] = NoRow
  BY <1>2, <1>3
<1>5. Stored = LegacyEvents /\ Chained = {} /\ Null = LegacyEvents
  <2>1. Stored = LegacyEvents
    BY <1>2, <1>3, <1>4 DEF Stored, All
  <2>2. Chained = {}
    BY <1>2, <1>4, <2>1 DEF Chained
  <2>3. QED
    BY <2>1, <2>2 DEF Null
<1>6. ChainTypeOK
  <2>1. Off \in WriterType
    BY DEF Off, WriterType
  <2>2. NoWalk \in WalkType
    BY <1>1 DEF NoWalk, WalkType
  <2>3. QED
    BY <1>4, <2>1, <2>2 DEF ChainTypeOK
<1>7. OnePlaceEach
  BY <1>4, <1>5, FS_EmptySet DEF OnePlaceEach
<1>8. Linked
  <2>1. {table[e].seq : e \in Chained} = 1..Cardinality(Chained)
    BY <1>5, FS_EmptySet
  <2>2. QED
    BY <1>5, <2>1 DEF Linked
<1>9. WritersSound
  BY ChainAssumption DEF WritersSound, WriterSound, Off
<1>10. Settled /\ Flawed /\ WalkSound
  BY DEF Settled, AckedIsRecorded, Flawed, WalkSound, AlarmIsTrue, NoWalk
<1>11. QED
  BY <1>6, <1>7, <1>8, <1>9, <1>10 DEF ChainInv

LEMMA NextKeeps ==
  ASSUME ChainInv, [ChainNext]_chainVars PROVE ChainInv'
<1>1. CASE UNCHANGED chainVars
  <2>1. UNCHANGED <<ledger, writer, queue, acked, faults>> /\ walk' \in WalkType
    BY <1>1 DEF chainVars, ledger, ChainInv, ChainTypeOK
  <2>2. /\ Chained' = Chained /\ \A s, x : Anchored(s, x)' <=> Anchored(s, x)
    BY <1>1, TableStays DEF chainVars
  <2>3. \A g : Truthful(g)' <=> Truthful(g)
    BY <1>1 DEF chainVars, Truthful
  <2>4. WalkSound'
    BY <1>1, <2>2, <2>3 DEF ChainInv, WalkSound, AlarmIsTrue, chainVars
  <2>5. QED
    BY <2>1, <2>4, WalkStep
<1>2. ASSUME NEW w \in Writers, Write(w) \/ InsertFails(w) \/ Crash(w) PROVE ChainInv'
  <2>1. CASE Backfill(w)
    BY <2>1, BackfillKeeps
  <2>2. CASE DropTriggers(w) \/ ReadHead(w) \/ ReadRows(w) \/ Backfilled(w) \/ RecreateTriggers(w)
    BY <2>2, BootKeeps
  <2>3. CASE (\E e \in Events : Fetch(w, e)) \/ LoadHead(w) \/ Conflict(w) \/ Ack(w)
    BY <2>3, ConsumeKeeps
  <2>4. CASE Insert(w) \/ InsertFails(w)
    BY <2>4, InsertKeeps
  <2>5. CASE Crash(w)
    BY <2>5, FaultKeeps
  <2>6. QED
    BY <1>2, <2>1, <2>2, <2>3, <2>4, <2>5 DEF Write
<1>3. CASE \E e \in Events : Redeliver(e)
  BY <1>3, FaultKeeps
<1>4. CASE StartWalk
  BY <1>4, StartWalkKeeps
<1>5. CASE WalkPage
  BY <1>5, WalkPageKeeps
<1>6. CASE Tamper
  BY <1>6, TamperKeeps
<1>7. QED
  BY <1>1, <1>2, <1>3, <1>4, <1>5, <1>6 DEF ChainNext

\* The invariant of the audit record (every action of the module).
THEOREM ChainInvariant == ChainSpec => []ChainInv
<1>1. ChainInit => ChainInv
  BY InitHolds
<1>2. ChainInv /\ [ChainNext]_chainVars => ChainInv'
  BY NextKeeps
<1>3. QED
  BY <1>1, <1>2, PTL DEF ChainSpec

-----------------------------------------------------------------------------
(* Rows are never rewritten.                                               *)

\* A step that does not tamper leaves the table or adds a row.
LEMMA TableGrows ==
  ASSUME ChainInv, [ChainNext]_chainVars, ~tampered' PROVE table' = table \/ AddsRow
<1>1. ASSUME NEW w \in Writers, Insert(w) \/ InsertFails(w)
      PROVE table' = table \/ AddsRow
  BY <1>1, InsertKeeps
<1>2. ASSUME NEW w \in Writers, Backfill(w) PROVE table' = table \/ AddsRow
  BY <1>2, BackfillKeeps
<1>3. CASE UNCHANGED chainVars
  BY <1>3 DEF chainVars
<1>4. ASSUME NEW w \in Writers,
             \/ DropTriggers(w) \/ ReadHead(w) \/ ReadRows(w) \/ Backfilled(w) \/ RecreateTriggers(w)
             \/ (\E e \in Events : Fetch(w, e)) \/ LoadHead(w) \/ Conflict(w) \/ Ack(w) \/ Crash(w)
      PROVE  table' = table
  BY <1>4 DEF DropTriggers, ReadHead, ReadRows, Backfilled, RecreateTriggers, Fetch,
         LoadHead, Conflict, Ack, Crash, ledger
<1>5. CASE (\E e \in Events : Redeliver(e)) \/ StartWalk \/ WalkPage
  BY <1>5 DEF Redeliver, StartWalk, WalkPage, ledger
<1>6. ~Tamper
  BY DEF Tamper
<1>7. QED
  BY <1>1, <1>2, <1>3, <1>4, <1>5, <1>6 DEF ChainNext, Write

\* Only Tamper sets the mark.
LEMMA TamperMarks ==
  ASSUME ChainInv, [ChainNext]_chainVars PROVE tampered' = tampered \/ Tamper
<1>1. CASE UNCHANGED chainVars
  BY <1>1 DEF chainVars
<1>2. ASSUME NEW w \in Writers, Write(w) \/ InsertFails(w) \/ Crash(w)
      PROVE tampered' = tampered
  BY <1>2 DEF Write, DropTriggers, ReadHead, ReadRows, Backfill, Backfilled,
         RecreateTriggers, Fetch, LoadHead, Insert, Conflict, Ack, InsertFails,
         Crash, ledger
<1>3. CASE (\E e \in Events : Redeliver(e)) \/ StartWalk \/ WalkPage
  BY <1>3 DEF Redeliver, StartWalk, WalkPage, ledger
<1>4. QED
  BY <1>1, <1>2, <1>3 DEF ChainNext

\* A step that does not tamper leaves every row of the chain alone.
LEMMA RowsKept ==
  ASSUME ChainInv, [ChainNext]_chainVars
  PROVE ~tampered' => \A e \in Chained : table'[e] = table[e]
<1> SUFFICES ASSUME ~tampered', AddsRow, NEW f \in Chained PROVE table'[f] = table[f]
  BY TableGrows
<1>1. PICK e \in All \ (Chained \cup Malformed), h \in HeadType :
        table' = [table EXCEPT ![e] = Row(h.seq + 1, h.hash, e)]
  BY DEF AddsRow
<1>2. f \in All /\ f # e /\ table \in [All -> RowType \cup {NoRow}]
  BY <1>1, TableType DEF ChainInv, ChainTypeOK
<1>3. QED
  BY <1>1, <1>2

\* A record that has its place in the chain keeps it, also when two writers
\* chain the same old rows (Backfill, Insert, InsertFails).
THEOREM ChainKept == ChainSpec => NeverRewritten
<1>1. ChainInv /\ [ChainNext]_chainVars => [~tampered' => \A e \in Chained : table'[e] = table[e]]_chainVars
  BY RowsKept
<1>2. QED
  BY <1>1, ChainInvariant, PTL DEF ChainSpec, NeverRewritten

-----------------------------------------------------------------------------
(* The record is sound.                                                    *)

LEMMA IntactWhenUntouched == ChainInv => ChainIntact
<1> SUFFICES ASSUME ChainInv, ~tampered
             PROVE  /\ {table[e].seq : e \in Chained} = 1..Cardinality(Chained)
                    /\ PageHolds(Ordered, 1, Genesis)
  BY DEF ChainIntact
<1>1. ChainTypeOK /\ OnePlaceEach /\ Linked
  BY DEF ChainInv
<1>2. PICK o : o = InOrder(RowsFrom(1))
  OBVIOUS
<1>3. PICK from, p : from = 1 /\ p = Genesis
  OBVIOUS
<1>4. from \in Nat \ {0} /\ Anchored(from - 1, p)
  BY <1>3 DEF Anchored
<1>5. \A i \in 1..Len(o) : RowHolds(o[i], from + i - 1, IF i = 1 THEN p ELSE o[i - 1].hash)
  BY <1>1, <1>2, <1>3, <1>4, OrderHolds
<1>6. DOMAIN o = 1..Len(o)
  <2>1. PICK R : R = RowsFrom(1)
    OBVIOUS
  <2>2. Placing(R)
    BY <1>1, <2>1, RowsPlaced
  <2>3. o \in Seq(R)
    BY <1>2, <2>1, <2>2, InOrderSorts
  <2>4. QED
    BY <2>3
<1>7. PageHolds(Ordered, 1, Genesis)
  BY <1>2, <1>3, <1>5, <1>6 DEF PageHolds, Ordered
<1>8. QED
  BY <1>1, <1>7 DEF Linked

\* Records are read in order: the fold behind Reconstruction takes the last of a
\* set of positions and reads it after the others.
Blank == [f \in Fields |-> "none"]
Latest(s) == CHOOSE x \in s : \A y \in s : x >= y
IsReading(g, ks, S) ==
  g = [s \in SUBSET S |-> IF s = {} THEN Blank ELSE Assemble(g[s \ {Latest(s)}], ks[Latest(s)])]

LEMMA ReconstructionIsReading ==
  ASSUME NEW ks
  PROVE  FoldLeft(Assemble, Blank, ks) = (CHOOSE g : IsReading(g, ks, DOMAIN ks))[DOMAIN ks]
  BY DEF FoldLeft, MapThenFoldSet, IsReading, Latest, Max

LEMMA LatestIsOne ==
  ASSUME NEW n \in Nat, NEW s \in SUBSET (1..n), s # {}
  PROVE  Latest(s) \in s /\ \A y \in s : Latest(s) >= y
<1> DEFINE D == {n - k : k \in s}
<1>1. D \in SUBSET Nat /\ D # {}
  <2>1. \A k \in s : k \in 1..n
    OBVIOUS
  <2>2. \A k \in s : n - k \in Nat
    BY <2>1
  <2>3. QED
    BY <2>2
<1>2. PICK m \in D : \A d \in D : m <= d
  <2> HIDE DEF D
  <2> QED BY <1>1, LeastElement
<1>3. PICK k \in s : m = n - k
  BY <1>2
<1>4. \A y \in s : k >= y
  <2> TAKE y \in s
  <2>1. n - k <= n - y
    BY <1>2, <1>3
  <2>2. QED
    BY <2>1
<1>5. QED
  BY <1>4 DEF Latest

LEMMA SmallestPart ==
  ASSUME NEW n \in Nat, NEW B, B # {}, \A U \in B : U \subseteq 1..n
  PROVE  \E T \in B : \A U \in B : U \subseteq T => U = T
<1>1. PICK S : S = 1..n
  OBVIOUS
<1>2. IsFiniteSet(S) /\ B \in SUBSET SUBSET S
  BY <1>1, FS_Interval
<1>3. QED
  BY <1>2, SmallestSet

\* Readings of some positions and of a part of them agree on the part.
LEMMA ReadingsAgree ==
  ASSUME NEW ks, NEW n \in Nat, NEW S \in SUBSET (1..n), NEW T \in SUBSET S, NEW g, NEW h,
         IsReading(g, ks, S), IsReading(h, ks, T)
  PROVE  g[T] = h[T]
<1> DEFINE B == {U \in SUBSET T : g[U] # h[U]}
<1> SUFFICES ASSUME B # {} PROVE FALSE
  OBVIOUS
<1>1. B # {} /\ \A U \in B : U \subseteq 1..n
  OBVIOUS
<1>2. PICK U \in B : \A V \in B : V \subseteq U => V = U
  <2> HIDE DEF B
  <2> QED BY <1>1, SmallestPart
<1>3. /\ g[U] = IF U = {} THEN Blank ELSE Assemble(g[U \ {Latest(U)}], ks[Latest(U)])
      /\ h[U] = IF U = {} THEN Blank ELSE Assemble(h[U \ {Latest(U)}], ks[Latest(U)])
  BY Zenon DEF IsReading
<1>4. U # {}
  BY <1>3
<1>5. Latest(U) \in U
  BY <1>4, LatestIsOne
<1>6. g[U \ {Latest(U)}] = h[U \ {Latest(U)}]
  BY <1>2, <1>5
<1>7. QED
  BY <1>3, <1>6

\* Every set of positions has a reading.
LEMMA ReadingExists ==
  ASSUME NEW ks, NEW n \in Nat, NEW S \in SUBSET (1..n) PROVE \E g : IsReading(g, ks, S)
<1> DEFINE B == {T \in SUBSET S : ~\E g : IsReading(g, ks, T)}
           reading(U) == (CHOOSE g : IsReading(g, ks, U))[U]
<1> SUFFICES ASSUME B # {} PROVE FALSE
  OBVIOUS
<1>1. PICK T \in B : \A U \in B : U \subseteq T => U = T
  <2>1. B # {} /\ \A U \in B : U \subseteq 1..n
    OBVIOUS
  <2> HIDE DEF B
  <2> QED BY <2>1, SmallestPart
<1>2. ASSUME NEW U \in SUBSET T, U # T
      PROVE IsReading(CHOOSE g : IsReading(g, ks, U), ks, U)
  <2>1. \E g : IsReading(g, ks, U)
    BY <1>1, <1>2
  <2>2. QED
    BY <2>1
<1> DEFINE val(U) == IF U = {} THEN Blank ELSE Assemble(reading(U \ {Latest(U)}), ks[Latest(U)])
           h == [U \in SUBSET T |-> val(U)]
<1>3. ASSUME NEW U \in SUBSET T, U # T PROVE reading(U) = val(U)
  <2>1. PICK g : g = CHOOSE j : IsReading(j, ks, U)
    OBVIOUS
  <2>2. reading(U) = g[U] /\ IsReading(g, ks, U)
    BY <1>2, <1>3, <2>1
  <2>3. g[U] = IF U = {} THEN Blank ELSE Assemble(g[U \ {Latest(U)}], ks[Latest(U)])
    BY <2>2, Zenon DEF IsReading
  <2>4. CASE U = {}
    BY <2>2, <2>3, <2>4
  <2>5. CASE U # {}
    <3>1. PICK V : V = U \ {Latest(U)}
      OBVIOUS
    <3>2. Latest(U) \in U
      BY <2>5, LatestIsOne
    <3>3. V \in SUBSET U /\ V \in SUBSET T /\ V # T /\ U \in SUBSET (1..n)
      BY <1>3, <3>1, <3>2
    <3>4. PICK k : k = CHOOSE j : IsReading(j, ks, V)
      OBVIOUS
    <3>5. reading(V) = k[V] /\ IsReading(k, ks, V)
      BY <1>2, <3>3, <3>4
    <3>6. g[V] = k[V]
      BY <2>2, <3>3, <3>5, ReadingsAgree
    <3>7. QED
      BY <2>2, <2>3, <2>5, <3>1, <3>5, <3>6
  <2>6. QED
    BY <2>4, <2>5
<1>4. ASSUME NEW U \in SUBSET T
      PROVE  h[U] = IF U = {} THEN Blank ELSE Assemble(h[U \ {Latest(U)}], ks[Latest(U)])
  <2>1. CASE U = {}
    BY <2>1
  <2>2. CASE U # {}
    <3>1. PICK V : V = U \ {Latest(U)}
      OBVIOUS
    <3>2. Latest(U) \in U
      BY <2>2, LatestIsOne
    <3>3. V \in SUBSET T /\ V # T
      BY <3>1, <3>2
    <3>4. h[V] = reading(V)
      BY <1>3, <3>3
    <3>5. h[U] = Assemble(reading(V), ks[Latest(U)])
      BY <2>2, <3>1
    <3> HIDE DEF h, val, reading
    <3>6. QED
      BY <2>2, <3>1, <3>4, <3>5
  <2>3. QED
    BY <2>1, <2>2
<1>5. IsReading(h, ks, T)
  <2>1. h = [U \in SUBSET T |-> h[U]]
    OBVIOUS
  <2> HIDE DEF h
  <2>2. h = [U \in SUBSET T |-> IF U = {} THEN Blank ELSE Assemble(h[U \ {Latest(U)}], ks[Latest(U)])]
    BY <1>4, <2>1, Zenon
  <2>3. QED
    BY <2>2 DEF IsReading
<1>6. QED
  BY <1>1, <1>5

\* A compensation read as completed stays so, whatever is read after it.
LEMMA CompletedStays ==
  ASSUME NEW r, NEW k,
         r["compensation"] \in {"compensation.completed", "task.unwound"} \/ k = "compensation.completed"
  PROVE  Assemble(r, k)["compensation"] \in {"compensation.completed", "task.unwound"}
<1>1. "compensation" \in Fields
  BY DEF Fields
<1>2. CASE k \in {"compensation.started", "compensation.step_failed"}
  <2>1. r["compensation"] # "none"
    BY <1>2
  <2>2. QED
    BY <1>2, <2>1 DEF Assemble
<1>3. CASE k \notin {"compensation.started", "compensation.step_failed"}
  <2>1. Assemble(r, k)["compensation"] =
          IF "compensation" = FieldOf(k) \/ k = "task.unwound" THEN k ELSE r["compensation"]
    BY <1>1, <1>3 DEF Assemble
  <2>2. FieldOf("compensation.completed") = "compensation"
    BY DEF FieldOf
  <2>3. "compensation" = FieldOf(k) => k \in {"compensation.completed"}
    BY <1>3 DEF FieldOf
  <2>4. QED
    BY <2>1, <2>2, <2>3
<1>4. QED
  BY <1>2, <1>3

LEMMA CompensationRead ==
  ASSUME NEW n \in Nat, NEW ks, DOMAIN ks = 1..n,
         \E i \in 1..n : ks[i] = "compensation.completed"
  PROVE  FoldLeft(Assemble, Blank, ks)["compensation"] \in {"compensation.completed", "task.unwound"}
<1>1. PICK g : FoldLeft(Assemble, Blank, ks) = g[1..n] /\ IsReading(g, ks, 1..n)
  <2>1. PICK g : g = CHOOSE j : IsReading(j, ks, 1..n)
    OBVIOUS
  <2>2. IsReading(g, ks, 1..n)
    BY <2>1, ReadingExists
  <2>3. FoldLeft(Assemble, Blank, ks) = g[1..n]
    BY <2>1, ReconstructionIsReading
  <2>4. QED
    BY <2>2, <2>3
<1>2. ASSUME NEW i \in 1..n PROVE g[1..i] = Assemble(g[1..i - 1], ks[i])
  <2>1. PICK s \in SUBSET (1..n) : s = 1..i
    OBVIOUS
  <2>2. g[s] = IF s = {} THEN Blank ELSE Assemble(g[s \ {Latest(s)}], ks[Latest(s)])
    BY <1>1, Zenon DEF IsReading
  <2>3. i \in s
    BY <2>1
  <2>4. Latest(s) \in s /\ \A y \in s : Latest(s) >= y
    BY <2>3, LatestIsOne
  <2>5. PICK l \in s : l = Latest(s)
    BY <2>4
  <2>6. l = i /\ s \ {l} = 1..i - 1
    BY <2>1, <2>3, <2>4, <2>5
  <2>7. QED
    BY <2>1, <2>2, <2>3, <2>5, <2>6
<1> DEFINE B == {i \in 1..n : /\ \E j \in 1..i : ks[j] = "compensation.completed"
                              /\ g[1..i]["compensation"] \notin {"compensation.completed", "task.unwound"}}
<1>3. B = {}
  <2> SUFFICES ASSUME B # {} PROVE FALSE
    OBVIOUS
  <2>1. PICK i \in B : \A k \in B : i <= k
    <3>1. B \in SUBSET Nat
      OBVIOUS
    <3> HIDE DEF B
    <3> QED BY <3>1, LeastElement
  <2>2. g[1..i] = Assemble(g[1..i - 1], ks[i])
    BY <1>2, <2>1
  <2>3. CASE ks[i] = "compensation.completed"
    BY <2>1, <2>2, <2>3, CompletedStays
  <2>4. CASE ks[i] # "compensation.completed"
    <3>1. PICK j \in 1..i : ks[j] = "compensation.completed"
      BY <2>1
    <3>2. i - 1 \in 1..n /\ j \in 1..i - 1 /\ ~(i <= i - 1)
      BY <2>1, <2>4, <3>1
    <3>3. i - 1 \notin B
      BY <2>1, <3>2
    <3>4. g[1..i - 1]["compensation"] \in {"compensation.completed", "task.unwound"}
      BY <3>1, <3>2, <3>3
    <3>5. QED
      BY <2>1, <2>2, <3>4, CompletedStays
  <2>5. QED
    BY <2>3, <2>4
<1>4. g[1..n]["compensation"] \in {"compensation.completed", "task.unwound"}
  BY <1>3
<1>5. QED
  BY <1>1, <1>4

LEMMA CompensationFinal == ChainInv => CompensationIsFinal
<1> SUFFICES ASSUME ChainInv, NEW i \in DOMAIN Kinds, Kinds[i] = "compensation.completed"
             PROVE  Reconstruction["compensation"] \in {"compensation.completed", "task.unwound"}
  BY DEF CompensationIsFinal
<1>1. PICK o, ks : o = Ordered /\ ks = Kinds
  OBVIOUS
<1>2. \E n \in Nat : DOMAIN o = 1..n
  <2>1. PICK R : R = RowsFrom(1)
    OBVIOUS
  <2>2. Placing(R)
    BY <2>1, RowsPlaced DEF ChainInv
  <2>3. o \in Seq(R)
    BY <1>1, <2>1, <2>2, InOrderSorts DEF Ordered
  <2>4. QED
    BY <2>3
<1>3. PICK n \in Nat : DOMAIN ks = 1..n
  <2>1. DOMAIN ks = DOMAIN o
    BY <1>1 DEF Kinds
  <2>2. QED
    BY <1>2, <2>1
<1>4. FoldLeft(Assemble, Blank, ks)["compensation"] \in {"compensation.completed", "task.unwound"}
  BY <1>1, <1>3, CompensationRead
<1>5. Reconstruction = FoldLeft(Assemble, Blank, ks)
  BY <1>1 DEF Reconstruction, Blank
<1>6. QED
  BY <1>4, <1>5

\* The record is sound: an intact chain, that holds what was acknowledged, walked
\* without false alarms and reconstructed with its final events (append,
\* migrate, verifyChainPage, assembleReconstruction).
THEOREM RecordSound == ChainSpec => []RecordIsSound
<1>1. ChainInv => RecordIsSound
  BY IntactWhenUntouched, CompensationFinal DEF ChainInv, Settled, WalkSound,
         RecordIsSound
<1>2. QED
  BY <1>1, ChainInvariant, PTL

-----------------------------------------------------------------------------
(* The record is a log.                                                    *)

\* The rows in order, as long as nobody tampers: row i is that of place i.
OrderedSound ==
  \E n \in Nat :
    /\ DOMAIN Ordered = 1..n /\ Len(Ordered) = n
    /\ {table[e].seq : e \in Chained} = 1..n
    /\ \A i \in 1..n : \E g \in Chained :
         Ordered[i] = table[g] /\ table[g].seq = i /\ table[g].event = g

LEMMA RowsInOrder == ChainInv /\ ~tampered => OrderedSound
<1> SUFFICES ASSUME ChainInv, ~tampered PROVE OrderedSound
  OBVIOUS
<1>1. ChainTypeOK /\ OnePlaceEach /\ Linked
  BY DEF ChainInv
<1>2. PICK o : o = Ordered /\ o = InOrder(RowsFrom(1))
  BY DEF Ordered
<1>3. PICK n \in Nat : /\ DOMAIN o = 1..n /\ Len(o) = n
                       /\ \A i \in 1..n : o[i] \in RowsFrom(1)
                       /\ \A r \in RowsFrom(1) : \E i \in 1..n : o[i] = r
  <2>1. PICK R : R = RowsFrom(1)
    OBVIOUS
  <2>2. Placing(R)
    BY <1>1, <2>1, RowsPlaced
  <2>3. /\ o \in Seq(R) /\ Cardinality(R) \in Nat /\ Len(o) = Cardinality(R)
        /\ \A r \in R : \E i \in 1..Cardinality(R) : o[i] = r
    BY <1>2, <2>1, <2>2, InOrderSorts
  <2>4. DOMAIN o = 1..Len(o) /\ \A i \in 1..Len(o) : o[i] \in R
    BY <2>3
  <2>5. QED
    BY <2>1, <2>3, <2>4
<1>4. PICK from, p : from = 1 /\ p = Genesis
  OBVIOUS
<1>5. from \in Nat \ {0} /\ Anchored(from - 1, p)
  BY <1>4 DEF Anchored
<1>6. \A i \in 1..Len(o) : RowHolds(o[i], from + i - 1, IF i = 1 THEN p ELSE o[i - 1].hash)
  BY <1>1, <1>2, <1>4, <1>5, OrderHolds
<1>7. \A i \in 1..n : o[i].seq = i
  BY <1>3, <1>4, <1>6 DEF RowHolds
<1>8. \A i \in 1..n : \E g \in Chained : o[i] = table[g] /\ table[g].seq = i /\ table[g].event = g
  BY <1>1, <1>3, <1>7 DEF RowsFrom, Linked
<1>9. \A g \in Chained : table[g].seq \in 1..n
  <2> TAKE g \in Chained
  <2>1. table[g] \in RowsFrom(1)
    BY <1>1, TableType DEF RowsFrom
  <2>2. QED
    BY <1>3, <1>7, <2>1
<1>10. {table[e].seq : e \in Chained} = 1..n
  BY <1>8, <1>9
<1>11. QED
  BY <1>2, <1>3, <1>8, <1>10 DEF OrderedSound

\* A row is added at the end, and is of an event the log does not hold.
LEMMA RowIsRecorded ==
  ASSUME ChainInv, tampered = FALSE, tampered' = FALSE, OrderedSound, OrderedSound',
         OnePlaceEach', AddsRow
  PROVE  \E e \in All \ Malformed : Log!Record(e)
<1>1. PICK e \in All \ (Chained \cup Malformed), h \in HeadType :
        /\ ~Taken(h.seq + 1) /\ Anchored(h.seq, h.hash)
        /\ table' = [table EXCEPT ![e] = Row(h.seq + 1, h.hash, e)]
  BY DEF AddsRow
<1>2. PICK k \in Nat \ {0} : k = h.seq + 1
  BY DEF HeadType
<1>3. /\ Chained' = Chained \cup {e} /\ \A f \in Chained : table'[f] = table[f]
      /\ table'[e].seq = k
  <2>1. ChainTypeOK /\ OnePlaceEach /\ Linked /\ tampered' = tampered /\ e \in All /\ e \notin Chained
    BY <1>1 DEF ChainInv
  <2>2. QED
    BY <1>1, <1>2, <2>1, RowAdded
<1>4. PICK n \in Nat :
        /\ DOMAIN Ordered = 1..n /\ Len(Ordered) = n
        /\ {table[f].seq : f \in Chained} = 1..n
        /\ \A i \in 1..n : \E g \in Chained :
             Ordered[i] = table[g] /\ table[g].seq = i /\ table[g].event = g
  BY DEF OrderedSound
<1>5. PICK m \in Nat :
        /\ DOMAIN Ordered' = 1..m
        /\ {table'[f].seq : f \in Chained'} = 1..m
        /\ \A i \in 1..m : \E g \in Chained' :
             Ordered'[i] = table'[g] /\ table'[g].seq = i /\ table'[g].event = g
  BY DEF OrderedSound
<1>6. m = n + 1 /\ k = n + 1
  <2>1. k \notin 1..n
    BY <1>1, <1>2, <1>4 DEF Taken
  <2>2. 1..m = 1..n \cup {k}
    <3>1. {table'[f].seq : f \in Chained'} = {table[f].seq : f \in Chained} \cup {k}
      BY <1>3
    <3>2. QED
      BY <1>4, <1>5, <3>1
  <2>3. k \in 1..m /\ k > n
    BY <2>1, <2>2
  <2>4. n + 1 \in 1..m /\ n + 1 \notin 1..n /\ m \in 1..m /\ (m \in 1..n => m <= n)
    BY <2>3
  <2>5. n + 1 = k
    <3> HIDE <2>3
    <3>1. n + 1 \in 1..n \cup {k}
      BY <2>2, <2>4
    <3>2. QED
      BY <2>4, <3>1
  <2>6. m = k
    <3>1. m \in 1..n \cup {k}
      BY <2>2, <2>4
    <3>2. m > n
      BY <2>3
    <3>3. QED
      BY <2>4, <3>1, <3>2
  <2>7. QED
    BY <2>5, <2>6
<1>7. \A i \in 1..n : Ordered'[i] = Ordered[i]
  <2> TAKE i \in 1..n
  <2>1. PICK g \in Chained : Ordered[i] = table[g] /\ table[g].seq = i
    BY <1>4
  <2>2. PICK f \in Chained' : Ordered'[i] = table'[f] /\ table'[f].seq = i
    BY <1>5, <1>6
  <2>3. f = g
    BY <1>3, <2>1, <2>2 DEF OnePlaceEach
  <2>4. QED
    BY <1>3, <2>1, <2>2, <2>3
<1>8. Ordered'[n + 1].event = e
  <2>1. PICK f \in Chained' : /\ Ordered'[n + 1] = table'[f] /\ table'[f].seq = n + 1
                              /\ table'[f].event = f
    BY <1>5, <1>6
  <2>2. f = e
    BY <1>3, <1>6, <2>1 DEF OnePlaceEach
  <2>3. QED
    BY <2>1, <2>2
<1>9. e \notin {Ordered[i].event : i \in DOMAIN Ordered}
  BY <1>1, <1>4
<1>10. Log!Record(e)
  <2>1. PICK o, o2 : o = Ordered /\ o2 = Ordered'
    OBVIOUS
  <2>2. /\ DOMAIN o2 = 1..(Len(o) + 1) /\ \A i \in DOMAIN o : o2[i] = o[i]
        /\ o2[Len(o) + 1].event = e /\ e \notin {o[i].event : i \in DOMAIN o}
    BY <1>4, <1>5, <1>6, <1>7, <1>8, <1>9, <2>1
  <2>3. (IF tampered THEN <<>> ELSE Ordered) = o /\ (IF tampered THEN <<>> ELSE Ordered)' = o2
    BY <2>1
  <2>4. QED
    BY <2>2, <2>3 DEF Log!Record, Log!Recorded
<1>11. QED
  BY <1>1, <1>10

LEMMA StepIsLogged ==
  ASSUME ChainInv, ChainInv', [ChainNext]_chainVars, ~tampered => OrderedSound,
         ~tampered' => OrderedSound'
  PROVE  [Log!Next]_(Log!vars)
<1>0. tampered \in BOOLEAN /\ tampered' \in BOOLEAN
  BY DEF ChainInv, ChainTypeOK
<1>1. CASE ~tampered'
  <2>1. ~tampered /\ tampered = FALSE /\ tampered' = FALSE
    BY <1>0, <1>1, TamperMarks DEF Tamper
  <2>2. CASE table' = table
    <3>1. Ordered' = Ordered
      BY <2>2 DEF Ordered, InOrder, RowsFrom, Chained, Stored
    <3>2. QED
      BY <1>1, <2>1, <3>1 DEF Log!vars
  <2>3. CASE AddsRow
    <3>1. \E e \in All \ Malformed : Log!Record(e)
      BY <1>1, <2>1, <2>3, RowIsRecorded DEF ChainInv
    <3>2. QED
      BY <3>1 DEF Log!Next
  <2>4. QED
    BY <1>1, <2>2, <2>3, TableGrows
<1>2. CASE tampered' /\ tampered
  BY <1>2 DEF Log!vars, ChainInv, ChainTypeOK
<1>3. CASE tampered' /\ ~tampered
  BY <1>3 DEF Log!Next, Log!Breach, ChainInv, ChainTypeOK
<1>4. QED
  BY <1>1, <1>2, <1>3

\* The rows in order are a log: whatever boots, migrates, fails and is delivered
\* again, each step leaves them alone or adds one row of a new event at the end
\* (Backfill, Insert, InsertFails).
THEOREM RecordIsLog == ChainSpec => ImplementsLog
<1>1. ASSUME ChainInit PROVE Log!Init
  <2>1. ChainInv /\ ~tampered /\ Chained = {}
    BY <1>1, InitHolds DEF ChainInit, Chained, Stored, Unchained
  <2>2. PICK n \in Nat : /\ DOMAIN Ordered = 1..n /\ Len(Ordered) = n
                         /\ \A i \in 1..n : \E g \in Chained : Ordered[i] = table[g]
    BY <2>1, RowsInOrder DEF OrderedSound
  <2>3. n = 0
    <3>1. 1..n = {}
      BY <2>1, <2>2
    <3>2. QED
      BY <3>1
  <2>4. Ordered = <<>>
    <3>1. PICK R, o : R = RowsFrom(1) /\ o = Ordered
      OBVIOUS
    <3>2. Placing(R)
      BY <2>1, <3>1, RowsPlaced DEF ChainInv
    <3>3. o \in Seq(R)
      BY <3>1, <3>2, InOrderSorts DEF Ordered
    <3>4. QED
      BY <2>2, <2>3, <3>1, <3>3
  <2>5. QED
    BY <2>1, <2>4 DEF Log!Init
<1>2. ChainInv /\ ~tampered => OrderedSound
  BY RowsInOrder
<1>3. (ChainInv /\ ~tampered => OrderedSound)'
  BY RowsInOrder, PTL
<1>4. ChainInv /\ ChainInv' /\ [ChainNext]_chainVars => [Log!Next]_(Log!vars)
  BY <1>2, <1>3, StepIsLogged
<1>5. QED
  BY <1>1, <1>4, ChainInvariant, PTL DEF ChainSpec, ImplementsLog, Log!Spec
=============================================================================
