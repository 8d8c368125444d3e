---------------------------- MODULE SessionCache ----------------------------
(***************************************************************************)
(* Retrieval and its session context cache, over the corpus that Ingestion *)
(* writes.  A search is authorised anew every time; only what the index    *)
(* answered is kept, under a key of the caller's verified permissions.     *)
(* Every corpus event bumps the generation of its source to the event's    *)
(* stream sequence; a replica's view of the generations follows the bucket *)
(* with a lag, and an entry is good while the generations it captured are  *)
(* the ones the view holds.                                                *)
(***************************************************************************)
EXTENDS Ingestion

CONSTANTS Replicas,    \* the instances of the knowledge service there may be
          Searches,    \* calls of the search door
          Callers,     \* tokens: [actor, classes, exp]
          Queries,     \* source filters, NoSource for none
          NoSource,
          KvLegal,     \* the sources whose id can be part of a KV key
          Ttl, MaxTime

ASSUME SessionCacheAssumption ==
  /\ \A c \in Callers : c.exp \in Nat
  /\ Queries \subseteq Sources \union {NoSource} /\ NoSource \notin Sources
  /\ KvLegal \subseteq Sources
  /\ Ttl \in Nat \ {0} /\ MaxTime \in Nat
  /\ \A load \in Loads : load.replicas \subseteq Replicas /\ load.ticks \in 0..MaxTime

VARIABLES gens,     \* gen.<tenant>.<source> in the bucket; 0: no such key
          entries,  \* ctx.<tenant>... in the bucket
          view,     \* each replica's copy of gens
          unseen,   \* puts the watch has yet to deliver to the replica
          ready,    \* replicas whose view is seeded
          handling, \* the corpus event each replica's invalidator works on
          delivered, \* the corpus events up to this sequence were delivered
          again,    \* of those, the ones to be redelivered
          search,   \* the calls
          now

cacheVars == <<gens, entries, view, unseen, ready, handling, delivered, again, search, now>>
vars == <<corpus, faults, cacheVars>>

NoMsg == [seq |-> 0, current |-> 0]
Call0 == [stage |-> "idle"]
Flying == {p \in Searches : search[p].stage \in {"get", "evict", "read", "write"}}
Deployed == DOMAIN view   \* the instances there are

CacheInit(load) ==
  /\ gens = [s \in Sources |-> 0]
  /\ entries = <<>>
  /\ view = [i \in load.replicas |-> gens] /\ unseen = [i \in load.replicas |-> {}]
  /\ ready = load.replicas
  /\ handling = [i \in load.replicas |-> NoMsg] /\ delivered = 0 /\ again = {}
  /\ search = [p \in Searches |-> IF p \in load.calls THEN Call0
                                  ELSE [stage |-> "done", out |-> "none"]]
  /\ now = MaxTime - load.ticks

Init == \E load \in Loads : CorpusInit(load) /\ CacheInit(load)

Fault == faults < MaxFaults /\ faults' = faults + 1

-----------------------------------------------------------------------------
(* Ingestion, seen from the searches in flight: an event published while a *)
(* search holds results means the two overlapped.                          *)

Indexing == {r \in Runs : \/ run[r].stage = "index"
                            \/ (run[r].stage = "ledger" /\ run[r].next > 1)}
Publishes == ledger' # ledger

Ingest ==
  /\ \/ \E d \in Docs : Edit(d)
     \/ \E r \in Runs : Start(r) \/ RunStep(r) \/ ActivityFails(r)
  /\ search' = [p \in Searches |-> IF Publishes /\ search[p].stage = "write"
                                   THEN [search[p] EXCEPT !.clean = FALSE] ELSE search[p]]
  /\ UNCHANGED <<gens, entries, view, unseen, ready, handling, delivered, again, now>>

-----------------------------------------------------------------------------
(* The invalidator: one durable consumer, a loop in every replica.         *)

\* Mutant: nothing is delivered twice.
GetGenerationOnce(i) ==
  /\ handling[i] = NoMsg /\ delivered + 1 \in DOMAIN ledger
  /\ handling' = [handling EXCEPT ![i] = [seq |-> delivered + 1,
                                         current |-> gens[ledger[delivered + 1].source]]]
  /\ delivered' = delivered + 1
  /\ UNCHANGED <<corpus, faults, gens, entries, view, unseen, ready, again, search, now>>
\* A replica takes the next event, or one that comes back, and reads the
\* generation it may have to advance.
GetGeneration(i) ==
  /\ handling[i] = NoMsg
  /\ \E n \in again \union {delivered + 1} :
       /\ n \in DOMAIN ledger
       /\ handling' = [handling EXCEPT ![i] = [seq |-> n, current |-> gens[ledger[n].source]]]
       /\ again' = again \ {n} /\ delivered' = Max({delivered, n})
  /\ UNCHANGED <<corpus, faults, gens, entries, view, unseen, ready, search, now>>

Release(i, redeliver) ==
  /\ handling' = [handling EXCEPT ![i] = NoMsg]
  /\ IF redeliver THEN Fault /\ again' = again \union {handling[i].seq}
                   ELSE UNCHANGED <<faults, again>>

\* Mutant: the latest event handled wins.
AdvancesAlways(m) == TRUE
\* The put advances what was read, which another replica may have passed
\* since; an event of an unwritable source is terminated; an acknowledgement
\* may be lost, and the event comes again.
Advances(m) == m.seq > m.current
PutGeneration(s, seq) ==
  /\ gens' = [gens EXCEPT ![s] = seq]
  /\ unseen' = [j \in Deployed |-> unseen[j] \union {s}]
  /\ entries' = [k \in DOMAIN entries |->
       [entries[k] EXCEPT !.clean = @ /\ (s \in entries[k].sources => seq >= gens[s])]]
HandleCorpusMutation(i) ==
  LET m == handling[i]
      s == ledger[m.seq].source
  IN  /\ m # NoMsg
      /\ IF s \in KvLegal /\ Advances(m) THEN PutGeneration(s, m.seq)
         ELSE UNCHANGED <<gens, unseen, entries>>
      /\ \E lost \in BOOLEAN : Release(i, lost)
      /\ UNCHANGED <<corpus, view, ready, delivered, search, now>>

\* The get or the put failed: NAK.
NakMutation(i) ==
  /\ handling[i] # NoMsg /\ Release(i, TRUE)
  /\ UNCHANGED <<corpus, gens, entries, view, unseen, ready, delivered, search, now>>

\* The watch delivers the latest value of a key.
Watch(i) ==
  /\ \E s \in unseen[i] :
       /\ view' = [view EXCEPT ![i][s] = gens[s]]
       /\ unseen' = [unseen EXCEPT ![i] = @ \ {s}]
  /\ UNCHANGED <<corpus, faults, gens, entries, ready, handling, delivered, again, search, now>>

\* The process restarts: its view is empty until the history is replayed,
\* its calls and the event it held are gone.
Restart(i) ==
  /\ Fault /\ i \in ready
  /\ ready' = ready \ {i}
  /\ view' = [view EXCEPT ![i] = [s \in Sources |-> 0]]
  /\ unseen' = [unseen EXCEPT ![i] = {}]
  /\ handling' = [handling EXCEPT ![i] = NoMsg]
  /\ again' = again \union ({handling[i].seq} \ {0})
  /\ search' = [p \in Searches |-> IF p \in Flying /\ search[p].at = i
                                   THEN [stage |-> "done", out |-> "failed"] ELSE search[p]]
  /\ UNCHANGED <<corpus, gens, entries, delivered, now>>

Seed(i) ==
  /\ i \notin ready
  /\ ready' = ready \union {i}
  /\ view' = [view EXCEPT ![i] = gens] /\ unseen' = [unseen EXCEPT ![i] = {}]
  /\ UNCHANGED <<corpus, faults, gens, entries, handling, delivered, again, search, now>>

\* The memory bucket is lost with its server: entries and generations go, the
\* replicas keep the views they have.
LoseBucket ==
  /\ Fault
  /\ gens' = [s \in Sources |-> 0] /\ entries' = <<>>
  /\ unseen' = [i \in Deployed |-> {}]
  /\ UNCHANGED <<corpus, view, ready, handling, delivered, again, search, now>>

\* SessionCacheControl: the entries go, the generations stay.
PurgeTenant ==
  /\ entries # <<>> /\ Fault
  /\ entries' = <<>>
  /\ UNCHANGED <<corpus, gens, view, unseen, ready, handling, delivered, again, search, now>>

-----------------------------------------------------------------------------
(* The search door.                                                        *)

\* deriveCacheKey: the permission snapshot and the query.
KeyOf(actor, classes, q) == <<actor, classes, q>>
Key(c, q) == KeyOf(c.actor, c.classes, q)
Without(k) == [x \in DOMAIN entries \ {k} |-> entries[x]]

\* The tenant and classification filters are part of the query.
Live(c, q) == {index[k] : k \in {k \in DOMAIN index :
                 index[k].class \in c.classes /\ q \in {NoSource, index[k].source}}}

Done(p, out) == search' = [search EXCEPT ![p] = [stage |-> "done", out |-> out]]

CacheContext(i) == i \in ready

\* verify and authorize succeed for a token that has not expired.  While the
\* view is unseeded, or a halt or a denial is in force, the call is served
\* live and touches nothing.
Begin(p, i) ==
  /\ search[p] = Call0
  /\ \/ Done(p, "live")
     \/ /\ CacheContext(i)
        /\ \E c \in Callers, q \in Queries :
             /\ now < c.exp
             /\ search' = [search EXCEPT ![p] =
                  [stage |-> "get", at |-> i, caller |-> c, query |-> q, t |-> now]]
  /\ UNCHANGED <<corpus, faults, gens, entries, view, unseen, ready, handling, delivered, again, now>>

\* validateEntry, against the clock of the call and the view of its replica.
Expired(e, t) == t >= e.expires
\* Mutant: a source without a recorded generation cannot be stale.
StaleIfRecorded(e, i) == \E s \in e.sources : e.gens[s] # 0 /\ view[i][s] # e.gens[s]
Stale(e, i) == \E s \in e.sources : view[i][s] # e.gens[s]

\* What a hit hands over: the rows as of an earlier call.
Serve(p, e) ==
  search' = [search EXCEPT ![p] =
    [stage |-> "done", out |-> "hit", caller |-> search[p].caller, t |-> search[p].t,
     rows |-> e.rows, asOf |-> e.asOf, granted |-> e.granted]]

\* A get that fails is a miss; what is expired or stale is also evicted.
CacheGet(p) ==
  LET c == search[p]
      k == Key(c.caller, c.query)
  IN  /\ c.stage = "get"
      /\ \/ /\ k \notin DOMAIN entries /\ UNCHANGED faults
            /\ search' = [search EXCEPT ![p].stage = "read"]
         \/ Fault /\ search' = [search EXCEPT ![p].stage = "read"]
         \/ /\ k \in DOMAIN entries /\ UNCHANGED faults
            /\ IF Expired(entries[k], c.t) \/ Stale(entries[k], c.at)
               THEN search' = [search EXCEPT ![p].stage = "evict"]
               ELSE Serve(p, entries[k])
      /\ UNCHANGED <<corpus, gens, entries, view, unseen, ready, handling, delivered, again, now>>

\* The entry under the key is removed, whichever it is by now; a delete that
\* fails is ignored.
Evict(p) ==
  /\ search[p].stage = "evict"
  /\ search' = [search EXCEPT ![p].stage = "read"]
  /\ \/ entries' = Without(Key(search[p].caller, search[p].query)) /\ UNCHANGED faults
     \/ Fault /\ UNCHANGED entries
  /\ UNCHANGED <<corpus, gens, view, unseen, ready, handling, delivered, again, now>>

StoreSearch(p) ==
  LET c == search[p]
  IN  /\ c.stage = "read"
      /\ search' = [search EXCEPT ![p] =
           [stage |-> "write", at |-> c.at, caller |-> c.caller, query |-> c.query, t |-> c.t,
            rows |-> Live(c.caller, c.query), clean |-> Indexing = {}]]
      /\ UNCHANGED <<corpus, faults, gens, entries, view, unseen, ready, handling, delivered, again, now>>

CacheExpiry(t, exp) == Min({t + Ttl, exp})

\* A put that fails, or is too large, leaves the answer uncached.
Put(k, e) ==
  \/ /\ entries' = [x \in DOMAIN entries \union {k} |-> IF x = k THEN e ELSE entries[x]]
     /\ UNCHANGED faults
  \/ Fault /\ UNCHANGED entries

\* The generations are captured once the results are there.
WriteThrough(p) ==
  LET c == search[p]
      sources == {h.source : h \in c.rows}
      e == [rows |-> c.rows, sources |-> sources,
            gens |-> [s \in sources |-> view[c.at][s]],
            expires |-> CacheExpiry(c.t, c.caller.exp),
            asOf |-> c.t, granted |-> c.caller.exp, clean |-> c.clean]
      k == Key(c.caller, c.query)
  IN  /\ c.stage = "write"
      /\ Put(k, e)
      /\ Done(p, "miss")
      /\ UNCHANGED <<corpus, gens, view, unseen, ready, handling, delivered, again, now>>

Tick == now < MaxTime /\ now' = now + 1
        /\ UNCHANGED <<corpus, faults, gens, entries, view, unseen, ready, handling, delivered, again, search>>

Invalidate(i) == GetGeneration(i) \/ HandleCorpusMutation(i)
Call(p) == CacheGet(p) \/ Evict(p) \/ StoreSearch(p) \/ WriteThrough(p)

Next ==
  \/ Ingest
  \/ \E i \in Deployed : Invalidate(i) \/ NakMutation(i) \/ Watch(i) \/ Restart(i) \/ Seed(i)
  \/ LoseBucket \/ PurgeTenant
  \/ \E p \in Searches : Call(p) \/ \E i \in Deployed : Begin(p, i)
  \/ Tick

Spec == Init /\ [][Next]_vars

\* Temporal schedules every activity, the consumer redelivers what is not
\* acknowledged, the watch delivers every put, and a call runs to its end.
\* Each kind of step is finite, so one condition per kind is enough.
FairSpec ==
  /\ Spec
  /\ WF_vars(Ingest /\ \E r \in Runs : RunStep(r))
  /\ WF_vars(\E i \in Deployed : Invalidate(i)) /\ WF_vars(\E i \in Deployed : Watch(i) \/ Seed(i))
  /\ WF_vars(\E p \in Searches : Call(p))

-----------------------------------------------------------------------------
(* Properties.                                                             *)

Lineages == {ledger[n].lineage : n \in DOMAIN ledger}
Cached == {entries[k] : k \in DOMAIN entries}
Held == UNION {e.rows : e \in Cached}
Hits == {p \in Searches : search[p].stage = "done" /\ search[p].out = "hit"}

TypeOK ==
  /\ version \in [Docs -> Nat \ {0}] /\ \A d \in Docs : version[d] \in DOMAIN Versions[d]
  /\ \A r \in Runs :
       /\ run[r].stage \in {"idle", "fetch", "prepare", "ledger", "index", "done", "failed"}
       /\ run[r].tries < MaxAttempts
       /\ Active(r) => run[r].at \in DOMAIN DocsOf[SourceOf[r]]
       /\ run[r].stage \in {"ledger", "index"} =>
            run[r].fresh \subseteq DOMAIN Chunks(r) /\ run[r].next \in 1..Len(Chunks(r)) + 1
  /\ DOMAIN index \subseteq Docs \X (Nat \ {0})
  /\ gens \in [Sources -> 0..Len(ledger)] /\ view \in [Deployed -> [Sources -> 0..Len(ledger)]]
  /\ unseen \in [Deployed -> SUBSET Sources] /\ ready \subseteq Deployed
  /\ delivered \in 0..Len(ledger) /\ again \subseteq 1..delivered
  /\ \A i, j \in Deployed : handling[i] = handling[j] => (i = j \/ handling[i] = NoMsg)
  /\ \A p \in Flying : search[p].at \in ready

\* Every row the index holds, a search has in hand or the cache may serve has
\* its event on the ledger, whatever failed and was retried on the way
\* (ingestion-activities.ts:22-27: never a serving vector with no provenance).
LedgerBeforeIndex ==
  {index[k].lineage : k \in DOMAIN index} \union {h.lineage : h \in Held} \subseteq Lineages

\* A hit hands a caller only what that caller's own token may read, although
\* another call, with another token, retrieved it.
HitsStayInGrant ==
  \A p \in Hits : \A h \in search[p].rows : h.class \in search[p].caller.classes

\* A hit is no older than the TTL, and the token it was retrieved with has
\* not expired at the time of the call that is served.
HitsAreBounded ==
  \A p \in Hits : search[p].t < search[p].asOf + Ttl /\ search[p].t < search[p].granted

\* Nothing is on its way: runs ended, events consumed, views current.
Settled ==
  /\ \A r \in Runs : ~Active(r)
  /\ delivered = Len(ledger) /\ again = {}
  /\ \A i \in Deployed : handling[i] = NoMsg /\ unseen[i] = {}
  /\ ready = Deployed

\* Sources that share no document: a row is replaced under its document,
\* whichever source listed it, and the event names the source that did.
Separate == {s \in Sources : \A t \in Sources \ {s} :
               Range(DocsOf[s]) \cap Range(DocsOf[t]) = {}}

\* Once the corpus has settled, an entry that would still be served shows each
\* of its sources as a live search would, unless the search that wrote it
\* overlapped the indexing of a change, or a generation went back since.  The
\* ledger event is published before the vector is written, so a search in
\* between can keep the old text under the new generation.
FreshUnlessOverlapped ==
  Settled =>
    \A k \in DOMAIN entries, i \in Deployed :
      LET e == entries[k]
          Of(rows, s) == {h \in rows : h.source = s}
      IN  e.clean /\ e.sources \subseteq KvLegal \cap Separate /\ ~Stale(e, i) =>
            \A s \in e.sources :
              Of(e.rows, s) = Of(Live([classes |-> k[2]], k[3]), s)

\* What a search hands over is sound: its provenance recorded, within the
\* caller's grant, within its time, and fresh.
SearchIsSound ==
  TypeOK /\ LedgerBeforeIndex /\ HitsStayInGrant /\ HitsAreBounded /\ FreshUnlessOverlapped

\* A document whose run completes is indexed as that run fetched it, except
\* for chunks a run that overlapped it wrote meanwhile, however often its
\* activities began again.
CompletionIsIndexed ==
  [][\A r \in Runs :
       run[r].stage = "index" /\ run'[r].stage \in {"fetch", "done"} =>
         \A i \in DOMAIN Chunks(r) :
           LET row == index[<<Doc(r), i>>]
           IN  <<Doc(r), i>> \in DOMAIN index
                 /\ (row.content = Chunks(r)[i]
                       \/ row.lineage[1] \notin run[r].past \union {r})]_vars

\* While the bucket stands a generation goes back only under a replica that
\* has read it before another one put: the get and the put are two calls.
\* Redelivered and reordered events of lower sequence change nothing.
Overtaken(s) ==
  \E i \in Deployed : /\ handling[i] # NoMsg /\ handling'[i] = NoMsg
                     /\ ledger[handling[i].seq].source = s /\ handling[i].current # gens[s]
GensAdvance ==
  [][LoseBucket \/ \A s \in Sources : gens'[s] >= gens[s] \/ Overtaken(s)]_vars

\* Runs end, every corpus event is consumed and every replica's view catches
\* up, for good once sources and callers are quiet.
CorpusSettles == <>[](Settled /\ Flying = {})

\* Re-indexing and its generations only move forward.
IngestionAdvances == CompletionIsIndexed /\ GensAdvance
=============================================================================
