------------------------- MODULE SessionCacheProofs -------------------------
EXTENDS SessionCache, WellFoundedInduction, TLAPS

Stages == {"idle", "fetch", "prepare", "ledger", "index", "done", "failed"}
RunType == [stage : Stages, at : Nat, v : Nat, fresh : SUBSET (Nat \ {0}), past : SUBSET Runs,
            next : Nat, tries : Nat]
Event == [lineage : Runs \X Docs \X (Nat \ {0}), source : Sources]

\* What a run works on: a document of its source, in a version it has, and
\* chunks of that version.
DocAt(r, x) == DocsOf[SourceOf[r]][x.at]
ChunksAt(r, x) == Versions[DocAt(r, x)][x.v].chunks
RunOk(r, x) ==
  /\ x \in RunType /\ x.tries < MaxAttempts
  /\ x.stage \notin {"idle", "done", "failed"} => x.at \in DOMAIN DocsOf[SourceOf[r]]
  /\ x.stage \in {"prepare", "ledger", "index"} => x.v \in DOMAIN Versions[DocAt(r, x)]
  /\ x.stage \in {"prepare", "ledger", "index"} =>
       x.fresh \subseteq DOMAIN ChunksAt(r, x) /\ x.next \in 1..Len(ChunksAt(r, x)) + 1
  /\ x.stage = "fetch" => x.fresh = {}
RunsTyped == run \in [Runs -> RunType] /\ \A r \in Runs : RunOk(r, run[r])

VersionsTyped == version \in [Docs -> Nat \ {0}] /\ \A d \in Docs : version[d] \in DOMAIN Versions[d]

\* A row is indexed under a document of its source and its event is on the
\* ledger, as are those of the changed chunks a run has got past.
Logged(r, x, lineages) ==
  \A i \in x.fresh : x.stage = "index" \/ (x.stage = "ledger" /\ i < x.next) =>
                      <<r, DocAt(r, x), i>> \in lineages
RowsKnown(rows, lineages) ==
  /\ DOMAIN rows \subseteq Docs \X (Nat \ {0})
  /\ \A k \in DOMAIN rows :
       /\ rows[k].source \in Sources /\ k[1] \in Range(DocsOf[rows[k].source])
       /\ rows[k].lineage \in lineages
Provenance ==
  /\ ledger \in Seq(Event)
  /\ \A r \in Runs : Logged(r, run[r], Lineages)
  /\ RowsKnown(index, Lineages)

CorpusInv == VersionsTyped /\ RunsTyped /\ Provenance

-----------------------------------------------------------------------------
(* Ingestion.                                                              *)

\* A nonempty set of naturals has a least element.
LEMMA LeastElement ==
  ASSUME NEW S \in SUBSET Nat, S # {}
  PROVE  \E m \in S : \A k \in S : m <= k
<1> DEFINE R == OpToRel(<, Nat)
<1>1. IsWellFoundedOn(R, Nat)
  BY NatLessThanWellFounded
<1>2. PICK m \in S : \A k \in S : ~(<<k, m>> \in R)
  <2> HIDE DEF R
  <2> QED BY <1>1, WFMin
<1>3. ASSUME NEW k \in S PROVE m <= k
  <2>1. k < m => <<k, m>> \in R
    BY DEF OpToRel
  <2> HIDE DEF R
  <2>2. QED
    BY <1>2, <2>1
<1>4. QED
  BY <1>3

\* The least of a set of numbers.
LEMMA MinOfNat ==
  ASSUME NEW S \in SUBSET Nat, S # {}
  PROVE  Min(S) \in S /\ \A y \in S : Min(S) <= y
<1>1. \E x \in S : \A y \in S : x <= y
  BY LeastElement
<1> QED BY <1>1 DEF Min

\* The document of an active run, and its chunks.
LEMMA DocType ==
  ASSUME NEW r \in Runs, NEW x, RunOk(r, x), x.stage \notin {"idle", "done", "failed"}
  PROVE  DocAt(r, x) \in Docs /\ DocAt(r, x) \in Range(DocsOf[SourceOf[r]]) /\ SourceOf[r] \in Sources
<1>1. SourceOf[r] \in Sources /\ DocsOf[SourceOf[r]] \in Seq(Docs)
  BY IngestionAssumption
<1>2. x.at \in DOMAIN DocsOf[SourceOf[r]]
  BY DEF RunOk
<1> QED BY <1>1, <1>2 DEF DocAt, Range

\* The chunks of a run that has fetched are a list.
LEMMA ChunksType ==
  ASSUME NEW r \in Runs, NEW x, RunOk(r, x), x.stage \in {"prepare", "ledger", "index"}
  PROVE  IsList(ChunksAt(r, x))
<1>1. DocAt(r, x) \in Docs
  BY DocType
<1>2. x.v \in DOMAIN Versions[DocAt(r, x)]
  BY DEF RunOk
<1> QED BY <1>1, <1>2, IngestionAssumption DEF ChunksAt

\* The next chunk to write is the first of those left.
LEMMA TodoFirst ==
  ASSUME RunsTyped, NEW r \in Runs, run[r].stage \in {"ledger", "index"}, Todo(r) # {}
  PROVE  /\ Min(Todo(r)) \in run[r].fresh /\ Min(Todo(r)) \in 1..Len(Chunks(r))
         /\ \A i \in run[r].fresh : i < Min(Todo(r)) => i < run[r].next
<1>1. RunOk(r, run[r]) /\ run[r] \in RunType
  BY DEF RunsTyped
<1>2. run[r].fresh \in SUBSET (Nat \ {0}) /\ run[r].next \in Nat /\ run[r].fresh \subseteq DOMAIN Chunks(r)
  BY <1>1 DEF RunOk, RunType, ChunksAt, DocAt, Chunks, Doc
<1>3. IsList(Chunks(r))
  BY <1>1, ChunksType DEF ChunksAt, DocAt, Chunks, Doc
<1>4. Todo(r) \in SUBSET Nat /\ Todo(r) \subseteq run[r].fresh
  BY <1>2 DEF Todo
<1>5. Min(Todo(r)) \in Todo(r) /\ \A y \in Todo(r) : Min(Todo(r)) <= y
  BY <1>4, MinOfNat
<1>6. ASSUME NEW i \in run[r].fresh, i < Min(Todo(r)) PROVE i < run[r].next
  <2>1. i \in Nat /\ Min(Todo(r)) \in Nat /\ run[r].next \in Nat
    BY <1>2, <1>4, <1>5
  <2>2. i \in Todo(r) => Min(Todo(r)) <= i
    BY <1>5
  <2>3. ~(i >= run[r].next)
    BY <1>6, <2>1, <2>2 DEF Todo
  <2> QED BY <2>1, <2>3
<1>7. Min(Todo(r)) \in run[r].fresh /\ Min(Todo(r)) \in 1..Len(Chunks(r))
  BY <1>2, <1>3, <1>4, <1>5 DEF IsList
<1> QED BY <1>6, <1>7

\* A run that moves stays what a run is.
LEMMA RunMoves ==
  ASSUME RunsTyped, NEW r \in Runs, NEW x, run' = [run EXCEPT ![r] = x], RunOk(r, x)
  PROVE  RunsTyped'
<1>1. x \in RunType
  BY DEF RunOk
<1>2. run' \in [Runs -> RunType]
  BY <1>1 DEF RunsTyped
<1>3. \A q \in Runs : RunOk(q, run'[q])
  BY DEF RunsTyped
<1>4. RunsTyped' <=> run' \in [Runs -> RunType] /\ \A q \in Runs : RunOk(q, run'[q])
  BY DEF RunsTyped, RunOk, RunType, DocAt, ChunksAt
<1> QED BY <1>2, <1>3, <1>4

\* A run that has not begun, or is over, is what a run is.
LEMMA IdleRuns ==
  \A r \in Runs : RunOk(r, Idle) /\ RunOk(r, Ended) /\ RunOk(r, [Idle EXCEPT !.stage = "failed"])
<1>1. MaxAttempts \in Nat \ {0}
  BY IngestionAssumption
<1> QED BY <1>1 DEF RunOk, RunType, Idle, Ended, Stages

\* How a run moves.
LEMMA StartMoves ==
  ASSUME RunsTyped, NEW r \in Runs, Start(r)
  PROVE  \E x : run' = [run EXCEPT ![r] = x] /\ RunOk(r, x) /\ x.fresh = {}
<1> DEFINE x == IF DocsOf[SourceOf[r]] = <<>> THEN Ended ELSE [Idle EXCEPT !.stage = "fetch", !.at = 1]
<1>1. run' = [run EXCEPT ![r] = x]
  BY DEF Start
<1>2. CASE DocsOf[SourceOf[r]] = <<>>
  <2>1. x = Ended
    BY <1>2
  <2>2. Ended.fresh = {}
    BY DEF Ended, Idle
  <2>3. RunOk(r, Ended)
    BY IdleRuns
  <2> HIDE DEF x
  <2> QED BY <1>1, <2>1, <2>2, <2>3
<1>3. CASE DocsOf[SourceOf[r]] # <<>>
  <2>1. DocsOf[SourceOf[r]] \in Seq(Docs) /\ MaxAttempts \in Nat \ {0}
    BY IngestionAssumption
  <2>2. 1 \in DOMAIN DocsOf[SourceOf[r]]
    BY <1>3, <2>1
  <2>3. x = [stage |-> "fetch", at |-> 1, v |-> 0, fresh |-> {}, past |-> {}, next |-> 0, tries |-> 0]
    BY <1>3 DEF Idle
  <2> HIDE DEF x
  <2>4. x \in RunType /\ x.stage = "fetch" /\ x.at = 1 /\ x.tries = 0 /\ x.fresh = {}
    BY <2>3 DEF RunType, Stages
  <2>5. RunOk(r, x)
    BY <2>1, <2>2, <2>4 DEF RunOk
  <2> QED BY <1>1, <2>4, <2>5
<1> QED BY <1>2, <1>3

\* A fetch takes the version the source holds, which its document has.
LEMMA FetchMoves ==
  ASSUME VersionsTyped, RunsTyped, NEW r \in Runs, Fetch(r)
  PROVE  \E x : /\ run' = [run EXCEPT ![r] = x] /\ RunOk(r, x) /\ x.stage = "prepare" /\ x.next = 1
<1>0. RunOk(r, run[r]) /\ run[r] \in RunType /\ run[r].stage = "fetch"
  BY DEF RunsTyped, Fetch
<1>1. Doc(r) = DocAt(r, run[r]) /\ Doc(r) \in Docs
  BY <1>0, DocType DEF Doc, DocAt
<1>2. version[Doc(r)] \in Nat /\ version[Doc(r)] \in DOMAIN Versions[Doc(r)]
  BY <1>1 DEF VersionsTyped
<1>3. PICK x : x = [run[r] EXCEPT !.stage = "prepare", !.v = version[Doc(r)], !.next = 1, !.tries = 0]
  OBVIOUS
<1>4. run' = [run EXCEPT ![r] = x]
  BY <1>0, <1>3 DEF Fetch, RunsTyped, RunType
<1>5. /\ x \in RunType /\ x.stage = "prepare" /\ x.v = version[Doc(r)] /\ x.tries = 0
      /\ x.at = run[r].at /\ x.next = 1 /\ x.fresh = run[r].fresh
  BY <1>0, <1>2, <1>3 DEF RunType, Stages
<1>6. MaxAttempts \in Nat \ {0}
  BY IngestionAssumption
<1>7. DocAt(r, x) = Doc(r) /\ Len(ChunksAt(r, x)) \in Nat
  <2>1. DocAt(r, x) = Doc(r)
    BY <1>1, <1>5 DEF DocAt
  <2>2. IsList(Versions[Doc(r)][version[Doc(r)]].chunks)
    BY <1>1, <1>2, IngestionAssumption
  <2> QED BY <1>5, <2>1, <2>2 DEF ChunksAt, IsList
<1>8. RunOk(r, x)
  BY <1>0, <1>1, <1>2, <1>5, <1>6, <1>7 DEF RunOk, DocAt
<1> QED BY <1>4, <1>5, <1>8

\* A run compares its next chunk, which it will write unless it is indexed as it
\* is, or hands the chunks to write over to the ledger activity.
Compared(r, x) ==
  \/ /\ run[r].next \in DOMAIN Chunks(r) /\ x.stage = "prepare" /\ x.next = run[r].next + 1
     /\ x.past = Past(r)
     /\ x.fresh = IF Unchanged(Doc(r), run[r].next, Chunks(r)[run[r].next]) THEN run[r].fresh
                  ELSE run[r].fresh \union {run[r].next}
  \/ /\ run[r].next \notin DOMAIN Chunks(r) /\ x.stage = "ledger" /\ x.next = 1
     /\ x.past = run[r].past /\ x.fresh = run[r].fresh

LEMMA PrepareMoves ==
  ASSUME RunsTyped, NEW r \in Runs, PrepareChunks(r)
  PROVE  \E x : /\ run' = [run EXCEPT ![r] = x] /\ RunOk(r, x)
                /\ x.at = run[r].at /\ x.v = run[r].v /\ Compared(r, x)
<1>0. RunOk(r, run[r]) /\ run[r] \in RunType /\ run[r].stage = "prepare"
  BY DEF RunsTyped, PrepareChunks
<1>1. Chunks(r) = ChunksAt(r, run[r]) /\ IsList(Chunks(r)) /\ Len(Chunks(r)) \in Nat
  BY <1>0, ChunksType DEF Chunks, ChunksAt, Doc, DocAt, IsList
<1>2. MaxAttempts \in Nat \ {0}
  BY IngestionAssumption
<1>3. CASE run[r].next \in DOMAIN Chunks(r)
  <2>1. PICK i, fresh, past :
          /\ i = run[r].next /\ past = Past(r)
          /\ fresh = IF Unchanged(Doc(r), i, Chunks(r)[i]) THEN run[r].fresh ELSE run[r].fresh \union {i}
    OBVIOUS
  <2>2. /\ i \in 1..Len(Chunks(r)) /\ past \in SUBSET Runs
        /\ fresh \in SUBSET (Nat \ {0}) /\ fresh \subseteq DOMAIN Chunks(r)
    <3>1. i \in 1..Len(Chunks(r)) /\ past \in SUBSET Runs
      BY <1>0, <1>1, <1>3, <2>1 DEF IsList, Past, RunType
    <3>2. run[r].fresh \in SUBSET (Nat \ {0}) /\ run[r].fresh \subseteq DOMAIN Chunks(r)
      BY <1>0, <1>1 DEF RunOk, RunType
    <3> QED BY <1>1, <1>3, <2>1, <3>1, <3>2
  <2>3. PICK x : x = [run[r] EXCEPT !.next = i + 1, !.past = past, !.fresh = fresh]
    OBVIOUS
  <2>4. run' = [run EXCEPT ![r] = x]
    <3>1. run' = [run EXCEPT ![r] = [run[r] EXCEPT !.next = i + 1, !.past = Past(r),
                    !.fresh = IF Unchanged(Doc(r), i, Chunks(r)[i]) THEN run[r].fresh ELSE run[r].fresh \union {i}]]
      BY <1>0, <1>3, <2>1 DEF PrepareChunks, RunsTyped, RunType
    <3> QED BY <2>1, <2>3, <3>1
  <2>5. /\ x \in RunType /\ x.stage = "prepare" /\ x.next = i + 1 /\ x.past = past /\ x.fresh = fresh
        /\ x.at = run[r].at /\ x.v = run[r].v /\ x.tries = run[r].tries
    <3>1. i + 1 \in Nat
      BY <1>1, <2>2
    <3> QED BY <1>0, <2>2, <2>3, <3>1 DEF RunType
  <2>6. DocAt(r, x) = DocAt(r, run[r]) /\ ChunksAt(r, x) = Chunks(r)
    BY <1>1, <2>5 DEF DocAt, ChunksAt
  <2>7. RunOk(r, x)
    BY <1>0, <1>1, <2>2, <2>5, <2>6 DEF RunOk
  <2>8. Compared(r, x)
    BY <1>3, <2>1, <2>5 DEF Compared
  <2> QED BY <2>4, <2>5, <2>7, <2>8
<1>4. CASE run[r].next \notin DOMAIN Chunks(r)
  <2>1. PICK x : x = [run[r] EXCEPT !.stage = "ledger", !.next = 1, !.tries = 0]
    OBVIOUS
  <2>2. run' = [run EXCEPT ![r] = x]
    BY <1>0, <1>4, <2>1 DEF PrepareChunks, Enter, RunsTyped, RunType
  <2>3. /\ x \in RunType /\ x.stage = "ledger" /\ x.next = 1 /\ x.past = run[r].past
        /\ x.fresh = run[r].fresh /\ x.at = run[r].at /\ x.v = run[r].v /\ x.tries = 0
    BY <1>0, <2>1 DEF RunType, Stages
  <2>4. DocAt(r, x) = DocAt(r, run[r]) /\ ChunksAt(r, x) = Chunks(r)
    BY <1>1, <2>3 DEF DocAt, ChunksAt
  <2>5. RunOk(r, x)
    BY <1>0, <1>1, <1>2, <2>3, <2>4 DEF RunOk
  <2>6. Compared(r, x)
    BY <1>4, <2>3 DEF Compared
  <2> QED BY <2>2, <2>3, <2>5, <2>6
<1> QED BY <1>3, <1>4

\* The same work: the document, its version, its changed chunks.
SameWork(r, x) == /\ x.at = run[r].at /\ x.v = run[r].v
                  /\ x.fresh = run[r].fresh /\ x.past = run[r].past

\* The ledger activity publishes its next chunk, or hands over to the index
\* activity.
LEMMA LedgerMoves ==
  ASSUME RunsTyped, NEW r \in Runs, WriteLedger(r)
  PROVE  \E x : /\ run' = [run EXCEPT ![r] = x] /\ RunOk(r, x) /\ SameWork(r, x)
                /\ \/ /\ Todo(r) # {} /\ x.stage = "ledger" /\ x.next = Min(Todo(r)) + 1
                      /\ ledger' = Append(ledger, [lineage |-> Lineage(r, Min(Todo(r))), source |-> SourceOf[r]])
                   \/ Todo(r) = {} /\ x.stage = "index" /\ x.next = 1 /\ UNCHANGED ledger
<1>0. RunOk(r, run[r]) /\ run[r] \in RunType /\ run[r].stage = "ledger"
  BY DEF RunsTyped, WriteLedger
<1>1. Chunks(r) = ChunksAt(r, run[r]) /\ Len(Chunks(r)) \in Nat
  BY <1>0, ChunksType DEF Chunks, ChunksAt, Doc, DocAt, IsList
<1>2. MaxAttempts \in Nat \ {0}
  BY IngestionAssumption
<1>3. CASE Todo(r) # {}
  <2>1. PICK i : i = Min(Todo(r))
    OBVIOUS
  <2>2. i \in 1..Len(Chunks(r))
    BY <1>0, <1>3, <2>1, TodoFirst
  <2>3. PICK x : x = [run[r] EXCEPT !.next = i + 1]
    OBVIOUS
  <2>4. run' = [run EXCEPT ![r] = x]
    BY <1>0, <1>3, <2>1, <2>3 DEF WriteLedger, RunsTyped, RunType
  <2>5. x \in RunType /\ x.stage = "ledger" /\ x.next = i + 1 /\ SameWork(r, x) /\ x.tries = run[r].tries
    BY <1>0, <1>1, <2>2, <2>3 DEF RunType, SameWork
  <2>6. DocAt(r, x) = DocAt(r, run[r]) /\ ChunksAt(r, x) = Chunks(r)
    BY <1>1, <2>5 DEF DocAt, ChunksAt, SameWork
  <2>7. RunOk(r, x)
    BY <1>0, <1>1, <2>2, <2>5, <2>6 DEF RunOk, SameWork
  <2>8. ledger' = Append(ledger, [lineage |-> Lineage(r, i), source |-> SourceOf[r]])
    BY <1>3, <2>1 DEF WriteLedger
  <2> QED BY <1>3, <2>1, <2>4, <2>5, <2>7, <2>8
<1>4. CASE Todo(r) = {}
  <2>3. PICK x : x = [run[r] EXCEPT !.stage = "index", !.next = 1, !.tries = 0]
    OBVIOUS
  <2>4. run' = [run EXCEPT ![r] = x] /\ UNCHANGED ledger
    BY <1>0, <1>4, <2>3 DEF WriteLedger, Enter, RunsTyped, RunType
  <2>5. x \in RunType /\ x.stage = "index" /\ x.next = 1 /\ SameWork(r, x) /\ x.tries = 0
    BY <1>0, <2>3 DEF RunType, SameWork, Stages
  <2>6. DocAt(r, x) = DocAt(r, run[r]) /\ ChunksAt(r, x) = Chunks(r)
    BY <1>1, <2>5 DEF DocAt, ChunksAt, SameWork
  <2>7. RunOk(r, x)
    BY <1>0, <1>1, <1>2, <2>5, <2>6 DEF RunOk, SameWork
  <2> QED BY <1>4, <2>4, <2>5, <2>7
<1> QED BY <1>3, <1>4

\* The index activity writes its next chunk, or the document is done.
LEMMA IndexMoves ==
  ASSUME RunsTyped, NEW r \in Runs, IndexChunks(r)
  PROVE  \E x : /\ run' = [run EXCEPT ![r] = x] /\ RunOk(r, x)
                /\ \/ /\ Todo(r) # {} /\ x.stage = "index" /\ x.next = Min(Todo(r)) + 1
                      /\ SameWork(r, x) /\ UpsertChunk(r, Min(Todo(r)))
                   \/ Todo(r) = {} /\ x.stage \in {"fetch", "done"} /\ x.fresh = {} /\ UNCHANGED index
<1>0. RunOk(r, run[r]) /\ run[r] \in RunType /\ run[r].stage = "index"
  BY DEF RunsTyped, IndexChunks
<1>1. Chunks(r) = ChunksAt(r, run[r]) /\ Len(Chunks(r)) \in Nat
  BY <1>0, ChunksType DEF Chunks, ChunksAt, Doc, DocAt, IsList
<1>2. MaxAttempts \in Nat \ {0} /\ DocsOf[SourceOf[r]] \in Seq(Docs)
  BY IngestionAssumption
<1>3. CASE Todo(r) # {}
  <2>1. PICK i : i = Min(Todo(r))
    OBVIOUS
  <2>2. i \in 1..Len(Chunks(r))
    BY <1>0, <1>3, <2>1, TodoFirst
  <2>3. PICK x : x = [run[r] EXCEPT !.next = i + 1]
    OBVIOUS
  <2>4. run' = [run EXCEPT ![r] = x]
    BY <1>0, <1>3, <2>1, <2>3 DEF IndexChunks, RunsTyped, RunType
  <2>5. x \in RunType /\ x.stage = "index" /\ x.next = i + 1 /\ SameWork(r, x) /\ x.tries = run[r].tries
    BY <1>0, <1>1, <2>2, <2>3 DEF RunType, SameWork
  <2>6. DocAt(r, x) = DocAt(r, run[r]) /\ ChunksAt(r, x) = Chunks(r)
    BY <1>1, <2>5 DEF DocAt, ChunksAt, SameWork
  <2>7. RunOk(r, x)
    BY <1>0, <1>1, <2>2, <2>5, <2>6 DEF RunOk, SameWork
  <2>8. UpsertChunk(r, i)
    BY <1>3, <2>1 DEF IndexChunks
  <2> QED BY <1>3, <2>1, <2>4, <2>5, <2>7, <2>8
<1>4. CASE Todo(r) = {} /\ run[r].at = Len(DocsOf[SourceOf[r]])
  <2>1. run' = [run EXCEPT ![r] = Ended] /\ UNCHANGED index
    BY <1>4 DEF IndexChunks, NextDoc, NextDocIf
  <2>2. RunOk(r, Ended) /\ Ended.stage = "done" /\ Ended.fresh = {}
    BY IdleRuns DEF Ended, Idle
  <2> QED BY <1>4, <2>1, <2>2
<1>5. CASE Todo(r) = {} /\ run[r].at # Len(DocsOf[SourceOf[r]])
  <2>1. PICK x : x = [Idle EXCEPT !.stage = "fetch", !.at = run[r].at + 1]
    OBVIOUS
  <2>2. run' = [run EXCEPT ![r] = x] /\ UNCHANGED index
    BY <1>5, <2>1 DEF IndexChunks, NextDoc, NextDocIf
  <2>3. run[r].at \in DOMAIN DocsOf[SourceOf[r]]
    BY <1>0 DEF RunOk
  <2>4. run[r].at + 1 \in DOMAIN DocsOf[SourceOf[r]] /\ run[r].at + 1 \in Nat
    BY <1>2, <1>5, <2>3
  <2>5. x \in RunType /\ x.stage = "fetch" /\ x.at = run[r].at + 1 /\ x.tries = 0 /\ x.fresh = {}
    BY <2>1, <2>4 DEF Idle, RunType, Stages
  <2>6. RunOk(r, x)
    BY <1>2, <2>4, <2>5 DEF RunOk
  <2> QED BY <1>5, <2>2, <2>5, <2>6
<1> QED BY <1>3, <1>4, <1>5

\* An activity that fails begins again with the same work, or the run has
\* failed; a comparison begins without what it had found.
Restarted(r, x) ==
  /\ x.stage = run[r].stage /\ x.next <= 1
  /\ x.at = run[r].at /\ x.v = run[r].v /\ x.past = run[r].past
  /\ x.fresh = IF run[r].stage = "prepare" THEN {} ELSE run[r].fresh

LEMMA FailMoves ==
  ASSUME RunsTyped, NEW r \in Runs, ActivityFails(r)
  PROVE  \E x : /\ run' = [run EXCEPT ![r] = x] /\ RunOk(r, x)
                /\ \/ Restarted(r, x)
                   \/ x.stage = "failed" /\ x.fresh = {}
<1>0. RunOk(r, run[r]) /\ run[r] \in RunType /\ MaxAttempts \in Nat \ {0}
  BY IngestionAssumption DEF RunsTyped
<1>1. CASE run[r].tries + 1 < MaxAttempts
  <2>0. PICK n \in {0, 1} : (run[r].next = 0 => n = 0) /\ (run[r].next # 0 => n = 1)
    OBVIOUS
  <2>9. PICK fresh : fresh = IF run[r].stage = "prepare" THEN {} ELSE run[r].fresh
    OBVIOUS
  <2>1. PICK x : x = [run[r] EXCEPT !.tries = run[r].tries + 1, !.next = n, !.fresh = fresh]
    OBVIOUS
  <2>2. run' = [run EXCEPT ![r] = x]
    <3>1. run' = [run EXCEPT ![r] = [run[r] EXCEPT !.tries = run[r].tries + 1,
                                                   !.next = IF run[r].next = 0 THEN 0 ELSE 1,
                                                   !.fresh = IF run[r].stage = "prepare" THEN {} ELSE run[r].fresh]]
      BY <1>1 DEF ActivityFails
    <3>2. (IF run[r].next = 0 THEN 0 ELSE 1) = n
      BY <2>0
    <3> QED BY <2>1, <2>9, <3>1, <3>2
  <2>3. /\ x \in RunType /\ x.stage = run[r].stage /\ x.tries = run[r].tries + 1
        /\ x.next = n /\ x.fresh = fresh
        /\ x.at = run[r].at /\ x.v = run[r].v /\ x.past = run[r].past
    <3>1. n \in Nat
      BY <2>0
    <3>2. run[r].tries + 1 \in Nat
      BY <1>0 DEF RunType
    <3>5. fresh \in SUBSET (Nat \ {0})
      BY <1>0, <2>9 DEF RunType
    <3>3. x \in RunType
      BY <1>0, <2>1, <3>1, <3>2, <3>5 DEF RunType
    <3>4. /\ x.stage = run[r].stage /\ x.tries = run[r].tries + 1 /\ x.next = n /\ x.fresh = fresh
          /\ x.at = run[r].at /\ x.v = run[r].v /\ x.past = run[r].past
      BY <1>0, <2>1 DEF RunType
    <3> QED BY <3>3, <3>4
  <2>4. DocAt(r, x) = DocAt(r, run[r]) /\ ChunksAt(r, x) = ChunksAt(r, run[r])
    BY <2>3 DEF DocAt, ChunksAt
  <2>5. run[r].stage \in {"prepare", "ledger", "index"} => Len(ChunksAt(r, x)) \in Nat
    BY <1>0, <2>4, ChunksType DEF IsList
  <2>6. RunOk(r, x)
    BY <1>0, <1>1, <2>0, <2>3, <2>4, <2>5, <2>9 DEF RunOk
  <2>7. n <= 1
    BY <2>0
  <2>8. Restarted(r, x)
    BY <2>3, <2>7, <2>9 DEF Restarted
  <2> QED BY <2>2, <2>6, <2>8
<1>2. CASE ~(run[r].tries + 1 < MaxAttempts)
  <2>1. PICK x : x = [Idle EXCEPT !.stage = "failed"]
    OBVIOUS
  <2>2. run' = [run EXCEPT ![r] = x]
    BY <1>0, <1>2, <2>1 DEF ActivityFails, RunsTyped, RunType
  <2>3. RunOk(r, x)
    BY <2>1, IdleRuns
  <2>4. x.stage = "failed" /\ x.fresh = {}
    BY <2>1 DEF Idle
  <2> QED BY <2>2, <2>3, <2>4
<1> QED BY <1>1, <1>2

\* A ledger that grows keeps its events.
LEMMA LedgerGrows ==
  ASSUME ledger \in Seq(Event), NEW e \in Event, ledger' = Append(ledger, e)
  PROVE  /\ ledger' \in Seq(Event) /\ Len(ledger') = Len(ledger) + 1
         /\ \A n \in 1..Len(ledger) : ledger'[n] = ledger[n]
         /\ ledger'[Len(ledger) + 1] = e
         /\ Lineages \subseteq Lineages' /\ e.lineage \in Lineages'
<1>1. /\ ledger' \in Seq(Event) /\ Len(ledger') = Len(ledger) + 1 /\ Len(ledger) \in Nat
      /\ \A n \in 1..Len(ledger) : ledger'[n] = ledger[n]
      /\ ledger'[Len(ledger) + 1] = e
  OBVIOUS
<1>2. DOMAIN ledger = 1..Len(ledger) /\ DOMAIN ledger' = 1..Len(ledger')
  BY <1>1
<1>3. Lineages = {ledger[n].lineage : n \in DOMAIN ledger} /\ Lineages' = {ledger'[n].lineage : n \in DOMAIN ledger'}
  BY DEF Lineages
<1>4. \A l \in Lineages : l \in Lineages'
  BY <1>1, <1>2, <1>3
<1>5. e.lineage \in Lineages'
  BY <1>1, <1>2, <1>3
<1> QED BY <1>1, <1>4, <1>5

\* The rest of the corpus when one run has moved.
LEMMA ProvenanceKept ==
  ASSUME CorpusInv, NEW r \in Runs, NEW x, run' = [run EXCEPT ![r] = x],
         Lineages \subseteq Lineages', ledger' \in Seq(Event), Logged(r, x, Lineages'),
         RowsKnown(index', Lineages')
  PROVE  Provenance'
<1>1. \A q \in Runs : Logged(q, run'[q], Lineages')
  <2>1. TAKE q \in Runs
  <2>2. run \in [Runs -> RunType]
    BY DEF CorpusInv, RunsTyped
  <2>3. CASE q = r
    BY <2>2, <2>3
  <2>4. CASE q # r
    <3>1. run'[q] = run[q] /\ Logged(q, run[q], Lineages)
      BY <2>2, <2>4 DEF CorpusInv, Provenance
    <3> QED BY <3>1 DEF Logged
  <2> QED BY <2>3, <2>4
<1>2. (\A q \in Runs : Logged(q, run[q], Lineages))' <=> \A q \in Runs : Logged(q, run'[q], Lineages')
  BY DEF Logged, DocAt
<1>3. RowsKnown(index, Lineages)' <=> RowsKnown(index', Lineages')
  BY DEF RowsKnown
<1> QED BY <1>1, <1>2, <1>3 DEF Provenance

\* Rows stay known when the ledger grows.
LEMMA RowsStayKnown ==
  ASSUME NEW rows, NEW L, NEW M, RowsKnown(rows, L), L \subseteq M
  PROVE  RowsKnown(rows, M)
BY DEF RowsKnown

\* A step of a run that writes nothing.
LEMMA QuietMoves ==
  ASSUME CorpusInv, NEW r \in Runs, NEW x, run' = [run EXCEPT ![r] = x], RunOk(r, x),
         Logged(r, x, Lineages), UNCHANGED <<index, ledger>>
  PROVE  RunsTyped' /\ Provenance'
<1>1. RunsTyped'
  BY RunMoves DEF CorpusInv
<1>2. Lineages' = Lineages /\ ledger' \in Seq(Event) /\ RowsKnown(index', Lineages')
  BY DEF Lineages, CorpusInv, Provenance, RowsKnown
<1>3. Lineages \subseteq Lineages' /\ Logged(r, x, Lineages')
  BY <1>2
<1> QED BY <1>1, <1>2, <1>3, ProvenanceKept

\* A step that edits no document.
LEMMA VersionsStay == VersionsTyped /\ UNCHANGED version => VersionsTyped'
BY DEF VersionsTyped

\* Publishing keeps the corpus sound: what a run has got past is on the ledger.
LEMMA LedgerStep ==
  ASSUME CorpusInv, NEW r \in Runs, WriteLedger(r)
  PROVE  CorpusInv'
<1>0. VersionsTyped' /\ RunsTyped /\ run[r].stage = "ledger" /\ UNCHANGED index
  BY VersionsStay DEF CorpusInv, WriteLedger
<1>1. PICK x : /\ run' = [run EXCEPT ![r] = x] /\ RunOk(r, x) /\ SameWork(r, x)
               /\ \/ /\ Todo(r) # {} /\ x.stage = "ledger" /\ x.next = Min(Todo(r)) + 1
                     /\ ledger' = Append(ledger, [lineage |-> Lineage(r, Min(Todo(r))), source |-> SourceOf[r]])
                  \/ Todo(r) = {} /\ x.stage = "index" /\ x.next = 1 /\ UNCHANGED ledger
  BY <1>0, LedgerMoves
<1>2. /\ RunOk(r, run[r]) /\ run[r] \in RunType /\ Logged(r, run[r], Lineages)
      /\ DocAt(r, x) = DocAt(r, run[r]) /\ DocAt(r, x) = Doc(r) /\ x.fresh = run[r].fresh
  BY <1>0, <1>1 DEF CorpusInv, Provenance, RunsTyped, SameWork, DocAt, Doc
<1>3. CASE Todo(r) # {}
  <2>1. PICK i : i = Min(Todo(r))
    OBVIOUS
  <2>2. /\ i \in run[r].fresh /\ i \in 1..Len(Chunks(r))
        /\ \A j \in run[r].fresh : j < i => j < run[r].next
    BY <1>0, <1>3, <2>1, TodoFirst
  <2>3. PICK e : e = [lineage |-> Lineage(r, i), source |-> SourceOf[r]]
    OBVIOUS
  <2>4. Doc(r) \in Docs /\ SourceOf[r] \in Sources
    BY <1>0, <1>2, DocType
  <2>5. i \in Nat \ {0} /\ \A j \in run[r].fresh : j \in Nat
    BY <1>2, <2>2 DEF RunType
  <2>6. e \in Event /\ e.lineage = <<r, Doc(r), i>>
    BY <2>3, <2>4, <2>5 DEF Event, Lineage
  <2>7. x.stage = "ledger" /\ x.next = i + 1 /\ ledger' = Append(ledger, e)
    BY <1>1, <1>3, <2>1, <2>3
  <2>8. ledger' \in Seq(Event) /\ Lineages \subseteq Lineages' /\ e.lineage \in Lineages'
    BY <2>6, <2>7, LedgerGrows DEF CorpusInv, Provenance
  <2>9. Logged(r, x, Lineages')
    <3>1. SUFFICES ASSUME NEW j \in run[r].fresh, j < i + 1
                   PROVE <<r, Doc(r), j>> \in Lineages'
      BY <1>2, <2>7 DEF Logged
    <3>2. j = i \/ j < i
      BY <2>5, <3>1
    <3>3. j < i => <<r, Doc(r), j>> \in Lineages
      BY <1>0, <1>2, <2>2 DEF Logged
    <3> QED BY <2>6, <2>8, <3>2, <3>3
  <2>10. RowsKnown(index', Lineages')
    BY <1>0, <2>8, RowsStayKnown DEF CorpusInv, Provenance
  <2>11. Provenance'
    BY <1>1, <2>8, <2>9, <2>10, ProvenanceKept
  <2>12. RunsTyped'
    BY <1>0, <1>1, RunMoves
  <2> QED BY <1>0, <2>11, <2>12 DEF CorpusInv
<1>4. CASE Todo(r) = {}
  <2>1. x.stage = "index" /\ UNCHANGED <<index, ledger>>
    BY <1>0, <1>1, <1>4
  <2>2. \A j \in run[r].fresh : j < run[r].next
    <3>1. run[r].next \in Nat /\ \A j \in run[r].fresh : j \in Nat
      BY <1>2 DEF RunType
    <3>2. \A j \in run[r].fresh : ~(j >= run[r].next)
      BY <1>4 DEF Todo
    <3> QED BY <3>1, <3>2
  <2>3. Logged(r, x, Lineages)
    BY <1>0, <1>2, <2>2 DEF Logged
  <2> QED BY <1>0, <1>1, <2>1, <2>3, QuietMoves DEF CorpusInv
<1> QED BY <1>3, <1>4

\* What run r does to the index by writing chunk i.
Upserted(r, i) ==
  /\ DOMAIN index' = DOMAIN index \cup {<<Doc(r), i>>}
  /\ index'[<<Doc(r), i>>] = Row(r, i)
  /\ \A k \in DOMAIN index : k # <<Doc(r), i>> => index'[k] = index[k]
  /\ Doc(r) \in Docs /\ Doc(r) \in Range(DocsOf[SourceOf[r]]) /\ SourceOf[r] \in Sources
  /\ i \in Nat \ {0}
  /\ Row(r, i).source = SourceOf[r] /\ Row(r, i).content = Chunks(r)[i]
  /\ Row(r, i).lineage = <<r, Doc(r), i>> /\ <<r, Doc(r), i>> \in Lineages

\* One row is written, the others stay.
LEMMA UpsertRows ==
  ASSUME CorpusInv, NEW r \in Runs, run[r].stage = "index", NEW i \in run[r].fresh,
         UpsertChunk(r, i)
  PROVE  Upserted(r, i)
<1>1. RunOk(r, run[r]) /\ run[r] \in RunType /\ Logged(r, run[r], Lineages) /\ Doc(r) = DocAt(r, run[r])
  BY DEF CorpusInv, Provenance, RunsTyped, DocAt, Doc
<1>2. Doc(r) \in Docs /\ Doc(r) \in Range(DocsOf[SourceOf[r]]) /\ SourceOf[r] \in Sources
  BY <1>1, DocType
<1>3. i \in Nat \ {0}
  BY <1>1 DEF RunType
<1>4. <<r, Doc(r), i>> \in Lineages
  BY <1>1 DEF Logged
<1>5. /\ Row(r, i).source = SourceOf[r] /\ Row(r, i).content = Chunks(r)[i]
      /\ Row(r, i).lineage = <<r, Doc(r), i>>
  BY DEF Row, Lineage
<1> QED BY <1>2, <1>3, <1>4, <1>5 DEF UpsertChunk, Upserted

\* Upserting keeps it sound: a chunk is written when its event is on the
\* ledger.
LEMMA IndexStep ==
  ASSUME CorpusInv, NEW r \in Runs, IndexChunks(r)
  PROVE  CorpusInv'
<1>0. VersionsTyped' /\ RunsTyped /\ run[r].stage = "index" /\ UNCHANGED ledger
  BY VersionsStay DEF CorpusInv, IndexChunks
<1>1. PICK x : /\ run' = [run EXCEPT ![r] = x] /\ RunOk(r, x)
               /\ \/ /\ Todo(r) # {} /\ x.stage = "index" /\ x.next = Min(Todo(r)) + 1
                     /\ SameWork(r, x) /\ UpsertChunk(r, Min(Todo(r)))
                  \/ Todo(r) = {} /\ x.stage \in {"fetch", "done"} /\ x.fresh = {} /\ UNCHANGED index
  BY <1>0, IndexMoves
<1>2. /\ Logged(r, run[r], Lineages) /\ Lineages' = Lineages /\ ledger' \in Seq(Event)
      /\ RowsKnown(index, Lineages)
  BY <1>0 DEF CorpusInv, Provenance, Lineages
<1>3. CASE Todo(r) # {}
  <2>1. PICK i : i = Min(Todo(r))
    OBVIOUS
  <2>2. i \in run[r].fresh /\ UpsertChunk(r, i) /\ x.stage = "index" /\ SameWork(r, x)
    BY <1>0, <1>1, <1>3, <2>1, TodoFirst
  <2>3. Logged(r, x, Lineages')
    BY <1>0, <1>2, <2>2 DEF Logged, SameWork, DocAt
  <2>4. RowsKnown(index', Lineages')
    <3>1. /\ DOMAIN index' = DOMAIN index \cup {<<Doc(r), i>>}
          /\ index'[<<Doc(r), i>>] = Row(r, i)
          /\ \A k \in DOMAIN index : k # <<Doc(r), i>> => index'[k] = index[k]
          /\ Doc(r) \in Docs /\ Doc(r) \in Range(DocsOf[SourceOf[r]]) /\ SourceOf[r] \in Sources
          /\ i \in Nat \ {0} /\ Row(r, i).source = SourceOf[r]
          /\ Row(r, i).lineage = <<r, Doc(r), i>> /\ <<r, Doc(r), i>> \in Lineages
      <4>1. CorpusInv /\ run[r].stage = "index" /\ i \in run[r].fresh /\ UpsertChunk(r, i)
        BY <1>0, <2>2
      <4>2. Upserted(r, i)
        BY <4>1, UpsertRows
      <4> QED BY <4>2 DEF Upserted
    <3>2. DOMAIN index' \subseteq Docs \X (Nat \ {0})
      BY <1>2, <3>1 DEF RowsKnown
    <3>3. ASSUME NEW k \in DOMAIN index'
          PROVE  /\ index'[k].source \in Sources /\ k[1] \in Range(DocsOf[index'[k].source])
                 /\ index'[k].lineage \in Lineages'
      <4>1. CASE k = <<Doc(r), i>>
        BY <1>2, <3>1, <4>1
      <4>2. CASE k # <<Doc(r), i>>
        BY <1>2, <3>1, <3>3, <4>2 DEF RowsKnown
      <4> QED BY <4>1, <4>2
    <3> QED BY <3>2, <3>3 DEF RowsKnown
  <2>5. Lineages \subseteq Lineages'
    BY <1>2
  <2>6. Provenance'
    BY <1>1, <1>2, <2>3, <2>4, <2>5, ProvenanceKept
  <2>7. RunsTyped'
    BY <1>0, <1>1, RunMoves
  <2> QED BY <1>0, <2>6, <2>7 DEF CorpusInv
<1>4. CASE Todo(r) = {}
  <2>1. UNCHANGED <<index, ledger>> /\ Logged(r, x, Lineages)
    BY <1>0, <1>1, <1>4 DEF Logged
  <2> QED BY <1>0, <1>1, <2>1, QuietMoves DEF CorpusInv
<1> QED BY <1>3, <1>4

\* A failure takes back no event, and a run that begins again claims no more
\* than before.
LEMMA FailStep ==
  ASSUME CorpusInv, NEW r \in Runs, ActivityFails(r)
  PROVE  CorpusInv'
<1>0. VersionsTyped' /\ RunsTyped /\ UNCHANGED <<index, ledger>>
  BY VersionsStay DEF CorpusInv, ActivityFails
<1>1. PICK x : /\ run' = [run EXCEPT ![r] = x] /\ RunOk(r, x)
               /\ Restarted(r, x) \/ (x.stage = "failed" /\ x.fresh = {})
  BY <1>0, FailMoves
<1>2. Logged(r, run[r], Lineages) /\ x \in RunType
  BY <1>1 DEF CorpusInv, Provenance, RunOk
<1>3. Logged(r, x, Lineages)
  <2>1. SUFFICES ASSUME NEW i \in x.fresh,
                        x.stage = "index" \/ (x.stage = "ledger" /\ i < x.next)
                 PROVE  <<r, DocAt(r, x), i>> \in Lineages
    BY DEF Logged
  <2>2. Restarted(r, x) /\ i \in Nat \ {0} /\ x.next \in Nat
    BY <1>1, <1>2, <2>1 DEF RunType
  <2>3. x.stage = "index" /\ run[r].stage = "index"
    BY <2>1, <2>2 DEF Restarted
  <2> QED BY <1>2, <2>2, <2>3 DEF Logged, Restarted, DocAt
<1> QED BY <1>0, <1>1, <1>3, QuietMoves DEF CorpusInv

\* Every step of ingestion keeps the corpus sound.
LEMMA IngestStep ==
  ASSUME CorpusInv, Ingest
  PROVE  CorpusInv'
<1>1. ASSUME NEW d \in Docs, Edit(d) PROVE CorpusInv'
  <2>1. IsList(Versions[d]) /\ version[d] \in Nat \ {0} /\ version[d] \in DOMAIN Versions[d]
    BY IngestionAssumption DEF CorpusInv, VersionsTyped
  <2>2. version[d] + 1 \in Nat \ {0} /\ version[d] + 1 \in DOMAIN Versions[d]
    BY <1>1, <2>1 DEF Edit, IsList
  <2>3. VersionsTyped'
    BY <1>1, <2>2 DEF Edit, CorpusInv, VersionsTyped
  <2>4. UNCHANGED <<run, index, ledger>>
    BY <1>1 DEF Edit
  <2>5. RunsTyped' /\ Provenance'
    BY <2>4 DEF CorpusInv, RunsTyped, Provenance, Lineages
  <2> QED BY <2>3, <2>5 DEF CorpusInv
<1>2. ASSUME NEW r \in Runs, Start(r) PROVE CorpusInv'
  <2>1. VersionsTyped' /\ UNCHANGED <<index, ledger>> /\ RunsTyped
    BY <1>2, VersionsStay DEF CorpusInv, Start
  <2>2. PICK x : run' = [run EXCEPT ![r] = x] /\ RunOk(r, x) /\ x.fresh = {}
    BY <1>2, <2>1, StartMoves
  <2>3. Logged(r, x, Lineages)
    BY <2>2 DEF Logged
  <2> QED BY <2>1, <2>2, <2>3, QuietMoves DEF CorpusInv
<1>3. ASSUME NEW r \in Runs, Fetch(r) PROVE CorpusInv'
  <2>1. VersionsTyped' /\ UNCHANGED <<index, ledger>> /\ VersionsTyped /\ RunsTyped
    BY <1>3, VersionsStay DEF CorpusInv, Fetch
  <2>2. PICK x : run' = [run EXCEPT ![r] = x] /\ RunOk(r, x) /\ x.stage = "prepare"
    BY <1>3, <2>1, FetchMoves
  <2>3. Logged(r, x, Lineages)
    BY <2>2 DEF Logged
  <2> QED BY <2>1, <2>2, <2>3, QuietMoves DEF CorpusInv
<1>4. ASSUME NEW r \in Runs, PrepareChunks(r) PROVE CorpusInv'
  <2>1. VersionsTyped' /\ UNCHANGED <<index, ledger>> /\ RunsTyped
    BY <1>4, VersionsStay DEF CorpusInv, PrepareChunks
  <2>2. PICK x : /\ run' = [run EXCEPT ![r] = x] /\ RunOk(r, x)
                 /\ x.stage = "prepare" \/ (x.stage = "ledger" /\ x.next = 1)
    BY <1>4, <2>1, PrepareMoves DEF Compared
  <2>3. \A i \in x.fresh : i \in Nat \ {0}
    BY <2>2 DEF RunOk, RunType
  <2>4. Logged(r, x, Lineages)
    BY <2>2, <2>3 DEF Logged
  <2> QED BY <2>1, <2>2, <2>4, QuietMoves DEF CorpusInv
<1> QED BY <1>1, <1>2, <1>3, <1>4, LedgerStep, IndexStep, FailStep DEF Ingest,
       RunStep

\* The corpus to begin with.
LEMMA InitCorpus == Init => CorpusInv
<1> SUFFICES ASSUME Init PROVE CorpusInv
  OBVIOUS
<1>1. PICK load \in Loads : CorpusInit(load)
  BY DEF Init
<1>2. \A d \in Docs : 1 \in DOMAIN Versions[d]
  <2>1. TAKE d \in Docs
  <2>2. IsList(Versions[d]) /\ Versions[d] # <<>>
    BY IngestionAssumption
  <2>3. Len(Versions[d]) # 0
    BY <2>2 DEF IsList
  <2> QED BY <2>2, <2>3 DEF IsList
<1>3. VersionsTyped
  BY <1>1, <1>2 DEF CorpusInit, VersionsTyped
<1>4. RunsTyped
  <2>1. \A r \in Runs : run[r] \in {Idle, Ended} /\ DOMAIN run = Runs
    BY <1>1 DEF CorpusInit
  <2>2. \A r \in Runs : RunOk(r, run[r])
    BY <2>1, IdleRuns
  <2>3. run = [r \in Runs |-> run[r]]
    BY <1>1 DEF CorpusInit
  <2> QED BY <2>2, <2>3 DEF RunsTyped, RunOk
<1>5. Provenance
  <2>1. \A r \in Runs : run[r].fresh = {}
    BY <1>1 DEF CorpusInit, Idle, Ended
  <2>2. index = <<>> /\ ledger = <<>>
    BY <1>1 DEF CorpusInit
  <2>3. DOMAIN index = {} /\ ledger \in Seq(Event)
    BY <2>2
  <2> QED BY <2>1, <2>3 DEF Provenance, Logged, RowsKnown
<1> QED BY <1>3, <1>4, <1>5 DEF CorpusInv

-----------------------------------------------------------------------------
(* The stream of corpus events, the generations and the views of them.     *)

StreamTyped ==
  /\ gens \in [Sources -> 0..Len(ledger)]
  /\ view \in [Deployed -> [Sources -> 0..Len(ledger)]]
  /\ unseen \in [Deployed -> SUBSET Sources] /\ ready \subseteq Deployed
  /\ delivered \in 0..Len(ledger) /\ again \subseteq 1..delivered
  /\ handling \in [Deployed -> [seq : 0..delivered, current : 0..Len(ledger)]]

\* An event is with one replica, or is to come again, never both.
HeldOnce ==
  /\ \A i \in Deployed : handling[i].seq = 0 => handling[i] = NoMsg
  /\ \A i \in Deployed : handling[i].seq \notin again
  /\ \A i, j \in Deployed : handling[i].seq = handling[j].seq => (i = j \/ handling[i].seq = 0)

\* A seeded view holds what the watch has delivered.
ViewFollows == \A i \in ready : \A s \in Sources \ unseen[i] : gens[s] = 0 \/ view[i][s] = gens[s]

StreamInv == StreamTyped /\ HeldOnce /\ ViewFollows

streamVars == <<gens, view, unseen, ready, handling, delivered, again>>

\* A step that touches neither the stream nor the bucket nor the views.
LEMMA StreamStays ==
  ASSUME StreamInv, UNCHANGED <<ledger, streamVars>>
  PROVE  StreamInv'
BY DEF StreamInv, StreamTyped, HeldOnce, ViewFollows, Deployed, streamVars, NoMsg

\* The ledger grows: what was within its length still is.
LEMMA IngestStream ==
  ASSUME CorpusInv, StreamInv, Ingest
  PROVE  StreamInv' /\ Len(ledger') \in Nat /\ Len(ledger) \in Nat /\ Len(ledger) <= Len(ledger')
<1>1. UNCHANGED streamVars
  BY DEF Ingest, streamVars
<1>2. Len(ledger') \in Nat /\ Len(ledger) \in Nat /\ Len(ledger) <= Len(ledger')
  <2>1. ledger \in Seq(Event)
    BY DEF CorpusInv, Provenance
  <2>2. ledger' = ledger \/ \E e : ledger' = Append(ledger, e)
    BY DEF Ingest, Edit, Start, RunStep, Fetch, PrepareChunks, WriteLedger,
           IndexChunks, ActivityFails
  <2> QED BY <2>1, <2>2
<1>3. 0..Len(ledger) \subseteq 0..Len(ledger')
  BY <1>2
<1>4. PICK a, b : a = 0..Len(ledger) /\ b = 0..Len(ledger')
  OBVIOUS
<1>5. a \subseteq b /\ StreamTyped
  BY <1>3, <1>4 DEF StreamInv
<1>6. gens' \in [Sources -> b] /\ view' \in [Deployed' -> [Sources -> b]] /\ delivered' \in b
  BY <1>1, <1>4, <1>5 DEF StreamTyped, streamVars, Deployed
<1>7. handling' \in [Deployed' -> [seq : 0..delivered', current : b]]
  BY <1>1, <1>4, <1>5 DEF StreamTyped, streamVars, Deployed
<1>8. StreamTyped'
  BY <1>1, <1>4, <1>5, <1>6, <1>7 DEF StreamTyped, streamVars, Deployed
<1>9. HeldOnce' /\ ViewFollows'
  BY <1>1 DEF StreamInv, HeldOnce, ViewFollows, streamVars, Deployed, NoMsg
<1> QED BY <1>2, <1>8, <1>9 DEF StreamInv

\* The event a replica holds.
LEMMA HeldType ==
  ASSUME CorpusInv, StreamInv, NEW i \in Deployed, handling[i] # NoMsg
  PROVE  /\ handling[i].seq \in 1..Len(ledger) /\ handling[i].seq \in 1..delivered
         /\ handling[i].current \in 0..Len(ledger)
         /\ ledger[handling[i].seq].source \in Sources
         /\ ledger \in Seq(Event) /\ Len(ledger) \in Nat /\ delivered \in 0..Len(ledger)
<1>1. ledger \in Seq(Event)
  BY DEF CorpusInv, Provenance
<1>2. handling[i] \in [seq : 0..delivered, current : 0..Len(ledger)] /\ delivered \in 0..Len(ledger)
  BY DEF StreamInv, StreamTyped
<1>3. handling[i].seq # 0
  BY DEF StreamInv, HeldOnce
<1>4. Len(ledger) \in Nat
  BY <1>1
<1>5. handling[i].seq \in 1..Len(ledger) /\ handling[i].seq \in 1..delivered
  BY <1>2, <1>3, <1>4
<1>6. ledger[handling[i].seq] \in Event
  BY <1>1, <1>5
<1> QED BY <1>1, <1>2, <1>4, <1>5, <1>6 DEF Event

\* A replica takes the next event, or one to be delivered again, which no other
\* replica has.
LEMMA GetGenerationStream ==
  ASSUME CorpusInv, StreamInv, NEW i \in Deployed, GetGeneration(i)
  PROVE  StreamInv'
<1>1. PICK n \in again \union {delivered + 1} :
        /\ n \in DOMAIN ledger
        /\ handling' = [handling EXCEPT ![i] = [seq |-> n, current |-> gens[ledger[n].source]]]
        /\ again' = again \ {n} /\ delivered' = Max({delivered, n})
  BY DEF GetGeneration
<1>2. UNCHANGED <<ledger, gens, view, unseen, ready>> /\ handling[i] = NoMsg
  BY DEF GetGeneration, corpus
<1>3. ledger \in Seq(Event) /\ Len(ledger) \in Nat
  BY DEF CorpusInv, Provenance
<1>4. n \in 1..Len(ledger) /\ delivered \in 0..Len(ledger) /\ again \subseteq 1..delivered
  BY <1>1, <1>3 DEF StreamInv, StreamTyped
<1>5. delivered' \in 0..Len(ledger) /\ delivered <= delivered' /\ n <= delivered'
  <2>1. {delivered, n} \in SUBSET Nat /\ {delivered, n} # {}
    BY <1>4
  <2>2. CASE n <= delivered
    <3>1. Max({delivered, n}) = delivered
      BY <1>4, <2>2 DEF Max
    <3> QED BY <1>1, <1>4, <2>2, <3>1
  <2>3. CASE ~(n <= delivered)
    <3>1. Max({delivered, n}) = n
      BY <1>4, <2>3 DEF Max
    <3> QED BY <1>1, <1>4, <2>3, <3>1
  <2> QED BY <2>2, <2>3
<1>6. ledger[n].source \in Sources
  <2>1. ledger[n] \in Event
    BY <1>3, <1>4
  <2> QED BY <2>1 DEF Event
<1>7. PICK g : g = gens[ledger[n].source]
  OBVIOUS
<1>8. g \in 0..Len(ledger)
  BY <1>6, <1>7 DEF StreamInv, StreamTyped
<1>9. handling' = [handling EXCEPT ![i] = [seq |-> n, current |-> g]]
  BY <1>1, <1>7
<1>10. StreamTyped'
  <2>1. handling \in [Deployed -> [seq : 0..delivered, current : 0..Len(ledger)]]
    BY DEF StreamInv, StreamTyped
  <2>2. 0..delivered \subseteq 0..delivered'
    BY <1>4, <1>5
  <2>3. n \in 0..delivered'
    BY <1>4, <1>5
  <2>4. handling' \in [Deployed -> [seq : 0..delivered', current : 0..Len(ledger)]]
    BY <1>8, <1>9, <2>1, <2>2, <2>3
  <2>5. again' \subseteq 1..delivered'
    <3>1. again' \subseteq again
      BY <1>1
    <3>2. 1..delivered \subseteq 1..delivered'
      BY <1>4, <1>5
    <3> QED BY <1>4, <3>1, <3>2
  <2>6. Deployed' = Deployed
    BY <1>2 DEF Deployed
  <2>7. /\ gens' \in [Sources -> 0..Len(ledger')] /\ view' \in [Deployed' -> [Sources -> 0..Len(ledger')]]
        /\ unseen' \in [Deployed' -> SUBSET Sources] /\ ready' \subseteq Deployed'
    BY <1>2, <2>6 DEF StreamInv, StreamTyped
  <2>8. handling' \in [Deployed' -> [seq : 0..delivered', current : 0..Len(ledger')]]
    BY <1>2, <2>4, <2>6
  <2>9. delivered' \in 0..Len(ledger')
    BY <1>2, <1>5
  <2> QED BY <2>5, <2>7, <2>8, <2>9 DEF StreamTyped
<1>11. n # 0 /\ n \notin again' /\ \A j \in Deployed : handling[j].seq # n
  <2>1. n # 0 /\ n \notin again'
    BY <1>1, <1>4
  <2>2. ASSUME NEW j \in Deployed PROVE handling[j].seq # n
    <3>1. handling[j].seq \in 0..delivered /\ handling[j].seq \notin again
      BY DEF StreamInv, StreamTyped, HeldOnce
    <3> QED BY <1>1, <1>4, <3>1
  <2> QED BY <2>1, <2>2
<1>12. HeldOnce'
  <2>1. \A j \in Deployed : handling'[j] = IF j = i THEN [seq |-> n, current |-> g] ELSE handling[j]
    BY <1>9 DEF StreamInv, StreamTyped
  <2>2. again' \subseteq again
    BY <1>1
  <2>3. \A j \in Deployed : handling'[j].seq = IF j = i THEN n ELSE handling[j].seq
    BY <2>1
  <2>4. \A j \in Deployed : handling'[j].seq = 0 => handling'[j] = NoMsg
    BY <1>11, <2>1, <2>3 DEF StreamInv, HeldOnce
  <2>5. \A j \in Deployed : handling'[j].seq \notin again'
    BY <1>11, <2>2, <2>3 DEF StreamInv, HeldOnce
  <2>6. \A j, k \in Deployed : handling'[j].seq = handling'[k].seq => (j = k \/ handling'[j].seq = 0)
    BY <1>11, <2>3 DEF StreamInv, HeldOnce
  <2> QED BY <1>2, <2>4, <2>5, <2>6 DEF HeldOnce, Deployed, NoMsg
<1>13. ViewFollows'
  BY <1>2 DEF StreamInv, ViewFollows
<1> QED BY <1>10, <1>12, <1>13 DEF StreamInv

\* A replica lets go of its event, which may come again.
LEMMA ReleaseStream ==
  ASSUME StreamInv, NEW i \in Deployed, handling' = [handling EXCEPT ![i] = NoMsg],
         again' \subseteq again \union ({handling[i].seq} \ {0}), UNCHANGED <<delivered, ledger>>,
         Deployed' = Deployed
  PROVE  /\ again' \subseteq 1..delivered'
         /\ handling' \in [Deployed' -> [seq : 0..delivered', current : 0..Len(ledger')]]
         /\ HeldOnce'
<1>1. handling \in [Deployed -> [seq : 0..delivered, current : 0..Len(ledger)]]
      /\ delivered \in 0..Len(ledger) /\ again \subseteq 1..delivered
  BY DEF StreamInv, StreamTyped
<1>2. handling[i].seq \in 0..delivered
  BY <1>1
<1>3. again' \subseteq 1..delivered'
  BY <1>1, <1>2
<1>4. NoMsg \in [seq : 0..delivered, current : 0..Len(ledger)]
  BY <1>1 DEF NoMsg
<1>5. handling' \in [Deployed' -> [seq : 0..delivered', current : 0..Len(ledger')]]
  BY <1>1, <1>4
<1>6. \A j \in Deployed : handling'[j] = IF j = i THEN NoMsg ELSE handling[j]
  BY <1>1
<1>7. NoMsg.seq = 0
  BY DEF NoMsg
<1>8. \A j \in Deployed : handling'[j].seq = IF j = i THEN 0 ELSE handling[j].seq
  BY <1>6, <1>7
<1>9. \A j \in Deployed : handling'[j].seq = 0 => handling'[j] = NoMsg
  BY <1>6, <1>8 DEF StreamInv, HeldOnce
<1>10. \A j \in Deployed : handling'[j].seq \notin again'
  BY <1>1, <1>3, <1>8 DEF StreamInv, HeldOnce
<1>11. \A j, k \in Deployed : handling'[j].seq = handling'[k].seq => (j = k \/ handling'[j].seq = 0)
  BY <1>8 DEF StreamInv, HeldOnce
<1> QED BY <1>3, <1>5, <1>9, <1>10, <1>11 DEF HeldOnce, NoMsg

\* A put marks the key unseen by every view; the event is done, or comes again.
LEMMA HandleStream ==
  ASSUME CorpusInv, StreamInv, NEW i \in Deployed, HandleCorpusMutation(i)
  PROVE  StreamInv'
<1> DEFINE s == ledger[handling[i].seq].source
<1>0. /\ handling[i] # NoMsg /\ UNCHANGED <<ledger, view, ready, delivered>>
      /\ handling' = [handling EXCEPT ![i] = NoMsg]
      /\ again' \subseteq again \union ({handling[i].seq} \ {0})
  <2>1. handling[i] # NoMsg /\ UNCHANGED <<ledger, view, ready, delivered>>
    BY DEF HandleCorpusMutation, corpus
  <2>2. PICK lost : Release(i, lost)
    BY DEF HandleCorpusMutation
  <2>3. handling' = [handling EXCEPT ![i] = NoMsg] /\ again' \subseteq again \union {handling[i].seq}
    BY <2>2 DEF Release
  <2>4. handling[i].seq # 0
    BY <2>1 DEF StreamInv, HeldOnce
  <2> QED BY <2>1, <2>3, <2>4
<1>1. Deployed' = Deployed
  BY <1>0 DEF Deployed
<1>2. handling[i].seq \in 1..Len(ledger) /\ s \in Sources /\ Len(ledger) \in Nat
  BY <1>0, HeldType
<1>3. /\ again' \subseteq 1..delivered'
      /\ handling' \in [Deployed' -> [seq : 0..delivered', current : 0..Len(ledger')]]
      /\ HeldOnce'
  BY <1>0, <1>1, ReleaseStream
<1>4. \/ UNCHANGED <<gens, unseen>>
      \/ gens' = [gens EXCEPT ![s] = handling[i].seq] /\ unseen' = [j \in Deployed |-> unseen[j] \union {s}]
  BY DEF HandleCorpusMutation, PutGeneration
<1>5. gens' \in [Sources -> 0..Len(ledger)] /\ unseen' \in [Deployed -> SUBSET Sources]
  <2>1. gens \in [Sources -> 0..Len(ledger)] /\ unseen \in [Deployed -> SUBSET Sources]
    BY DEF StreamInv, StreamTyped
  <2> HIDE DEF s
  <2> QED BY <1>2, <1>4, <2>1
<1>6. StreamTyped'
  BY <1>0, <1>1, <1>3, <1>5 DEF StreamInv, StreamTyped
<1>7. ViewFollows'
  <2> SUFFICES ASSUME NEW j \in ready, NEW q \in Sources \ unseen'[j]
               PROVE  gens'[q] = 0 \/ view[j][q] = gens'[q]
    BY <1>0 DEF ViewFollows
  <2>1. j \in Deployed /\ gens \in [Sources -> 0..Len(ledger)] /\ unseen \in [Deployed -> SUBSET Sources]
    BY DEF StreamInv, StreamTyped
  <2> HIDE DEF s
  <2>2. q \notin unseen[j] /\ gens'[q] = gens[q]
    BY <1>4, <2>1
  <2> QED BY <2>2 DEF StreamInv, ViewFollows
<1> QED BY <1>3, <1>6, <1>7 DEF StreamInv

\* An event that is not acknowledged comes again.
LEMMA NakStream ==
  ASSUME CorpusInv, StreamInv, NEW i \in Deployed, NakMutation(i)
  PROVE  StreamInv'
<1>1. /\ UNCHANGED <<ledger, gens, view, unseen, ready, delivered>>
      /\ handling' = [handling EXCEPT ![i] = NoMsg] /\ again' = again \union {handling[i].seq}
      /\ handling[i] # NoMsg
  BY DEF NakMutation, Release, corpus
<1>2. Deployed' = Deployed /\ handling[i].seq # 0
  BY <1>1 DEF Deployed, StreamInv, HeldOnce
<1>3. /\ again' \subseteq 1..delivered'
      /\ handling' \in [Deployed' -> [seq : 0..delivered', current : 0..Len(ledger')]]
      /\ HeldOnce'
  BY <1>1, <1>2, ReleaseStream
<1>4. StreamTyped' /\ ViewFollows'
  BY <1>1, <1>2, <1>3 DEF StreamInv, StreamTyped, ViewFollows
<1> QED BY <1>3, <1>4 DEF StreamInv

\* A restarted replica has no view until it is seeded, and its event comes
\* again.
LEMMA RestartStream ==
  ASSUME CorpusInv, StreamInv, NEW i \in Deployed, Restart(i)
  PROVE  StreamInv'
<1>1. /\ UNCHANGED <<ledger, gens, delivered>>
      /\ handling' = [handling EXCEPT ![i] = NoMsg] /\ again' = again \union ({handling[i].seq} \ {0})
      /\ ready' = ready \ {i} /\ view' = [view EXCEPT ![i] = [s \in Sources |-> 0]]
      /\ unseen' = [unseen EXCEPT ![i] = {}]
  BY DEF Restart, corpus
<1>2. Deployed' = Deployed /\ Len(ledger) \in Nat
  BY <1>1 DEF Deployed, CorpusInv, Provenance
<1>3. /\ again' \subseteq 1..delivered'
      /\ handling' \in [Deployed' -> [seq : 0..delivered', current : 0..Len(ledger')]]
      /\ HeldOnce'
  BY <1>1, <1>2, ReleaseStream
<1>4. /\ view \in [Deployed -> [Sources -> 0..Len(ledger)]]
      /\ unseen \in [Deployed -> SUBSET Sources] /\ ready \subseteq Deployed
  BY DEF StreamInv, StreamTyped
<1>5. view' \in [Deployed -> [Sources -> 0..Len(ledger)]]
  BY <1>1, <1>2, <1>4
<1>6. unseen' \in [Deployed -> SUBSET Sources] /\ ready' \subseteq Deployed
  BY <1>1, <1>4
<1>7. StreamTyped'
  BY <1>1, <1>2, <1>3, <1>5, <1>6 DEF StreamInv, StreamTyped
<1>8. ViewFollows'
  <2> SUFFICES ASSUME NEW j \in ready', NEW q \in Sources \ unseen'[j]
               PROVE  gens[q] = 0 \/ view'[j][q] = gens[q]
    BY <1>1 DEF ViewFollows
  <2>1. j \in ready /\ j # i /\ view'[j] = view[j] /\ unseen'[j] = unseen[j]
    BY <1>1, <1>4
  <2> QED BY <2>1 DEF StreamInv, ViewFollows
<1> QED BY <1>3, <1>7, <1>8 DEF StreamInv

\* The view of a seeded replica moves to what the bucket holds.
LEMMA ViewStream ==
  ASSUME CorpusInv, StreamInv, NEW i \in Deployed, Watch(i) \/ Seed(i)
  PROVE  StreamInv'
<1>1. /\ UNCHANGED <<ledger, gens, handling, delivered, again>>
      /\ ready' \subseteq ready \union {i}
  BY DEF Watch, Seed, corpus
<1>2. /\ view \in [Deployed -> [Sources -> 0..Len(ledger)]] /\ gens \in [Sources -> 0..Len(ledger)]
      /\ unseen \in [Deployed -> SUBSET Sources] /\ ready \subseteq Deployed
  BY DEF StreamInv, StreamTyped
<1>3. PICK w, u : /\ view' = [view EXCEPT ![i] = w] /\ unseen' = [unseen EXCEPT ![i] = u]
                  /\ w \in [Sources -> 0..Len(ledger)] /\ u \in SUBSET Sources
                  /\ (i \in ready' => \A s \in Sources \ u : gens[s] = 0 \/ w[s] = gens[s])
  <2>1. CASE Watch(i)
    <3>1. PICK s \in unseen[i] : view' = [view EXCEPT ![i][s] = gens[s]] /\ unseen' = [unseen EXCEPT ![i] = @ \ {s}]
      BY <2>1 DEF Watch
    <3>2. PICK w : w = [view[i] EXCEPT ![s] = gens[s]]
      OBVIOUS
    <3>3. s \in Sources /\ view[i] \in [Sources -> 0..Len(ledger)] /\ gens[s] \in 0..Len(ledger)
      BY <1>2
    <3>4. w \in [Sources -> 0..Len(ledger)] /\ w[s] = gens[s] /\ \A q \in Sources \ {s} : w[q] = view[i][q]
      BY <3>2, <3>3
    <3>5. view' = [view EXCEPT ![i] = w]
      BY <3>1, <3>2
    <3>6. unseen' = [unseen EXCEPT ![i] = unseen[i] \ {s}]
      BY <3>1
    <3>7. ready' = ready
      BY <2>1 DEF Watch
    <3>8. i \in ready => \A q \in Sources \ (unseen[i] \ {s}) : gens[q] = 0 \/ w[q] = gens[q]
      BY <3>4 DEF StreamInv, ViewFollows
    <3>9. unseen[i] \ {s} \in SUBSET Sources
      BY <1>2
    <3> QED BY <3>4, <3>5, <3>6, <3>7, <3>8, <3>9
  <2>2. CASE Seed(i)
    <3>1. view' = [view EXCEPT ![i] = gens] /\ unseen' = [unseen EXCEPT ![i] = {}]
      BY <2>2 DEF Seed
    <3>2. PICK w, u : w = gens /\ u = {}
      OBVIOUS
    <3>3. /\ view' = [view EXCEPT ![i] = w] /\ unseen' = [unseen EXCEPT ![i] = u]
          /\ w \in [Sources -> 0..Len(ledger)] /\ u \in SUBSET Sources
          /\ \A s \in Sources \ u : gens[s] = 0 \/ w[s] = gens[s]
      BY <1>2, <3>1, <3>2
    <3> QED BY <3>3
  <2> QED BY <2>1, <2>2
<1>4. Deployed' = Deployed
  BY <1>2, <1>3 DEF Deployed
<1>5. view' \in [Deployed -> [Sources -> 0..Len(ledger)]]
  BY <1>2, <1>3
<1>6. unseen' \in [Deployed -> SUBSET Sources] /\ ready' \subseteq Deployed
  BY <1>1, <1>2, <1>3
<1>7. StreamTyped'
  BY <1>1, <1>4, <1>5, <1>6 DEF StreamInv, StreamTyped
<1>8. HeldOnce'
  BY <1>1, <1>4 DEF StreamInv, HeldOnce, NoMsg
<1>9. ViewFollows'
  <2> SUFFICES ASSUME NEW j \in ready', NEW q \in Sources \ unseen'[j]
               PROVE  gens[q] = 0 \/ view'[j][q] = gens[q]
    BY <1>1 DEF ViewFollows
  <2>1. CASE j = i
    <3>1. view'[j] = w /\ unseen'[j] = u
      BY <1>2, <1>3, <2>1
    <3> QED BY <1>3, <2>1, <3>1
  <2>2. CASE j # i
    <3>1. j \in ready /\ view'[j] = view[j] /\ unseen'[j] = unseen[j]
      BY <1>1, <1>2, <1>3, <2>2
    <3> QED BY <3>1 DEF StreamInv, ViewFollows
  <2> QED BY <2>1, <2>2
<1> QED BY <1>7, <1>8, <1>9 DEF StreamInv

\* The bucket is lost: no generation is recorded, and a view may hold what it
\* likes.
LEMMA LoseBucketStream ==
  ASSUME CorpusInv, StreamInv, LoseBucket
  PROVE  StreamInv'
<1>1. /\ UNCHANGED <<ledger, view, ready, handling, delivered, again>>
      /\ gens' = [s \in Sources |-> 0] /\ unseen' = [i \in Deployed |-> {}]
  BY DEF LoseBucket, corpus
<1>2. Deployed' = Deployed /\ Len(ledger) \in Nat
  BY <1>1 DEF Deployed, CorpusInv, Provenance
<1>3. gens' \in [Sources -> 0..Len(ledger)] /\ unseen' \in [Deployed -> SUBSET Sources]
  BY <1>1, <1>2
<1>4. StreamTyped'
  BY <1>1, <1>2, <1>3 DEF StreamInv, StreamTyped
<1>5. HeldOnce' /\ ViewFollows'
  BY <1>1, <1>2 DEF StreamInv, HeldOnce, ViewFollows, NoMsg
<1> QED BY <1>4, <1>5 DEF StreamInv

\* The stream to begin with.
LEMMA InitStream == Init => StreamInv
<1> SUFFICES ASSUME Init PROVE StreamInv
  OBVIOUS
<1>1. PICK load \in Loads : CorpusInit(load) /\ CacheInit(load)
  BY DEF Init
<1>2. /\ ledger = <<>> /\ gens = [s \in Sources |-> 0] /\ view = [i \in load.replicas |-> gens]
      /\ unseen = [i \in load.replicas |-> {}] /\ ready = load.replicas
      /\ handling = [i \in load.replicas |-> NoMsg] /\ delivered = 0 /\ again = {}
  BY <1>1 DEF CorpusInit, CacheInit
<1>3. Deployed = load.replicas /\ Len(ledger) = 0
  BY <1>2 DEF Deployed
<1>4. gens \in [Sources -> 0..0]
  BY <1>2
<1>5. view \in [Deployed -> [Sources -> 0..0]] /\ unseen \in [Deployed -> SUBSET Sources]
  BY <1>2, <1>3, <1>4
<1>6. handling \in [Deployed -> [seq : 0..0, current : 0..0]]
  BY <1>2, <1>3 DEF NoMsg
<1>7. StreamTyped
  BY <1>2, <1>3, <1>4, <1>5, <1>6 DEF StreamTyped
<1>8. NoMsg.seq = 0
  BY DEF NoMsg
<1>9. HeldOnce /\ ViewFollows
  BY <1>2, <1>3, <1>8 DEF HeldOnce, ViewFollows
<1> QED BY <1>7, <1>9 DEF StreamInv

\* Everything but the stream's own steps leaves it alone.
LEMMA StreamStep ==
  ASSUME CorpusInv, StreamInv, [Next]_vars
  PROVE  CorpusInv' /\ StreamInv'
<1>1. CASE Ingest
  BY <1>1, IngestStep, IngestStream
<1>3. UNCHANGED corpus => CorpusInv'
  BY DEF corpus, CorpusInv, VersionsTyped, RunsTyped, Provenance, Lineages
<1>4. CASE \E i \in Deployed : Invalidate(i) \/ NakMutation(i) \/ Watch(i) \/ Restart(i) \/ Seed(i)
  <2>1. UNCHANGED corpus
    BY <1>4 DEF Invalidate, GetGeneration, HandleCorpusMutation, NakMutation, Watch,
           Restart, Seed
  <2> QED BY <1>3, <1>4, <2>1, GetGenerationStream, HandleStream, NakStream,
         ViewStream, RestartStream DEF Invalidate
<1>5. CASE LoseBucket
  BY <1>3, <1>5, LoseBucketStream DEF LoseBucket
<1>6. CASE UNCHANGED <<corpus, streamVars>>
  BY <1>3, <1>6, StreamStays DEF corpus
<1>7. \/ Ingest \/ LoseBucket \/ UNCHANGED <<corpus, streamVars>>
      \/ \E i \in Deployed : Invalidate(i) \/ NakMutation(i) \/ Watch(i) \/ Restart(i) \/ Seed(i)
  BY DEF Next, vars, cacheVars, streamVars, PurgeTenant, Call, CacheGet, Evict,
         StoreSearch, WriteThrough, Begin, Tick
<1> QED BY <1>1, <1>4, <1>5, <1>6, <1>7

-----------------------------------------------------------------------------
(* The searches and what the cache keeps of them.                          *)

RowGood(h, classes, L) == h.class \in classes /\ h.lineage \in L /\ h.source \in Sources

\* A call is for one caller and one query; it holds rows that its caller may
\* read, and hands over rows within the time of their entry.
CallOk(c, rdy, L) ==
  /\ c.stage \in {"idle", "get", "evict", "read", "write", "done"}
  /\ c.stage \in {"get", "evict", "read"} =>
       c = [stage |-> c.stage, at |-> c.at, caller |-> c.caller, query |-> c.query, t |-> c.t]
  /\ c.stage = "write" =>
       /\ c = [stage |-> c.stage, at |-> c.at, caller |-> c.caller, query |-> c.query, t |-> c.t,
               rows |-> c.rows, clean |-> c.clean]
       /\ \A h \in c.rows : RowGood(h, c.caller.classes, L)
  /\ c.stage \in {"get", "evict", "read", "write"} =>
       c.at \in rdy /\ c.caller \in Callers /\ c.t \in Nat /\ c.t < c.caller.exp
  /\ c.stage = "done" /\ c.out = "hit" =>
       /\ \A h \in c.rows : h.class \in c.caller.classes
       /\ c.t < c.asOf + Ttl /\ c.t < c.granted

CallsInv ==
  /\ search = [p \in Searches |-> search[p]] /\ now \in Nat
  /\ \A p \in Searches : CallOk(search[p], ready, Lineages)

\* An entry holds rows that its key may read, the generation of each of their
\* sources, and ends with its TTL or with the grant it was retrieved under.
EntryOk(k, e, L, len) ==
  /\ e = [rows |-> e.rows, sources |-> e.sources, gens |-> e.gens, expires |-> e.expires,
          asOf |-> e.asOf, granted |-> e.granted, clean |-> e.clean]
  /\ \A h \in e.rows : RowGood(h, k[2], L)
  /\ e.sources = {h.source : h \in e.rows} /\ e.gens \in [e.sources -> 0..len]
  /\ e.expires \in Nat /\ e.asOf \in Nat /\ e.granted \in Nat
  /\ e.expires <= e.asOf + Ttl /\ e.expires <= e.granted

EntriesInv == \A k \in DOMAIN entries : EntryOk(k, entries[k], Lineages, Len(ledger))

\* More events on the ledger, more replicas ready: what was in order still is.
LEMMA CallStays ==
  ASSUME NEW c, NEW R1, NEW R2, NEW L1, NEW L2, CallOk(c, R1, L1), L1 \subseteq L2,
         c.stage \in {"get", "evict", "read", "write"} => c.at \in R2
  PROVE  CallOk(c, R2, L2)
BY DEF CallOk, RowGood

\* The same for an entry: the events it knows of are still on the ledger.
LEMMA EntryStays ==
  ASSUME NEW k, NEW e, NEW L1, NEW L2, NEW n1 \in Nat, NEW n2 \in Nat,
         EntryOk(k, e, L1, n1),
         L1 \subseteq L2, n1 <= n2
  PROVE  EntryOk(k, e, L2, n2)
<1>1. 0..n1 \subseteq 0..n2
  OBVIOUS
<1>2. e.gens \in [e.sources -> 0..n2]
  BY <1>1 DEF EntryOk
<1>3. \A h \in e.rows : RowGood(h, k[2], L2)
  BY DEF EntryOk, RowGood
<1> QED BY <1>2, <1>3 DEF EntryOk

\* A call that moves and is still in order.
LEMMA CallMoves ==
  ASSUME CallsInv, NEW p \in Searches, NEW c, search' = [search EXCEPT ![p] = c],
         CallOk(c, ready, Lineages), UNCHANGED <<ledger, ready>>, now' \in Nat
  PROVE  CallsInv'
<1>1. Lineages' = Lineages
  BY DEF Lineages
<1>2. \A q \in Searches : search'[q] = IF q = p THEN c ELSE search[q]
  BY DEF CallsInv
<1>3. search' = [q \in Searches |-> search'[q]]
  BY DEF CallsInv
<1>4. \A q \in Searches : CallOk(search'[q], ready, Lineages)
  BY <1>2 DEF CallsInv
<1> QED BY <1>1, <1>3, <1>4 DEF CallsInv

\* What the index answers is within the classes asked for, and on the ledger.
LEMMA LiveRows ==
  ASSUME CorpusInv, NEW c, NEW q
  PROVE  \A h \in Live(c, q) : RowGood(h, c.classes, Lineages)
<1>1. RowsKnown(index, Lineages)
  BY DEF CorpusInv, Provenance
<1> QED BY <1>1 DEF RowsKnown, Live, RowGood

\* A call that begins has a token that has not expired, or is served live.
LEMMA BeginCalls ==
  ASSUME CallsInv, NEW p \in Searches, NEW i \in Deployed, Begin(p, i)
  PROVE  CallsInv'
<1>1. UNCHANGED <<ledger, ready, now>> /\ now \in Nat
  BY DEF Begin, corpus, CallsInv
<1>2. PICK c : search' = [search EXCEPT ![p] = c] /\ CallOk(c, ready, Lineages)
  <2>1. CASE Done(p, "live")
    <3>1. PICK c : c = [stage |-> "done", out |-> "live"]
      OBVIOUS
    <3>2. CallOk(c, ready, Lineages)
      BY <3>1 DEF CallOk
    <3> QED BY <2>1, <3>1, <3>2 DEF Done
  <2>2. CASE ~Done(p, "live")
    <3>1. PICK c \in Callers, q \in Queries :
            /\ i \in ready /\ now < c.exp
            /\ search' = [search EXCEPT ![p] = [stage |-> "get", at |-> i, caller |-> c, query |-> q, t |-> now]]
      BY <2>2 DEF Begin, CacheContext
    <3>2. PICK x : x = [stage |-> "get", at |-> i, caller |-> c, query |-> q, t |-> now]
      OBVIOUS
    <3>3. x.stage = "get" /\ x.at = i /\ x.caller = c /\ x.query = q /\ x.t = now
      BY <3>2
    <3>4. CallOk(x, ready, Lineages)
      BY <1>1, <3>1, <3>2, <3>3 DEF CallOk
    <3> QED BY <3>1, <3>2, <3>4
  <2> QED BY <2>1, <2>2
<1> QED BY <1>1, <1>2, CallMoves

\* A call that goes on with the search.
LEMMA CallGoesOn ==
  ASSUME CallsInv, NEW p \in Searches, search[p].stage \in {"get", "evict", "read"},
         NEW stage \in {"evict", "read"}
  PROVE  \E c : [search EXCEPT ![p].stage = stage] = [search EXCEPT ![p] = c] /\ CallOk(c, ready, Lineages)
<1>1. CallOk(search[p], ready, Lineages)
  BY DEF CallsInv
<1>2. PICK c : c = [search[p] EXCEPT !.stage = stage]
  OBVIOUS
<1>3. /\ c.stage = stage /\ c.at = search[p].at /\ c.caller = search[p].caller
      /\ c.query = search[p].query /\ c.t = search[p].t
      /\ c = [stage |-> c.stage, at |-> c.at, caller |-> c.caller, query |-> c.query, t |-> c.t]
  BY <1>1, <1>2 DEF CallOk
<1>4. CallOk(c, ready, Lineages)
  BY <1>1, <1>3 DEF CallOk
<1> QED BY <1>2, <1>4

\* A hit is within the classes of its key, hence of its caller, and before the
\* end of its entry.
LEMMA CacheGetCalls ==
  ASSUME CallsInv, EntriesInv, NEW p \in Searches, CacheGet(p)
  PROVE  CallsInv' /\ EntriesInv'
<1> DEFINE k == Key(search[p].caller, search[p].query)
<1>1. UNCHANGED <<ledger, ready, now, entries>> /\ now \in Nat /\ search[p].stage = "get"
  BY DEF CacheGet, corpus, CallsInv
<1>2. \/ search' = [search EXCEPT ![p].stage = "read"]
      \/ search' = [search EXCEPT ![p].stage = "evict"]
      \/ k \in DOMAIN entries /\ ~Expired(entries[k], search[p].t) /\ Serve(p, entries[k])
  BY DEF CacheGet
<1>3. CASE \/ search' = [search EXCEPT ![p].stage = "read"]
           \/ search' = [search EXCEPT ![p].stage = "evict"]
  <2>1. PICK c : search' = [search EXCEPT ![p] = c] /\ CallOk(c, ready, Lineages)
    BY <1>1, <1>3, CallGoesOn
  <2> QED BY <1>1, <2>1, CallMoves DEF EntriesInv, Lineages
<1>4. CASE k \in DOMAIN entries /\ ~Expired(entries[k], search[p].t) /\ Serve(p, entries[k])
  <2>1. PICK e : e = entries[k]
    OBVIOUS
  <2>2. EntryOk(k, e, Lineages, Len(ledger)) /\ ~(search[p].t >= e.expires)
    BY <1>4, <2>1 DEF EntriesInv, Expired
  <2>3. PICK c : c = [stage |-> "done", out |-> "hit", caller |-> search[p].caller, t |-> search[p].t,
                      rows |-> e.rows, asOf |-> e.asOf, granted |-> e.granted]
    OBVIOUS
  <2>4. search' = [search EXCEPT ![p] = c]
    BY <1>4, <2>1, <2>3 DEF Serve
  <2>5. k[2] = search[p].caller.classes
    BY DEF Key, KeyOf
  <2>6. search[p].t \in Nat /\ Ttl \in Nat
    BY <1>1, SessionCacheAssumption DEF CallsInv, CallOk
  <2>7. \A h \in e.rows : h.class \in search[p].caller.classes
    BY <2>2, <2>5 DEF EntryOk, RowGood
  <2>8. search[p].t < e.asOf + Ttl /\ search[p].t < e.granted
    <3>1. /\ e.expires \in Nat /\ e.asOf \in Nat /\ e.granted \in Nat
          /\ e.expires <= e.asOf + Ttl /\ e.expires <= e.granted
      BY <2>2 DEF EntryOk
    <3> QED BY <2>2, <2>6, <3>1
  <2>9. CallOk(c, ready, Lineages)
    BY <2>3, <2>7, <2>8 DEF CallOk
  <2> QED BY <1>1, <2>4, <2>9, CallMoves DEF EntriesInv, Lineages
<1> QED BY <1>2, <1>3, <1>4

\* An entry that is removed takes none with it.
LEMMA EvictCalls ==
  ASSUME CallsInv, EntriesInv, NEW p \in Searches, Evict(p)
  PROVE  CallsInv' /\ EntriesInv'
<1>1. UNCHANGED <<ledger, ready, now>> /\ now \in Nat /\ search[p].stage = "evict"
      /\ search' = [search EXCEPT ![p].stage = "read"]
  BY DEF Evict, corpus, CallsInv
<1>2. PICK c : search' = [search EXCEPT ![p] = c] /\ CallOk(c, ready, Lineages)
  BY <1>1, CallGoesOn
<1>3. CallsInv'
  BY <1>1, <1>2, CallMoves
<1>4. DOMAIN entries' \subseteq DOMAIN entries /\ \A k \in DOMAIN entries' : entries'[k] = entries[k]
  BY DEF Evict, Without
<1>5. EntriesInv'
  BY <1>1, <1>4 DEF EntriesInv, Lineages
<1> QED BY <1>3, <1>5

\* A miss goes on with what the index answers its caller.
LEMMA StoreCalls ==
  ASSUME CorpusInv, CallsInv, EntriesInv, NEW p \in Searches, StoreSearch(p)
  PROVE  CallsInv' /\ EntriesInv'
<1>1. UNCHANGED <<ledger, ready, now, entries>> /\ now \in Nat /\ search[p].stage = "read"
  BY DEF StoreSearch, corpus, CallsInv
<1>2. CallOk(search[p], ready, Lineages)
  BY DEF CallsInv
<1>3. PICK rows, clean, o :
        /\ rows = Live(search[p].caller, search[p].query) /\ o = search[p]
        /\ search' = [search EXCEPT ![p] =
              [stage |-> "write", at |-> o.at, caller |-> o.caller, query |-> o.query, t |-> o.t,
               rows |-> rows, clean |-> clean]]
  BY DEF StoreSearch
<1>4. PICK c : c = [stage |-> "write", at |-> o.at, caller |-> o.caller, query |-> o.query, t |-> o.t,
                    rows |-> rows, clean |-> clean]
  OBVIOUS
<1>5. \A h \in rows : RowGood(h, o.caller.classes, Lineages)
  BY <1>3, LiveRows
<1>6. /\ c.stage = "write" /\ c.at = o.at /\ c.caller = o.caller /\ c.t = o.t /\ c.rows = rows
      /\ c = [stage |-> c.stage, at |-> c.at, caller |-> c.caller, query |-> c.query, t |-> c.t,
              rows |-> c.rows, clean |-> c.clean]
  BY <1>4
<1>7. o.at \in ready /\ o.caller \in Callers /\ o.t \in Nat /\ o.t < o.caller.exp
  BY <1>1, <1>2, <1>3 DEF CallOk
<1>8. CallOk(c, ready, Lineages)
  BY <1>5, <1>6, <1>7 DEF CallOk
<1> QED BY <1>1, <1>3, <1>4, <1>8, CallMoves DEF EntriesInv, Lineages

\* The entry written ends with its TTL or the grant, and is kept under the
\* classes of its caller.
LEMMA WriteCalls ==
  ASSUME CorpusInv, StreamInv, CallsInv, EntriesInv, NEW p \in Searches, WriteThrough(p)
  PROVE  CallsInv' /\ EntriesInv'
<1>1. UNCHANGED <<ledger, ready, now>> /\ now \in Nat /\ search[p].stage = "write"
      /\ Done(p, "miss")
  BY DEF WriteThrough, corpus, CallsInv
<1>2. PICK c : c = search[p]
  OBVIOUS
<1>3. /\ CallOk(c, ready, Lineages) /\ c.stage = "write" /\ Len(ledger) \in Nat
      /\ view \in [Deployed -> [Sources -> 0..Len(ledger)]] /\ ready \subseteq Deployed
  BY <1>1, <1>2 DEF CallsInv, StreamInv, StreamTyped, CorpusInv, Provenance
<1>4. CallsInv'
  <2>1. PICK d : d = [stage |-> "done", out |-> "miss"]
    OBVIOUS
  <2>2. CallOk(d, ready, Lineages) /\ search' = [search EXCEPT ![p] = d]
    BY <1>1, <2>1 DEF CallOk, Done
  <2> QED BY <1>1, <2>2, CallMoves
<1>5. PICK sources, g, x :
        /\ sources = {h.source : h \in c.rows} /\ g = [s \in sources |-> view[c.at][s]]
        /\ x = CacheExpiry(c.t, c.caller.exp)
  OBVIOUS
<1>6. PICK e : e = [rows |-> c.rows, sources |-> sources, gens |-> g, expires |-> x,
                    asOf |-> c.t, granted |-> c.caller.exp, clean |-> c.clean]
  OBVIOUS
<1>7. PICK k : k = Key(c.caller, c.query)
  OBVIOUS
<1>8. Put(k, e)
  BY <1>2, <1>5, <1>6, <1>7 DEF WriteThrough
<1>9. EntryOk(k, e, Lineages, Len(ledger))
  <2>1. c.t \in Nat /\ c.caller.exp \in Nat /\ Ttl \in Nat
    BY <1>3, SessionCacheAssumption DEF CallOk
  <2>2. x \in Nat /\ x <= c.t + Ttl /\ x <= c.caller.exp
    <3>1. {c.t + Ttl, c.caller.exp} \in SUBSET Nat /\ {c.t + Ttl, c.caller.exp} # {}
      BY <2>1
    <3>2. Min({c.t + Ttl, c.caller.exp}) \in {c.t + Ttl, c.caller.exp}
          /\ \A y \in {c.t + Ttl, c.caller.exp} : Min({c.t + Ttl, c.caller.exp}) <= y
      BY <3>1, MinOfNat
    <3> QED BY <1>5, <2>1, <3>2 DEF CacheExpiry
  <2>3. k[2] = c.caller.classes
    BY <1>7 DEF Key, KeyOf
  <2>4. \A h \in c.rows : RowGood(h, c.caller.classes, Lineages)
    BY <1>3 DEF CallOk
  <2>5. view[c.at] \in [Sources -> 0..Len(ledger)] /\ sources \subseteq Sources
    BY <1>3, <1>5, <2>4 DEF CallOk, RowGood
  <2>6. g \in [sources -> 0..Len(ledger)]
    BY <1>5, <2>5
  <2>7. /\ e.rows = c.rows /\ e.sources = sources /\ e.gens = g /\ e.expires = x /\ e.asOf = c.t
        /\ e.granted = c.caller.exp
        /\ e = [rows |-> e.rows, sources |-> e.sources, gens |-> e.gens, expires |-> e.expires,
                asOf |-> e.asOf, granted |-> e.granted, clean |-> e.clean]
    BY <1>6
  <2> QED BY <1>5, <2>1, <2>2, <2>3, <2>4, <2>6, <2>7 DEF EntryOk
<1>10. \A y \in DOMAIN entries' : (y = k /\ entries'[y] = e) \/ (y \in DOMAIN entries /\ entries'[y] = entries[y])
  BY <1>8 DEF Put
<1>11. EntriesInv'
  <2> SUFFICES ASSUME NEW y \in DOMAIN entries'
               PROVE EntryOk(y, entries'[y], Lineages, Len(ledger))
    BY <1>1 DEF EntriesInv, Lineages
  <2> QED BY <1>9, <1>10 DEF EntriesInv
<1> QED BY <1>4, <1>11

\* Nothing leaves the ledger.
LEMMA LineagesStay == CorpusInv /\ [Next]_vars => Lineages \subseteq Lineages'
<1> SUFFICES ASSUME CorpusInv, [Next]_vars PROVE Lineages \subseteq Lineages'
  OBVIOUS
<1>1. ledger \in Seq(Event)
  BY DEF CorpusInv, Provenance
<1>2. CASE ledger' = ledger
  BY <1>2 DEF Lineages
<1>3. CASE ledger' # ledger
  <2>1. PICK r \in Runs : WriteLedger(r)
    BY <1>3 DEF Next, vars, corpus, Ingest, RunStep, Edit, Start, Fetch,
           PrepareChunks, IndexChunks, ActivityFails, Invalidate, GetGeneration,
           HandleCorpusMutation, NakMutation, Watch, Restart, Seed, LoseBucket,
           PurgeTenant, Call, CacheGet, Evict, StoreSearch, WriteThrough, Begin,
           Tick
  <2>2. PICK e : ledger' = Append(ledger, e)
    BY <1>3, <2>1 DEF WriteLedger
  <2>3. Len(ledger) \in Nat /\ DOMAIN ledger = 1..Len(ledger) /\ DOMAIN ledger' = 1..Len(ledger) + 1
        /\ \A n \in DOMAIN ledger : ledger'[n] = ledger[n]
    BY <1>1, <2>2
  <2>4. \A n \in DOMAIN ledger : n \in DOMAIN ledger'
    BY <2>3
  <2> QED BY <2>3, <2>4 DEF Lineages
<1> QED BY <1>2, <1>3

\* Ingestion goes on beside the searches, and tells those that hold results.
LEMMA IngestCalls ==
  ASSUME CorpusInv, StreamInv, CallsInv, EntriesInv, Ingest
  PROVE  CallsInv' /\ EntriesInv'
<1>1. /\ UNCHANGED <<entries, ready, now>> /\ now \in Nat
      /\ search' = [p \in Searches |-> IF Publishes /\ search[p].stage = "write"
                                       THEN [search[p] EXCEPT !.clean = FALSE] ELSE search[p]]
  BY DEF Ingest, CallsInv
<1>2. Lineages \subseteq Lineages'
  BY LineagesStay DEF Next
<1>3. Len(ledger) \in Nat /\ Len(ledger') \in Nat /\ Len(ledger) <= Len(ledger')
  BY IngestStream
<1>4. ASSUME NEW p \in Searches PROVE CallOk(search'[p], ready, Lineages')
  <2>1. PICK c : c = search[p]
    OBVIOUS
  <2>2. CallOk(c, ready, Lineages)
    BY <2>1 DEF CallsInv
  <2>3. CallOk(c, ready, Lineages')
    <3>1. c.stage \in {"get", "evict", "read", "write"} => c.at \in ready
      BY <2>2 DEF CallOk
    <3> QED BY <1>2, <2>2, <3>1, CallStays
  <2>4. CASE search'[p] = c
    BY <2>3, <2>4
  <2>5. CASE search'[p] # c
    <3>1. c.stage = "write" /\ search'[p] = [c EXCEPT !.clean = FALSE]
      BY <1>1, <2>1, <2>5
    <3>2. PICK d : d = [c EXCEPT !.clean = FALSE]
      OBVIOUS
    <3>3. /\ d = [stage |-> d.stage, at |-> d.at, caller |-> d.caller, query |-> d.query, t |-> d.t,
                  rows |-> d.rows, clean |-> d.clean]
          /\ d.stage = "write" /\ d.at = c.at /\ d.caller = c.caller /\ d.t = c.t /\ d.rows = c.rows
      BY <2>2, <3>1, <3>2 DEF CallOk
    <3>4. CallOk(d, ready, Lineages')
      BY <2>3, <3>1, <3>3 DEF CallOk
    <3> QED BY <3>1, <3>2, <3>4
  <2> QED BY <2>4, <2>5
<1>5. CallsInv'
  BY <1>1, <1>4 DEF CallsInv
<1>6. EntriesInv'
  <2> SUFFICES ASSUME NEW k \in DOMAIN entries
               PROVE EntryOk(k, entries[k], Lineages', Len(ledger'))
    BY <1>1 DEF EntriesInv
  <2> QED BY <1>2, <1>3, EntryStays DEF EntriesInv
<1> QED BY <1>5, <1>6

\* An entry changes in nothing but the mark of its freshness.
LEMMA EntryMarked ==
  ASSUME NEW k, NEW e, NEW b, NEW L, NEW n, EntryOk(k, e, L, n)
  PROVE  EntryOk(k, [e EXCEPT !.clean = b], L, n)
<1>1. PICK d : d = [e EXCEPT !.clean = b]
  OBVIOUS
<1>2. /\ d = [rows |-> d.rows, sources |-> d.sources, gens |-> d.gens, expires |-> d.expires,
              asOf |-> d.asOf, granted |-> d.granted, clean |-> d.clean]
      /\ d.rows = e.rows /\ d.sources = e.sources /\ d.gens = e.gens /\ d.expires = e.expires
      /\ d.asOf = e.asOf /\ d.granted = e.granted
  BY <1>1 DEF EntryOk
<1> QED BY <1>1, <1>2 DEF EntryOk

\* A put touches nothing of an entry but the mark of its freshness.
LEMMA HandleCalls ==
  ASSUME CallsInv, EntriesInv, NEW i \in Deployed, HandleCorpusMutation(i)
  PROVE  CallsInv' /\ EntriesInv'
<1> DEFINE s == ledger[handling[i].seq].source
<1>1. UNCHANGED <<ledger, ready, now, search>>
  BY DEF HandleCorpusMutation, corpus
<1>2. \/ UNCHANGED entries
      \/ entries' = [k \in DOMAIN entries |->
           [entries[k] EXCEPT !.clean = @ /\ (s \in entries[k].sources => handling[i].seq >= gens[s])]]
  BY DEF HandleCorpusMutation, PutGeneration
<1> HIDE DEF s
<1>3. DOMAIN entries' = DOMAIN entries
      /\ \A k \in DOMAIN entries : \E b : \/ entries'[k] = entries[k]
                                          \/ entries'[k] = [entries[k] EXCEPT !.clean = b]
  BY <1>2
<1>4. EntriesInv'
  <2> SUFFICES ASSUME NEW k \in DOMAIN entries
               PROVE EntryOk(k, entries'[k], Lineages, Len(ledger))
    BY <1>1, <1>3 DEF EntriesInv, Lineages
  <2>1. EntryOk(k, entries[k], Lineages, Len(ledger))
    BY DEF EntriesInv
  <2>2. PICK b : entries'[k] = entries[k] \/ entries'[k] = [entries[k] EXCEPT !.clean = b]
    BY <1>3
  <2>3. EntryOk(k, [entries[k] EXCEPT !.clean = b], Lineages, Len(ledger))
    BY <2>1, EntryMarked
  <2> QED BY <2>1, <2>2, <2>3
<1>5. CallsInv'
  <2>1. Lineages' = Lineages
    BY <1>1 DEF Lineages
  <2> QED BY <1>1, <2>1 DEF CallsInv
<1> QED BY <1>4, <1>5

\* The calls of a replica that restarts fail; the others stay at replicas that
\* are ready.
LEMMA RestartCalls ==
  ASSUME CallsInv, EntriesInv, NEW i \in Deployed, Restart(i)
  PROVE  CallsInv' /\ EntriesInv'
<1>1. /\ UNCHANGED <<ledger, now, entries>> /\ ready' = ready \ {i}
      /\ search' = [p \in Searches |-> IF p \in Flying /\ search[p].at = i
                                       THEN [stage |-> "done", out |-> "failed"] ELSE search[p]]
  BY DEF Restart, corpus
<1>2. ASSUME NEW p \in Searches PROVE CallOk(search'[p], ready', Lineages)
  <2>1. CASE p \in Flying /\ search[p].at = i
    <3>1. PICK c : c = [stage |-> "done", out |-> "failed"]
      OBVIOUS
    <3>2. CallOk(c, ready', Lineages)
      BY <3>1 DEF CallOk
    <3> QED BY <1>1, <2>1, <3>1, <3>2
  <2>2. CASE ~(p \in Flying /\ search[p].at = i)
    <3>1. PICK c : c = search[p]
      OBVIOUS
    <3>2. search'[p] = c /\ CallOk(c, ready, Lineages)
      BY <1>1, <2>2, <3>1 DEF CallsInv
    <3>3. c.stage \in {"get", "evict", "read", "write"} => c.at \in ready'
      BY <1>1, <2>2, <3>1, <3>2 DEF Flying, CallOk
    <3>4. CallOk(c, ready', Lineages)
      BY <3>2, <3>3, CallStays
    <3> QED BY <3>2, <3>4
  <2> QED BY <2>1, <2>2
<1>3. Lineages' = Lineages
  BY <1>1 DEF Lineages
<1> QED BY <1>1, <1>2, <1>3 DEF CallsInv, EntriesInv

\* One more replica is ready.
LEMMA SeedCalls ==
  ASSUME CallsInv, EntriesInv, NEW i \in Deployed, Seed(i)
  PROVE  CallsInv' /\ EntriesInv'
<1>1. UNCHANGED <<ledger, now, entries, search>> /\ ready \subseteq ready'
  BY DEF Seed, corpus
<1>2. Lineages' = Lineages
  BY <1>1 DEF Lineages
<1>3. \A p \in Searches : CallOk(search[p], ready', Lineages)
  BY <1>1, CallStays DEF CallsInv, CallOk
<1> QED BY <1>1, <1>2, <1>3 DEF CallsInv, EntriesInv

\* A step that touches no call, and no entry but to drop them all.
LEMMA OtherCalls ==
  ASSUME CallsInv, EntriesInv, UNCHANGED <<ledger, ready, search>>, now' \in Nat,
         entries' \in {entries, <<>>}
  PROVE  CallsInv' /\ EntriesInv'
<1>1. DOMAIN entries' \subseteq DOMAIN entries /\ \A k \in DOMAIN entries' : entries'[k] = entries[k]
  OBVIOUS
<1> QED BY <1>1 DEF CallsInv, EntriesInv, Lineages

\* Every step keeps the calls and the entries in order.
LEMMA CallsStep ==
  ASSUME CorpusInv, StreamInv, CallsInv, EntriesInv, [Next]_vars
  PROVE  CallsInv' /\ EntriesInv'
<1>0. now \in Nat
  BY DEF CallsInv
<1>1. CASE Ingest
  BY <1>1, IngestCalls
<1>2. ASSUME NEW i \in Deployed,
             Invalidate(i) \/ NakMutation(i) \/ Watch(i) \/ Restart(i) \/ Seed(i)
      PROVE  CallsInv' /\ EntriesInv'
  <2>1. GetGeneration(i) \/ NakMutation(i) \/ Watch(i) => UNCHANGED <<ledger, ready, search, now, entries>>
    BY DEF GetGeneration, NakMutation, Watch, corpus
  <2> QED BY <1>0, <1>2, <2>1, OtherCalls, HandleCalls, RestartCalls, SeedCalls
     DEF Invalidate
<1>3. CASE LoseBucket \/ PurgeTenant
  BY <1>0, <1>3, OtherCalls DEF LoseBucket, PurgeTenant, corpus
<1>4. CASE Tick \/ UNCHANGED vars
  <2>1. now' \in Nat /\ UNCHANGED <<ledger, ready, search, entries>>
    BY <1>0, <1>4 DEF Tick, vars, cacheVars, corpus
  <2> QED BY <2>1, OtherCalls
<1>5. CASE \E p \in Searches : Call(p)
  BY <1>5, CacheGetCalls, EvictCalls, StoreCalls, WriteCalls DEF Call
<1>6. CASE \E p \in Searches, i \in Deployed : Begin(p, i)
  <2>1. UNCHANGED <<ledger, entries>>
    BY <1>6 DEF Begin, corpus
  <2> QED BY <1>6, <2>1, BeginCalls DEF EntriesInv, Lineages
<1> QED BY <1>1, <1>2, <1>3, <1>4, <1>5, <1>6 DEF Next

\* No entry to begin with, and calls that have not begun.
LEMMA InitCalls == Init => CallsInv /\ EntriesInv
<1> SUFFICES ASSUME Init PROVE CallsInv /\ EntriesInv
  OBVIOUS
<1>1. PICK load \in Loads : CacheInit(load)
  BY DEF Init
<1>2. now \in Nat
  BY <1>1, SessionCacheAssumption DEF CacheInit
<1>3. PICK c : c = [stage |-> "done", out |-> "none"]
  OBVIOUS
<1>4. search = [p \in Searches |-> IF p \in load.calls THEN Call0 ELSE c]
  BY <1>1, <1>3 DEF CacheInit
<1>5. CallOk(Call0, ready, Lineages) /\ CallOk(c, ready, Lineages)
  BY <1>3 DEF CallOk, Call0
<1>6. CallsInv
  BY <1>2, <1>4, <1>5 DEF CallsInv
<1>7. DOMAIN entries = {}
  BY <1>1 DEF CacheInit
<1> QED BY <1>6, <1>7 DEF EntriesInv

-----------------------------------------------------------------------------
(* Freshness.  While a change of a source is being indexed, the entries    *)
(* that show the source know of an event above their generation that the   *)
(* bucket has or is yet to be told of.                                     *)

Writing(x) == x.fresh # {} /\ (x.stage = "index" \/ (x.stage = "ledger" /\ x.next > 1))
Dirty == {SourceOf[r] : r \in {r \in Runs : Writing(run[r])}}

\* The events of each source its generation has reached, or that are on their way to it.
Reaches(s, n) ==
  \/ n > delivered \/ n \in again \/ gens[s] >= n
  \/ \E i \in Deployed : handling[i].seq = n /\ handling[i].current < n
Coming == [s \in Sources |-> {n \in 1..Len(ledger) : ledger[n].source = s /\ Reaches(s, n)}]
Later(C, s, g) == \E n \in C[s] : n > g

From(rows, s) == {h \in rows : h.source = s}
KeysOf(ix, classes, q, s) ==
  {k \in DOMAIN ix : ix[k].class \in classes /\ q \in {NoSource, ix[k].source} /\ ix[k].source = s}
RowsOf(ix, classes, q, s) == {ix[k] : k \in KeysOf(ix, classes, q, s)}

CallFresh(c, D, ix) ==
  c.stage = "write" /\ c.clean =>
    \A s \in Separate : s \notin D /\ From(c.rows, s) = RowsOf(ix, c.caller.classes, c.query, s)
EntryFresh(k, e, D, ix, C) ==
  e.clean =>
    \A s \in e.sources \cap KvLegal \cap Separate :
      \/ Later(C, s, e.gens[s])
      \/ s \notin D /\ From(e.rows, s) = RowsOf(ix, k[2], k[3], s)

CallsFresh == \A p \in Searches : CallFresh(search[p], Dirty, index)
EntriesFresh == \A k \in DOMAIN entries : EntryFresh(k, entries[k], Dirty, index, Coming)
FreshInv == CallsFresh /\ EntriesFresh

\* A live search shows of a source what its rows of these classes are.
LEMMA LiveFrom ==
  \A c, q, s : From(Live(c, q), s) = RowsOf(index, c.classes, q, s)
BY DEF From, Live, RowsOf, KeysOf

\* A run that moves without beginning to write leaves no more to be indexed.
LEMMA DirtyShrinks ==
  ASSUME RunsTyped, NEW r \in Runs, NEW x, run' = [run EXCEPT ![r] = x]
  PROVE  /\ Dirty' \subseteq Dirty \union {SourceOf[r]}
         /\ (Writing(x) => Writing(run[r])) => Dirty' \subseteq Dirty
<1>1. \A q \in Runs : run'[q] = IF q = r THEN x ELSE run[q]
  BY DEF RunsTyped
<1>2. Dirty' = {SourceOf[q] : q \in {q \in Runs : Writing(run'[q])}}
  BY DEF Dirty, Writing
<1> QED BY <1>1, <1>2 DEF Dirty

\* Indexing for one source leaves the rows of a separate one.
LEMMA RowsElsewhere ==
  ASSUME CorpusInv, NEW r \in Runs, run[r].stage = "index", NEW i \in run[r].fresh,
         UpsertChunk(r, i),
         NEW s \in Separate, s # SourceOf[r], NEW classes, NEW q
  PROVE  RowsOf(index', classes, q, s) = RowsOf(index, classes, q, s)
<1> DEFINE d == <<Doc(r), i>>
<1>1. /\ DOMAIN index' = DOMAIN index \cup {d} /\ index'[d].source = SourceOf[r]
      /\ \A k \in DOMAIN index : k # d => index'[k] = index[k]
      /\ Doc(r) \in Range(DocsOf[SourceOf[r]]) /\ SourceOf[r] \in Sources
  <2>1. /\ DOMAIN index' = DOMAIN index \cup {d} /\ index'[d] = Row(r, i)
        /\ \A k \in DOMAIN index : k # d => index'[k] = index[k]
        /\ Doc(r) \in Range(DocsOf[SourceOf[r]]) /\ SourceOf[r] \in Sources
        /\ Row(r, i).source = SourceOf[r]
    BY UpsertRows DEF Upserted
  <2> QED BY <2>1
<1>2. d[1] = Doc(r)
  OBVIOUS
<1> HIDE DEF d
<1>3. ASSUME d \in DOMAIN index PROVE index[d].source # s
  <2>1. d[1] \in Range(DocsOf[index[d].source])
    BY <1>3 DEF CorpusInv, Provenance, RowsKnown
  <2>2. Range(DocsOf[s]) \cap Range(DocsOf[SourceOf[r]]) = {}
    BY <1>1 DEF Separate
  <2> QED BY <1>1, <1>2, <2>1, <2>2
<1>4. KeysOf(index', classes, q, s) = KeysOf(index, classes, q, s)
  BY <1>1, <1>3 DEF KeysOf
<1>5. \A k \in KeysOf(index, classes, q, s) : index'[k] = index[k]
  BY <1>1, <1>3 DEF KeysOf
<1> QED BY <1>4, <1>5 DEF RowsOf

\* What a step of ingestion does to a source: it publishes a change of it,
\* or writes rows of it that it has published, or neither.
LEMMA IngestEffect ==
  ASSUME CorpusInv, Ingest
  PROVE  \/ UNCHANGED <<index, ledger>> /\ Dirty' \subseteq Dirty
         \/ \E s \in Sources, e \in Event :
              /\ ledger' = Append(ledger, e) /\ e.source = s /\ index' = index
              /\ Dirty' \subseteq Dirty \union {s}
         \/ \E s \in Dirty :
              /\ ledger' = ledger /\ Dirty' \subseteq Dirty
              /\ \A t \in Separate \ {s} : \A classes, q :
                   RowsOf(index', classes, q, t) = RowsOf(index, classes, q, t)
<1>0. RunsTyped /\ VersionsTyped
  BY DEF CorpusInv
<1>1. ASSUME NEW d \in Docs, Edit(d)
      PROVE  UNCHANGED <<index, ledger>> /\ Dirty' \subseteq Dirty
  BY <1>1 DEF Edit, Dirty
<1>2. ASSUME NEW r \in Runs, Start(r) \/ Fetch(r) \/ PrepareChunks(r) \/ ActivityFails(r)
      PROVE  UNCHANGED <<index, ledger>> /\ Dirty' \subseteq Dirty
  <2>1. UNCHANGED <<index, ledger>>
    BY <1>2 DEF Start, Fetch, PrepareChunks, ActivityFails
  <2>2. PICK x : run' = [run EXCEPT ![r] = x] /\ (Writing(x) => Writing(run[r]))
    <3>1. CASE Start(r)
      BY <1>0, <3>1, StartMoves DEF Writing
    <3>2. CASE Fetch(r)
      BY <1>0, <3>2, FetchMoves DEF Writing
    <3>3. CASE PrepareChunks(r)
      <4>1. PICK x : run' = [run EXCEPT ![r] = x] /\ Compared(r, x)
        BY <1>0, <3>3, PrepareMoves
      <4>2. ~Writing(x)
        BY <4>1 DEF Writing, Compared
      <4> QED BY <4>1, <4>2
    <3>4. CASE ActivityFails(r)
      <4>1. PICK x : /\ run' = [run EXCEPT ![r] = x] /\ RunOk(r, x)
                     /\ Restarted(r, x) \/ (x.stage = "failed" /\ x.fresh = {})
        BY <1>0, <3>4, FailMoves
      <4>2. x.next \in Nat
        BY <4>1 DEF RunOk, RunType
      <4>3. Writing(x) => Writing(run[r])
        BY <4>1, <4>2 DEF Writing, Restarted
      <4> QED BY <4>1, <4>3
    <3> QED BY <1>2, <3>1, <3>2, <3>3, <3>4
  <2> QED BY <1>0, <2>1, <2>2, DirtyShrinks
<1>3. ASSUME NEW r \in Runs, WriteLedger(r)
      PROVE  \/ UNCHANGED <<index, ledger>> /\ Dirty' \subseteq Dirty
             \/ \E s \in Sources, e \in Event :
                  /\ ledger' = Append(ledger, e) /\ e.source = s /\ index' = index
                  /\ Dirty' \subseteq Dirty \union {s}
  <2>1. PICK x : /\ run' = [run EXCEPT ![r] = x] /\ RunOk(r, x) /\ SameWork(r, x)
                 /\ \/ /\ Todo(r) # {} /\ x.stage = "ledger" /\ x.next = Min(Todo(r)) + 1
                       /\ ledger' = Append(ledger, [lineage |-> Lineage(r, Min(Todo(r))), source |-> SourceOf[r]])
                    \/ Todo(r) = {} /\ x.stage = "index" /\ x.next = 1 /\ UNCHANGED ledger
    BY <1>0, <1>3, LedgerMoves
  <2>2. index' = index /\ run[r].stage = "ledger" /\ RunOk(r, run[r]) /\ run[r] \in RunType
    BY <1>0, <1>3 DEF WriteLedger, RunsTyped
  <2>3. CASE Todo(r) = {}
    <3>1. UNCHANGED <<index, ledger>> /\ x.fresh = run[r].fresh
      BY <2>1, <2>2, <2>3 DEF SameWork
    <3>2. run[r].fresh # {} => run[r].next > 1
      <4>1. SUFFICES ASSUME NEW i \in run[r].fresh PROVE run[r].next > 1
        OBVIOUS
      <4>2. i \in Nat \ {0} /\ run[r].next \in Nat /\ ~(i >= run[r].next)
        BY <2>2, <2>3 DEF RunType, Todo
      <4> QED BY <4>2
    <3>3. Writing(x) => Writing(run[r])
      BY <2>2, <3>1, <3>2 DEF Writing
    <3> QED BY <1>0, <2>1, <3>1, <3>3, DirtyShrinks
  <2>4. CASE Todo(r) # {}
    <3>1. PICK i, e : i = Min(Todo(r)) /\ e = [lineage |-> Lineage(r, i), source |-> SourceOf[r]]
      OBVIOUS
    <3>2. i \in run[r].fresh
      BY <1>0, <2>2, <2>4, <3>1, TodoFirst
    <3>3. i \in Nat \ {0} /\ Doc(r) \in Docs /\ SourceOf[r] \in Sources
      BY <2>2, <3>2, DocType DEF RunType, DocAt, Doc
    <3>4. e \in Event /\ e.source = SourceOf[r]
      BY <3>1, <3>3 DEF Event, Lineage
    <3>5. ledger' = Append(ledger, e)
      BY <2>1, <2>4, <3>1
    <3>6. Dirty' \subseteq Dirty \union {SourceOf[r]}
      BY <1>0, <2>1, DirtyShrinks
    <3> QED BY <2>2, <3>3, <3>4, <3>5, <3>6
  <2> QED BY <2>3, <2>4
<1>4. ASSUME NEW r \in Runs, IndexChunks(r)
      PROVE  \/ UNCHANGED <<index, ledger>> /\ Dirty' \subseteq Dirty
             \/ \E s \in Dirty :
                  /\ ledger' = ledger /\ Dirty' \subseteq Dirty
                  /\ \A t \in Separate \ {s} : \A classes, q :
                       RowsOf(index', classes, q, t) = RowsOf(index, classes, q, t)
  <2>1. PICK x : /\ run' = [run EXCEPT ![r] = x] /\ RunOk(r, x)
                 /\ \/ /\ Todo(r) # {} /\ x.stage = "index" /\ x.next = Min(Todo(r)) + 1
                       /\ SameWork(r, x) /\ UpsertChunk(r, Min(Todo(r)))
                    \/ Todo(r) = {} /\ x.stage \in {"fetch", "done"} /\ x.fresh = {} /\ UNCHANGED index
    BY <1>0, <1>4, IndexMoves
  <2>2. ledger' = ledger /\ run[r].stage = "index"
    BY <1>4 DEF IndexChunks
  <2>3. CASE Todo(r) = {}
    <3>1. UNCHANGED <<index, ledger>> /\ ~Writing(x)
      BY <2>1, <2>2, <2>3 DEF Writing
    <3> QED BY <1>0, <2>1, <3>1, DirtyShrinks
  <2>4. CASE Todo(r) # {}
    <3>1. PICK i : i = Min(Todo(r))
      OBVIOUS
    <3>2. i \in run[r].fresh /\ UpsertChunk(r, i)
      BY <1>0, <2>1, <2>2, <2>4, <3>1, TodoFirst
    <3>3. Writing(run[r]) /\ SourceOf[r] \in Dirty
      BY <2>2, <3>2 DEF Writing, Dirty
    <3>4. Dirty' \subseteq Dirty
      BY <1>0, <2>1, <3>3, DirtyShrinks
    <3>5. \A t \in Separate \ {SourceOf[r]} : \A classes, q :
            RowsOf(index', classes, q, t) = RowsOf(index, classes, q, t)
      BY <2>2, <3>2, RowsElsewhere
    <3> QED BY <2>2, <3>3, <3>4, <3>5
  <2> QED BY <2>3, <2>4
<1> QED BY <1>1, <1>2, <1>3, <1>4 DEF Ingest, RunStep

\* An event on its way to a generation stays on its way until it is there.
LEMMA ComingStays ==
  ASSUME NEW s \in Sources, ledger' = ledger,
         \A n \in 1..Len(ledger) : ledger[n].source = s /\ Reaches(s, n) => Reaches(s, n)'
  PROVE  Coming[s] \subseteq Coming'[s]
<1>1. Coming[s] = {n \in 1..Len(ledger) : ledger[n].source = s /\ Reaches(s, n)}
  BY DEF Coming
<1>2. Coming'[s] = {n \in 1..Len(ledger) : ledger[n].source = s /\ Reaches(s, n)'}
  BY DEF Coming
<1> QED BY <1>1, <1>2

\* A step that neither delivers an event nor puts a generation.
LEMMA QuietComing ==
  ASSUME UNCHANGED <<ledger, gens, handling, delivered, again>>, UNCHANGED Deployed
  PROVE  Coming' = Coming
BY DEF Coming, Reaches

\* An event that is taken is held with a generation below it, unless the bucket
\* is there already.
LEMMA GetGenerationComing ==
  ASSUME CorpusInv, StreamInv, NEW i \in Deployed, GetGeneration(i), NEW s \in Sources
  PROVE  Coming[s] \subseteq Coming'[s]
<1>1. PICK n \in again \union {delivered + 1} :
        /\ n \in DOMAIN ledger
        /\ handling' = [handling EXCEPT ![i] = [seq |-> n, current |-> gens[ledger[n].source]]]
        /\ again' = again \ {n} /\ delivered' = Max({delivered, n})
  BY DEF GetGeneration
<1>2. UNCHANGED <<ledger, gens, view>> /\ handling[i] = NoMsg /\ DOMAIN handling = Deployed
  BY DEF GetGeneration, corpus, StreamInv, StreamTyped
<1>3. Deployed' = Deployed
  BY <1>2 DEF Deployed
<1>4. ledger \in Seq(Event) /\ delivered \in 0..Len(ledger) /\ again \subseteq 1..delivered
      /\ gens \in [Sources -> 0..Len(ledger)]
  BY DEF CorpusInv, Provenance, StreamInv, StreamTyped
<1>5. Len(ledger) \in Nat /\ n \in 1..Len(ledger)
  BY <1>1, <1>4
<1>6. delivered' = delivered \/ (n = delivered + 1 /\ delivered' = n)
  <2>1. CASE n \in again
    <3>1. n <= delivered /\ n \in Nat /\ delivered \in Nat
      BY <1>4, <2>1
    <3>2. Max({delivered, n}) = delivered
      BY <3>1 DEF Max
    <3> QED BY <1>1, <3>2
  <2>2. CASE n = delivered + 1
    <3>1. Max({delivered, n}) = n
      BY <1>4, <2>2 DEF Max
    <3> QED BY <1>1, <2>2, <3>1
  <2> QED BY <1>1, <2>1, <2>2
<1>7. ASSUME NEW m \in 1..Len(ledger), ledger[m].source = s, Reaches(s, m)
      PROVE  Reaches(s, m)'
  <2>1. CASE m = n
    <3>1. handling'[i] = [seq |-> m, current |-> gens[s]]
      BY <1>1, <1>2, <1>7, <2>1
    <3>2. gens[s] \in Nat
      BY <1>4
    <3>3. gens[s] >= m \/ gens[s] < m
      BY <3>2
    <3> QED BY <1>2, <1>3, <3>1, <3>3 DEF Reaches
  <2>2. CASE m # n
    <3>1. m > delivered => m > delivered'
      BY <1>4, <1>5, <1>6, <2>2
    <3>2. m \in again => m \in again'
      BY <1>1, <2>2
    <3>3. \A j \in Deployed : handling[j].seq = m => handling'[j] = handling[j]
      <4>1. TAKE j \in Deployed
      <4>2. j = i => handling[j].seq = 0
        BY <1>2 DEF NoMsg
      <4> QED BY <1>1, <1>2, <4>2
    <3> QED BY <1>2, <1>3, <1>7, <3>1, <3>2, <3>3 DEF Reaches
  <2> QED BY <2>1, <2>2
<1> QED BY <1>2, <1>7, ComingStays

\* A replica gives its event back.
LEMMA ReturnComing ==
  ASSUME CorpusInv, StreamInv, NEW i \in Deployed, UNCHANGED <<ledger, gens, delivered>>,
         Deployed' = Deployed,
         handling' = [handling EXCEPT ![i] = NoMsg],
         again \union ({handling[i].seq} \ {0}) \subseteq again', NEW s \in Sources
  PROVE  Coming[s] \subseteq Coming'[s]
<1>1. DOMAIN handling = Deployed
  BY DEF StreamInv, StreamTyped
<1>2. ASSUME NEW m \in 1..Len(ledger), ledger[m].source = s, Reaches(s, m)
      PROVE  Reaches(s, m)'
  <2>1. CASE handling[i].seq = m
    <3>1. m \in again'
      BY <2>1
    <3> QED BY <3>1 DEF Reaches
  <2>2. CASE handling[i].seq # m
    <3>1. \A j \in Deployed : handling[j].seq = m => handling'[j] = handling[j]
      BY <1>1, <2>2
    <3> QED BY <1>2, <3>1 DEF Reaches
  <2> QED BY <2>1, <2>2
<1> QED BY <1>2, ComingStays

\* A replica that is done with its event has brought the generation up to it.
LEMMA HandleComing ==
  ASSUME CorpusInv, StreamInv, NEW i \in Deployed, HandleCorpusMutation(i),
         NEW s \in Sources \cap KvLegal,
         gens'[s] >= gens[s]
  PROVE  Coming[s] \subseteq Coming'[s]
<1> DEFINE q == ledger[handling[i].seq].source
<1>1. /\ UNCHANGED <<ledger, delivered, view>> /\ handling[i] # NoMsg
      /\ handling' = [handling EXCEPT ![i] = NoMsg] /\ again \subseteq again'
  <2>1. PICK lost : Release(i, lost)
    BY DEF HandleCorpusMutation
  <2>2. UNCHANGED <<ledger, delivered, view>> /\ handling[i] # NoMsg
    BY DEF HandleCorpusMutation, corpus
  <2> QED BY <2>1, <2>2 DEF Release
<1>2. /\ handling[i].seq \in 1..Len(ledger) /\ handling[i].current \in 0..Len(ledger) /\ q \in Sources
      /\ Len(ledger) \in Nat
  BY <1>1, HeldType
<1>3. DOMAIN handling = Deployed /\ gens \in [Sources -> 0..Len(ledger)] /\ Deployed' = Deployed
  BY <1>1 DEF StreamInv, StreamTyped, Deployed
<1>4. gens' \in [Sources -> 0..Len(ledger)]
  BY <1>1, HandleStream DEF StreamInv, StreamTyped
<1>5. q = s /\ handling[i].seq > handling[i].current => gens'[s] = handling[i].seq
  BY <1>3 DEF HandleCorpusMutation, Advances, PutGeneration
<1> HIDE DEF q
<1>6. ASSUME NEW m \in 1..Len(ledger), ledger[m].source = s, Reaches(s, m)
      PROVE  Reaches(s, m)'
  <2>1. CASE m > delivered \/ m \in again
    BY <1>1, <2>1 DEF Reaches
  <2>2. CASE gens[s] >= m
    <3>1. gens'[s] >= m
      BY <1>3, <1>4, <2>2
    <3> QED BY <3>1 DEF Reaches
  <2>3. CASE handling[i].seq = m /\ handling[i].current < m
    <3>1. q = s
      BY <1>6, <2>3 DEF q
    <3>2. gens'[s] = m
      BY <1>2, <1>5, <2>3, <3>1
    <3>3. gens'[s] >= m
      BY <3>2
    <3> QED BY <3>3 DEF Reaches
  <2>4. ASSUME NEW j \in Deployed \ {i}, handling[j].seq = m, handling[j].current < m
        PROVE Reaches(s, m)'
    <3>1. handling'[j] = handling[j]
      BY <1>1
    <3> QED BY <1>3, <2>4, <3>1 DEF Reaches
  <2> QED BY <1>6, <2>1, <2>2, <2>3, <2>4 DEF Reaches
<1> QED BY <1>1, <1>6, ComingStays

\* The ledger grows: what was on its way still is, and the new event is.
LEMMA IngestComing ==
  ASSUME CorpusInv, StreamInv, Ingest, NEW s \in Sources
  PROVE  /\ Coming[s] \subseteq Coming'[s]
         /\ \A e : ledger' = Append(ledger, e) /\ e.source = s => Len(ledger) + 1 \in Coming'[s]
<1>1. UNCHANGED streamVars
  BY DEF Ingest, streamVars
<1>2. ledger \in Seq(Event) /\ Len(ledger) \in Nat /\ delivered \in 0..Len(ledger)
  BY DEF CorpusInv, Provenance, StreamInv, StreamTyped
<1>3. \A n : Reaches(s, n)' <=> Reaches(s, n)
  BY <1>1 DEF streamVars, Reaches, Deployed
<1>4. Coming[s] = {n \in 1..Len(ledger) : ledger[n].source = s /\ Reaches(s, n)}
  BY DEF Coming
<1>5. Coming'[s] = {n \in 1..Len(ledger') : ledger'[n].source = s /\ Reaches(s, n)'}
  BY DEF Coming
<1>6. ledger' = ledger \/ \E e : ledger' = Append(ledger, e)
  BY DEF Ingest, Edit, Start, RunStep, Fetch, PrepareChunks, WriteLedger,
         IndexChunks, ActivityFails
<1>7. 1..Len(ledger) \subseteq 1..Len(ledger') /\ \A n \in 1..Len(ledger) : ledger'[n] = ledger[n]
  BY <1>2, <1>6
<1>8. Coming[s] \subseteq Coming'[s]
  BY <1>3, <1>4, <1>5, <1>7
<1>9. ASSUME NEW e, ledger' = Append(ledger, e), e.source = s
      PROVE Len(ledger) + 1 \in Coming'[s]
  <2>1. Len(ledger) + 1 \in 1..Len(ledger') /\ ledger'[Len(ledger) + 1] = e /\ Len(ledger) + 1 > delivered
    BY <1>2, <1>9
  <2>2. Reaches(s, Len(ledger) + 1)
    BY <2>1 DEF Reaches
  <2> QED BY <1>3, <1>5, <1>9, <2>1, <2>2
<1> QED BY <1>8, <1>9

\* A fresh entry stays fresh if no event is forgotten and its sources show the
\* same rows.
LEMMA FreshStays ==
  ASSUME NEW k, NEW e, NEW D1, NEW D2, NEW X1, NEW X2, NEW C1, NEW C2,
         EntryFresh(k, e, D1, X1, C1),
         \A s \in e.sources \cap KvLegal \cap Separate :
           /\ C1[s] \subseteq C2[s]
           /\ s \notin D1 => \/ Later(C2, s, e.gens[s])
                             \/ s \notin D2 /\ RowsOf(X2, k[2], k[3], s) = RowsOf(X1, k[2], k[3], s)
  PROVE  EntryFresh(k, e, D2, X2, C2)
<1> SUFFICES ASSUME e.clean, NEW s \in e.sources \cap KvLegal \cap Separate
             PROVE  \/ Later(C2, s, e.gens[s])
                    \/ s \notin D2 /\ From(e.rows, s) = RowsOf(X2, k[2], k[3], s)
  BY DEF EntryFresh
<1>1. CASE Later(C1, s, e.gens[s])
  BY <1>1 DEF Later
<1>2. CASE s \notin D1 /\ From(e.rows, s) = RowsOf(X1, k[2], k[3], s)
  BY <1>2
<1> QED BY <1>1, <1>2 DEF EntryFresh

\* Nothing of the corpus moves and no entry is written.
LEMMA FreshQuiet ==
  ASSUME StreamInv, EntriesInv, FreshInv, UNCHANGED <<run, index>>,
         \A s \in Sources \cap KvLegal : Coming[s] \subseteq Coming'[s],
         DOMAIN entries' \subseteq DOMAIN entries, \A k \in DOMAIN entries' : entries'[k] = entries[k],
         \A p \in Searches : search'[p] = search[p] \/ search'[p].stage # "write"
  PROVE  FreshInv'
<1>1. Dirty' = Dirty
  BY DEF Dirty
<1>2. \A p \in Searches : CallFresh(search'[p], Dirty, index)
  <2>1. TAKE p \in Searches
  <2>2. PICK c : c = search'[p]
    OBVIOUS
  <2>3. CASE c.stage # "write"
    BY <2>2, <2>3 DEF CallFresh
  <2>4. CASE c.stage = "write"
    <3>1. c = search[p]
      BY <2>2, <2>4
    <3>2. CallFresh(search[p], Dirty, index)
      BY DEF FreshInv, CallsFresh
    <3> QED BY <2>2, <3>1, <3>2
  <2> QED BY <2>3, <2>4
<1>3. ASSUME NEW k \in DOMAIN entries'
      PROVE EntryFresh(k, entries'[k], Dirty, index, Coming')
  <2>1. PICK e : e = entries[k]
    OBVIOUS
  <2>2. e.sources \subseteq Sources
    BY <1>3, <2>1 DEF EntriesInv, EntryOk, RowGood
  <2>3. EntryFresh(k, e, Dirty, index, Coming)
    BY <1>3, <2>1 DEF FreshInv, EntriesFresh
  <2>4. EntryFresh(k, e, Dirty, index, Coming')
    BY <2>2, <2>3, FreshStays
  <2> QED BY <1>3, <2>1, <2>4
<1>4. CallsFresh'
  BY <1>1, <1>2 DEF CallsFresh
<1>5. EntriesFresh'
  BY <1>1, <1>3 DEF EntriesFresh
<1> QED BY <1>4, <1>5 DEF FreshInv

\* Ingestion makes stale nothing that does not know of a later event: the event
\* comes first.
LEMMA IngestFresh ==
  ASSUME CorpusInv, StreamInv, CallsInv, EntriesInv, FreshInv, Ingest
  PROVE  FreshInv'
<1>1. /\ UNCHANGED entries
      /\ search' = [p \in Searches |-> IF Publishes /\ search[p].stage = "write"
                                       THEN [search[p] EXCEPT !.clean = FALSE] ELSE search[p]]
  BY DEF Ingest
<1>2. \A s \in Sources : Coming[s] \subseteq Coming'[s]
  BY IngestComing
<1>3. ASSUME NEW p \in Searches, search'[p].stage = "write", search'[p].clean
      PROVE  search'[p] = search[p] /\ ~Publishes
  <2>1. PICK c : c = search[p]
    OBVIOUS
  <2>2. CASE Publishes /\ c.stage = "write"
    <3>1. search'[p] = [c EXCEPT !.clean = FALSE]
      BY <1>1, <2>1, <2>2
    <3>2. CallOk(c, ready, Lineages)
      BY <2>1 DEF CallsInv
    <3>3. [c EXCEPT !.clean = FALSE].clean = FALSE
      BY <2>2, <3>2 DEF CallOk
    <3> QED BY <1>3, <3>1, <3>3
  <2>3. CASE ~(Publishes /\ c.stage = "write")
    BY <1>1, <1>3, <2>1, <2>3
  <2> QED BY <2>2, <2>3
<1>4. ASSUME NEW k \in DOMAIN entries PROVE entries[k].sources \subseteq Sources
  BY <1>4 DEF EntriesInv, EntryOk, RowGood
<1>5. CASE UNCHANGED <<index, ledger>> /\ Dirty' \subseteq Dirty
  <2>1. \A p \in Searches : CallFresh(search'[p], Dirty', index)
    <3>1. \A p \in Searches : CallFresh(search[p], Dirty, index)
      BY DEF FreshInv, CallsFresh
    <3> QED BY <1>3, <1>5, <3>1 DEF CallFresh
  <2>2. ASSUME NEW k \in DOMAIN entries
        PROVE EntryFresh(k, entries[k], Dirty', index, Coming')
    <3>1. PICK e : e = entries[k]
      OBVIOUS
    <3>2. EntryFresh(k, e, Dirty, index, Coming) /\ e.sources \subseteq Sources
      BY <1>4, <3>1 DEF FreshInv, EntriesFresh
    <3>3. EntryFresh(k, e, Dirty', index, Coming')
      BY <1>2, <1>5, <3>2, FreshStays
    <3> QED BY <3>1, <3>3
  <2>3. CallsFresh' /\ EntriesFresh'
    BY <1>1, <1>5, <2>1, <2>2 DEF CallsFresh, EntriesFresh
  <2> QED BY <2>3 DEF FreshInv
<1>6. ASSUME NEW s \in Sources, NEW e0 \in Event, ledger' = Append(ledger, e0),
             e0.source = s,
             index' = index, Dirty' \subseteq Dirty \union {s}
      PROVE  FreshInv'
  <2>0. ledger \in Seq(Event) /\ Len(ledger) \in Nat
    BY DEF CorpusInv, Provenance
  <2>1. Publishes
    BY <1>6, <2>0 DEF Publishes
  <2>2. \A p \in Searches : CallFresh(search'[p], Dirty', index)
    BY <1>3, <2>1 DEF CallFresh
  <2>3. Len(ledger) + 1 \in Coming'[s]
    BY <1>6, IngestComing
  <2>4. ASSUME NEW k \in DOMAIN entries
        PROVE EntryFresh(k, entries[k], Dirty', index, Coming')
    <3>1. PICK e : e = entries[k]
      OBVIOUS
    <3>2. EntryFresh(k, e, Dirty, index, Coming) /\ e.sources \subseteq Sources
      BY <1>4, <3>1 DEF FreshInv, EntriesFresh
    <3>3. ASSUME NEW t \in e.sources \cap KvLegal \cap Separate, t \notin Dirty
          PROVE  Later(Coming', t, e.gens[t]) \/ t \notin Dirty'
      <4>1. CASE t = s
        <5>1. e.gens[t] \in 0..Len(ledger)
          BY <3>1 DEF EntriesInv, EntryOk
        <5>2. Len(ledger) + 1 > e.gens[t]
          BY <2>0, <5>1
        <5> QED BY <2>3, <4>1, <5>2 DEF Later
      <4>2. CASE t # s
        BY <1>6, <3>3, <4>2
      <4> QED BY <4>1, <4>2
    <3>4. EntryFresh(k, e, Dirty', index, Coming')
      BY <1>2, <3>2, <3>3, FreshStays
    <3> QED BY <3>1, <3>4
  <2>5. CallsFresh' /\ EntriesFresh'
    BY <1>1, <1>6, <2>2, <2>4 DEF CallsFresh, EntriesFresh
  <2> QED BY <2>5 DEF FreshInv
<1>7. ASSUME NEW s \in Dirty, Dirty' \subseteq Dirty,
             \A t \in Separate \ {s} : \A classes, q :
               RowsOf(index', classes, q, t) = RowsOf(index, classes, q, t)
      PROVE  FreshInv'
  <2>1. ASSUME NEW p \in Searches PROVE CallFresh(search'[p], Dirty', index')
    <3>1. SUFFICES ASSUME search'[p].stage = "write", search'[p].clean, NEW t \in Separate
                   PROVE  /\ t \notin Dirty'
                          /\ From(search'[p].rows, t) =
                               RowsOf(index', search'[p].caller.classes, search'[p].query, t)
      BY DEF CallFresh
    <3>2. search'[p] = search[p]
      BY <1>3, <3>1
    <3>3. CallFresh(search[p], Dirty, index)
      BY DEF FreshInv, CallsFresh
    <3>4. t \notin Dirty /\ From(search[p].rows, t) = RowsOf(index, search[p].caller.classes, search[p].query, t)
      BY <3>1, <3>2, <3>3 DEF CallFresh
    <3> QED BY <1>7, <3>2, <3>4
  <2>2. ASSUME NEW k \in DOMAIN entries
        PROVE EntryFresh(k, entries[k], Dirty', index', Coming')
    <3>1. PICK e : e = entries[k]
      OBVIOUS
    <3>2. EntryFresh(k, e, Dirty, index, Coming) /\ e.sources \subseteq Sources
      BY <1>4, <3>1 DEF FreshInv, EntriesFresh
    <3>3. ASSUME NEW t \in e.sources \cap KvLegal \cap Separate, t \notin Dirty
          PROVE  t \notin Dirty' /\ RowsOf(index', k[2], k[3], t) = RowsOf(index, k[2], k[3], t)
      BY <1>7, <3>3
    <3>4. EntryFresh(k, e, Dirty', index', Coming')
      BY <1>2, <3>2, <3>3, FreshStays
    <3> QED BY <3>1, <3>4
  <2>3. CallsFresh' /\ EntriesFresh'
    BY <1>1, <2>1, <2>2 DEF CallsFresh, EntriesFresh
  <2> QED BY <2>3 DEF FreshInv
<1> QED BY <1>5, <1>6, <1>7, IngestEffect

\* A put keeps the entries fresh, or takes the generation back and they are
\* marked.
LEMMA HandleFresh ==
  ASSUME CorpusInv, StreamInv, EntriesInv, FreshInv, NEW i \in Deployed,
         HandleCorpusMutation(i)
  PROVE  FreshInv'
<1> DEFINE s == ledger[handling[i].seq].source
<1>1. UNCHANGED <<run, index, search>> /\ handling[i] # NoMsg
  BY DEF HandleCorpusMutation, corpus
<1>2. /\ s \in Sources /\ gens \in [Sources -> 0..Len(ledger)] /\ Len(ledger) \in Nat
      /\ handling[i].seq \in 1..Len(ledger)
  BY <1>1, HeldType DEF StreamInv, StreamTyped
<1>3. \/ gens' = gens /\ entries' = entries
      \/ /\ gens' = [gens EXCEPT ![s] = handling[i].seq]
         /\ entries' = [k \in DOMAIN entries |->
              [entries[k] EXCEPT !.clean = @ /\ (s \in entries[k].sources => handling[i].seq >= gens[s])]]
  BY DEF HandleCorpusMutation, PutGeneration
<1> HIDE DEF s
<1>4. \A t \in Sources \ {s} : gens'[t] = gens[t]
  BY <1>2, <1>3
<1>5. gens'[s] >= gens[s] \/ (gens' # gens /\ ~(handling[i].seq >= gens[s]))
  BY <1>2, <1>3
<1>6. Dirty' = Dirty /\ CallsFresh'
  BY <1>1 DEF Dirty, FreshInv, CallsFresh
<1>7. ASSUME NEW k \in DOMAIN entries
      PROVE EntryFresh(k, entries'[k], Dirty, index, Coming')
  <2>1. PICK e, d : e = entries[k] /\ d = entries'[k]
    OBVIOUS
  <2>2. EntryFresh(k, e, Dirty, index, Coming) /\ EntryOk(k, e, Lineages, Len(ledger)) /\ e.sources \subseteq Sources
    BY <2>1 DEF FreshInv, EntriesFresh, EntriesInv, EntryOk, RowGood
  <2>3. /\ d.rows = e.rows /\ d.sources = e.sources /\ d.gens = e.gens
        /\ d.clean => e.clean /\ (s \in e.sources => gens'[s] >= gens[s])
    <3>1. CASE gens' = gens /\ entries' = entries
      <4>1. gens'[s] >= gens[s]
        BY <1>2, <3>1
      <4> QED BY <2>1, <3>1, <4>1
    <3>2. CASE entries' # entries
      <4>1. PICK b : b = (e.clean /\ (s \in e.sources => handling[i].seq >= gens[s]))
        OBVIOUS
      <4>2. d = [e EXCEPT !.clean = b]
        BY <1>3, <2>1, <3>2, <4>1
      <4>3. d.rows = e.rows /\ d.sources = e.sources /\ d.gens = e.gens /\ d.clean = b
        BY <2>2, <4>2 DEF EntryOk
      <4> QED BY <1>5, <4>1, <4>3
    <3>3. CASE gens' # gens /\ entries' = entries
      <4>1. entries'[k] = [entries[k] EXCEPT !.clean = @ /\ (s \in entries[k].sources => handling[i].seq >= gens[s])]
        BY <1>3, <3>3
      <4>2. PICK b : b = (e.clean /\ (s \in e.sources => handling[i].seq >= gens[s]))
        OBVIOUS
      <4>3. d = [e EXCEPT !.clean = b]
        BY <2>1, <4>1, <4>2
      <4>4. d.rows = e.rows /\ d.sources = e.sources /\ d.gens = e.gens /\ d.clean = b
        BY <2>2, <4>3 DEF EntryOk
      <4> QED BY <1>5, <4>2, <4>4
    <3> QED BY <1>3, <3>1, <3>2, <3>3
  <2>4. SUFFICES ASSUME d.clean PROVE EntryFresh(k, d, Dirty, index, Coming')
    BY <2>1 DEF EntryFresh
  <2>5. ASSUME NEW t \in e.sources \cap KvLegal \cap Separate
        PROVE Coming[t] \subseteq Coming'[t]
    <3>1. t \in Sources \cap KvLegal
      BY <2>2
    <3>2. gens'[t] >= gens[t]
      <4>1. t # s => gens'[t] = gens[t] /\ gens[t] \in Nat
        BY <1>2, <1>4, <3>1
      <4> QED BY <2>3, <2>4, <2>5, <4>1
    <3> QED BY <3>1, <3>2, HandleComing
  <2>6. EntryFresh(k, e, Dirty, index, Coming')
    BY <2>2, <2>5, FreshStays
  <2> QED BY <2>3, <2>6 DEF EntryFresh
<1>8. DOMAIN entries' = DOMAIN entries
  BY <1>3
<1>9. EntriesFresh'
  BY <1>1, <1>6, <1>7, <1>8 DEF EntriesFresh
<1> QED BY <1>6, <1>9 DEF FreshInv

\* A search that finds no change being indexed holds what there is.
LEMMA StoreFresh ==
  ASSUME CorpusInv, CallsInv, FreshInv, NEW p \in Searches, StoreSearch(p)
  PROVE  FreshInv'
<1>1. UNCHANGED <<run, index, entries, ledger, gens, handling, delivered, again, view>>
  BY DEF StoreSearch, corpus
<1>2. PICK o : o = search[p]
  OBVIOUS
<1>3. PICK c : c = [stage |-> "write", at |-> o.at, caller |-> o.caller, query |-> o.query, t |-> o.t,
                    rows |-> Live(o.caller, o.query), clean |-> Indexing = {}]
  OBVIOUS
<1>4. \A q \in Searches : search'[q] = IF q = p THEN c ELSE search[q]
  BY <1>2, <1>3 DEF StoreSearch, CallsInv
<1>5. Dirty' = Dirty /\ Coming' = Coming
  BY <1>1, QuietComing DEF Dirty, Deployed
<1>6. CallFresh(c, Dirty, index)
  <2>1. SUFFICES ASSUME Indexing = {}, NEW s \in Separate
                 PROVE  s \notin Dirty /\ From(Live(o.caller, o.query), s) = RowsOf(index, o.caller.classes, o.query, s)
    BY <1>3 DEF CallFresh
  <2>2. \A r \in Runs : ~Writing(run[r])
    BY <2>1 DEF Indexing, Writing
  <2> QED BY <2>2, LiveFrom DEF Dirty
<1>7. CallsFresh'
  BY <1>1, <1>4, <1>5, <1>6 DEF FreshInv, CallsFresh
<1>8. EntriesFresh'
  BY <1>1, <1>5 DEF FreshInv, EntriesFresh
<1> QED BY <1>7, <1>8 DEF FreshInv

\* The entry written is as fresh as the results of its search.
LEMMA WriteFresh ==
  ASSUME CorpusInv, StreamInv, CallsInv, EntriesInv, FreshInv, NEW p \in Searches,
         WriteThrough(p)
  PROVE  FreshInv'
<1>1. /\ UNCHANGED <<run, index, ledger, gens, handling, delivered, again, view>>
      /\ search[p].stage = "write" /\ Done(p, "miss")
  BY DEF WriteThrough, corpus
<1>2. Dirty' = Dirty /\ Coming' = Coming
  BY <1>1, QuietComing DEF Dirty, Deployed
<1>3. PICK c, d : c = search[p] /\ d = [stage |-> "done", out |-> "miss"]
  OBVIOUS
<1>4. \A q \in Searches : search'[q] = IF q = p THEN d ELSE search[q]
  BY <1>1, <1>3 DEF Done, CallsInv
<1>5. CallFresh(c, Dirty, index) /\ c.stage = "write"
  BY <1>1, <1>3 DEF FreshInv, CallsFresh
<1>6. CallsFresh'
  <2>1. CallFresh(d, Dirty, index)
    BY <1>3 DEF CallFresh
  <2> QED BY <1>1, <1>2, <1>4, <2>1 DEF FreshInv, CallsFresh
<1>7. PICK sources, g, x, k :
        /\ sources = {h.source : h \in c.rows} /\ g = [s \in sources |-> view[c.at][s]]
        /\ x = CacheExpiry(c.t, c.caller.exp) /\ k = Key(c.caller, c.query)
  OBVIOUS
<1>8. PICK e : e = [rows |-> c.rows, sources |-> sources, gens |-> g, expires |-> x,
                    asOf |-> c.t, granted |-> c.caller.exp, clean |-> c.clean]
  OBVIOUS
<1>9. Put(k, e)
  BY <1>3, <1>7, <1>8 DEF WriteThrough
<1>10. EntryFresh(k, e, Dirty, index, Coming)
  <2>1. k[2] = c.caller.classes /\ k[3] = c.query
    BY <1>7 DEF Key, KeyOf
  <2>2. e.clean = c.clean /\ e.rows = c.rows
    BY <1>8
  <2> QED BY <1>5, <2>1, <2>2 DEF EntryFresh, CallFresh
<1>11. \A y \in DOMAIN entries' : (y = k /\ entries'[y] = e) \/ (y \in DOMAIN entries /\ entries'[y] = entries[y])
  BY <1>9 DEF Put
<1>12. EntriesFresh'
  <2> SUFFICES ASSUME NEW y \in DOMAIN entries'
               PROVE EntryFresh(y, entries'[y], Dirty, index, Coming)
    BY <1>1, <1>2 DEF EntriesFresh
  <2> QED BY <1>10, <1>11 DEF FreshInv, EntriesFresh
<1> QED BY <1>6, <1>12 DEF FreshInv

\* Every step keeps the entries fresh.
LEMMA FreshStep ==
  ASSUME CorpusInv, StreamInv, CallsInv, EntriesInv, FreshInv, [Next]_vars
  PROVE  FreshInv'
<1>0. \A k \in DOMAIN entries : entries[k] = entries[k]
  OBVIOUS
<1>1. CASE Ingest
  BY <1>1, IngestFresh
<1>2. ASSUME NEW i \in Deployed, GetGeneration(i) PROVE FreshInv'
  <2>1. UNCHANGED <<run, index, entries, search>>
    BY <1>2 DEF GetGeneration, corpus
  <2>2. \A s \in Sources \cap KvLegal : Coming[s] \subseteq Coming'[s]
    BY <1>2, GetGenerationComing
  <2> QED BY <2>1, <2>2, FreshQuiet
<1>3. ASSUME NEW i \in Deployed, HandleCorpusMutation(i) PROVE FreshInv'
  BY <1>3, HandleFresh
<1>4. ASSUME NEW i \in Deployed, NakMutation(i) \/ Restart(i) PROVE FreshInv'
  <2>1. /\ UNCHANGED <<run, index, entries, ledger, gens, delivered>> /\ handling' = [handling EXCEPT ![i] = NoMsg]
        /\ again \union ({handling[i].seq} \ {0}) \subseteq again'
    BY <1>4 DEF NakMutation, Restart, Release, corpus
  <2>2. Deployed' = Deployed
    BY <1>4 DEF NakMutation, Restart, Deployed
  <2>3. \A s \in Sources \cap KvLegal : Coming[s] \subseteq Coming'[s]
    BY <2>1, <2>2, ReturnComing
  <2>4. \A p \in Searches : search'[p] = search[p] \/ search'[p].stage # "write"
    <3>1. TAKE p \in Searches
    <3>2. PICK c : c = [stage |-> "done", out |-> "failed"]
      OBVIOUS
    <3>3. search'[p] = search[p] \/ search'[p] = c
      BY <1>4, <3>2 DEF NakMutation, Restart
    <3>4. c.stage # "write"
      BY <3>2
    <3> QED BY <3>3, <3>4
  <2> QED BY <2>1, <2>3, <2>4, FreshQuiet
<1>5. ASSUME NEW i \in Deployed, Watch(i) \/ Seed(i) PROVE FreshInv'
  <2>1. UNCHANGED <<run, index, entries, search, ledger, gens, handling, delivered, again>> /\ Deployed' = Deployed
    BY <1>5 DEF Watch, Seed, corpus, Deployed
  <2>2. Coming' = Coming
    BY <2>1, QuietComing
  <2> QED BY <2>1, <2>2, FreshQuiet
<1>6. CASE LoseBucket \/ PurgeTenant
  <2>1. UNCHANGED <<run, index, search>> /\ DOMAIN entries' = {}
    BY <1>6 DEF LoseBucket, PurgeTenant, corpus
  <2> QED BY <2>1 DEF FreshInv, CallsFresh, EntriesFresh, Dirty
<1>7. ASSUME UNCHANGED <<run, index, ledger, gens, handling, delivered, again, view>>,
             DOMAIN entries' \subseteq DOMAIN entries, \A k \in DOMAIN entries' : entries'[k] = entries[k],
             \A p \in Searches : search'[p] = search[p] \/ search'[p].stage # "write"
      PROVE  FreshInv'
  <2>1. Coming' = Coming
    BY <1>7, QuietComing DEF Deployed
  <2> QED BY <1>7, <2>1, FreshQuiet
<1>8. CASE Tick \/ UNCHANGED vars
  BY <1>7, <1>8 DEF Tick, vars, cacheVars, corpus
<1>9. ASSUME NEW p \in Searches, NEW i \in Deployed, Begin(p, i) PROVE FreshInv'
  <2>1. UNCHANGED <<run, index, ledger, gens, handling, delivered, again, view, entries>>
    BY <1>9 DEF Begin, corpus
  <2>2. \A q \in Searches : search'[q] = search[q] \/ search'[q].stage # "write"
    BY <1>9 DEF Begin, Done, CallsInv
  <2> QED BY <1>7, <2>1, <2>2
<1>10. ASSUME NEW p \in Searches, CacheGet(p) \/ Evict(p) PROVE FreshInv'
  <2>1. UNCHANGED <<run, index, ledger, gens, handling, delivered, again, view>>
    BY <1>10 DEF CacheGet, Evict, corpus
  <2>2. DOMAIN entries' \subseteq DOMAIN entries /\ \A k \in DOMAIN entries' : entries'[k] = entries[k]
    BY <1>10 DEF CacheGet, Evict, Without
  <2>3. search[p].stage \in {"get", "evict"}
    BY <1>10 DEF CacheGet, Evict
  <2>4. \A q \in Searches : search'[q] = search[q] \/ search'[q].stage # "write"
    <3>1. CallOk(search[p], ready, Lineages)
      BY DEF CallsInv
    <3>2. \E c : search' = [search EXCEPT ![p] = c] /\ c.stage # "write"
      <4>1. CASE \E stage \in {"evict", "read"} : search' = [search EXCEPT ![p].stage = stage]
        <5>1. PICK stage \in {"evict", "read"} : search' = [search EXCEPT ![p].stage = stage]
          BY <4>1
        <5>2. PICK c : c = [search[p] EXCEPT !.stage = stage]
          OBVIOUS
        <5>3. c.stage = stage
          BY <2>3, <3>1, <5>2 DEF CallOk
        <5> QED BY <5>1, <5>2, <5>3
      <4>2. CASE \E e : Serve(p, e)
        <5>1. PICK e : Serve(p, e)
          BY <4>2
        <5>2. PICK c : c = [stage |-> "done", out |-> "hit", caller |-> search[p].caller, t |-> search[p].t,
                            rows |-> e.rows, asOf |-> e.asOf, granted |-> e.granted]
          OBVIOUS
        <5>3. search' = [search EXCEPT ![p] = c]
          BY <5>1, <5>2 DEF Serve
        <5>4. c.stage # "write"
          BY <5>2
        <5> QED BY <5>3, <5>4
      <4> QED BY <1>10, <4>1, <4>2 DEF CacheGet, Evict
    <3> QED BY <3>2 DEF CallsInv
  <2> QED BY <1>7, <2>1, <2>2, <2>4
<1> QED BY <1>1, <1>2, <1>3, <1>4, <1>5, <1>6, <1>8, <1>9, <1>10, StoreFresh,
       WriteFresh DEF Next, Invalidate, Call

\* No entry to begin with.
LEMMA InitFresh == Init => FreshInv
<1> SUFFICES ASSUME Init PROVE FreshInv
  OBVIOUS
<1>1. PICK load \in Loads : CacheInit(load)
  BY DEF Init
<1>2. PICK c : c = [stage |-> "done", out |-> "none"]
  OBVIOUS
<1>3. \A p \in Searches : search[p] = Call0 \/ search[p] = c
  BY <1>1, <1>2 DEF CacheInit
<1>4. Call0.stage # "write" /\ c.stage # "write"
  BY <1>2 DEF Call0
<1>5. DOMAIN entries = {}
  BY <1>1 DEF CacheInit
<1> QED BY <1>3, <1>4, <1>5 DEF FreshInv, CallsFresh, EntriesFresh, CallFresh

-----------------------------------------------------------------------------
(* What a search hands over.                                               *)

SearchInv == CorpusInv /\ StreamInv /\ CallsInv /\ EntriesInv /\ FreshInv

\* The invariant of retrieval is inductive.
LEMMA SearchInductive == SearchInv /\ [Next]_vars => SearchInv'
BY StreamStep, CallsStep, FreshStep DEF SearchInv

\* A run's work, by the name the model has for it.
LEMMA SearchTypeOK == SearchInv => TypeOK
<1> SUFFICES ASSUME SearchInv PROVE TypeOK
  OBVIOUS
<1>1. ASSUME NEW r \in Runs
      PROVE  /\ run[r].stage \in {"idle", "fetch", "prepare", "ledger", "index", "done", "failed"}
             /\ run[r].tries < MaxAttempts
             /\ Active(r) => run[r].at \in DOMAIN DocsOf[SourceOf[r]]
             /\ run[r].stage \in {"ledger", "index"} =>
                  run[r].fresh \subseteq DOMAIN Chunks(r) /\ run[r].next \in 1..Len(Chunks(r)) + 1
  BY DEF SearchInv, CorpusInv, RunsTyped, RunOk, RunType, Stages, Active, ChunksAt,
         DocAt, Chunks, Doc
<1>2. \A i, j \in Deployed : handling[i] = handling[j] => (i = j \/ handling[i] = NoMsg)
  BY DEF SearchInv, StreamInv, HeldOnce
<1>3. \A p \in Flying : search[p].at \in ready
  BY DEF SearchInv, CallsInv, CallOk, Flying
<1> QED BY <1>1, <1>2, <1>3 DEF TypeOK, SearchInv, CorpusInv, VersionsTyped,
       Provenance, RowsKnown, StreamInv, StreamTyped

\* What is handed over is on the ledger, within the grant and within its time.
LEMMA SearchProvenance == SearchInv => LedgerBeforeIndex /\ HitsStayInGrant /\ HitsAreBounded
<1> SUFFICES ASSUME SearchInv PROVE LedgerBeforeIndex /\ HitsStayInGrant /\ HitsAreBounded
  OBVIOUS
<1>1. LedgerBeforeIndex
  BY DEF SearchInv, CorpusInv, Provenance, RowsKnown, EntriesInv, EntryOk, RowGood,
         LedgerBeforeIndex, Held, Cached
<1>2. HitsStayInGrant /\ HitsAreBounded
  BY DEF SearchInv, CallsInv, CallOk, HitsStayInGrant, HitsAreBounded, Hits
<1> QED BY <1>1, <1>2

\* Once everything is delivered a generation on its way has arrived, and the
\* views with it.
LEMMA SettledIsStale ==
  ASSUME SearchInv, Settled, NEW s \in Sources, NEW g \in Nat, Later(Coming, s, g),
         NEW i \in Deployed
  PROVE  view[i][s] # g
<1>1. PICK n \in 1..Len(ledger) : ledger[n].source = s /\ Reaches(s, n) /\ n > g
  BY DEF Coming, Later
<1>2. /\ delivered = Len(ledger) /\ again = {} /\ ready = Deployed
      /\ \A j \in Deployed : handling[j] = NoMsg /\ unseen[j] = {}
  BY DEF Settled
<1>3. Len(ledger) \in Nat /\ gens \in [Sources -> 0..Len(ledger)]
  BY DEF SearchInv, CorpusInv, Provenance, StreamInv, StreamTyped
<1>4. NoMsg.seq = 0
  BY DEF NoMsg
<1>5. gens[s] >= n
  BY <1>1, <1>2, <1>3, <1>4 DEF Reaches
<1>6. gens[s] \in Nat /\ gens[s] # 0 /\ gens[s] > g
  BY <1>1, <1>3, <1>5
<1>7. view[i][s] = gens[s]
  BY <1>2, <1>6 DEF SearchInv, StreamInv, ViewFollows
<1> QED BY <1>6, <1>7

\* Once settled, an entry that is still good shows what there is.
LEMMA SearchFreshness == SearchInv => FreshUnlessOverlapped
<1> SUFFICES ASSUME SearchInv, Settled, NEW k \in DOMAIN entries, NEW i \in Deployed,
                    entries[k].clean, entries[k].sources \subseteq KvLegal \cap Separate,
                    ~Stale(entries[k], i), NEW s \in entries[k].sources
             PROVE  {h \in entries[k].rows : h.source = s}
                      = {h \in Live([classes |-> k[2]], k[3]) : h.source = s}
  BY DEF FreshUnlessOverlapped
<1>1. PICK e : e = entries[k]
  OBVIOUS
<1>2. EntryFresh(k, e, Dirty, index, Coming) /\ EntryOk(k, e, Lineages, Len(ledger))
  BY <1>1 DEF SearchInv, FreshInv, EntriesFresh, EntriesInv
<1>3. s \in Sources /\ e.gens[s] \in Nat
  <2>1. e.sources \subseteq Sources /\ e.gens \in [e.sources -> 0..Len(ledger)]
    BY <1>2 DEF EntryOk, RowGood
  <2> QED BY <1>1, <2>1
<1>4. view[i][s] = e.gens[s]
  BY <1>1 DEF Stale
<1>5. ~Later(Coming, s, e.gens[s])
  BY <1>3, <1>4, SettledIsStale
<1>6. From(e.rows, s) = RowsOf(index, k[2], k[3], s)
  BY <1>1, <1>2, <1>5 DEF EntryFresh
<1>7. From(Live([classes |-> k[2]], k[3]), s) = RowsOf(index, k[2], k[3], s)
  <2>1. PICK c : c = [classes |-> k[2]]
    OBVIOUS
  <2>2. c.classes = k[2]
    BY <2>1
  <2> QED BY <2>1, <2>2, LiveFrom
<1> QED BY <1>1, <1>6, <1>7 DEF From

\* For any corpus, callers, queries, replicas and faults a search hands over
\* only what is on the ledger, what its caller may read, within its time, and
\* fresh in the sense of FreshUnlessOverlapped (context-cache.ts, app.ts of the
\* knowledge service, ingestion-activities.ts).
THEOREM SearchSound == Spec => []SearchIsSound
<1>1. Init => SearchInv
  BY InitCorpus, InitStream, InitCalls, InitFresh DEF SearchInv
<1>2. SearchInv /\ [Next]_vars => SearchInv'
  BY SearchInductive
<1>3. SearchInv => SearchIsSound
  BY SearchTypeOK, SearchProvenance, SearchFreshness DEF SearchIsSound
<1> QED BY <1>1, <1>2, <1>3, PTL DEF Spec

-----------------------------------------------------------------------------
(* What indexing and the generations do not undo.                          *)

\* The runs that are over; a run compared its chunks with rows of some of
\* them, and a row it relies on is as it fetched it, or was written since by
\* a run that is not one of them.
Over == {q \in Runs : run[q].stage \in {"done", "failed"}}
KeptRow(ix, k, text, r, past) ==
  k \in DOMAIN ix /\ (ix[k].content = text \/ ix[k].lineage[1] \notin past \union {r})
Kept(r, x, ix, over) ==
  x.stage \in {"prepare", "ledger", "index"} =>
    \A i \in DOMAIN ChunksAt(r, x) : x.stage # "prepare" \/ i < x.next =>
      /\ x.past \subseteq over
      /\ i \notin x.fresh \/ (x.stage = "index" /\ i < x.next) =>
           KeptRow(ix, <<DocAt(r, x), i>>, ChunksAt(r, x)[i], r, x.past)
KeptInv == \A r \in Runs : Kept(r, run[r], index, Over)

\* A run that is over stays over.
LEMMA OverStays ==
  ASSUME RunsTyped, NEW r \in Runs, NEW x, run' = [run EXCEPT ![r] = x],
         run[r].stage \notin {"done", "failed"}
  PROVE  Over \subseteq Over'
<1>1. \A q \in Runs : run'[q] = IF q = r THEN x ELSE run[q]
  BY DEF RunsTyped
<1> QED BY <1>1 DEF Over

\* A run moves and no row is written.
LEMMA KeptMoves ==
  ASSUME RunsTyped, KeptInv, NEW r \in Runs, NEW x, run' = [run EXCEPT ![r] = x],
         UNCHANGED index,
         run[r].stage \notin {"done", "failed"}, Kept(r, x, index, Over)
  PROVE  KeptInv'
<1>1. \A q \in Runs : run'[q] = IF q = r THEN x ELSE run[q]
  BY DEF RunsTyped
<1>2. Over \subseteq Over'
  BY OverStays
<1>3. \A q \in Runs : Kept(q, run'[q], index, Over)
  BY <1>1 DEF KeptInv
<1>4. \A q \in Runs : Kept(q, run'[q], index', Over')
  BY <1>2, <1>3 DEF Kept
<1>5. KeptInv' <=> \A q \in Runs : Kept(q, run'[q], index', Over')
  BY DEF KeptInv, Kept, KeptRow, DocAt, ChunksAt
<1> QED BY <1>4, <1>5

\* A run compares its chunks: those it will not write are indexed as they
\* should be.
LEMMA PrepareKept ==
  ASSUME RunsTyped, KeptInv, NEW r \in Runs, PrepareChunks(r)
  PROVE  KeptInv'
<1>1. PICK x : /\ run' = [run EXCEPT ![r] = x] /\ RunOk(r, x)
               /\ x.at = run[r].at /\ x.v = run[r].v /\ Compared(r, x)
  BY PrepareMoves
<1>2. /\ ChunksAt(r, x) = Chunks(r) /\ DocAt(r, x) = Doc(r)
      /\ ChunksAt(r, run[r]) = Chunks(r) /\ DocAt(r, run[r]) = Doc(r)
  BY <1>1 DEF ChunksAt, DocAt, Chunks, Doc
<1>3. /\ UNCHANGED index /\ run[r].stage = "prepare" /\ Kept(r, run[r], index, Over)
      /\ RunOk(r, run[r]) /\ run[r] \in RunType
  BY DEF PrepareChunks, KeptInv, RunsTyped
<1>4. IsList(Chunks(r))
  BY <1>2, <1>3, ChunksType
<1>5. \A i \in DOMAIN Chunks(r) : i < run[r].next =>
        /\ run[r].past \subseteq Over
        /\ i \notin run[r].fresh => KeptRow(index, <<Doc(r), i>>, Chunks(r)[i], r, run[r].past)
  BY <1>2, <1>3 DEF Kept
<1>6. Kept(r, x, index, Over)
  <2>1. CASE x.stage = "ledger"
    <3>1. x.past = run[r].past /\ x.fresh = run[r].fresh /\ \A i \in DOMAIN Chunks(r) : i < run[r].next
      <4>1. /\ x.past = run[r].past /\ x.fresh = run[r].fresh /\ run[r].next \notin DOMAIN Chunks(r)
        BY <1>1, <2>1 DEF Compared
      <4>2. run[r].next \in 1..Len(Chunks(r)) + 1
        BY <1>2, <1>3 DEF RunOk
      <4> QED BY <1>4, <4>1, <4>2 DEF IsList
    <3> QED BY <1>2, <1>5, <2>1, <3>1 DEF Kept
  <2>2. CASE x.stage = "prepare"
    <3>1. PICK n : n = run[r].next
      OBVIOUS
    <3>2. /\ n \in Nat \ {0} /\ x.next = n + 1 /\ x.past = Past(r) /\ n \in DOMAIN Chunks(r)
          /\ x.fresh = IF Unchanged(Doc(r), n, Chunks(r)[n]) THEN run[r].fresh ELSE run[r].fresh \union {n}
      BY <1>1, <1>3, <1>4, <2>2, <3>1 DEF Compared, IsList
    <3>3. ASSUME NEW i \in DOMAIN Chunks(r), i < n + 1
          PROVE  /\ x.past \subseteq Over
                 /\ i \notin x.fresh => KeptRow(index, <<Doc(r), i>>, Chunks(r)[i], r, x.past)
      <4>1. i \in Nat \ {0}
        BY <1>4 DEF IsList
      <4>2. x.past \subseteq Over
        <5>1. CASE n = 1
          BY <3>1, <3>2, <5>1 DEF Past, Over
        <5>2. CASE n # 1
          <6>1. 1 \in DOMAIN Chunks(r) /\ 1 < n
            BY <1>4, <3>2, <5>2 DEF IsList
          <6> QED BY <1>5, <3>1, <3>2, <5>2, <6>1 DEF Past
        <5> QED BY <5>1, <5>2
      <4>3. CASE i = n
        BY <3>2, <4>2, <4>3 DEF KeptRow, Unchanged
      <4>4. CASE i # n
        <5>1. i < n /\ n # 1
          BY <3>2, <3>3, <4>1, <4>4
        <5>2. x.past = run[r].past /\ run[r].fresh \subseteq x.fresh
          BY <3>1, <3>2, <5>1 DEF Past
        <5> QED BY <1>5, <3>1, <4>2, <5>1, <5>2
      <4> QED BY <4>3, <4>4
    <3> QED BY <1>2, <2>2, <3>2, <3>3 DEF Kept
  <2> QED BY <1>1, <2>1, <2>2 DEF Compared
<1> QED BY <1>1, <1>3, <1>6, KeptMoves

\* Publishing writes no row.
LEMMA LedgerKept ==
  ASSUME RunsTyped, KeptInv, NEW r \in Runs, WriteLedger(r)
  PROVE  KeptInv'
<1>1. PICK x : /\ run' = [run EXCEPT ![r] = x] /\ RunOk(r, x) /\ SameWork(r, x)
               /\ x.stage = "ledger" \/ (x.stage = "index" /\ x.next = 1)
  BY LedgerMoves
<1>2. UNCHANGED index /\ run[r].stage = "ledger" /\ Kept(r, run[r], index, Over)
  BY DEF WriteLedger, KeptInv
<1>3. /\ ChunksAt(r, x) = ChunksAt(r, run[r]) /\ DocAt(r, x) = DocAt(r, run[r])
      /\ x.fresh = run[r].fresh /\ x.past = run[r].past
  BY <1>1 DEF SameWork, ChunksAt, DocAt
<1>4. \A i \in DOMAIN ChunksAt(r, x) : i < 1 => i \notin x.fresh
  BY <1>1 DEF RunOk, RunType
<1>5. Kept(r, x, index, Over)
  BY <1>1, <1>2, <1>3, <1>4 DEF Kept
<1> QED BY <1>1, <1>2, <1>5, KeptMoves

\* A run that begins again has nothing behind it.
LEMMA FailKept ==
  ASSUME RunsTyped, KeptInv, NEW r \in Runs, ActivityFails(r)
  PROVE  KeptInv'
<1>1. PICK x : /\ run' = [run EXCEPT ![r] = x] /\ RunOk(r, x)
               /\ Restarted(r, x) \/ (x.stage = "failed" /\ x.fresh = {})
  BY FailMoves
<1>2. UNCHANGED index /\ run[r].stage \notin {"done", "failed"} /\ Kept(r, run[r], index, Over)
  BY DEF ActivityFails, Active, KeptInv
<1>3. CASE x.stage = "failed"
  <2>1. Kept(r, x, index, Over)
    BY <1>3 DEF Kept
  <2> QED BY <1>1, <1>2, <2>1, KeptMoves
<1>4. CASE Restarted(r, x)
  <2>1. /\ ChunksAt(r, x) = ChunksAt(r, run[r]) /\ DocAt(r, x) = DocAt(r, run[r])
        /\ x.stage = run[r].stage /\ x.past = run[r].past
        /\ x.stage # "prepare" => x.fresh = run[r].fresh
    BY <1>4 DEF Restarted, ChunksAt, DocAt
  <2>2. x.stage \in {"prepare", "ledger", "index"} => \A i \in DOMAIN ChunksAt(r, x) : ~(i < x.next)
    <3>1. SUFFICES ASSUME x.stage \in {"prepare", "ledger", "index"}, NEW i \in DOMAIN ChunksAt(r, x)
                   PROVE  ~(i < x.next)
      OBVIOUS
    <3>2. IsList(ChunksAt(r, x)) /\ x.next \in Nat /\ x.next <= 1
      BY <1>1, <1>4, <3>1, ChunksType DEF RunOk, RunType, Restarted
    <3> QED BY <3>2 DEF IsList
  <2>3. Kept(r, x, index, Over)
    BY <1>2, <2>1, <2>2 DEF Kept
  <2> QED BY <1>1, <1>2, <2>3, KeptMoves
<1> QED BY <1>1, <1>3, <1>4

\* One row is written by a run that is not over.
LEMMA IndexKept ==
  ASSUME CorpusInv, KeptInv, NEW r \in Runs, IndexChunks(r)
  PROVE  KeptInv'
<1>0. RunsTyped /\ run[r].stage = "index" /\ Kept(r, run[r], index, Over)
  BY DEF CorpusInv, IndexChunks, KeptInv
<1>1. PICK x : /\ run' = [run EXCEPT ![r] = x] /\ RunOk(r, x)
               /\ \/ /\ Todo(r) # {} /\ x.stage = "index" /\ x.next = Min(Todo(r)) + 1
                     /\ SameWork(r, x) /\ UpsertChunk(r, Min(Todo(r)))
                  \/ Todo(r) = {} /\ x.stage \in {"fetch", "done"} /\ x.fresh = {} /\ UNCHANGED index
  BY <1>0, IndexMoves
<1>2. CASE Todo(r) = {}
  <2>1. Kept(r, x, index, Over)
    BY <1>1, <1>2 DEF Kept
  <2> QED BY <1>0, <1>1, <1>2, <2>1, KeptMoves
<1>3. CASE Todo(r) # {}
  <2>1. PICK i, d : i = Min(Todo(r)) /\ d = Doc(r)
    OBVIOUS
  <2>2. /\ i \in run[r].fresh /\ UpsertChunk(r, i) /\ x.stage = "index" /\ x.next = i + 1 /\ SameWork(r, x)
        /\ \A j \in run[r].fresh : j < i => j < run[r].next
    BY <1>0, <1>1, <1>3, <2>1, TodoFirst
  <2>3. /\ DOMAIN index' = DOMAIN index \cup {<<d, i>>}
        /\ index'[<<d, i>>].content = Chunks(r)[i] /\ index'[<<d, i>>].lineage = <<r, d, i>>
        /\ \A k \in DOMAIN index : k # <<d, i>> => index'[k] = index[k]
    <3>1. /\ DOMAIN index' = DOMAIN index \cup {<<Doc(r), i>>}
          /\ index'[<<Doc(r), i>>] = Row(r, i)
          /\ \A k \in DOMAIN index : k # <<Doc(r), i>> => index'[k] = index[k]
          /\ Row(r, i).content = Chunks(r)[i] /\ Row(r, i).lineage = <<r, Doc(r), i>>
      <4>1. CorpusInv /\ run[r].stage = "index" /\ i \in run[r].fresh /\ UpsertChunk(r, i)
        BY <1>0, <2>2
      <4>2. Upserted(r, i)
        BY <4>1, UpsertRows
      <4> QED BY <4>2 DEF Upserted
    <3> QED BY <2>1, <3>1
  <2>4. /\ ChunksAt(r, x) = Chunks(r) /\ DocAt(r, x) = d /\ ChunksAt(r, run[r]) = Chunks(r)
        /\ DocAt(r, run[r]) = d /\ x.fresh = run[r].fresh /\ x.past = run[r].past
    BY <2>1, <2>2 DEF SameWork, ChunksAt, DocAt, Chunks, Doc
  <2>5. Over \subseteq Over' /\ r \notin Over
    BY <1>0, <1>1, OverStays DEF Over
  <2>6. Kept(r, x, index', Over')
    <3>1. DOMAIN Chunks(r) # {} => x.past \subseteq Over'
      BY <1>0, <2>4, <2>5 DEF Kept
    <3>2. ASSUME NEW j \in DOMAIN Chunks(r), j \notin x.fresh \/ j < i + 1
          PROVE  KeptRow(index', <<d, j>>, Chunks(r)[j], r, x.past)
      <4>1. CASE j = i
        BY <2>3, <4>1 DEF KeptRow
      <4>2. CASE j # i
        <5>1. <<d, j>> # <<d, i>>
          BY <4>2
        <5>2. j \notin run[r].fresh \/ j < run[r].next
          <6>1. j \in run[r].fresh => j \in Nat /\ i \in Nat
            BY <1>0, <2>2 DEF RunsTyped, RunType
          <6>2. j \in run[r].fresh => j < i
            BY <2>4, <3>2, <4>2, <6>1
          <6> QED BY <2>2, <6>2
        <5>3. KeptRow(index, <<d, j>>, Chunks(r)[j], r, x.past)
          BY <1>0, <2>4, <5>2 DEF Kept
        <5> QED BY <2>3, <5>1, <5>3 DEF KeptRow
      <4> QED BY <4>1, <4>2
    <3> QED BY <2>2, <2>4, <3>1, <3>2 DEF Kept
  <2>7. ASSUME NEW q \in Runs \ {r} PROVE Kept(q, run[q], index', Over')
    <3>1. SUFFICES ASSUME run[q].stage \in {"prepare", "ledger", "index"},
                          NEW j \in DOMAIN ChunksAt(q, run[q]), run[q].stage # "prepare" \/ j < run[q].next
                   PROVE  /\ run[q].past \subseteq Over'
                          /\ j \notin run[q].fresh \/ (run[q].stage = "index" /\ j < run[q].next) =>
                               KeptRow(index', <<DocAt(q, run[q]), j>>, ChunksAt(q, run[q])[j], q, run[q].past)
      BY DEF Kept
    <3>2. Kept(q, run[q], index, Over)
      BY DEF KeptInv
    <3>3. run[q].past \subseteq Over
      BY <3>1, <3>2 DEF Kept
    <3>4. ASSUME j \notin run[q].fresh \/ (run[q].stage = "index" /\ j < run[q].next)
          PROVE  KeptRow(index', <<DocAt(q, run[q]), j>>, ChunksAt(q, run[q])[j], q, run[q].past)
      <4>1. PICK k, text : k = <<DocAt(q, run[q]), j>> /\ text = ChunksAt(q, run[q])[j]
        OBVIOUS
      <4>2. KeptRow(index, k, text, q, run[q].past)
        BY <3>1, <3>2, <3>4, <4>1 DEF Kept
      <4>3. CASE k = <<d, i>>
        <5>1. index'[k].lineage[1] = r
          BY <2>3, <4>3
        <5>2. r \notin run[q].past \union {q}
          BY <2>5, <2>7, <3>3
        <5> QED BY <2>3, <4>1, <4>3, <5>1, <5>2 DEF KeptRow
      <4>4. CASE k # <<d, i>>
        BY <2>3, <4>1, <4>2, <4>4 DEF KeptRow
      <4> QED BY <4>3, <4>4
    <3> QED BY <2>5, <3>3, <3>4
  <2>8. \A q \in Runs : run'[q] = IF q = r THEN x ELSE run[q]
    BY <1>0, <1>1 DEF RunsTyped
  <2>9. \A q \in Runs : Kept(q, run'[q], index', Over')
    BY <2>6, <2>7, <2>8
  <2>10. KeptInv' <=> \A q \in Runs : Kept(q, run'[q], index', Over')
    BY DEF KeptInv, Kept, KeptRow, DocAt, ChunksAt
  <2> QED BY <2>9, <2>10
<1> QED BY <1>2, <1>3

\* Every step keeps what the runs rely on.
LEMMA KeptStep ==
  ASSUME CorpusInv, KeptInv, [Next]_vars
  PROVE  KeptInv'
<1>0. RunsTyped /\ VersionsTyped
  BY DEF CorpusInv
<1>1. ASSUME UNCHANGED <<run, index>> PROVE KeptInv'
  BY <1>1 DEF KeptInv, Kept, KeptRow, Over, DocAt, ChunksAt
<1>2. CASE Ingest
  <2>1. ASSUME NEW d \in Docs, Edit(d) PROVE KeptInv'
    BY <1>1, <2>1 DEF Edit
  <2>2. ASSUME NEW r \in Runs, Start(r) PROVE KeptInv'
    <3>1. PICK x : run' = [run EXCEPT ![r] = x] /\ x.stage \notin {"prepare", "ledger", "index"}
      <4>1. CASE DocsOf[SourceOf[r]] = <<>>
        <5>1. run' = [run EXCEPT ![r] = Ended]
          BY <2>2, <4>1 DEF Start
        <5>2. Ended.stage = "done"
          BY DEF Ended, Idle
        <5> QED BY <5>1, <5>2
      <4>2. CASE DocsOf[SourceOf[r]] # <<>>
        <5>1. PICK x : x = [Idle EXCEPT !.stage = "fetch", !.at = 1]
          OBVIOUS
        <5>2. run' = [run EXCEPT ![r] = x]
          BY <2>2, <4>2, <5>1 DEF Start
        <5>3. x.stage = "fetch"
          BY <5>1 DEF Idle
        <5> QED BY <5>2, <5>3
      <4> QED BY <4>1, <4>2
    <3>2. Kept(r, x, index, Over)
      BY <3>1 DEF Kept
    <3>3. UNCHANGED index /\ run[r].stage = "idle"
      BY <2>2 DEF Start
    <3> QED BY <1>0, <3>1, <3>2, <3>3, KeptMoves
  <2>3. ASSUME NEW r \in Runs, Fetch(r) PROVE KeptInv'
    <3>1. PICK x : run' = [run EXCEPT ![r] = x] /\ RunOk(r, x) /\ x.stage = "prepare" /\ x.next = 1
      BY <1>0, <2>3, FetchMoves
    <3>2. Kept(r, x, index, Over)
      <4>1. \A i \in DOMAIN ChunksAt(r, x) : ~(i < 1)
        BY <3>1, ChunksType DEF IsList
      <4> QED BY <3>1, <4>1 DEF Kept
    <3>3. UNCHANGED index /\ run[r].stage = "fetch"
      BY <2>3 DEF Fetch
    <3> QED BY <1>0, <3>1, <3>2, <3>3, KeptMoves
  <2> QED BY <1>0, <1>2, <2>1, <2>2, <2>3, PrepareKept, LedgerKept, IndexKept,
         FailKept DEF Ingest, RunStep
<1>3. CASE ~Ingest
  <2>1. UNCHANGED <<run, index>>
    BY <1>3 DEF Next, vars, corpus, Invalidate, GetGeneration, HandleCorpusMutation,
           NakMutation, Watch, Restart, Seed, LoseBucket, PurgeTenant, Call,
           CacheGet, Evict, StoreSearch, WriteThrough, Begin, Tick
  <2> QED BY <1>1, <2>1
<1> QED BY <1>2, <1>3

\* No run has compared anything to begin with.
LEMMA InitKept == Init => KeptInv
<1>1. Init => \A r \in Runs : run[r].stage \in {"idle", "done"}
  BY DEF Init, CorpusInit, Idle, Ended
<1> QED BY <1>1 DEF KeptInv, Kept

\* The last of a run's activities for a document ends with nothing left to write.
LEMMA RunCompletes ==
  ASSUME CorpusInv, KeptInv, [Next]_vars, NEW r \in Runs, run[r].stage = "index",
         run'[r].stage \in {"fetch", "done"}, NEW i \in DOMAIN Chunks(r)
  PROVE  KeptRow(index, <<Doc(r), i>>, Chunks(r)[i], r, run[r].past)
<1>0. RunsTyped /\ RunOk(r, run[r]) /\ run[r] \in RunType /\ Kept(r, run[r], index, Over)
  BY DEF CorpusInv, RunsTyped, KeptInv
<1>1. Todo(r) = {}
  <2>1. run' # run
    OBVIOUS
  <2>2. Ingest
    BY <2>1 DEF Next, vars, corpus, Invalidate, GetGeneration, HandleCorpusMutation,
           NakMutation, Watch, Restart, Seed, LoseBucket, PurgeTenant, Call,
           CacheGet, Evict, StoreSearch, WriteThrough, Begin, Tick
  <2>3. PICK q \in Runs : Start(q) \/ RunStep(q) \/ ActivityFails(q)
    BY <2>1, <2>2 DEF Ingest, Edit
  <2>4. q = r
    <3>1. \E x : run' = [run EXCEPT ![q] = x]
      <4>1. CASE Start(q)
        BY <4>1 DEF Start
      <4>2. CASE RunStep(q)
        <5>1. Fetch(q) => \E x : run' = [run EXCEPT ![q] = x]
          BY <1>0, FetchMoves DEF CorpusInv
        <5>2. PrepareChunks(q) => \E x : run' = [run EXCEPT ![q] = x]
          BY <1>0, PrepareMoves
        <5>3. WriteLedger(q) => \E x : run' = [run EXCEPT ![q] = x]
          BY <1>0, LedgerMoves
        <5>4. IndexChunks(q) => \E x : run' = [run EXCEPT ![q] = x]
          BY <1>0, IndexMoves
        <5> QED BY <4>2, <5>1, <5>2, <5>3, <5>4 DEF RunStep
      <4>3. CASE ActivityFails(q)
        BY <4>3 DEF ActivityFails
      <4> QED BY <2>3, <4>1, <4>2, <4>3
    <3> QED BY <1>0, <3>1 DEF RunsTyped
  <2>5. CASE ActivityFails(r)
    <3>1. PICK x : run' = [run EXCEPT ![r] = x] /\ x.stage \in {run[r].stage, "failed"}
      BY <1>0, <2>5, FailMoves DEF Restarted
    <3>2. run'[r] = x
      BY <1>0, <3>1 DEF RunsTyped
    <3> QED BY <3>1, <3>2
  <2>6. CASE IndexChunks(r)
    <3>1. PICK x : run' = [run EXCEPT ![r] = x] /\ (Todo(r) # {} => x.stage = "index")
      BY <1>0, <2>6, IndexMoves
    <3>2. run'[r] = x
      BY <1>0, <3>1 DEF RunsTyped
    <3> QED BY <3>1, <3>2
  <2> QED BY <2>3, <2>4, <2>5, <2>6 DEF Start, RunStep, Fetch, PrepareChunks,
         WriteLedger
<1>2. i \in run[r].fresh => i < run[r].next
  <2>1. i \in run[r].fresh => i \in Nat /\ run[r].next \in Nat
    BY <1>0 DEF RunType
  <2>2. i \in run[r].fresh => ~(i >= run[r].next)
    BY <1>1 DEF Todo
  <2> QED BY <2>1, <2>2
<1>3. ChunksAt(r, run[r]) = Chunks(r) /\ DocAt(r, run[r]) = Doc(r)
  BY DEF ChunksAt, DocAt, Chunks, Doc
<1> QED BY <1>0, <1>2, <1>3 DEF Kept

\* A put that lowers a generation replaces what its replica did not read.
LEMMA GensForward ==
  ASSUME CorpusInv, StreamInv, [Next]_vars, ~LoseBucket, NEW s \in Sources
  PROVE  \/ gens'[s] >= gens[s]
         \/ \E i \in Deployed :
              /\ HandleCorpusMutation(i) /\ handling[i] # NoMsg /\ handling'[i] = NoMsg
              /\ ledger[handling[i].seq].source = s /\ handling[i].current < handling[i].seq
              /\ gens'[s] = handling[i].seq /\ handling[i].current # gens[s]
<1>1. gens \in [Sources -> 0..Len(ledger)] /\ gens[s] \in Nat
  BY DEF StreamInv, StreamTyped
<1>2. CASE gens'[s] = gens[s]
  BY <1>1, <1>2
<1>3. CASE gens'[s] # gens[s]
  <2>1. PICK i \in Deployed : HandleCorpusMutation(i)
    BY <1>3 DEF Next, vars, cacheVars, Ingest, Invalidate, GetGeneration,
           NakMutation, Watch, Restart, Seed, PurgeTenant, Call, CacheGet, Evict,
           StoreSearch, WriteThrough, Begin, Tick
  <2>2. PICK q : q = ledger[handling[i].seq].source
    OBVIOUS
  <2>3. handling[i] # NoMsg /\ handling' = [handling EXCEPT ![i] = NoMsg] /\ DOMAIN handling = Deployed
    <3>1. PICK lost : Release(i, lost)
      BY <2>1 DEF HandleCorpusMutation
    <3> QED BY <2>1, <3>1 DEF HandleCorpusMutation, Release, StreamInv, StreamTyped
  <2>4. q \in Sources /\ handling[i].seq \in Nat /\ handling[i].current \in Nat
    BY <2>2, <2>3, HeldType
  <2>5. gens' = [gens EXCEPT ![q] = handling[i].seq] /\ handling[i].seq > handling[i].current
    BY <1>3, <2>1, <2>2 DEF HandleCorpusMutation, PutGeneration, Advances
  <2>6. q = s /\ gens'[s] = handling[i].seq
    BY <1>1, <1>3, <2>4, <2>5
  <2>7. handling'[i] = NoMsg
    BY <2>3
  <2>8. handling[i].current < handling[i].seq /\ ledger[handling[i].seq].source = s
    BY <2>2, <2>4, <2>5, <2>6
  <2>9. gens'[s] >= gens[s] \/ handling[i].current # gens[s]
    BY <1>1, <2>4, <2>6, <2>8
  <2> QED BY <2>1, <2>3, <2>6, <2>7, <2>8, <2>9
<1> QED BY <1>2, <1>3

\* For any overlapping runs and failures a completed document is indexed as
\* its run fetched it, but for chunks an overlapping run wrote, and a
\* generation goes back only under a replica whose read was overtaken
\* (ingestion-activities.ts, session-cache-invalidator.ts).
THEOREM IngestionMovesForward == Spec => IngestionAdvances
<1> DEFINE Inv == CorpusInv /\ StreamInv /\ KeptInv
<1>1. Init => Inv
  BY InitCorpus, InitStream, InitKept
<1>2. Inv /\ [Next]_vars => Inv'
  BY StreamStep, KeptStep
<1>3. Inv /\ [Next]_vars =>
        [\A r \in Runs :
           run[r].stage = "index" /\ run'[r].stage \in {"fetch", "done"} =>
             \A i \in DOMAIN Chunks(r) :
               LET row == index[<<Doc(r), i>>]
               IN  <<Doc(r), i>> \in DOMAIN index
                     /\ (row.content = Chunks(r)[i]
                           \/ row.lineage[1] \notin run[r].past \union {r})]_vars
  BY RunCompletes DEF KeptRow
<1>4. Inv /\ [Next]_vars =>
        [LoseBucket \/ \A s \in Sources : gens'[s] >= gens[s] \/ Overtaken(s)]_vars
  BY GensForward DEF Overtaken
<1> HIDE DEF Inv
<1>5. Spec => CompletionIsIndexed
  BY <1>1, <1>2, <1>3, PTL DEF Spec, CompletionIsIndexed
<1>6. Spec => GensAdvance
  BY <1>1, <1>2, <1>4, PTL DEF Spec, GensAdvance
<1> QED BY <1>5, <1>6 DEF IngestionAdvances

-----------------------------------------------------------------------------
(* One replica alone never takes a generation back.                        *)

ReadInv ==
  /\ \A i, j \in Deployed : i = j
  /\ \A i \in Deployed : handling[i] # NoMsg =>
                          handling[i].current >= gens[ledger[handling[i].seq].source]

\* A step that touches neither the bucket nor what is held.
LEMMA ReadQuiet ==
  ASSUME ReadInv, UNCHANGED <<ledger, gens, view, handling>>
  PROVE  ReadInv'
BY DEF ReadInv, Deployed, NoMsg

\* The only replica holds nothing any more.
LEMMA ReadReleased ==
  ASSUME StreamInv, ReadInv, NEW i \in Deployed,
         handling' = [handling EXCEPT ![i] = NoMsg], Deployed' = Deployed
  PROVE  ReadInv'
<1>1. \A j \in Deployed : handling'[j] = NoMsg
  BY DEF ReadInv, StreamInv, StreamTyped
<1> QED BY <1>1 DEF ReadInv, NoMsg

\* What the only replica has read is at least what the bucket holds.
LEMMA ReadStep ==
  ASSUME CorpusInv, StreamInv, ReadInv, [Next]_vars
  PROVE  ReadInv'
<1>0. /\ ledger \in Seq(Event) /\ Len(ledger) \in Nat
      /\ gens \in [Sources -> 0..Len(ledger)] /\ DOMAIN handling = Deployed
  BY DEF CorpusInv, Provenance, StreamInv, StreamTyped
<1>1. CASE Ingest
  <2>1. UNCHANGED <<gens, view, handling>>
    BY <1>1 DEF Ingest
  <2>2. ledger' = ledger \/ \E e : ledger' = Append(ledger, e)
    BY <1>1 DEF Ingest, Edit, Start, RunStep, Fetch, PrepareChunks, WriteLedger,
           IndexChunks, ActivityFails
  <2>3. \A n \in 1..Len(ledger) : ledger'[n] = ledger[n]
    BY <1>0, <2>2
  <2>4. \A i \in Deployed : handling[i] # NoMsg => handling[i].seq \in 1..Len(ledger)
    BY HeldType
  <2> QED BY <2>1, <2>3, <2>4 DEF ReadInv, Deployed, NoMsg
<1>2. ASSUME NEW i \in Deployed, GetGeneration(i) PROVE ReadInv'
  <2>1. UNCHANGED <<ledger, gens, view>> /\ Deployed' = Deployed
    BY <1>2 DEF GetGeneration, corpus, Deployed
  <2>2. PICK n \in DOMAIN ledger : handling' = [handling EXCEPT ![i] = [seq |-> n, current |-> gens[ledger[n].source]]]
    BY <1>2 DEF GetGeneration
  <2>3. handling'[i].seq = n /\ handling'[i].current = gens[ledger[n].source]
    BY <1>0, <2>2
  <2>4. ledger[n] \in Event
    BY <1>0
  <2>5. gens[ledger[n].source] \in Nat
    BY <1>0, <2>4 DEF Event
  <2>6. handling'[i].current >= gens[ledger[handling'[i].seq].source]
    BY <2>3, <2>5
  <2>7. \A j \in Deployed : j = i
    BY DEF ReadInv
  <2> QED BY <2>1, <2>6, <2>7 DEF ReadInv, NoMsg
<1>3. ASSUME NEW i \in Deployed, HandleCorpusMutation(i) \/ NakMutation(i) \/ Restart(i)
      PROVE ReadInv'
  <2>1. handling' = [handling EXCEPT ![i] = NoMsg]
    BY <1>3 DEF HandleCorpusMutation, NakMutation, Restart, Release
  <2>2. Deployed' = Deployed
    BY <1>3 DEF HandleCorpusMutation, NakMutation, Restart, Deployed
  <2> QED BY <2>1, <2>2, ReadReleased
<1>4. ASSUME NEW i \in Deployed, Watch(i) \/ Seed(i) PROVE ReadInv'
  <2>1. UNCHANGED <<ledger, gens, handling>> /\ Deployed' = Deployed
    BY <1>4 DEF Watch, Seed, corpus, Deployed
  <2> QED BY <2>1 DEF ReadInv, NoMsg
<1>5. CASE LoseBucket
  <2>1. UNCHANGED <<ledger, view, handling>> /\ gens' = [s \in Sources |-> 0]
    BY <1>5 DEF LoseBucket, corpus
  <2>2. ASSUME NEW i \in Deployed, handling[i] # NoMsg
        PROVE  handling[i].current >= gens'[ledger[handling[i].seq].source]
    <3>1. ledger[handling[i].seq].source \in Sources /\ handling[i].current \in Nat
      BY <2>2, HeldType
    <3> QED BY <2>1, <3>1
  <2> QED BY <2>1, <2>2 DEF ReadInv, Deployed, NoMsg
<1>6. CASE UNCHANGED <<ledger, gens, view, handling>>
  BY <1>6, ReadQuiet
<1> QED BY <1>1, <1>2, <1>3, <1>4, <1>5, <1>6 DEF Next, Invalidate, vars, cacheVars,
       corpus, PurgeTenant, Call, CacheGet, Evict, StoreSearch, WriteThrough, Begin,
       Tick

\* Nothing is held to begin with.
LEMMA InitRead == (\A i, j \in Replicas : i = j) /\ Init => ReadInv
<1> SUFFICES ASSUME \A i, j \in Replicas : i = j, Init PROVE ReadInv
  OBVIOUS
<1>1. PICK load \in Loads : CacheInit(load)
  BY DEF Init
<1>2. Deployed = load.replicas /\ \A i \in Deployed : handling[i] = NoMsg
  BY <1>1 DEF CacheInit, Deployed
<1>3. load.replicas \subseteq Replicas
  BY SessionCacheAssumption
<1> QED BY <1>2, <1>3 DEF ReadInv

\* A generation goes back only when the bucket is lost
\* (session-cache-invalidator.ts, handleCorpusMutation).
NeverRegresses == [][LoseBucket \/ \A s \in Sources : gens'[s] >= gens[s]]_vars

\* The claim of session-cache-invalidator.ts:35-36, "never regresses a
\* generation": it holds of a deployment with one replica, whatever is
\* delivered again, in whatever order; with two it does not.
THEOREM OneReplicaNeverRegresses ==
  ASSUME \A i, j \in Replicas : i = j
  PROVE  Spec => NeverRegresses
<1> DEFINE Inv == CorpusInv /\ StreamInv /\ ReadInv
<1>1. Init => Inv
  BY InitCorpus, InitStream, InitRead
<1>2. Inv /\ [Next]_vars => Inv'
  BY StreamStep, ReadStep
<1>3. Inv /\ [Next]_vars => [LoseBucket \/ \A s \in Sources : gens'[s] >= gens[s]]_vars
  <2> SUFFICES ASSUME Inv, [Next]_vars, ~LoseBucket, NEW s \in Sources
               PROVE gens'[s] >= gens[s]
    OBVIOUS
  <2>1. gens \in [Sources -> 0..Len(ledger)] /\ gens[s] \in Nat
    BY DEF StreamInv, StreamTyped
  <2>2. SUFFICES ASSUME NEW i \in Deployed, handling[i] # NoMsg,
                        ledger[handling[i].seq].source = s,
                        handling[i].current < handling[i].seq, gens'[s] = handling[i].seq
                 PROVE  gens'[s] >= gens[s]
    BY GensForward
  <2>3. handling[i].current >= gens[s] /\ handling[i].current \in Nat /\ handling[i].seq \in Nat
    BY <2>2, HeldType DEF ReadInv
  <2> QED BY <2>1, <2>2, <2>3
<1> HIDE DEF Inv
<1> QED BY <1>1, <1>2, <1>3, PTL DEF Spec, NeverRegresses
=============================================================================
