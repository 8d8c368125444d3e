----------------------------- MODULE Ingestion -----------------------------
(***************************************************************************)
(* Ingestion of a source into the corpus.  A run of the workflow takes the *)
(* documents of its source one after the other: fetch, chunk and compare   *)
(* with the index, publish one ledger event per changed chunk, then upsert *)
(* the changed chunks.  Each of the four is an activity that is retried    *)
(* from its start.  Runs of one source may overlap: a run is named by the  *)
(* clock, not by its source.                                               *)
(*                                                                         *)
(* A chunk is a model of its text, and a lineage id is the run and chunk   *)
(* it was drawn for, which is how unique a UUIDv7 is.  "past" serves only a *)
(* property: the runs that had ended when this one began to compare.        *)
(***************************************************************************)
EXTENDS Integers, Sequences, FiniteSets, SequencesExt, FiniteSetsExt

CONSTANTS Sources, Docs, Runs,
          DocsOf,       \* the manifest: the documents of each source, in order
          Versions,     \* of each document: <<[class, chunks], ...>>
          SourceOf,     \* what each run ingests
          MaxAttempts,  \* attempts of one activity (5 in the code)
          MaxFaults,    \* failures of any kind
          Loads         \* what behaviours begin with: see Init

IsList(s) == Len(s) \in Nat /\ DOMAIN s = 1..Len(s)

ASSUME IngestionAssumption ==
  /\ \A s \in Sources : DocsOf[s] \in Seq(Docs)
  /\ \A d \in Docs : /\ IsList(Versions[d]) /\ Versions[d] # <<>>
                     /\ \A v \in DOMAIN Versions[d] : IsList(Versions[d][v].chunks)
  /\ \A r \in Runs : SourceOf[r] \in Sources
  /\ MaxAttempts \in Nat \ {0} /\ MaxFaults \in Nat

VARIABLES version,  \* which version of each document the source holds
          run,      \* the ingestion runs
          index,    \* knowledge_chunks: [doc, chunk] -> row
          ledger,   \* the corpus events of the audit stream, in order
          faults

corpus == <<version, run, index, ledger>>

Idle == [stage |-> "idle", at |-> 0, v |-> 0, fresh |-> {}, past |-> {}, next |-> 0, tries |-> 0]
Ended == [Idle EXCEPT !.stage = "done"]
Active(r) == run[r].stage \notin {"idle", "done", "failed"}
Doc(r) == DocsOf[SourceOf[r]][run[r].at]
Chunks(r) == Versions[Doc(r)][run[r].v].chunks
Lineage(r, i) == <<r, Doc(r), i>>

CorpusInit(load) ==
  /\ version = [d \in Docs |-> 1]
  /\ run = [r \in Runs |-> IF r \in load.runs THEN Idle ELSE Ended]
  /\ index = <<>> /\ ledger = <<>>
  /\ faults = MaxFaults - load.faults

Enter(r, stage) == run' = [run EXCEPT ![r].stage = stage, ![r].next = 1, ![r].tries = 0]

\* The source of record changes: nothing tells the corpus.
Edit(d) ==
  /\ version[d] < Len(Versions[d])
  /\ version' = [version EXCEPT ![d] = @ + 1]
  /\ UNCHANGED <<run, index, ledger, faults>>

\* POST /v1/ingest lists the documents; the first child starts.
Start(r) ==
  /\ run[r].stage = "idle"
  /\ run' = [run EXCEPT ![r] = IF DocsOf[SourceOf[r]] = <<>> THEN Ended
                                ELSE [Idle EXCEPT !.stage = "fetch", !.at = 1]]
  /\ UNCHANGED <<version, index, ledger, faults>>

Fetch(r) ==
  /\ run[r].stage = "fetch"
  /\ run' = [run EXCEPT ![r].stage = "prepare", ![r].v = version[Doc(r)], ![r].next = 1, ![r].tries = 0]
  /\ UNCHANGED <<version, index, ledger, faults>>

\* existingLineage: the very text is indexed at this place already.  The
\* document's other columns are not compared.
Unchanged(d, i, text) == <<d, i>> \in DOMAIN index /\ index[<<d, i>>].content = text

Past(r) == IF run[r].next = 1 THEN {q \in Runs : run[q].stage \in {"done", "failed"}} ELSE run[r].past

\* One query of the index for each chunk, in order; then the writes begin.
PrepareChunks(r) ==
  /\ run[r].stage = "prepare"
  /\ LET i == run[r].next
     IN  IF i \in DOMAIN Chunks(r)
         THEN run' = [run EXCEPT ![r].next = i + 1, ![r].past = Past(r),
                        ![r].fresh = IF Unchanged(Doc(r), i, Chunks(r)[i]) THEN @ ELSE @ \union {i}]
         ELSE Enter(r, "ledger")
  /\ UNCHANGED <<version, index, ledger, faults>>

\* The changed chunks the activity has yet to write; it skips the others.
Todo(r) == {i \in run[r].fresh : i >= run[r].next}

\* Write 1: the corpus.mutation of one changed chunk, acknowledged by the
\* audit stream; when all are, the second write may begin.
WriteLedger(r) ==
  /\ run[r].stage = "ledger"
  /\ IF Todo(r) # {}
     THEN LET i == Min(Todo(r))
          IN  /\ ledger' = Append(ledger, [lineage |-> Lineage(r, i), source |-> SourceOf[r]])
              /\ run' = [run EXCEPT ![r].next = i + 1]
     ELSE Enter(r, "index") /\ UNCHANGED ledger
  /\ UNCHANGED <<version, index, faults>>

Row(r, i) == [lineage |-> Lineage(r, i), content |-> Chunks(r)[i], source |-> SourceOf[r],
              class |-> Versions[Doc(r)][run[r].v].class]

UpsertChunk(r, i) ==
  index' = [k \in DOMAIN index \union {<<Doc(r), i>>} |->
              IF k = <<Doc(r), i>> THEN Row(r, i) ELSE index[k]]

NextDocIf(r, last) ==
  IF last THEN Ended ELSE [Idle EXCEPT !.stage = "fetch", !.at = run[r].at + 1]
NextDoc(r) == NextDocIf(r, run[r].at = Len(DocsOf[SourceOf[r]]))

\* Write 2: embed and upsert; after the last chunk the child workflow ends
\* and the parent starts the next.
IndexChunks(r) ==
  /\ run[r].stage = "index"
  /\ IF Todo(r) # {}
     THEN LET i == Min(Todo(r))
          IN  UpsertChunk(r, i) /\ run' = [run EXCEPT ![r].next = i + 1]
     ELSE run' = [run EXCEPT ![r] = NextDoc(r)] /\ UNCHANGED index
  /\ UNCHANGED <<version, ledger, faults>>

\* An activity throws, times out or loses its worker, possibly after its last
\* write: it begins again, a comparison without what it had found, and the
\* document and its source fail with the last.
ActivityFails(r) ==
  /\ Active(r) /\ faults < MaxFaults
  /\ faults' = faults + 1
  /\ run' = [run EXCEPT ![r] = IF run[r].tries + 1 < MaxAttempts
               THEN [run[r] EXCEPT !.tries = @ + 1, !.next = IF @ = 0 THEN 0 ELSE 1,
                                   !.fresh = IF run[r].stage = "prepare" THEN {} ELSE @]
               ELSE [Idle EXCEPT !.stage = "failed"]]
  /\ UNCHANGED <<version, index, ledger>>

RunStep(r) == Fetch(r) \/ PrepareChunks(r) \/ WriteLedger(r) \/ IndexChunks(r)
=============================================================================
