----------------------------- MODULE AuditChain -----------------------------
(***************************************************************************)
(* The audit service: events of one tenant arrive from a stream that may   *)
(* deliver them again, writers chain them into an append-only table, and   *)
(* /v1/verify walks the chain.  A writer that boots first migrates: it     *)
(* drops the triggers, chains the rows that predate the chain and puts the *)
(* triggers back, while other writers may be running.                      *)
(*                                                                         *)
(* A hash is the sequence of what it was computed from, so equal hashes    *)
(* mean equal histories.  A row keeps its event and its place; place 0 is  *)
(* NULL.  Chains of different tenants share no row and no cached head.     *)
(***************************************************************************)
EXTENDS Naturals, Sequences, FiniteSets, SequencesExt

CONSTANTS Writers,
          Legacy,        \* rows that predate the chain, in the order recorded
          Events,        \* events published to the stream
          Malformed,     \* those of them no schema accepts
          Kind,          \* what each event says, for the reconstruction
          NoRow, NoHead,
          PageSize,      \* rows of a verification page
          MaxFaults,     \* failed inserts, expired acknowledgements and crashes
          Tampering      \* may somebody change the table behind the triggers?

LegacyEvents == Range(Legacy)
All == LegacyEvents \cup Events

Hash == Seq(Nat \X (All \cup {"forged"}))
RowType == [seq : Nat, prev : Hash, hash : Hash, event : All \cup {"forged"}]
HeadType == [seq : Nat, hash : Hash]

ASSUME ChainAssumption ==
  /\ Legacy \in Seq(LegacyEvents) /\ IsInjective(Legacy)
  /\ LegacyEvents \cap Events = {} /\ Malformed \subseteq Events
  /\ "forged" \notin All /\ "none" \notin Events
  /\ NoRow \notin RowType /\ NoHead \notin HeadType
  /\ DOMAIN Kind = All /\ PageSize \in Nat \ {0}
  /\ MaxFaults \in Nat /\ Tampering \in BOOLEAN

VARIABLES table,      \* audit_events
          triggers,   \* append-only and chain_check are in place
          writer,     \* what each writer is doing
          queue,      \* events the stream will deliver
          acked,      \* events it will not deliver again
          walk,       \* the verification in progress
          tampered, faults

chainVars == <<table, triggers, writer, queue, acked, walk, tampered, faults>>
ledger == <<table, triggers, tampered>>

Genesis == <<>>
ComputeRecordHash(seq, prev, e) == Append(prev, <<seq, e>>)
Row(seq, prev, e) ==
  [seq |-> seq, prev |-> prev, hash |-> ComputeRecordHash(seq, prev, e), event |-> e]
Unchained(e) == [seq |-> 0, prev |-> Genesis, hash |-> Genesis, event |-> e]

Stored == {e \in All : table[e] # NoRow}
Chained == {e \in Stored : table[e].seq > 0}
Null == Stored \ Chained
Taken(seq) == \E e \in Chained : table[e].seq = seq

\* chainHead: the row with the highest place.
Head0 == [seq |-> 0, hash |-> Genesis]
ChainHead ==
  IF Chained = {} THEN Head0
  ELSE LET e == CHOOSE e \in Chained : \A f \in Chained : table[f].seq <= table[e].seq
       IN [seq |-> table[e].seq, hash |-> table[e].hash]

Off == [at |-> "down", head |-> NoHead, ev |-> "none", attempt |-> 0, todo |-> {}]
NoWalk == [at |-> "idle", seq |-> 1, prev |-> Genesis, late |-> FALSE]

ChainInit ==
  /\ table = [e \in All |-> IF e \in LegacyEvents THEN Unchained(e) ELSE NoRow]
  /\ triggers = FALSE
  /\ writer = [w \in Writers |-> Off]
  /\ queue = Events /\ acked = {}
  /\ walk = NoWalk
  /\ tampered = FALSE /\ faults = 0

Goto(w, at) == writer' = [writer EXCEPT ![w].at = at]

-----------------------------------------------------------------------------
(* Booting: migrate().                                                     *)

DropTriggers(w) ==
  /\ writer[w].at = "down"
  /\ triggers' = FALSE
  /\ Goto(w, "backfill")
  /\ UNCHANGED <<table, queue, acked, walk, tampered, faults>>

\* The head and the rows to chain are read by two queries.
ReadHead(w) ==
  /\ writer[w].at = "backfill"
  /\ \/ Null = {} /\ Goto(w, "recreate")
     \/ Null # {} /\ writer' = [writer EXCEPT ![w].at = "rows", ![w].head = ChainHead]
  /\ UNCHANGED <<ledger, queue, acked, walk, faults>>

\* Mutant: the rows chained before this boot are chained again.
ReadRowsAll(w) ==
  /\ writer[w].at = "rows"
  /\ writer' = [writer EXCEPT ![w].at = "update", ![w].todo = LegacyEvents]
  /\ UNCHANGED <<ledger, queue, acked, walk, faults>>

ReadRows(w) ==
  /\ writer[w].at = "rows"
  /\ writer' = [writer EXCEPT ![w].at = "update",
                  ![w].todo = Null]
  /\ UNCHANGED <<ledger, queue, acked, walk, faults>>

\* The rows are chained in the order they were recorded.
First(rows) == CHOOSE e \in rows : \E i \in DOMAIN Legacy :
                 Legacy[i] = e /\ \A j \in 1..i - 1 : Legacy[j] \notin rows

\* An UPDATE per row; the append-only trigger or the unique index of a writer
\* that got ahead ends the boot with an exception.
Backfill(w) ==
  LET r == writer[w]  e == First(r.todo)
      new == Row(r.head.seq + 1, r.head.hash, e)
      refused == triggers \/ \E f \in Chained \ {e} : table[f].seq = new.seq IN
  /\ r.at = "update" /\ r.todo # {}
  /\ \/ /\ ~refused
        /\ table' = [table EXCEPT ![e] = new]
        /\ writer' = [writer EXCEPT ![w].todo = @ \ {e},
                        ![w].head = [seq |-> new.seq, hash |-> new.hash]]
     \/ refused /\ writer' = [writer EXCEPT ![w] = Off] /\ UNCHANGED table
  /\ UNCHANGED <<triggers, queue, acked, walk, tampered, faults>>

Backfilled(w) ==
  /\ writer[w].at = "update" /\ writer[w].todo = {}
  /\ Goto(w, "recreate")
  /\ UNCHANGED <<ledger, queue, acked, walk, faults>>

\* The triggers are back, the cache is cleared, the consumer runs.
RecreateTriggers(w) ==
  /\ writer[w].at = "recreate"
  /\ triggers' = TRUE
  /\ writer' = [writer EXCEPT ![w].at = "ready", ![w].head = NoHead]
  /\ UNCHANGED <<table, queue, acked, walk, tampered, faults>>

-----------------------------------------------------------------------------
(* Consuming: handleAuditMessage and append().                             *)

Fetch(w, e) ==
  /\ writer[w].at = "ready" /\ e \in queue
  /\ queue' = queue \ {e}
  /\ \/ e \in Malformed /\ acked' = acked \cup {e} /\ UNCHANGED writer
     \/ /\ e \notin Malformed
        /\ writer' = [writer EXCEPT ![w].ev = e, ![w].attempt = 0,
                        ![w].at = IF writer[w].head = NoHead THEN "load" ELSE "insert"]
        /\ UNCHANGED acked
  /\ UNCHANGED <<ledger, walk, faults>>

LoadHead(w) ==
  /\ writer[w].at = "load"
  /\ writer' = [writer EXCEPT ![w].at = "insert", ![w].head = ChainHead]
  /\ UNCHANGED <<ledger, queue, acked, walk, faults>>

Extends(seq, prev) == seq = ChainHead.seq + 1 /\ prev = ChainHead.hash

\* The trigger runs first, then the conflict on event_id, then the index.
Inserts(w) ==
  LET h == writer[w].head IN
  IF triggers /\ ~Extends(h.seq + 1, h.hash) THEN "conflict"
  ELSE IF writer[w].ev \in Stored THEN "duplicate"
  ELSE IF Taken(h.seq + 1) THEN "conflict" ELSE "inserted"

NewRow(w) == Row(writer[w].head.seq + 1, writer[w].head.hash, writer[w].ev)
Naked(w) == [writer[w] EXCEPT !.at = "ready", !.ev = "none", !.attempt = 0]

\* Mutant: a redelivered event advances the cached head.
AdvancedAlways(w) == [seq |-> NewRow(w).seq, hash |-> NewRow(w).hash]
Advanced(w) == IF Inserts(w) = "inserted"
               THEN [seq |-> NewRow(w).seq, hash |-> NewRow(w).hash] ELSE writer[w].head

Insert(w) ==
  /\ writer[w].at = "insert" /\ Inserts(w) # "conflict"
  /\ table' = IF Inserts(w) = "inserted" THEN [table EXCEPT ![writer[w].ev] = NewRow(w)]
              ELSE table
  /\ writer' = [writer EXCEPT ![w].at = "ack", ![w].head = Advanced(w)]
  /\ UNCHANGED <<triggers, queue, acked, walk, tampered, faults>>

\* A stale head is reloaded once; a second conflict is sent back.
Conflict(w) ==
  /\ writer[w].at = "insert" /\ Inserts(w) = "conflict"
  /\ \/ /\ writer[w].attempt = 0
        /\ writer' = [writer EXCEPT ![w].at = "load", ![w].attempt = 1]
        /\ UNCHANGED queue
     \/ /\ writer[w].attempt = 1
        /\ writer' = [writer EXCEPT ![w] = Naked(w)]
        /\ queue' = queue \cup ({writer[w].ev} \ acked)
  /\ UNCHANGED <<ledger, acked, walk, faults>>

Ack(w) ==
  /\ writer[w].at = "ack"
  /\ acked' = acked \cup {writer[w].ev} /\ queue' = queue \ {writer[w].ev}
  /\ writer' = [writer EXCEPT ![w] = Naked(w)]
  /\ UNCHANGED <<ledger, walk, faults>>

\* Mutant: a failed insert is not sent back.
InsertFailsQuietly(w) ==
  /\ writer[w].at = "insert" /\ faults < MaxFaults
  /\ faults' = faults + 1
  /\ writer' = [writer EXCEPT ![w] = Naked(w)]
  /\ UNCHANGED <<ledger, queue, acked, walk>>
\* Postgres refuses the insert, or its answer is lost after the commit.
InsertFails(w) ==
  /\ writer[w].at = "insert" /\ faults < MaxFaults
  /\ faults' = faults + 1
  /\ table' \in {table} \cup (IF Inserts(w) = "inserted"
                              THEN {[table EXCEPT ![writer[w].ev] = NewRow(w)]} ELSE {})
  /\ writer' = [writer EXCEPT ![w] = Naked(w)]
  /\ queue' = queue \cup ({writer[w].ev} \ acked)
  /\ UNCHANGED <<triggers, acked, walk, tampered>>

InFlight == {writer[w].ev : w \in Writers} \ {"none"}

\* The acknowledgement is late: the stream delivers the event again.
Redeliver(e) ==
  /\ e \in InFlight \ (queue \cup acked) /\ faults < MaxFaults
  /\ queue' = queue \cup {e} /\ faults' = faults + 1
  /\ UNCHANGED <<ledger, writer, acked, walk>>

Crash(w) ==
  /\ writer[w].at # "down" /\ faults < MaxFaults
  /\ faults' = faults + 1
  /\ writer' = [writer EXCEPT ![w] = Off]
  /\ queue' = queue \cup (({writer[w].ev} \ {"none"}) \ acked)
  /\ UNCHANGED <<ledger, acked, walk>>

-----------------------------------------------------------------------------
(* Verifying: /v1/verify, from the start of the chain.                     *)

\* Rows in order of their place, which no two share: the i-th has i - 1 before.
InOrder(rows) ==
  [i \in 1..Cardinality(rows) |->
     CHOOSE r \in rows : Cardinality({q \in rows : q.seq < r.seq}) = i - 1]

RowsFrom(from) == {table[e] : e \in {f \in Chained : table[f].seq >= from}}

\* chainPage: the next rows in order of their place.
Page(from) ==
  LET order == InOrder(RowsFrom(from))
  IN SubSeq(order, 1, IF Len(order) < PageSize THEN Len(order) ELSE PageSize)

RowHolds(r, seq, prev) ==
  /\ r.seq = seq /\ r.prev = prev
  /\ r.hash = ComputeRecordHash(r.seq, r.prev, r.event)

\* verifyChainPage: every row against the anchor its predecessor leaves.
PageHolds(page, seq, prev) ==
  \A i \in DOMAIN page :
    RowHolds(page[i], seq + i - 1, IF i = 1 THEN prev ELSE page[i - 1].hash)

StartWalk ==
  /\ walk.at = "idle"
  /\ walk' = [NoWalk EXCEPT !.at = "page", !.late = tampered]
  /\ UNCHANGED <<ledger, writer, queue, acked, faults>>

WalkPage ==
  LET page == Page(walk.seq)  n == Len(page) IN
  /\ walk.at = "page"
  /\ walk' = IF ~PageHolds(page, walk.seq, walk.prev) THEN [walk EXCEPT !.at = "failed"]
             ELSE IF n < PageSize THEN [walk EXCEPT !.at = "verified"]
             ELSE [walk EXCEPT !.seq = @ + n, !.prev = page[n].hash]
  /\ UNCHANGED <<ledger, writer, queue, acked, faults>>

\* Somebody with the database owner's rights edits an event, edits it and its
\* hash, or removes it, but not at the end of the chain, not while old rows are
\* being chained, and not an event a writer may still put back.
Tamper ==
  /\ Tampering /\ ~tampered /\ Null = {}
  /\ \A w \in Writers : writer[w].at \notin {"rows", "update"}
  /\ \E e \in Chained \ (InFlight \cup queue) :
       /\ table[e].seq < ChainHead.seq
       /\ table' \in {[table EXCEPT ![e].event = "forged"],
                      [table EXCEPT ![e] = Row(@.seq, @.prev, "forged")],
                      [table EXCEPT ![e] = NoRow]}
  /\ tampered' = TRUE
  /\ UNCHANGED <<triggers, writer, queue, acked, walk, faults>>

Write(w) == \/ DropTriggers(w) \/ ReadHead(w) \/ ReadRows(w) \/ Backfill(w)
            \/ Backfilled(w) \/ RecreateTriggers(w) \/ LoadHead(w)
            \/ Insert(w) \/ Conflict(w) \/ Ack(w) \/ (\E e \in Events : Fetch(w, e))

ChainNext ==
  \/ \E w \in Writers : Write(w) \/ InsertFails(w) \/ Crash(w)
  \/ \E e \in Events : Redeliver(e)
  \/ StartWalk \/ WalkPage \/ Tamper

ChainSpec == ChainInit /\ [][ChainNext]_chainVars

\* A process that ended is started again, and the stream delivers.
ChainFairSpec == ChainSpec /\ \A w \in Writers : WF_chainVars(Write(w))

-----------------------------------------------------------------------------
(* Reconstruction: the rows of a task in chain order, read into fields.    *)

Ordered == InOrder(RowsFrom(1))
Kinds == [i \in DOMAIN Ordered |-> Kind[Ordered[i].event]]

\* The field of the read model a record fills; what it lists (decisions, tokens,
\* tool calls, the timeline) is only appended to and has none.
FieldOf(k) ==
  CASE k = "task.submitted" -> "submitted" [] k = "task.planned" -> "plan"
    [] k = "step.dispatched" -> "dispatched" [] k = "step.completed" -> "completed"
    [] k = "step.skipped" -> "skipped"
    [] k \in {"approval.requested", "approval.granted", "approval.denied",
              "approval.timeout"} -> "approval"
    [] k \in {"compensation.started", "compensation.step_failed",
              "compensation.completed"} -> "compensation"
    [] k = "task.cancel_requested" -> "cancellation" [] k \in {"task.completed", "task.unwound"} -> "outcome"
    [] OTHER -> "timeline"
Fields == {"submitted", "plan", "dispatched", "completed", "skipped", "approval",
           "compensation", "cancellation", "outcome", "timeline"}

\* The latest record of a field counts, but a compensation under way does not
\* replace what is known of it, and a task.completed that carries the summary of
\* one (task.unwound here) does.
Assemble(r, k) ==
  IF k \in {"compensation.started", "compensation.step_failed"} /\ r["compensation"] # "none"
  THEN r
  ELSE [f \in Fields |-> IF f = FieldOf(k) \/ (k = "task.unwound" /\ f = "compensation")
                         THEN k ELSE r[f]]

Reconstruction == FoldLeft(Assemble, [f \in Fields |-> "none"], Kinds)

-----------------------------------------------------------------------------
(* Properties.                                                             *)

WriterType ==
  [at : {"down", "backfill", "rows", "update", "recreate", "ready", "load", "insert", "ack"},
   head : HeadType \cup {NoHead}, ev : Events \cup {"none"}, attempt : 0..1,
   todo : SUBSET LegacyEvents]
WalkType ==
  [at : {"idle", "page", "verified", "failed"}, seq : Nat \ {0}, prev : Hash, late : BOOLEAN]

ChainTypeOK ==
  /\ table \in [All -> RowType \cup {NoRow}]
  /\ triggers \in BOOLEAN /\ tampered \in BOOLEAN /\ faults \in Nat
  /\ writer \in [Writers -> WriterType]
  /\ queue \subseteq Events /\ acked \subseteq Events
  /\ walk \in WalkType

\* Whatever writers boot, backfill and append at the same time, the chained
\* rows are numbered without gaps and each holds the hash of the one before.
ChainIntact ==
  ~tampered =>
    /\ {table[e].seq : e \in Chained} = 1..Cardinality(Chained)
    /\ PageHolds(Ordered, 1, Genesis)

\* A record that has its place in the chain keeps it, also when two writers
\* chain the same old rows.
NeverRewritten ==
  [][~tampered' => \A e \in Chained : table'[e] = table[e]]_chainVars

\* The rows in order are a log: whatever boots, migrates, fails and is delivered
\* again, each step leaves them alone or adds one row of a new event at the end.
Log == INSTANCE AuditLog WITH Recordable <- All \ Malformed, breached <- tampered,
         log <- IF tampered THEN <<>> ELSE Ordered
ImplementsLog == Log!Spec

\* An event the stream will not deliver again is in the chain, or is one that
\* no schema accepts.
AckedIsRecorded == tampered \/ acked \subseteq (Chained \cup Malformed)

\* A walk over a chain nobody touched never raises the alarm, however it is
\* appended to meanwhile; a walk begun after tampering does.
AlarmIsTrue ==
  /\ walk.at = "failed" => tampered
  /\ walk.at = "verified" => ~walk.late

\* A finished compensation is reconstructed as finished in whatever order its
\* records were delivered and chained.
CompensationIsFinal ==
  (~tampered /\ \E i \in DOMAIN Kinds : Kinds[i] = "compensation.completed")
    => Reconstruction["compensation"] \in {"compensation.completed", "task.unwound"}

\* The record is sound: an intact chain, that holds what was acknowledged, walked
\* without false alarms and reconstructed with its final events.
RecordIsSound ==
  ChainTypeOK /\ ChainIntact /\ AckedIsRecorded /\ AlarmIsTrue /\ CompensationIsFinal

\* Every event of the stream is recorded or refused at last.
EventsRecorded == <>(tampered \/ (queue = {} /\ Events \subseteq Chained \cup Malformed))

=============================================================================
