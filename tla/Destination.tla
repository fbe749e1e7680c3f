----------------------------- MODULE Destination -----------------------------
(***************************************************************************)
(* The destination database as the applier uses it (internal/destination/  *)
(* applier.go): the mirrored tables with their source_lsn metadata, the    *)
(* applied-event markers, the truncate watermarks and the dead letters,    *)
(* and the applier's operations as functions from one committed database   *)
(* state to the next.  The commit LSN of an event is its transaction's     *)
(* position in the commit order.                                           *)
(***************************************************************************)
EXTENDS Integers, Sequences, FiniteSets, FiniteSetsExt

CONSTANTS Tables, Keys

Nil == [tx |-> 0, seq |-> 0]
Absent == [lsn |-> 0, val |-> Nil, big |-> Nil]      \* the key has no row
ColumnDefault == [tx |-> 0, seq |-> 1]

EmptyDatabase ==
    [rows  |-> [t \in Tables |-> [k \in Keys |-> Absent]],
     marks |-> {},                          \* cdc_applied_events
     water |-> [t \in Tables |-> 0],        \* cdc_table_watermarks, 0 when there is no row
     dead  |-> {},                          \* cdc_dead_letters
     cols  |-> {}]                          \* tables that have the column the source added

LSN(e) == e.id.tx

-----------------------------------------------------------------------------
(***************************************************************************)
(* Mutations.                                                              *)
(***************************************************************************)

(* Mutant of Upsert: the guard also refuses a row of the same LSN.         *)
UpsertStrictlyNewer(db, e) ==
    IF db.rows[e.table][e.key] # Absent /\ db.rows[e.table][e.key].lsn >= LSN(e)
    THEN db
    ELSE [db EXCEPT !.rows[e.table][e.key] = [lsn |-> LSN(e), val |-> e.id, big |-> e.id]]

(* Mutant of Upsert: no guard at all.                                      *)
UpsertUnguarded(db, e) ==
    [db EXCEPT !.rows[e.table][e.key] = [lsn |-> LSN(e), val |-> e.id, big |-> e.id]]

(* buildUpsertSQL: INSERT ... ON CONFLICT DO UPDATE ... WHERE the existing *)
(* row's LSN is not newer.                                                 *)
Upsert(db, e) ==
    IF db.rows[e.table][e.key] # Absent /\ db.rows[e.table][e.key].lsn > LSN(e)
    THEN db
    ELSE [db EXCEPT !.rows[e.table][e.key] = [lsn |-> LSN(e), val |-> e.id, big |-> e.id]]

(* applyUpdatePreserving: a guarded UPDATE that leaves the unchanged       *)
(* column alone; an INSERT with its default when the key has no row.       *)
UpdatePreserving(db, e) ==
    LET row == db.rows[e.table][e.key]
    IN  IF row = Absent
        THEN [db EXCEPT !.rows[e.table][e.key] =
                [lsn |-> LSN(e), val |-> e.id, big |-> ColumnDefault]]
        ELSE IF row.lsn <= LSN(e)
             THEN [db EXCEPT !.rows[e.table][e.key] =
                     [lsn |-> LSN(e), val |-> e.id, big |-> row.big]]
             ELSE db

(* buildDeleteSQL: DELETE with the same guard.                             *)
Delete(db, e) ==
    IF db.rows[e.table][e.key].lsn <= LSN(e)
    THEN [db EXCEPT !.rows[e.table][e.key] = Absent]
    ELSE db

TruncateIsStale(lsn, watermark) == watermark # 0 /\ lsn <= watermark

(* applyTruncateBatched, applyTruncateInTx without the marker.             *)
Truncate(db, e) ==
    IF TruncateIsStale(LSN(e), db.water[e.table])
    THEN db
    ELSE [db EXCEPT !.rows[e.table] = [k \in Keys |-> Absent],
                    !.water[e.table] = LSN(e)]

ApplyMutation(db, e) ==
    CASE e.op = "upsert"   -> Upsert(db, e)
      [] e.op = "preserve" -> UpdatePreserving(db, e)
      [] e.op = "delete"   -> Delete(db, e)
      [] e.op = "truncate" -> Truncate(db, e)

-----------------------------------------------------------------------------
(***************************************************************************)
(* Failures.  A malformed event is refused by the applier's own checks     *)
(* (verifyColumns, transcodeRow) before anything is sent; a poison event   *)
(* is refused by PostgreSQL, unless it is a TRUNCATE that is skipped as    *)
(* stale; a drifted event names a column the destination table does not    *)
(* have yet, which PostgreSQL refuses too.                                 *)
(***************************************************************************)

RefusedByApplier(e) == e.fault = "malformed"
UndefinedColumn(db, e) == e.fault = "drift" /\ e.table \notin db.cols
StaleTruncate(db, e) == e.op = "truncate" /\ TruncateIsStale(LSN(e), db.water[e.table])
RefusedByPostgres(db, e) ==
    (e.fault = "poison" /\ ~StaleTruncate(db, e)) \/ UndefinedColumn(db, e)
Fails(db, e) == RefusedByApplier(e) \/ RefusedByPostgres(db, e)

IsMarked(db, e) == e.id \in db.marks
MarkApplied(db, e) == [db EXCEPT !.marks = @ \cup {e.id}]

(* Mutant of Apply: the marker is not looked up.                           *)
ApplyWithoutMarker(db, e) == ApplyMutation(MarkApplied(db, e), e)

(* Apply, ApplyInTx: marker and mutation in one transaction; a no-op when  *)
(* the marker exists.  Only for an event that does not fail.               *)
Apply(db, e) == IF IsMarked(db, e) THEN db ELSE ApplyMutation(MarkApplied(db, e), e)
ApplyFails(db, e) == ~IsMarked(db, e) /\ Fails(db, e)

(* Mutant of RecordDeadLetter: no marker.                                  *)
DeadLetterUnmarked(db, e) == [db EXCEPT !.dead = @ \cup {e.id}]

(* RecordDeadLetter: marker and quarantined copy, atomically.              *)
RecordDeadLetter(db, e) == [MarkApplied(db, e) EXCEPT !.dead = @ \cup {e.id}]

(* Mutant of RepairSchema: the ALTER TABLE is not committed.               *)
RepairLost(db, e) == db

(* RepairSchema: add the missing column to the event's table.              *)
RepairSchema(db, e) == [db EXCEPT !.cols = @ \cup {e.table}]

-----------------------------------------------------------------------------
(***************************************************************************)
(* ApplyBatch.                                                             *)
(***************************************************************************)

(* Mutant of Fresh: every event of the batch counts as new.                *)
AllFresh(db, events) == 1 .. Len(events)

Fresh(db, events) == {i \in 1 .. Len(events) : ~IsMarked(db, events[i])}

(* Upserts and deletes are queued; truncates and unchanged-column updates  *)
(* flush the queue and run at once.                                        *)
Queued(e) == e.op \in {"upsert", "delete"}

(* The loop index at which the queue that holds event i is flushed.        *)
FlushedAt(db, events, i) ==
    Min({Len(events) + 1} \cup
        {j \in Fresh(db, events) : j > i /\ ~Queued(events[j])})

(* When the failure of event i would surface: the applier's own checks at  *)
(* its loop index, before a flush; a queued statement at the flush, where  *)
(* pgx prepares all statements of the queue, which is when a column is     *)
(* looked up, before it executes any; an unqueued one after the flush of   *)
(* its loop index.                                                         *)
SurfacesAt(db, events, i) ==
    CASE RefusedByApplier(events[i]) -> 4 * i
      [] ~RefusedByApplier(events[i]) /\ Queued(events[i]) ->
             4 * FlushedAt(db, events, i)
                + (IF UndefinedColumn(db, events[i]) THEN 1 ELSE 2)
      [] OTHER -> 4 * i + 3

(* Of the events that fail, the one whose failure surfaces first, and      *)
(* among the statements of one flush the first.                            *)
FirstToSurface(db, events, bad) ==
    Min({i \in bad : \A j \in bad :
            SurfacesAt(db, events, i) <= SurfacesAt(db, events, j)})

(* The events whose statements one SendBatch carries along with event i's. *)
Queue(db, events, i) ==
    {j \in Fresh(db, events) :
        Queued(events[j]) /\ FlushedAt(db, events, j) = FlushedAt(db, events, i)}

(* Mutant of Blamed: the event before the one that failed.                 *)
BlamesPrevious(db, events, i) == IF i > 1 THEN i - 1 ELSE i

(* The event that the failure of event i is put down to: a failure to      *)
(* prepare is what the first results.Exec() of the queue returns, so the   *)
(* first event of the queue is named; any other failure names its own.     *)
Blamed(db, events, i) ==
    IF Queued(events[i]) /\ UndefinedColumn(db, events[i])
    THEN Min(Queue(db, events, i)) ELSE i

(* The databases a batch goes through while nothing fails: all markers     *)
(* first, then the mutations of the fresh events in source order.          *)
BatchStates(db, events) ==
    LET marked == [db EXCEPT !.marks = @ \cup {events[i].id : i \in 1 .. Len(events)}]
        after[i \in 0 .. Len(events)] ==
            IF i = 0 THEN marked
            ELSE IF i \in Fresh(db, events) THEN ApplyMutation(after[i - 1], events[i])
            ELSE after[i - 1]
    IN  after

(* The events that would fail where they stand in the batch.               *)
Failing(db, events) ==
    LET states == BatchStates(db, events)
    IN  {i \in Fresh(db, events) : Fails(states[i - 1], events[i])}

(* The index BatchError names, or 0.                                       *)
BatchError(db, events) ==
    LET bad == Failing(db, events)
    IN  IF bad = {} THEN 0 ELSE Blamed(db, events, FirstToSurface(db, events, bad))

(* The database a batch without failures commits.                          *)
ApplyBatch(db, events) == BatchStates(db, events)[Len(events)]
=============================================================================
