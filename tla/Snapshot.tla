------------------------------ MODULE Snapshot ------------------------------
(***************************************************************************)
(* The initial snapshot (internal/destination/snapshot.go, bootSnapshot in *)
(* cmd/destination-writer/main.go) and its hand-over to the live stream.   *)
(* Before it polls Kafka the writer waits for the replication slot, reads  *)
(* the slot's restart LSN, opens a REPEATABLE READ transaction at the      *)
(* source, copies what it sees there under the restart LSN and records     *)
(* that it is done.  Meanwhile the source commits, the reader publishes    *)
(* and the restart LSN moves.                                              *)
(*                                                                         *)
(* A restart LSN n lies behind the commits of the transactions below n and *)
(* not behind that of transaction n.                                       *)
(***************************************************************************)
EXTENDS Writer

CONSTANTS
    Scenarios,     \* pairs of the rows the source starts with and its history
    MaxRepeats,    \* bound: transactions the reader publishes again
    MaxSlotLosses  \* bound: times the slot is dropped

ASSUME SnapshotAssumption ==
    /\ \A s \in Scenarios : s[1] \subseteq Tables \X Keys /\ s[2] \in Histories
    /\ MaxRepeats \in Nat /\ MaxSlotLosses \in Nat

VARIABLES
    preload,    \* rows the source has when the slot is first created
    committed,  \* transactions the source has committed since then
    restart,    \* the slot's restart LSN, 0 when there is no slot
    from,       \* the first transaction this slot delivers
    losses,     \* times the slot was dropped
    boot,       \* where bootSnapshot is
    stamp,      \* the restart LSN that RunSnapshot read
    view,       \* transactions its source transaction sees
    done        \* snapshot_done in cdc_state

sourceVars == <<preload, committed, restart, from, losses>>
bootVars   == <<boot, stamp, view, done>>
snapVars   == <<vars, sourceVars, bootVars>>
loopVars   == <<source, log, offset, pc, pos, group, batch, hiccups>>

(* The source's tables after n of its transactions.                        *)
PreloadId == [tx |-> 0, seq |-> 2]
Preloaded == [t \in Tables |-> [k \in Keys |->
                IF <<t, k>> \in preload THEN [val |-> PreloadId, big |-> PreloadId]
                ELSE M!NoRow]]
SourceAt(n) == M!RowsFrom(Preloaded, M!Prefix(n))

SnapInit ==
    /\ Init
    /\ \E s \in Scenarios : preload = s[1] /\ source = s[2]
    /\ committed = 0 /\ restart = 0 /\ from = 1 /\ losses = 0
    /\ boot = "off" /\ stamp = 0 /\ view = 0 /\ done = FALSE

-----------------------------------------------------------------------------
(***************************************************************************)
(* The source, its slot and the reader.                                    *)
(***************************************************************************)

SourceCommit ==
    /\ committed < Len(source)
    /\ restart = 0 => losses > 0           \* earlier commits are in preload
    /\ committed' = committed + 1
    /\ UNCHANGED <<vars, preload, restart, from, losses, bootVars>>

(* The reader's run: it creates the slot when there is none, whatever the  *)
(* destination has recorded.                                               *)
CreateSlot ==
    /\ restart = 0
    /\ restart' = committed + 1 /\ from' = committed + 1
    /\ UNCHANGED <<vars, preload, committed, losses, bootVars>>

(* Somebody drops the slot between two transactions of the stream.         *)
DropSlot ==
    /\ restart # 0 /\ losses < MaxSlotLosses /\ AtBoundary
    /\ restart' = 0 /\ losses' = losses + 1
    /\ UNCHANGED <<vars, preload, committed, from, bootVars>>

PublishedFrom(t) == \A s \in from .. t : T!Complete(s)

Replays == Cardinality({i \in 1 .. Len(log) :
                          log[i].seq = 1 /\ \E h \in 1 .. i - 1 : log[h] = log[i]})

(* The reader publishes an event of a committed transaction, or publishes  *)
(* a transaction again.                                                    *)
ReaderPublishes(t, k) ==
    LET r == T!Record(t, k)
    IN  /\ restart # 0 /\ t \in from .. committed
        /\ \/ T!Continues(r)
           \/ /\ k = 1 /\ AtBoundary /\ PublishedFrom(t - 1)
              /\ T!Published(t, k) => Replays < MaxRepeats
        /\ log' = Append(log, r)
        /\ UNCHANGED <<source, offset, db, pc, pos, group, batch, budgets,
                       sourceVars, bootVars>>

(* PostgreSQL moves restart_lsn up after the reader has confirmed what     *)
(* Kafka holds.                                                            *)
AdvanceRestart ==
    /\ restart # 0 /\ restart <= committed /\ T!Complete(restart)
    /\ restart' = restart + 1
    /\ UNCHANGED <<vars, preload, committed, from, losses, bootVars>>

-----------------------------------------------------------------------------
(***************************************************************************)
(* bootSnapshot.                                                           *)
(***************************************************************************)

BootStep(at, next_) == boot = at /\ boot' = next_ /\ UNCHANGED <<vars, sourceVars>>

(* Completed.                                                              *)
Completed ==
    /\ pc = "down" /\ BootStep("off", IF done THEN "verify" ELSE "wait")
    /\ UNCHANGED <<stamp, view, done>>

(* Mutant of WaitForSlot: a wait that times out lets the writer start.     *)
WaitForSlotGivesUp ==
    /\ BootStep("wait", IF restart # 0 THEN "read" ELSE "ready")
    /\ UNCHANGED <<stamp, view, done>>

(* WaitForSlot: the slot is there, or the wait times out and the process   *)
(* ends.                                                                   *)
WaitForSlot ==
    /\ BootStep("wait", IF restart # 0 THEN "read" ELSE "off")
    /\ UNCHANGED <<stamp, view, done>>

(* RunSnapshot: the slot's current restart LSN.                            *)
ReadRestartLSN ==
    /\ BootStep("read", IF restart # 0 THEN "begin" ELSE "off")
    /\ stamp' = restart
    /\ UNCHANGED <<view, done>>

(* RunSnapshot: BEGIN ... REPEATABLE READ, and the first query fixes what  *)
(* it sees.                                                                *)
BeginSnapshot ==
    /\ BootStep("begin", "copy")
    /\ view' = committed
    /\ UNCHANGED <<stamp, done>>

(* UpsertSnapshotRow: a row under the upsert's LSN guard.                  *)
UpsertSnapshotRow(old, row, lsn) ==
    IF old.lsn > lsn THEN old ELSE [lsn |-> lsn, val |-> row.val, big |-> row.big]

(* copyTable: every row of the source, without a marker.                   *)
CopyTables(d, rows, lsn) ==
    [d EXCEPT !.rows = [t \in Tables |-> [k \in Keys |->
        IF rows[t][k] = M!NoRow THEN d.rows[t][k]
        ELSE UpsertSnapshotRow(d.rows[t][k], rows[t][k], lsn)]]]

(* Mutant of CommitSnapshot: the restart LSN is read after the rows.       *)
CommitSnapshotLateLSN ==
    /\ boot = "copy" /\ boot' = "mark"
    /\ db' = CopyTables(db, SourceAt(view), restart)
    /\ UNCHANGED <<loopVars, crashes, sourceVars, stamp, view, done>>

(* RunSnapshot: all tables in one destination transaction.                 *)
CommitSnapshot ==
    /\ boot = "copy" /\ boot' = "mark"
    /\ db' = CopyTables(db, SourceAt(view), stamp)
    /\ UNCHANGED <<loopVars, crashes, sourceVars, stamp, view, done>>

(* MarkCompleted: a statement of its own.                                  *)
MarkCompleted ==
    /\ BootStep("mark", "verify")
    /\ done' = TRUE
    /\ UNCHANGED <<stamp, view>>

(* Mutant of VerifyNotCorrupt: the check is inverted.                      *)
VerifyCorrupt ==
    /\ BootStep("verify", IF restart = 0 THEN "ready" ELSE "off")
    /\ UNCHANGED <<stamp, view, done>>

(* VerifyNotCorrupt: refuse to run without a slot.                         *)
VerifyNotCorrupt ==
    /\ BootStep("verify", IF restart # 0 THEN "ready" ELSE "off")
    /\ UNCHANGED <<stamp, view, done>>

(* The writer dies, or a query of bootSnapshot fails.                      *)
BootCrash ==
    /\ boot \notin {"off", "ready"} /\ crashes < MaxCrashes
    /\ boot' = "off" /\ crashes' = crashes + 1
    /\ UNCHANGED <<loopVars, db, sourceVars, stamp, view, done>>

(* run reaches consume, and boots again after an exit.                     *)
Consume(step) ==
    /\ boot = "ready" /\ step
    /\ boot' = IF pc' = "down" THEN "off" ELSE "ready"
    /\ UNCHANGED <<sourceVars, stamp, view, done>>

Boot ==
    \/ Completed \/ WaitForSlot \/ ReadRestartLSN \/ BeginSnapshot \/ CommitSnapshot
    \/ MarkCompleted \/ VerifyNotCorrupt

(* The reader goes on, with a transaction it has begun or with a new one.  *)
PublishOn ==
    \E t \in 1 .. Len(source) : \E k \in 1 .. Len(source[t]) :
        (k > 1 \/ ~T!Published(t, k)) /\ ReaderPublishes(t, k)

SnapNext ==
    \/ SourceCommit \/ CreateSlot \/ DropSlot \/ AdvanceRestart
    \/ \E t \in 1 .. Len(source) : \E k \in 1 .. Len(source[t]) : ReaderPublishes(t, k)
    \/ Boot \/ BootCrash \/ Consume(Step) \/ Consume(PollEmpty) \/ Consume(Crash)

SnapSpec == SnapInit /\ [][SnapNext]_snapVars

(* The supervisors restart both processes, the reader creates its slot and *)
(* publishes, and the writer's boot and loop make progress.                *)
SnapFairSpec ==
    /\ SnapSpec
    /\ WF_snapVars(CreateSlot) /\ WF_snapVars(PublishOn)
    /\ WF_snapVars(Boot) /\ WF_snapVars(Consume(Step))

-----------------------------------------------------------------------------
(***************************************************************************)
(* Properties.                                                             *)
(***************************************************************************)

(* The stream has nothing more for this destination.                       *)
CaughtUp == done /\ pc = "poll" /\ PublishedFrom(committed) /\ offset = Len(log)

(* Every transaction from before this slot is in the topic.                *)
NoGap == \A t \in 1 .. from - 1 : T!Complete(t)

(* "Live events then apply on top of it ... so snapshot rows and live rows *)
(* can never fight" (run): wherever the snapshot fell between the commits, *)
(* the records and the moves of the restart LSN, and although a crash      *)
(* before MarkCompleted takes it twice, a writer that has caught up shows  *)
(* the source's tables.  A slot that is lost and created again may leave a *)
(* gap, which nothing here detects.                                        *)
HandoverConverges == CaughtUp /\ NoGap => Visible = SourceAt(committed)

(* No event is applied before the snapshot is recorded, so a snapshot that *)
(* is taken again never copies its rows over the stream's.                 *)
SnapshotPrecedesStream == db.marks # {} => done

(* The hand-over happens: once the source is quiet, and unless a lost slot *)
(* left a gap in the stream, the destination comes to show the source's    *)
(* tables and keeps showing them.                                          *)
HandoverCompletes == <>[](NoGap => Visible = SourceAt(committed))
=============================================================================
