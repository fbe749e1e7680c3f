------------------------------- MODULE Writer -------------------------------
(***************************************************************************)
(* The destination writer (cmd/destination-writer/main.go): it polls one   *)
(* Kafka record at a time, collects the events of one source transaction,  *)
(* applies the whole group in one destination transaction and only then    *)
(* commits the Kafka offset.  A group with a poison event is rolled back,  *)
(* its other events are applied one by one and the poison is repaired or   *)
(* quarantined.  The writer may die between any two of these steps.        *)
(***************************************************************************)
EXTENDS Destination

CONSTANTS
    Histories,     \* source histories to replicate: sequences of transactions
    TornReplays,   \* TRUE: the topic may restart inside a transaction
    RepairMayFail, \* TRUE: RepairSchema may fail (source unreachable, type not creatable)
    MaxLog,        \* bound: records in the topic
    MaxCrashes,    \* bound: writer crashes
    MaxHiccups     \* bound: statements PostgreSQL refuses once (deadlock, lock timeout)

ASSUME WriterAssumption ==
    /\ \A h \in Histories : \A t \in 1 .. Len(h) : Len(h[t]) > 0
    /\ TornReplays \in BOOLEAN /\ RepairMayFail \in BOOLEAN
    /\ MaxLog \in Nat /\ MaxCrashes \in Nat /\ MaxHiccups \in Nat

VARIABLES
    source,    \* the source's history, fixed in the initial state
    log,       \* the Kafka topic: event identities (external)
    offset,    \* the committed consumer-group offset (external)
    db,        \* the destination database, committed state
    pc,        \* where the writer is
    pos,       \* records polled since the start of the topic
    group,     \* groupState.buffer: the open source transaction, <<>> when nil
    poison,    \* the index of BatchError.Event in the group
    undefined, \* IsUndefinedColumn(BatchError.Err)
    next,      \* replayHealthyEvents' loop position
    crashes, hiccups

batch   == <<poison, undefined, next>>
vars    == <<source, log, offset, db, pc, pos, group, poison, undefined, next,
             crashes, hiccups>>
topic   == <<source, log, offset>>
budgets == <<crashes, hiccups>>

T == INSTANCE Topic WITH wal <- [t \in 1 .. Len(source) |-> Len(source[t])],
                         EventCounts <- Nat

Event(r) == [id |-> r, op |-> source[r.tx][r.seq].op, table |-> source[r.tx][r.seq].table,
             key |-> source[r.tx][r.seq].key, fault |-> source[r.tx][r.seq].fault]
Count(r) == Len(source[r.tx])          \* TransactionEventCount

(* The locals of commitDestinationTransaction go out of use.               *)
DropBatch == poison' = 0 /\ undefined' = FALSE /\ next' = 1

Init ==
    /\ source \in Histories
    /\ log = <<>> /\ offset = 0
    /\ db = EmptyDatabase
    /\ pc = "down" /\ pos = 0 /\ group = <<>>
    /\ poison = 0 /\ undefined = FALSE /\ next = 1
    /\ crashes = 0 /\ hiccups = 0

-----------------------------------------------------------------------------
(* The topic ends with the last event of a transaction.                    *)
AtBoundary == Len(log) # 0 => log[Len(log)].seq = Count(log[Len(log)])

(* The reader publishes a record, as Topic allows; unless TornReplays, it  *)
(* does not restart or repeat in the middle of a transaction.              *)
Publish(t, k) ==
    LET r == T!Record(t, k)
    IN  /\ Len(log) < MaxLog
        /\ T!Continues(r) \/ (T!Starts(r) /\ AtBoundary) \/ (TornReplays /\ T!Follows(r))
        /\ log' = Append(log, r)
        /\ UNCHANGED <<source, offset, db, pc, pos, group, batch, budgets>>

(* Mutant of Run: without a committed offset, start at the end.            *)
RunAtEnd ==
    /\ pc = "down"
    /\ pc' = "poll" /\ pos' = (IF offset = 0 THEN Len(log) ELSE offset) /\ group' = <<>>
    /\ DropBatch
    /\ UNCHANGED <<topic, db, budgets>>

(* run: join the consumer group at the committed offset.                   *)
Run ==
    /\ pc = "down"
    /\ pc' = "poll" /\ pos' = offset /\ group' = <<>>
    /\ DropBatch
    /\ UNCHANGED <<topic, db, budgets>>

(* The process dies, or a connection failure or a termination signal makes *)
(* it roll back the open transaction and exit.                             *)
Crash ==
    /\ pc # "down" /\ crashes < MaxCrashes
    /\ pc' = "down" /\ crashes' = crashes + 1
    /\ UNCHANGED <<topic, db, pos, group, batch, hiccups>>

(* handleEvent's ordering checks.                                          *)
InOrder(e) ==
    IF group = <<>> THEN e.id.seq = 1
    ELSE e.id.tx = group[1].id.tx /\ e.id.seq = Len(group) + 1

(* Mutant of HandleEvent: every event closes the group.                    *)
HandleEventAlone ==
    /\ pc = "poll" /\ pos < Len(log)
    /\ pos' = pos + 1
    /\ LET e == Event(log[pos + 1])
       IN  IF InOrder(e)
           THEN group' = Append(group, e) /\ pc' = "apply"
           ELSE pc' = "down" /\ UNCHANGED group
    /\ UNCHANGED <<topic, db, batch, budgets>>

(* Mutant of HandleEvent: the offset is committed before the group.        *)
HandleEventCommitsFirst ==
    /\ pc = "poll" /\ pos < Len(log)
    /\ pos' = pos + 1
    /\ LET e == Event(log[pos + 1])
       IN  IF InOrder(e)
           THEN /\ group' = Append(group, e)
                /\ IF Len(group) + 1 = Count(e.id)
                   THEN pc' = "apply" /\ offset' = pos + 1
                   ELSE pc' = "poll" /\ UNCHANGED offset
           ELSE pc' = "down" /\ UNCHANGED <<group, offset>>
    /\ UNCHANGED <<source, log, db, batch, budgets>>

(* consume and handleEvent: buffer the next record; the last sequence of   *)
(* the transaction closes the group.  A record out of order ends the       *)
(* process with the offset where it was.                                   *)
HandleEvent ==
    /\ pc = "poll" /\ pos < Len(log)
    /\ pos' = pos + 1
    /\ LET e == Event(log[pos + 1])
       IN  IF InOrder(e)
           THEN /\ group' = Append(group, e)
                /\ pc' = IF Len(group) + 1 = Count(e.id) THEN "apply" ELSE "poll"
           ELSE pc' = "down" /\ UNCHANGED group
    /\ UNCHANGED <<topic, db, batch, budgets>>

(* consume: PollRecords has nothing new.                                   *)
PollEmpty == pc = "poll" /\ pos = Len(log) /\ UNCHANGED vars

(* commitDestinationTransaction, no failure: the batch commits.            *)
CommitGroup ==
    /\ pc = "apply" /\ BatchError(db, group) = 0
    /\ db' = ApplyBatch(db, group)
    /\ pc' = "commit"
    /\ UNCHANGED <<topic, pos, group, batch, budgets>>

(* Mutant of RollBackGroup: a poison event is treated as transient.        *)
RollBackAndExit ==
    /\ pc = "apply" /\ BatchError(db, group) # 0
    /\ pc' = "down"
    /\ UNCHANGED <<topic, db, pos, group, batch, budgets>>

(* commitDestinationTransaction, BatchError: the transaction rolls back.   *)
(* The error is the first to surface, the event may be another one's.      *)
RollBackGroup ==
    /\ pc = "apply" /\ BatchError(db, group) # 0
    /\ poison' = BatchError(db, group) /\ next' = 1
    /\ undefined' =
          UndefinedColumn(db, group[FirstToSurface(db, group, Failing(db, group))])
    /\ pc' = "replay"
    /\ UNCHANGED <<topic, db, pos, group, budgets>>

(* PostgreSQL refuses a statement this once.  poisonOrWrap takes every     *)
(* error it reports for permanent.                                         *)
Hiccup(e) ==
    /\ ~IsMarked(db, e) /\ ~RefusedByApplier(e)
    /\ hiccups < MaxHiccups /\ hiccups' = hiccups + 1

(* commitDestinationTransaction: the same for such an error, unless        *)
(* another failure surfaces first.                                         *)
RollBackInterrupted(i) ==
    /\ pc = "apply" /\ Hiccup(group[i])
    /\ FirstToSurface(db, group, Failing(db, group) \cup {i}) = i
    /\ poison' = Blamed(db, group, i) /\ undefined' = FALSE /\ next' = 1
    /\ pc' = "replay"
    /\ UNCHANGED <<topic, db, pos, group, crashes>>

(* Apply, and RecordDeadLetter when its error is permanent.  Any other     *)
(* error ends the process: that is Crash, which may come at this place.    *)
ApplyOrQuarantine(e) ==
    \/ ApplyFails(db, e) /\ db' = RecordDeadLetter(db, e) /\ UNCHANGED hiccups
    \/ Hiccup(e) /\ db' = RecordDeadLetter(db, e)
    \/ ~ApplyFails(db, e) /\ db' = Apply(db, e) /\ UNCHANGED hiccups

(* replayHealthyEvents: every event but the poison, each in a transaction  *)
(* of its own.                                                             *)
ReplayHealthyEvent ==
    /\ pc = "replay" /\ next <= Len(group)
    /\ next' = next + 1
    /\ IF next = poison THEN UNCHANGED <<db, hiccups>> ELSE ApplyOrQuarantine(group[next])
    /\ UNCHANGED <<topic, pc, pos, group, poison, undefined, crashes>>

(* What quarantinePoison can repair.                                       *)
Repairable == undefined /\ UndefinedColumn(db, group[poison])

(* quarantinePoison: an undefined column is repaired from the source's     *)
(* definition and the event is retried.                                    *)
RepairPoison ==
    /\ pc = "replay" /\ next > Len(group) /\ Repairable
    /\ db' = RepairSchema(db, group[poison])
    /\ pc' = "retry"
    /\ UNCHANGED <<topic, pos, group, batch, budgets>>

(* quarantinePoison: the retry after a repair.                             *)
RetryPoison ==
    /\ pc = "retry"
    /\ ApplyOrQuarantine(group[poison])
    /\ pc' = "commit"
    /\ UNCHANGED <<topic, pos, group, batch, crashes>>

(* quarantinePoison: nothing to repair, or a repair that fails.            *)
QuarantinePoison ==
    /\ pc = "replay" /\ next > Len(group)
    /\ Repairable => RepairMayFail
    /\ db' = RecordDeadLetter(db, group[poison])
    /\ pc' = "commit"
    /\ UNCHANGED <<topic, pos, group, batch, budgets>>

(* Mutant of CommitKafkaOffset: one record too far.                        *)
CommitOffsetPast ==
    /\ pc = "commit"
    /\ offset' = pos + 1
    /\ group' = <<>> /\ pc' = "poll" /\ DropBatch
    /\ UNCHANGED <<source, log, db, pos, budgets>>

(* commitKafkaOffsetAndAllowRebalance, then handleEvent drops the group.   *)
CommitKafkaOffset ==
    /\ pc = "commit"
    /\ offset' = pos
    /\ group' = <<>> /\ pc' = "poll" /\ DropBatch
    /\ UNCHANGED <<source, log, db, pos, budgets>>

Step ==
    \/ Run \/ HandleEvent \/ CommitGroup \/ RollBackGroup \/ ReplayHealthyEvent
    \/ RepairPoison \/ RetryPoison \/ QuarantinePoison \/ CommitKafkaOffset

Next ==
    \/ \E t \in 1 .. Len(source) : \E k \in 1 .. Len(source[t]) : Publish(t, k)
    \/ \E i \in DOMAIN group : RollBackInterrupted(i)
    \/ PollEmpty \/ Crash \/ Step

Spec == Init /\ [][Next]_vars

(* The supervisor restarts the writer and the writer's loop makes progress.*)
FairSpec == Spec /\ WF_vars(Step)

-----------------------------------------------------------------------------
(***************************************************************************)
(* Properties.                                                             *)
(***************************************************************************)

Ids == UNION {{T!Record(t, k) : k \in 1 .. Len(source[t])} : t \in 1 .. Len(source)}

Visible == [t \in Tables |-> [k \in Keys |->
              [val |-> db.rows[t][k].val, big |-> db.rows[t][k].big]]]

M == INSTANCE Mirror WITH
        applied <- Cardinality({r \in Ids : r.seq = 1 /\ r \in db.marks}),
        rows    <- Visible

(* A history is a sequence of transactions, each a sequence of changes.    *)
ASSUME HistoriesAssumption == Histories \subseteq Seq(Seq(M!Change))

(* Every variable has its type.                                            *)
TypeOK ==
    /\ \A i \in DOMAIN log : log[i] \in Ids
    /\ offset \in 0 .. Len(log) /\ pos \in 0 .. Len(log)
    /\ db.marks \subseteq Ids /\ db.dead \subseteq Ids
    /\ pc \in {"down", "poll", "apply", "replay", "retry", "commit"}
    /\ Len(group) <= Len(log) /\ poison \in 0 .. Len(log) /\ next \in Nat
    /\ undefined \in BOOLEAN
    /\ crashes \in 0 .. MaxCrashes /\ hiccups \in 0 .. MaxHiccups

(* "Kafka is committed only after the destination transaction commits":    *)
(* every record below the committed offset has its marker, so a crash at   *)
(* any point of any group loses no event.                                  *)
NoEventLost == \A i \in 1 .. offset : log[i] \in db.marks

(* PostgreSQL has refused no statement that could have succeeded: such a   *)
(* refusal is taken for poison, and a healthy event is quarantined for it. *)
Undisturbed == hiccups = 0

(* "Recorded once, applied once, and never applied out of order": the      *)
(* tables are exactly what the events that are marked and not quarantined  *)
(* produce when executed once each in source order.                        *)
AppliedOnceInSourceOrder == Undisturbed => Visible = M!RowsAfter(db.marks \ db.dead)

(* The destination never shows half of a transaction that has no faulty    *)
(* event, although crashes, replays and other groups' poison intervene.    *)
HealthyTransactionsAtomic ==
    Undisturbed => \A t \in 1 .. Len(source) :
        (\A k \in 1 .. Len(source[t]) : source[t][k].fault = "none") =>
            LET ids == {T!Record(t, k) : k \in 1 .. Len(source[t])}
            IN  ids \subseteq db.marks \/ ids \cap db.marks = {}

(* The markers grow in source order: no event is recorded while an event   *)
(* of an earlier transaction is not.                                       *)
TransactionsInOrder ==
    \A r \in db.marks : \A q \in Ids : q.tx < r.tx => q \in db.marks

(* A queued change that one with a missing column follows in the queue:    *)
(* it is named for the statement that cannot be prepared.                  *)
TakesBlame(r) ==
    \E k \in r.seq + 1 .. Count(r) :
        /\ source[r.tx][k].fault = "drift"
        /\ \A j \in r.seq .. k : Queued(source[r.tx][j])

(* "A change the destination can never accept" is what gets quarantined:   *)
(* a healthy event next to a poison one never is, only one that takes the  *)
(* blame for a missing column.                                             *)
OnlyFaultyQuarantined ==
    Undisturbed => \A r \in db.dead : Event(r).fault # "none" \/ TakesBlame(r)

(* No healthy change of the source takes the blame for another one.        *)
DriftsLead == \A r \in Ids : Event(r).fault = "none" => ~TakesBlame(r)

(* Column-added drift heals ("adds them to the destination ... then        *)
(* retries the event once"): an event whose only defect is a column that   *)
(* the source defines is never quarantined.                                *)
DriftHealed == Undisturbed => \A r \in db.dead : Event(r).fault # "drift"

(* No row is older than a change that has been applied to it, also when a  *)
(* refused statement, a wrong blame or a second writer has changed what is *)
(* applied and in which order: quarantine and replay stay within one       *)
(* transaction.                                                            *)
NoRowOvertaken ==
    \A r \in db.marks \ db.dead : LET e == Event(r) IN
        \A k \in (IF e.op = "truncate" THEN Keys ELSE {e.key}) :
            LET row == db.rows[e.table][k]
            IN  row = Absent \/ row.val.tx >= r.tx

(* The writer implements Mirror: for healthy histories the destination     *)
(* moves from one source transaction to the next in single steps.          *)
ImplementsMirror == M!Spec

(* Whenever the topic ends with a whole transaction, it is eventually      *)
(* consumed to its end: poison "never blocks the stream" and a crash only  *)
(* delays it.                                                              *)
EveryGroupConsumed == []<>(AtBoundary => offset = Len(log))

-----------------------------------------------------------------------------
(***************************************************************************)
(* What the source's transactions must not contain for these to hold.      *)
(***************************************************************************)
Transactions == UNION {{h[t] : t \in 1 .. Len(h)} : h \in Histories}

(* No change is refused by anyone.                                         *)
FaultFree == \A tx \in Transactions : \A i \in 1 .. Len(tx) : tx[i].fault = "none"

(* The second TRUNCATE of a table has the watermark's LSN: it is skipped.  *)
TruncatesOnce ==
    \A tx \in Transactions : \A i, j \in 1 .. Len(tx) :
        (tx[i].op = "truncate" /\ tx[j].op = "truncate" /\ tx[i].table = tx[j].table)
            => i = j

(* A drifted change is retried after the changes that follow it.           *)
DriftsLast ==
    \A tx \in Transactions : \A i \in 1 .. Len(tx) : tx[i].fault = "drift" => i = Len(tx)

(* A drifted change beside a poison one is quarantined by the replay.      *)
DriftsAlone ==
    \A tx \in Transactions : \A i, j \in 1 .. Len(tx) :
        tx[i].fault = "drift" /\ tx[j].fault # "none" => i = j
=============================================================================
