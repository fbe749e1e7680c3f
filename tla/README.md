# A TLA+ verification of pg-live-sync

pg-live-sync mirrors PostgreSQL tables: a *source reader* streams committed
transactions from a logical replication slot into a one-partition Kafka topic, a
*destination writer* applies them to a second PostgreSQL database. Its promise is
exactly-once on replay: every change is recorded once, applied once and in source
order, whatever crashes or connections do. This directory models both processes,
the initial snapshot, the dead-letter tool, the fence between readers and the
take-over between writers, checks the promise with TLC on small instances and proves
with TLAPS, for instances of any size, that the reader neither loses nor reorders, and
that the writers neither lose an event, nor mark one out of order, nor leave a row older
than a change they applied to it.

## 1. Inventory

| Component | State | Operations | Interaction | What makes it correct |
|---|---|---|---|---|
| Reader, stream loop (`cmd/source-reader/main.go`) | durable LSN, status deadline, connection | `stream`, `queueTransactionEvents`, `sendWork`, `reconnect`, `drainPublicationResults`, `applyPublicationResult`, `sendStandby` | receives pgoutput from PostgreSQL; hands events to the publisher over an unbuffered channel, takes results from a channel of capacity 1 | the slot is never confirmed past Kafka, never moves back; everything committed is eventually acknowledged |
| Reader, publisher goroutine | the work item in hand, attempt number | `publishTransactions`, `publishTransactionEvent` | produces to Kafka; one result per transaction | source order in the topic; failures reach the stream loop |
| Decoder (`internal/source/decoder.go`) | open transaction, pull state, relations, spool file | `Handle`, `NextEvent`, `Reset` | called by the stream loop | events only of committed transactions, in order, and none left over after a reconnect |
| Kafka topic | a log, the consumer group's offset | append, commit | between reader and writer | external |
| Writer (`cmd/destination-writer/main.go`) | the open group, the open destination transaction | `consume`, `handleEvent`, `closeGroup`, `commitDestinationTransaction`, `replayHealthyEvents`, `quarantinePoison`, `commitKafkaOffsetAndAllowRebalance`, `shutdown` | polls Kafka, drives the applier | atomic source transactions; the offset only after the commit; poison never blocks |
| Applier (`internal/destination/applier.go`) | tables with `source_lsn`, `cdc_applied_events`, `cdc_table_watermarks`, `cdc_dead_letters`; column cache | `ApplyBatch`, `Apply`, `RecordDeadLetter`, `RepairSchema` | SQL in one transaction per group or per event | each event once; stale data never wins; failures blamed on an event whose quarantine lets the rest through |
| Snapshot (`internal/destination/snapshot.go`) | `cdc_state` | `WaitForSlot`, `RunSnapshot`, `MarkCompleted`, `VerifyNotCorrupt` | reads the source, writes the destination before streaming | hand-over to the stream without loss |
| Dead-letter administration (`cmd/cdcctl`, `deadletter.go`) | markers and dead letters | list, replay, drop | runs beside the writer | a letter is replayed once, a dropped one never comes back |
| Fence and boot checks (reader `run`) | advisory lock, slot | `acquireFence`, `verifySlotRecoverable`, `discoverIdentity`, `createReplicationSlot` | PostgreSQL | one reader; no resume on recycled WAL |
| Retry, error classes | attempt counter | `retry.Do`, `errclass` | used everywhere | bounded attempts; only permanent errors are poison |
| Observer, metrics, transport, configuration | counters | - | - | nothing in the pipeline reads them back |

Hard to test here: two goroutines and a full channel; results that outlive a
reconnect; a produce that succeeded and was reported as failed; process death
between any two of "destination commit", "offset commit", and the one-event
transactions of the poison path; events of one transaction that share one LSN;
failures that surface at a later batch flush; a snapshot between a moving slot and a
moving source; an operator's replay between two statements of the writer; a lock on a
connection that nobody watches; a writer that the broker has given up and that goes on; a cache that outlives what it caches. `PROJECT.json` lists each of these
hazards at its line with the properties aimed at it.

## 2. Modules

| Module | Models |
|---|---|
| `Topic` | What the reader promises of the topic (abstract): each record continues the transaction of the last record, repeats the last record, or starts a transaction all of whose predecessors are complete in the topic. |
| `Reader` | The reader process with its two goroutines, the decoder's transaction state, the slot and the broker. |
| `ReaderProofs` | The inductive invariant of `Reader` and its theorems. |
| `Fence` | Several readers on one slot: advisory lock, slot creation, dial, and the life of the two connections. |
| `FenceProofs` | The inductive invariant of `Fence` and its theorems. |
| `DestinationProofs` | Lemmas: what each operation of the applier may change, what a batch computes, which event it may blame. |
| `TakeoverProofs` | The inductive invariant of `Takeover` and its theorems. |
| `WriterProofs` | The inductive invariants of `DeadLetters` and `Snapshot` and their theorems. |
| `SpoolProofs`, `TuplesProofs`, `ColumnCacheProofs` | The same for `Spool`, `Tuples`, `ColumnCache`. |
| `Spool` | The decoder's buffer in memory and file, `NextEvent`, `Reset`, and the life of the files. |
| `Tuples` | The data path of one table: pgoutput tuples under each replica identity, `Handle`, `primaryKey`, `decodeTuple`, `discoverIdentity`, and what the events do to the destination's rows. |
| `Mirror` | What the pipeline promises (abstract): the destination shows the source after a prefix of its transactions and moves one transaction per step. |
| `Destination` | The applier: the database as a record, its operations as functions from one committed state to the next. |
| `Writer` | The writer process over `Destination`, fed by a topic that follows `Topic`. |
| `Takeover` | `Writer` twice: the owner of the partition, and a writer that was evicted from the consumer group and goes on. |
| `Snapshot` | `Writer` extended with `bootSnapshot`, a source that commits, a slot that moves or is lost, and a reader that publishes. |
| `DeadLetters` | `Writer` extended with cdcctl's replay and drop. |
| `ColumnCache` | `tableColumns`, its time-to-live and invalidation, and `RepairSchema` column by column, against DDL on both sides. |
| `MC...` | TLC's roots: histories, scenarios and column sets for each of them. |

`Writer`, `Takeover`, `Snapshot` and `DeadLetters` take their input from a log that follows
`Topic`, and `Fence` states its topic property with it, so what the writer's side
assumes of the topic is literally what `ReaderImplementsTopic` proves of the reader.
That is how reader and writer are composed; a product of both state machines would
add states and no new interaction, since they share nothing else.

### Reader

A source LSN is a position in the commit order, an event the record `[tx, seq]`
(the code's event ID is the commit LSN and the sequence). `pc` is the place in the
stream loop:

- `drain`: the top of the loop, `drainPublicationResults`. `drainFor` says whether
  it runs for the loop or before a status (deadline passed, or keepalive with a
  reply request); `advanced` is its return value so far.
- `receive`: in `ReceiveMessage`. `HandleBegin`, `HandleChange` and `HandleCommit`
  are `Handle` on the next message of the walsender position `sender`;
  `OtherMessage` stands for messages that change nothing.
- `queue` and `send`: `queueTransactionEvents` and the select of `sendWork`, one
  action per case.
- `reconnect`: inside `retry.Do` of `reconnect`; `resume` is where the loop goes on.
  `sendWork` returns nil after a successful `recoverPublication`, as if the message
  had been sent; `stream` returns it, which ends the process.
- `down`: no process. `Run` starts it at the slot's confirmed position.

The publisher is `idle`, producing (`produce`: not appended yet, `appended`: the
broker has the record and the client does not know), `failing`, reporting
(`report`) or `dead`. `PublishFailed` may strike before or after the append.

Abstractions: a transaction is its number of row changes, and a message of the
walsender stands for one buffered change (an `UPDATE` that changes the key buffers
two, a `TRUNCATE` of several tables several: these are counted as several
messages); a produce that was in flight when the process died is either in the log
before the crash or never; boot checks and slot creation are part of `Run`
succeeding; the walsender resends from the requested LSN or the confirmed one,
whichever is later, as PostgreSQL does. A failed standby write and a standby lost
in a broken connection are both modelled.

### Fence

Each reader goes `down`, `find`, `create`, `dial`, `stream`, `reconnect`. PostgreSQL
holds at most one lock and one walsender and ends each with its connection. The
stream is what `Reader` shows of it: one transaction in hand, events in order, a
durable position. `FenceDrops` frees the lock without telling anyone; `Produce` needs
neither the lock nor the stream, which is how two readers come to publish beside
each other. A refused `acquireFence` is a process exit and a restart, so it is no step.

### Spool and Tuples

`Spool` has the transaction's buffer (`mem`, then a file once `mem` holds `SpoolCap`
changes), the pull state with the file's read position, and every file ever created
with whether it is still linked. A reset strikes between any two messages or pulls.
`exits` counts process ends, which lose the names of open files.

`Tuples` executes one source statement at a time on rows with a two-column primary
key, a unique column and a TOASTed column that may be NULL; PostgreSQL chooses which
unchanged values it leaves out. `late` is a table that was published after the reader
had started, for which `primaryKey` falls back to pgoutput's flags. `keys` are the unique
keys of the destination table: the source's primary key, which the destination contract
demands (README.md:123), with or without the source's unique index. An upsert whose
conflict target is none of them, or whose row violates another, is refused and
quarantined.

### Destination and Writer

A column value is the identity of the change that wrote it; a row has an ordinary
column and a TOASTed one, so an unchanged-column update is told from an upsert. A
change carries what is wrong with it: `malformed` (the applier refuses it before it
sends anything), `poison` (PostgreSQL refuses it, always), `drift` (it names a column
the destination table does not have yet). `BatchError` computes which event
`ApplyBatch` blames. `SurfacesAt` orders the moments at which failures appear: the
applier's own checks at the loop index; queued statements at their flush, where pgx (in
its default mode, which the DSN handling leaves alone) prepares every new statement of
the queue before it executes any; statements that are not queued after that flush. A
missing column is found in the first half of a flush, poison in the second. `Blamed`
turns the failing event into the named one: `results.Exec()` returns an error of
preparation at the first statement of the queue, so `Queue`'s first event is named for a
missing column, and any other failure names its own event.

`Writer` keeps the committed offset, the polled position, the open group, and the
locals of `commitDestinationTransaction`. Every destination transaction is one step
(`CommitGroup`; each step of `ReplayHealthyEvent`; `RepairPoison`, `RetryPoison`,
`QuarantinePoison`), a crash may come between any two, and an ordering error of
`handleEvent` ends the process with the offset where it was. `Hiccup` is a statement
that PostgreSQL refuses once (deadlock, lock timeout) in the mutation phase;
a refused marker statement is not modelled. Connection failures, and every error that
makes a handler return without quarantining (`replayHealthyEvents` on an error that is
not permanent, for one), are `Crash`, which may come at any `pc`. With
`TornReplays` the topic may do everything `Topic` allows; without it, the reader does
not restart inside a transaction.

### Takeover

With `BlockRebalanceOnPoll` a rebalance waits until the writer has committed the offset
of its group, but not for ever: a member that takes too long, or has lost the broker, is
evicted (`Evict`). The successor starts at the committed offset and polls the same
records. The evicted process is a second instance of `Writer` on the same topic and
database; it takes every step of its group, `OldStep`, until the broker refuses its
offset commit (`OldCommitRefused`) and it exits. A destination transaction is one step
here too: the markers of a group or an event are inserted before anything else, so the
transactions of two writers on the same event wait for each other. An eviction uses up
the budget of a crash. `contested` records, for the properties only, that a transaction
with a drifted change has been in two hands. `writer_healthy` and `writer_faults` check `Writer`'s properties of the
two together.

### Snapshot

`boot` is the place in `bootSnapshot`: `Completed`, `WaitForSlot`, the query of the
restart LSN, the start of the REPEATABLE READ transaction, the commit of the copy,
`MarkCompleted`, `VerifyNotCorrupt`; each is a step, the source commits and the
reader publishes between them, and a crash starts over. A restart LSN is the number
of the first transaction it does not cover. The copy is one destination transaction
in the code and one step here, applied with `UpsertSnapshotRow`'s LSN guard. `DropSlot`
is somebody dropping the slot; `CreateSlot` is the reader creating it, whatever the
destination has recorded.

### DeadLetters

`ReplayDeadLetter` is `RewindMarker`, `ReplayApply`, then `Restash` or `CloseLetter`;
the writer takes any of its steps in between, and PostgreSQL may refuse a statement of
either (`Hiccup`): a refused replay is restashed. `CutOff` is cdcctl being killed or
running into its timeout, after which no further statement succeeds. `times` is a
history variable: how often an event's mutation was committed.

### ColumnCache

One table, one event at a time, the clock in ticks. `seen` with `age` is
`columnsSeenAt`, `cached` is `columnsByTable`. `behind`, `quiet`, `calm` and `failed`
are history: how long ago the cached columns last were the table's, how long ago
anything but a completed repair changed the table, and whether a catalog read has failed
in this process. `Refusable` are columns that `ALTER TABLE` may refuse to add (a type the
destination lacks and that is no enum; NOT NULL without a default, which depends on
whether the table has rows); `RepairSchema` then returns with the earlier columns added
and the cache as it was (`GiveUp`).

## 3. Runs

All bounds are constants with `Max` names, and the sets `Histories`, `Scenarios`,
`EventCounts`, `Sizes`. Deadlock is checked in every run.

| Run | Bounds and why | Result |
|---|---|---|
| `reader` | 2 transactions of 0 or 2 events, 2 attempts, 2 produce failures (two events that are retried, or one that is given up), a crash, a lost connection | all hold, safety, refinement of `Topic` and liveness; 0.45 M states |
| `reader_outage` | one attempt, one failure: a produce that exhausts its retries | **violated**: the publisher is gone and `sendWork` waits for it for ever |
| `writer_healthy` | all pairs of transactions of 1 or 2 healthy changes on 2 tables and 2 keys; 5 records, so a whole transaction can be replayed; torn replays; one crash or eviction | all hold, `Mirror` included; 1.8 M states |
| `writer_faults` | poison in any position of up to 3 changes, drift in the last change of either transaction, at the head of its queue and behind one or two healthy changes, a hiccup, and a crash or an eviction; 4 records. One eviction is enough for two writers to meet at each pair of steps | all hold, `EveryGroupConsumed` included; 1.0 M states |
| `writer_reorder` | drift in the first of two changes | **violated**: the retried event overwrites the later one |
| `writer_torn` | two transactions, the reader restarts inside the first | **violated**: the writer exits on the torn group after every restart |
| `snapshot` | 2 transactions of every kind of change (one of two events), with and without a row at the start; one crash in boot or stream, one replayed transaction, one lost slot: one of each meets the snapshot at each of its statements | all hold; 0.75 M states |
| `letters` | 2 changes, drifted, poisonous or healthy, of the same or different rows (one history for each pair that a renaming of keys makes equal); 3 records (one redelivered), 2 replays, a drop, a cut-off, a crash, a refused statement, an operator's ALTER | all hold; 1.9 M states |
| `fence` | 2 readers, 2 transactions (one of two events), one exit, one lost fence, two lost streams: enough for the old reader to come back after its successor | all hold, failover included; 0.25 M states |
| `columns` | 3 columns, one of them refusable, 3 source versions, 2 foreign ALTERs, TTL 2, an outage, a restart, the table may vanish: a repair can end before, between and after its columns | all hold; 1.3 M states |
| `spool` | transactions of 4, 2, 0, 3, 1 changes around a cap of 2; 2 resets, 1 exit | all hold; 0.15 M states |
| `tuples` | every statement on tables of up to two rows (2 values), 4 replica identities, discovered or late, destination with or without the unique index | all hold; 8.0 k states, the whole space |

Properties worth a word:

- `ConfirmedOnlyAfterKafka` is the invariant the comment on `stream` states; `Fence`
  repeats it for readers that race.
- `AppliedOnceInSourceOrder` compares the tables with an execution, in source order,
  of exactly the changes that are marked and not quarantined: a lost, doubled or
  reordered application of any single change shows. `StaleWritesRefused` is the same
  for replayed letters, `TakeoverAppliedOnce` for two writers.
- `NoRowOvertaken` has no condition at all. Where `TakeoverAppliedOnce` gives up
  (wrong blame, contested drift, hiccups), it says how far the damage goes: within one
  transaction. It would fail if a quarantined event were not marked, for then a replay
  could apply it after later transactions.
- `ImplementsMirror` is refinement: the mapping counts the transactions whose first
  event is marked, and the rows without their LSN.
- `HandoverConverges` holds although the snapshot's rows are newer than their LSN: the
  stream takes them back and then forward again. It would not if the LSN were read
  after the rows.
- `EveryTransactionAcknowledged` and `EveryGroupConsumed` have the form "again and
  again everything is done", so they also cover what is committed or published late.

Some properties carry a condition that names a case in which the code does not have
them: `Undisturbed` (no hiccup) and `TakesBlame`/`DriftsLead` in `Writer`, `contested` in `Takeover`,
`NoGap` in `Snapshot`, `Once` in `DeadLetters`, `fenceDrops = 0` in `OneReader`, `failed` in `ColumnCache`,
`calm` and `Refusable` in `DriftHeals`, `drained` in `ResetLeavesNoSpool`, `KeyColumns \in keys` in `Tuples`, `GaveUp` in `Reader`. Section 5
says what happens there. Others need a condition on the source's histories, which has a
name in `Writer` or `DeadLetters` (`TruncatesOnce`, `DriftsLast`, `DriftsAlone`,
`FaultFree`, `RowsUpsertedOnce`) and is what the theorems of section 4 assume; the
`HistoriesInScope` of `MCTakeover`, `MCSnapshot` and `MCDeadLetters` lets TLC
check it on each instance, so neither run nor theorem is about nothing.

### Fairness

`Reader!Fairness`: docker-compose restarts the process (`WF Run`); both goroutines are
scheduled (`StreamLoop`, `Publisher`), which includes that an outstanding produce is
answered. Receiving data or a connection error is strongly fair, because TCP
delivers in order and a status deadline only interrupts `ReceiveMessage` for one turn
of the loop; the deadline itself (`StatusDue`) is strongly fair because `nextStatus`
is absolute and messages do not postpone it. `Writer!FairSpec` is weak fairness of the
writer's own steps and its restart; `TakeoverFairSpec` asks it of the owner of the
partition only, the evicted writer may stop anywhere. `SnapFairSpec` adds weak fairness of the reader
(it creates its slot and goes on publishing) and of the boot. `Fence!FairSpec` is weak
fairness of each step of each reader's loop. Nowhere is fairness assumed of crashes,
lost connections, failures, commits, timeouts or operators.

## 4. Proofs

### ReaderProofs

`ReaderProofs` proves, from `ReaderAssumption` alone (the bounds are naturals,
at least one attempt), for every number of transactions, events and faults:

| Theorem | States |
|---|---|
| `TypeCorrect` | `Spec => []TypeOK` |
| `ConfirmedAfterKafka` | the slot is confirmed only up to what Kafka holds in full |
| `ResultsInSourceOrder` | `applyPublicationResult`'s out-of-order error is unreachable |
| `OneAhead` | at most one transaction beyond the durable one is decoded |
| `SlotMonotone` | no step moves the slot back |
| `ReaderImplementsTopic` | every step is a step of `Topic` or a stutter |
| `OrderOfFirstOccurrences` | first occurrences appear in source order without a gap |

The inductive invariant `IInv` has eight parts. The statement to be proved,
"confirmed is in Kafka", says nothing about where the next confirmed position comes
from, so the chain is followed back: what is durable is in the topic (`DurableInv`);
so is what a result stands for, in the channel or about to be reported, and it is at
most one transaction further (`ResultInv`); a descriptor is handed over only after
every event before it was handed over and appended (`PublishedInv`), because the
publisher works on the event handed over last (`HeldInv`), the pull state agrees with
the loop (`QueueInv`) and the decoder with the connection (`DecoderInv`). `WindowInv`
bounds the distance between the walsender, the queue and what has been reported; it is
what keeps a result that survives a reconnect from being stale: after a reconnect at
the durable LSN the replayed transaction is the very one whose result is in flight.
The refinement needs one more step: the event the publisher holds is one that `Topic`
lets follow (`AppendFollows`).

### FenceProofs

`FenceProofs` proves, from `FenceAssumption` (the source has committed transactions of at
least one event, `Nobody` is no reader, the bounds are naturals), for any number of
readers, transactions, exits and lost connections:

| Theorem | States |
|---|---|
| `FenceTypes` | `Spec => []TypeOK` |
| `FenceAdmitsOne` | while no fence connection has failed, one reader at most is past `acquireFence` |
| `FenceConfirmsAfterKafka` | readers that race after a failure still confirm only what Kafka holds |
| `FenceFirstOccurrences` | the first occurrences in their common topic are in source order without a gap |

`FenceAdmitsOne` follows from `LockInv`: a reader that is up has the lock. The last two
cannot use it, because they are about what happens when it fails. They rest on the fact
that a reader needs nobody else: what it holds are the last events of the transaction it
was sent last, and it leaves the stream only with empty hands (`HeldInv`); everything
before that is in the topic, whoever put it there (`PublishedInv`); and so is what the
slot or any reader, one that comes back late too, takes for durable (`DurableInv`). The
topic only grows (`LogGrows`), so another reader's steps cannot disturb any of it, and
`Bystander` disposes of every step that leaves topic and hands alone.

### DestinationProofs

Lemmas for the two modules below, from `HistoriesAssumption` (a history is a sequence of
transactions, a transaction a sequence of changes) and `WriterAssumption` (no empty
transaction, bounds are naturals): a mutation touches neither markers nor letters
(`MutationKeepsLedgers`), `Apply` and `RecordDeadLetter` mark their event
(`ApplyMarks`, `DeadLetterMarks`), a batch that succeeds marks all of its events and
quarantines none, and one that fails blames a faulty event of its own, or one that has a
drifted event behind it in its queue (`BlamesFaulty`, from `BlamedFor` and `BlamedIs`).
What `ApplyBatch` makes of the database is a recursive function, so the last two need
induction: `Least`, `Induction` and `Recursion` state least elements, induction and
definition by recursion as facts about *sets*, derived from the library's `WFMin`, which
the provers can instantiate where they cannot instantiate the induction theorems
themselves. `BatchStatesEquation` then gives the equations of `BatchStates`.

The second half of the module is about what the tables are. `Mirror` executes a set of
events in source order, a fold over transactions and over the changes of each; `Between`
and `Within` name its two levels, `BetweenEquation` and `WithinEquation` give their
equations. The lemma everything rests on is `FoldOfOneMore`: an event added after all
others of the set is one `Exec` more at the end. `MutationMirrors` says that a mutation
of the destination is the same `Exec`, if the rows and watermarks are no newer than the
event, and `BatchMirrors` carries it through a batch.

### TakeoverProofs

For every set of histories, torn topics or not, any number of crashes, evictions,
refused statements and failing repairs, and so for `Writer` alone too:

| Theorem | States |
|---|---|
| `TakeoverTypes` | `TakeoverSpec => []TypeOK` |
| `TakeoverLosesNoEvent` | every record below the committed offset has its marker |
| `TakeoverInOrder` | no event is marked before every event of the earlier transactions |
| `TakeoverAtomic` | a transaction without a fault is marked whole or not at all, unless a statement was refused by accident |
| `TakeoverQuarantinesFaulty` | only faulty events, and healthy ones queued ahead of a drifted one, are quarantined, with the same exception |
| `TakeoverNoRowOvertaken` | no row is older than the transaction of a change applied to it, whatever fails |
| `TakeoverAppliesOnce` | `TakeoverAppliedOnce` (which supposes `DriftsLead`), if `TruncatesOnce` and `DriftsLast` |
| `AppliesOnceWithoutDrift` | `AppliedOnceInSourceOrder` for two writers, if `TruncatesOnce` and nothing drifts |
| `WriterAppliesOnce` | `AppliedOnceInSourceOrder` for a writer that is never evicted, if `TruncatesOnce`, `DriftsLast` and `DriftsLead` |
| `TakeoverHealsDrift` | `TakeoverDriftHealed` (which supposes `DriftsLead`), if `DriftsAlone` and repairs do not fail |
| `TakeoverImplementsMirror` | the refinement `ImplementsMirror`, if `TruncatesOnce`, `FaultFree` and no statement is refused by accident |

"The offset is behind the markers" is not inductive: it says nothing about the group
whose offset is about to be committed. `Local` describes one writer: its group is the
last records it polled and the first events of one transaction (`GroupOf`), it leaves
`poll` only with the whole transaction, and `Progress` says which events of the group
are marked at each place of `commitDestinationTransaction`; what it polled before the
group is marked. `Local` takes the topic, the markers and the writer's locals as
arguments, so the same formula is stated of the owner and of the evicted writer and
every step is proved once for both. A bystander keeps `Local` because the topic only
grows and markers are only added: that is why two writers need no lock. The order of the
markers comes from the topic: before the first event of a transaction all earlier
transactions are in it (`Preceded`, from `Topic`'s rules), so they lie before the group
and are marked.

That the tables are those of the marked events, once each and in source order, is
`Mirrored`; it is inductive together with the fact that no applied event was overtaken
(`Faithful`): whatever could be applied before it is marked. The next event is then after
all that is applied and `FoldOfOneMore` applies, whether it comes in a batch, in the
replay of the healthy events or as the last retry. The retry is where `DriftsLast` is
needed, and `Awaits`: the writer that repairs a drifted event is the first to record it.
An evicted writer breaks this only where both have a drifted transaction in hand
(`EvicteeInv`). The blame is part of the invariant: what is in `poison` is `Blamable`
(faulty itself, or taking the blame of a drifted event behind it), so under `DriftsLead` it is
faulty (`BlameIsDeserved`), and under `DriftsLast` a drifted one is the last of its group
(`BlamedLast`). `Heals` follows the column in the same way: missing when the writer comes
to the repair, there when it retries. For `ImplementsMirror` the markers of a
history without faults are those of a prefix (`MirrorInv`), so a step that marks
anything marks exactly the next transaction.

`TakeoverNoRowOvertaken` needs none of this, and no hypothesis. Its invariant
`CurrentInv` says of every row that its LSN is that of the transaction that wrote it and
not below its table's watermark, that a watermark is the LSN of a marked event, and that
an applied event has left its row absent or is not newer than it. A step applies an event
that was not marked, so no marked event is of a later transaction (`Ordered`): the row it
writes, or the watermark that lets it be skipped, is at most its own
(`MutationCurrent`, and `BatchCurrent` along the states of a batch).

The hypotheses on histories are cases of section 5, in which the code does not do what
the conclusion says. The attempt also showed an error of the model: the exception for a
contested drift was a function of the *current* groups and forgot, at the next eviction,
that a drift had been contested before. It is now the history variable `contested`.

### WriterProofs

For any topics, commands, cut-offs and bounds, and any histories but where noted:

| Theorem | States |
|---|---|
| `DeadLettersLoseNothing` | an event that Kafka delivers once and the consumer has passed was applied, is a letter, or was dropped |
| `DeadLettersStayDropped` | a dropped event that is delivered once is never marked or quarantined again |
| `DeadLettersRepeatOnlyAfterCutOff` | a change is committed at most once more than replays were cut off |
| `DeadLettersRefuseStaleWrites` | `StaleWritesRefused`, if `RowsUpsertedOnce`: every change is an upsert, and a transaction changes a row once |
| `SnapshotFirst` | no event is applied before `snapshot_done` is recorded |
| `SnapshotHandoverConverges` | `HandoverConverges`, if `TruncatesOnce` and `FaultFree` |

The invariant `DLInv` speaks of each event delivered once by itself (`EventInv`). An event the writer is not
through with is known to nobody; one that it is through with was applied, quarantined or
dropped (`KeptInv`; `Handled` says what "through with" means at each place of the poison
path). Between the rewind and the apply of a replay the event has no marker
(`ReplayInv`): the writer is through with its only record and cannot mark it, which is
what makes the deletion of the letter after a skipped apply harmless. A second record
would break exactly this step, so `Once` is needed. `RepeatInv` counts: a letter has been applied
no more often than replays were cut off after their apply.

The attempt showed an error of an earlier model: a statement that PostgreSQL refused was
counted as applied, which no run met because `Letters.cfg` allowed no refusal. `DeadLetters` now
distinguishes the two, and the run allows one.

Replays do not come in source order, so `FoldOfOneMore` is of no use for
`StaleWritesRefused`. Its invariant `RowsInv` is about each row instead: it holds the
latest applied upsert of its key and that upsert's LSN (`Latest`). The guard keeps this in
any order of application (`GuardedUpsert`), and the fold in source order arrives at the
same row (`SourceOrderLatest`).

`SnapshotFirst` needs little: `verify` and `ready` are reached only with `done`, and the
loop runs only behind `ready`, whatever it does there.

`SnapshotHandoverConverges` has to say what the tables are *before* the writer has caught
up, when they are the source's of no single moment: the snapshot saw transaction *v*, its
rows carry an older LSN, and the stream goes over them again from the beginning. `Meets`
says it for one row, after the stream's transactions up to *n*: the row shows the source's cell at *n*, except for a
column that a transaction up to *v* still sets or removes with its row; or it shows the
cell of some *u* between *n* and *v*, with an LSN of at most *u* + 1. A change of the
stream either writes the row, which brings it to the first case, or finds it newer, which
is only possible in the second (`MeetsOn`); an UPDATE that leaves a column unchanged keeps
the column the snapshot saw, which is why the first case has its exception. One
transaction further the cases with *u* = *n* fall together (`MeetsNext`), and beyond *v*
nothing but equality is left (`MeetsAtLast`). That a copied row carries at most
LSN *v* + 1 is `BootInv`: the restart LSN is read before the view is fixed. Around it,
`HandoverInv` says that the markers are those of a prefix of the source as long as the
topic has no gap (`HandedOver`, `InOrderInv`) and that the group in hand is a whole
transaction (`LoopInv`).

### SpoolProofs, TuplesProofs, ColumnCacheProofs

`SpoolProofs`, for transactions of any size, any cap and any number of resets and exits:
`SpoolOrder` (`PulledInOrder`), `SpoolComplete` (`NeverEndsEarly`), `SpoolFilesOwned`
(`ResetLeavesNoSpool`). The invariant says what a buffer holds: its memory and its file
together are the first *n* events of the transaction (`Holds`), for the open one
(`OpenInv`) and the one being pulled (`PullInv`), where the read position in the file is
the number of events pulled beyond memory. The file is used only when memory is full,
without which an append to memory would come after the file's events.

`TuplesProofs`, for any columns, key, unique index, values and TOASTed columns, from
`TuplesAssumption` and `UnchangedAssumption` (pgoutput's mark for an unchanged value is
no value): `TuplesMirrored` (`DataMirrored`) and `TuplesFullNeverStops`
(`FullNeverStops`). The first is about the cases in which the event key is a key of the
destination table (`Agreed`). Beside the two, the invariant needs the source's unique constraints
(`Keyed`), which make the key of an event name one row, and that a discovered table has
a key (`KeyInv`). The argument is per statement: the events that `Handle` makes of it
turn the old set of rows into the new one, key changes and unchanged values included;
the source's constraints are at least the destination's, so no row is refused
(`AdmittedFits`).

`ColumnCacheProofs`, for any columns, TTL and numbers of ALTERs, outages and restarts:
`CacheTrustedWithinTTL` (`TrustedWithinTTL`) and the action property `CacheDriftHeals`
(`DriftHeals`). The first is `BehindInv`: the cache has been wrong for no longer than
since its time stamp. The second follows an event through its repair: as long as the
table is changed by completed repairs only, the cache is right, and otherwise the last
disturbance is younger than the stamp (`CacheInv`); an event that was calm for a whole
TTL therefore starts with the right columns, its repair adds exactly those that are
missing (`RepairInv`) and the retry finds them.

The invariants of `ColumnCacheProofs` and `WriterProofs` (`DLInv`, `HandoverInv`) were
checked with TLC on the instances of `columns`, `letters` and `snapshot` before they were
proved (for `letters` with `TornReplays` as well).

### Only model-checked

- All liveness (`EveryTransactionAcknowledged`, `EveryGroupConsumed`,
  `HandoverCompletes`, `FailoverCompletes`): fairness and ENABLED are beyond the prover.
- The rows of histories outside the hypotheses. Those of `TruncatesOnce`, `DriftsLast`,
  `DriftsLead`, `DriftsAlone` and `RowsUpsertedOnce` are needed, section 5 has the counterexamples.
  `FaultFree` of the snapshot is a restriction of the proof only: quarantine during
  the hand-over is neither proved nor on the instance.

Every other property of a passing run is the conclusion of a theorem.

## 5. Disagreements met while modelling

Three are kept as runs that TLC must refute, with the quotes under "findings" in
`PROJECT.json`: `reader_outage`, `writer_reorder`, `writer_torn`. The others were found
the same way, by checking what the comment or document says; the condition that now
excludes them from a property is named in brackets, and removing it shows the
counterexample again.

- **A healthy event is blamed for a missing column** [`DriftsLead`, `TakesBlame`]. The drifted event is then quarantined by `replayHealthyEvents`, and the
  healthy one because `RepairSchema` finds none of its columns missing
  (`applier.go:433-440`, 1014). If the process dies between the two, the healthy event is
  applied behind later changes of its transaction with the same LSN. README.md:97: "it
  reads the missing columns' exact source definitions and adds them to the destination
  ... then retries the event once"; `applier.go:990-993` as below.
- **An index of the source alone is no conflict target** [`KeyColumns \in keys`]. Under
  USING INDEX, which `cmd/source-reader/main.go:456` recommends, the key is that of the
  index (443-444). A destination table with "a **primary key** matching the source's"
  (README.md:123) and no more refuses it as a conflict target, and every upsert is
  quarantined: there the destination table needs a unique constraint on the index's
  columns too. Unchanged-column updates and deletes of such a table are still applied, to
  rows that the upserts never wrote.
- **A second drifted event is quarantined** [`DriftsAlone`], and one that is not the last
  change is applied after those that follow it [`DriftsLast`]. `replayHealthyEvents` judges every other event before the
  repair is tried (`cmd/destination-writer/main.go:419`); `internal/destination/applier.go:990-993`:
  "a column-added DDL no longer poisons: ... the retried event applies normally".
- **A second TRUNCATE in one transaction is skipped** [`TruncatesOnce`].
  `truncateIsStale` compares commit LSNs, which the events of a transaction share
  (`applier.go:704`); README.md:91: "applied once", 107: "Stale replays are idempotent
  no-ops". This one is no replay.
- **A hiccup quarantines a healthy event** [`Undisturbed`]. `poisonOrWrap` marks every
  error PostgreSQL reports as permanent, deadlock and lock timeout included
  (`applier.go:967`); `cmd/destination-writer/main.go:368`: "Transient failure (destination
  database hiccup or malformed group): abort the group and exit".
- **Two writers and a drifted event** [`contested`]. When an evicted writer and its
  successor both have the event, the one that comes second to `RepairSchema` finds no
  column missing, or fails to add it again, and quarantines the event
  (`cmd/destination-writer/main.go:453-470`): the other's retry is then skipped as a
  duplicate, or the letter is of an event that has been applied. `applier.go:990-993` as
  above.
- **Copied rows go back in time** (no property; `HandoverConverges` speaks of a writer
  that has caught up). The restart LSN is read before the snapshot transaction begins
  (`internal/destination/snapshot.go:139-157`), so events between the two take copied
  rows back until the stream is past them; `snapshot.go:155-156`: "holds a snapshot of
  the whole database at the slot's consistent point".
- **A lost slot leaves a silent gap** [`NoGap`]. `VerifyNotCorrupt` asks only whether a
  slot of that name exists (`snapshot.go:68`), and the reader creates a missing one
  (`cmd/source-reader/main.go:197-203`); README.md:95: "If the destination says the
  snapshot is done but the source slot is gone, the writer refuses to run".
- **A replayed letter can be lost** [`Once`]. When Kafka delivers the event again between
  the rewind of its marker and `Apply`, the writer quarantines it again; `Apply` takes
  that marker for a sign that the change is there, and the letter is deleted
  (`internal/destination/deadletter.go:184-187`: "closing the dead letter is the
  correct end state"; README.md:100: "nothing is lost").
- **A letter can be applied twice** [`1 + timeouts`]. `Apply` commits before the letter is
  deleted (`deadletter.go:190`); 159: "re-applies a quarantined event exactly once".
- **A dropped event can come back** [`Once`]. Drop removes the marker too, so a
  redelivered record is new (`deadletter.go:210`); 196-198: "neither the writer nor a
  later replay attempt ever sees the event again".
- **A replayed insert brings a deleted row back** [`RowsUpsertedOnce`]. A delete leaves no LSN to compare with;
  README.md:195: "dedupe markers and LSN/watermark guards still protect against stale
  writes". The same holds for a letter whose transaction later changed the same row,
  since both share the LSN.
- **Two readers can publish at once** [`fenceDrops = 0`]. The lock's connection is never
  used again (`cmd/source-reader/main.go:162`); 159-161: "two readers cannot produce the
  same events in parallel and race each other into Kafka". `Fence` shows that this costs
  duplicates but neither order of first occurrences nor durability.
- **A failed catalog read is cached** [`failed`]. `columnsSeenAt` is set before the query
  (`applier.go:84`): old columns are trusted for another two minutes, or a table that
  was never read has none; 65-66: "bounds how long a column-type snapshot is trusted",
  70-71: "Errors (missing table etc.) are not cached".
- **A repair that ends half-way poisons later events** [`calm`]. The cache is
  invalidated only at the end (`applier.go:1085`). When a later column is refused or the
  source goes away, the next repair adds an existing column and fails, until the cache
  expires; 990-993 as above, and README.md:97: "later events heal automatically once the
  destination is altered". (That a refused column itself is quarantined is documented
  there and at `applier.go:994-996`: [`Refusable`].)
- **Spool files are leaked** [`drained`]. `NextEvent` removes the file when it is called
  after the last event, `queueTransactionEvents` calls it exactly Count times
  (`cmd/source-reader/main.go:674-696`), and the next Commit overwrites the pull state
  (`internal/source/decoder.go:258`); 286-288: "when the transaction is fully drained,
  after which the temporary spool file has been removed", and
  `internal/source/decoder_test.go:543` tests it with one call more.
- **Late tables are keyed by flags** [`KeyColumns \in keys`]. Identities are read once
  (`cmd/source-reader/main.go:188`); under FULL the whole row becomes the key, which is
  no conflict target at the destination; 385-386: "Event keys and key-change detection
  always use these discovered columns".
- **FULL without a primary key is refused** (the instance has a key).
  `cmd/source-reader/main.go:444-458`; README.md:106: "Tables without a primary key can
  still be mirrored when `REPLICA IDENTITY FULL` is set".
- **A hiccup and a crash reorder** [`Undisturbed`]. A crash between `replayHealthyEvents`
  and `quarantinePoison` lets the replay apply the interrupted event after later ones of
  its group: `writer_reorder` by another way.

## 6. Not modelled, and what is left

Not modelled: unique constraints other than the key at the destination while it
catches up; two cdcctl at once; `verifySlotRecoverable` (the model's PostgreSQL keeps
the WAL a slot needs) and the boot checks of topic and configuration, which only stop
a process; column types, casts and the creation of enums; errors of marker statements.
Left out for good: SQL text and JSON, TLS and configuration (`internal/transport`),
the observer and metrics, which nothing reads back, and wall-clock times.

What could still be proved: `HandoverConverges` for histories with faults, where the
tables to arrive at are those of the source without the quarantined events; `Meets` would
then compare with a fold over the marked events instead of over a prefix.
