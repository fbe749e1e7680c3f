------------------------------- MODULE Reader -------------------------------
(***************************************************************************)
(* The source reader (cmd/source-reader/main.go): a process that streams   *)
(* committed transactions from a PostgreSQL logical replication slot into  *)
(* a one-partition Kafka topic.  It runs two goroutines:                   *)
(*                                                                         *)
(*  - the stream loop receives pgoutput messages, lets the decoder buffer  *)
(*    a transaction until its Commit, hands the events one by one to the   *)
(*    publisher and reports the Kafka-durable LSN back to PostgreSQL;      *)
(*  - the publisher produces each event (with bounded retries) and sends   *)
(*    one result per transaction back on a channel of capacity 1.          *)
(*                                                                         *)
(* LSNs are abstracted to positions in the commit order: position t is the *)
(* end LSN of the t-th committed transaction, 0 the slot's consistent      *)
(* point.  A Kafka record is the event's identity [tx, seq], which is what *)
(* the code's event ID (commit LSN ":" sequence) determines.               *)
(***************************************************************************)
EXTENDS Integers, Sequences, FiniteSets

CONSTANTS
    EventCounts,         \* possible numbers of row changes of a source transaction
    MaxRetries,          \* retry.Default.MaxRetries: attempts of one retry.Do
    MaxTx,               \* bound: transactions the source commits
    MaxCrashes,          \* bound: exits and kills injected from outside
    MaxDrops,            \* bound: replication connection failures
    MaxProduceFailures   \* bound: failed produce attempts

ASSUME ReaderAssumption ==
    /\ EventCounts \subseteq Nat
    /\ MaxRetries \in Nat \ {0}
    /\ MaxTx \in Nat
    /\ MaxCrashes \in Nat
    /\ MaxDrops \in Nat
    /\ MaxProduceFailures \in Nat

VARIABLES
    (*********************************************************************)
    (* PostgreSQL (external).                                            *)
    (*********************************************************************)
    wal,        \* committed transactions in commit order: their event counts
    confirmed,  \* the slot's confirmed_flush_lsn
    conn,       \* "up" or "broken": the replication connection
    sender,     \* walsender position: tx transactions and msg messages of the next one
    (*********************************************************************)
    (* The stream goroutine.                                             *)
    (*********************************************************************)
    pc,         \* where the stream loop is
    resume,     \* where it goes on after a successful reconnect
    drainFor,   \* why drainPublicationResults runs: "loop" or "status"
    advanced,   \* drainPublicationResults' return value so far
    durable,    \* reader.durableLSN
    txn,        \* decoder.transaction: buffered changes, or None
    pull,       \* decoder.pull: events pulled from the committed transaction, or None
    current,    \* queueTransactionEvents' transaction descriptor [tx, count]
    seq,        \* its loop variable `sequence`
    item,       \* sendWork's message: [tx, seq], seq = 0 for the descriptor
    (*********************************************************************)
    (* The publisher goroutine and the channels.                         *)
    (*********************************************************************)
    pub,        \* where the publisher is
    held,       \* the work item it took from the channel
    attempt,    \* the attempt of retry.Do it is in
    results,    \* the results channel, capacity 1
    (*********************************************************************)
    (* Kafka (external) and the fault budgets.                           *)
    (*********************************************************************)
    log,        \* the topic's single partition
    crashes, drops, failures

source  == <<wal, confirmed, conn, sender>>
decoder == <<txn, pull>>
loop    == <<resume, drainFor, advanced, current, seq, item>>
worker  == <<pub, held, attempt>>
budgets == <<crashes, drops, failures>>
vars    == <<wal, confirmed, conn, sender, pc, resume, drainFor, advanced,
             durable, txn, pull, current, seq, item, pub, held, attempt,
             results, log, crashes, drops, failures>>

None == -1                  \* a nil pointer of the decoder
ResultsCapacity == 1        \* make(chan publicationResult, 1)

Events  == [tx : Nat, seq : Nat]       \* seq = 0 is a transaction descriptor
Results == [tx : Nat, ok : BOOLEAN]
IsDescriptor(i) == i.seq = 0

-----------------------------------------------------------------------------
(***************************************************************************)
(* PostgreSQL.                                                             *)
(***************************************************************************)

(* START_REPLICATION resends every transaction that commits at or after    *)
(* the requested point, and never one the slot has confirmed.              *)
StartReplication(lsn) ==
    /\ conn' = "up"
    /\ sender' = [tx |-> IF lsn < confirmed THEN confirmed ELSE lsn, msg |-> 0]

Init ==
    /\ wal = <<>> /\ confirmed = 0
    /\ conn = "broken" /\ sender = [tx |-> 0, msg |-> 0]
    /\ pc = "down" /\ resume = "drain" /\ drainFor = "loop" /\ advanced = FALSE
    /\ durable = 0
    /\ txn = None /\ pull = None
    /\ current = [tx |-> 0, count |-> 0] /\ seq = 1 /\ item = [tx |-> 0, seq |-> 0]
    /\ pub = "dead" /\ held = [tx |-> 0, seq |-> 0] /\ attempt = 1
    /\ results = <<>> /\ log = <<>>
    /\ crashes = 0 /\ drops = 0 /\ failures = 0

(* A source transaction with n row changes commits.                        *)
SourceCommit(n) ==
    /\ Len(wal) < MaxTx
    /\ wal' = Append(wal, n)
    /\ UNCHANGED <<confirmed, conn, sender, pc, loop, durable, decoder, worker,
                   results, log, budgets>>

(* The replication connection fails; nobody has noticed yet.               *)
ConnectionDrops ==
    /\ pc # "down" /\ conn = "up" /\ drops < MaxDrops
    /\ conn' = "broken" /\ drops' = drops + 1
    /\ UNCHANGED <<wal, confirmed, sender, pc, loop, durable, decoder, worker,
                   results, log, crashes, failures>>

-----------------------------------------------------------------------------
(***************************************************************************)
(* Process start and stop.  The supervisor restarts the process after any  *)
(* exit (docker-compose.yml: restart: unless-stopped).                     *)
(***************************************************************************)

(* Mutant of Run: the durable LSN is not read from the slot.               *)
RunWithoutSlotLSN ==
    /\ pc = "down"
    /\ durable' = 0
    /\ StartReplication(confirmed)
    /\ txn' = None /\ pull' = None
    /\ pub' = "idle" /\ results' = <<>>
    /\ pc' = "drain" /\ drainFor' = "loop" /\ advanced' = FALSE
    /\ UNCHANGED <<wal, confirmed, resume, current, seq, item, held, attempt,
                   log, budgets>>

(* Mutant of Run: resume behind what was received, not what was confirmed. *)
RunAtReceived ==
    /\ pc = "down"
    /\ durable' = confirmed
    /\ StartReplication(sender.tx)
    /\ txn' = None /\ pull' = None
    /\ pub' = "idle" /\ results' = <<>>
    /\ pc' = "drain" /\ drainFor' = "loop" /\ advanced' = FALSE
    /\ UNCHANGED <<wal, confirmed, resume, current, seq, item, held, attempt,
                   log, budgets>>

(* run: resume at the position the slot has confirmed (findSlotLSN), dial, *)
(* and enter stream with fresh channels and a fresh publisher goroutine.   *)
Run ==
    /\ pc = "down"
    /\ durable' = confirmed
    /\ StartReplication(confirmed)
    /\ txn' = None /\ pull' = None
    /\ pub' = "idle" /\ results' = <<>>
    /\ pc' = "drain" /\ drainFor' = "loop" /\ advanced' = FALSE
    /\ UNCHANGED <<wal, confirmed, resume, current, seq, item, held, attempt,
                   log, budgets>>

(* What a process exit leaves of the publisher: nothing.                   *)
PublisherGone == pub' = "dead" /\ UNCHANGED <<held, attempt>>

(* The process is killed, or a cancelled context ends it inside sendWork   *)
(* or a reconnect, without a last standby status.                          *)
Crash ==
    /\ pc # "down" /\ crashes < MaxCrashes
    /\ crashes' = crashes + 1
    /\ pc' = "down" /\ PublisherGone
    /\ UNCHANGED <<source, loop, durable, decoder, results, log, drops, failures>>

-----------------------------------------------------------------------------
(***************************************************************************)
(* The stream goroutine.                                                   *)
(***************************************************************************)

(* Mutant of StandbyThen: the flush position is reported one too far.      *)
StandbyOnePast(lsn, next) ==
    \/ conn = "up" /\ confirmed' = lsn + 1 /\ pc' = next /\ UNCHANGED worker
    \/ conn = "broken" /\ UNCHANGED confirmed /\ pc' = next /\ UNCHANGED worker
    \/ conn = "broken" /\ UNCHANGED confirmed /\ pc' = "down" /\ PublisherGone

(* Mutant of StandbyThen: the received position is reported as flushed.    *)
StandbyReceived(lsn, next) ==
    \/ conn = "up" /\ confirmed' = sender.tx /\ pc' = next /\ UNCHANGED worker
    \/ conn = "broken" /\ UNCHANGED confirmed /\ pc' = next /\ UNCHANGED worker
    \/ conn = "broken" /\ UNCHANGED confirmed /\ pc' = "down" /\ PublisherGone

(* sendStandby reports the durable position, here lsn, and the loop goes   *)
(* on at `next`; on a broken connection the report is lost, and if the     *)
(* write fails the process exits.                                          *)
StandbyThen(lsn, next) ==
    \/ conn = "up" /\ confirmed' = lsn /\ pc' = next /\ UNCHANGED worker
    \/ conn = "broken" /\ UNCHANGED confirmed /\ pc' = next /\ UNCHANGED worker
    \/ conn = "broken" /\ UNCHANGED confirmed /\ pc' = "down" /\ PublisherGone

(* applyPublicationResult: the condition under which it returns an error.  *)
ResultIsError(r) == ~r.ok \/ r.tx < durable

(* drainPublicationResults takes a result from the channel and applies it. *)
(* An error leads to recoverPublication, whose return value ends stream.   *)
DrainResult ==
    /\ pc = "drain" /\ results # <<>>
    /\ results' = Tail(results)
    /\ IF ResultIsError(Head(results))
       THEN /\ pc' = "reconnect" /\ resume' = "down"
            /\ UNCHANGED <<durable, advanced>>
       ELSE /\ durable' = Head(results).tx /\ advanced' = TRUE
            /\ UNCHANGED <<pc, resume>>
    /\ UNCHANGED <<source, drainFor, current, seq, item, decoder, worker, log,
                   budgets>>

(* Mutant of DrainDone: the loop does not wait until the channel is empty. *)
DrainDoneEarly ==
    /\ pc = "drain"
    /\ IF drainFor = "status"
       THEN StandbyThen(durable, "drain")
       ELSE IF advanced
            THEN StandbyThen(durable, "receive")
            ELSE pc' = "receive" /\ UNCHANGED <<confirmed, worker>>
    /\ drainFor' = "loop" /\ advanced' = FALSE
    /\ UNCHANGED <<wal, conn, sender, resume, current, seq, item, durable,
                   decoder, results, log, budgets>>

(* The channel is empty: report if the position advanced or if a status is *)
(* due, then receive (or, after a status, start the loop again).           *)
DrainDone ==
    /\ pc = "drain" /\ results = <<>>
    /\ IF drainFor = "status"
       THEN StandbyThen(durable, "drain")
       ELSE IF advanced
            THEN StandbyThen(durable, "receive")
            ELSE pc' = "receive" /\ UNCHANGED <<confirmed, worker>>
    /\ drainFor' = "loop" /\ advanced' = FALSE
    /\ UNCHANGED <<wal, conn, sender, resume, current, seq, item, durable,
                   decoder, results, log, budgets>>

(* The receive deadline passes, or PostgreSQL asks for a reply.            *)
StatusDue ==
    /\ pc = "receive"
    /\ pc' = "drain" /\ drainFor' = "status"
    /\ UNCHANGED <<source, resume, advanced, current, seq, item, durable,
                   decoder, worker, results, log, budgets>>

(* A message that changes nothing (a keepalive without a reply request, a  *)
(* Relation message): the loop starts again.                               *)
OtherMessage ==
    /\ pc = "receive" /\ conn = "up"
    /\ pc' = "drain"
    /\ UNCHANGED <<source, loop, durable, decoder, worker, results, log, budgets>>

(* A decoder error ends the process.                                       *)
DecodeError == pc' = "down" /\ PublisherGone /\ UNCHANGED <<decoder, current, seq>>

(* The next message of the stream is Begin: Handle opens a transaction.    *)
HandleBegin ==
    /\ pc = "receive" /\ conn = "up"
    /\ sender.tx < Len(wal) /\ sender.msg = 0
    /\ sender' = [sender EXCEPT !.msg = 1]
    /\ \/ /\ txn = None
          /\ txn' = 0 /\ pc' = "drain" /\ UNCHANGED <<pull, current, seq, worker>>
       \/ txn # None /\ DecodeError
    /\ UNCHANGED <<wal, confirmed, conn, resume, drainFor, advanced, item,
                   durable, results, log, budgets>>

(* The next message is a row change: Handle buffers it.                    *)
HandleChange ==
    /\ pc = "receive" /\ conn = "up"
    /\ sender.tx < Len(wal) /\ sender.msg \in 1 .. wal[sender.tx + 1]
    /\ sender' = [sender EXCEPT !.msg = sender.msg + 1]
    /\ \/ /\ txn # None
          /\ txn' = txn + 1 /\ pc' = "drain" /\ UNCHANGED <<pull, current, seq, worker>>
       \/ txn = None /\ DecodeError
    /\ UNCHANGED <<wal, confirmed, conn, resume, drainFor, advanced, item,
                   durable, results, log, budgets>>

(* The next message is Commit: Handle returns the descriptor and           *)
(* queueTransactionEvents begins.                                          *)
HandleCommit ==
    /\ pc = "receive" /\ conn = "up"
    /\ sender.tx < Len(wal) /\ sender.msg = wal[sender.tx + 1] + 1
    /\ sender' = [tx |-> sender.tx + 1, msg |-> 0]
    /\ \/ /\ txn # None
          /\ txn' = None /\ pull' = 0
          /\ current' = [tx |-> sender.tx + 1, count |-> txn]
          /\ seq' = 1
          /\ pc' = "queue" /\ UNCHANGED worker
       \/ txn = None /\ DecodeError
    /\ UNCHANGED <<wal, confirmed, conn, resume, drainFor, advanced, item,
                   durable, results, log, budgets>>

(* ReceiveMessage fails on the broken connection.                          *)
ReceiveError ==
    /\ pc = "receive" /\ conn = "broken"
    /\ pc' = "reconnect" /\ resume' = "drain"
    /\ UNCHANGED <<source, drainFor, advanced, current, seq, item, durable,
                   decoder, worker, results, log, budgets>>

(* A termination signal arrives in ReceiveMessage: finalStandby, then exit.*)
Shutdown ==
    /\ pc = "receive" /\ crashes < MaxCrashes
    /\ crashes' = crashes + 1
    /\ confirmed' = IF conn = "up" THEN durable ELSE confirmed
    /\ pc' = "down" /\ PublisherGone
    /\ UNCHANGED <<wal, conn, sender, loop, durable, decoder, results, log,
                   drops, failures>>

(* queueTransactionEvents pulls event `seq` from the decoder.              *)
PullEvent ==
    /\ pc = "queue" /\ seq <= current.count
    /\ \/ /\ pull # None
          /\ pull' = pull + 1
          /\ item' = [tx |-> current.tx, seq |-> pull + 1]
          /\ pc' = "send" /\ UNCHANGED worker
       \/ /\ pull = None                \* "no open transaction to pull"
          /\ pc' = "down" /\ PublisherGone /\ UNCHANGED <<pull, item>>
    /\ UNCHANGED <<source, resume, drainFor, advanced, current, seq, durable,
                   txn, results, log, budgets>>

(* All events are handed over: the transaction descriptor follows them.    *)
QueueDescriptor ==
    /\ pc = "queue" /\ seq > current.count
    /\ item' = [tx |-> current.tx, seq |-> 0]
    /\ pc' = "send"
    /\ UNCHANGED <<source, resume, drainFor, advanced, current, seq, durable,
                   decoder, worker, results, log, budgets>>

(* Where sendWork's return (with a nil error) leads its caller.            *)
AfterSendWork == IF IsDescriptor(item) THEN "drain" ELSE "queue"

(* sendWork: the publisher takes the message.                              *)
SendWork ==
    /\ pc = "send" /\ pub = "idle"
    /\ held' = item /\ attempt' = 1
    /\ pub' = IF IsDescriptor(item) THEN "report" ELSE "produce"
    /\ pc' = AfterSendWork
    /\ seq' = IF IsDescriptor(item) THEN seq ELSE seq + 1
    /\ drainFor' = "loop" /\ advanced' = FALSE
    /\ UNCHANGED <<source, resume, current, item, durable, decoder, results,
                   log, budgets>>

(* sendWork: a result of an earlier transaction arrives first.             *)
SendWorkAcked ==
    /\ pc = "send" /\ results # <<>>
    /\ ~ResultIsError(Head(results))
    /\ results' = Tail(results)
    /\ durable' = Head(results).tx
    /\ StandbyThen(Head(results).tx, "send")
    /\ UNCHANGED <<wal, conn, sender, loop, decoder, log, budgets>>

(* sendWork: the result is an error.  After a successful reconnect         *)
(* recoverPublication returns nil and sendWork returns as if the message   *)
(* had been sent.                                                          *)
SendWorkFailed ==
    /\ pc = "send" /\ results # <<>>
    /\ ResultIsError(Head(results))
    /\ results' = Tail(results)
    /\ pc' = "reconnect" /\ resume' = AfterSendWork
    /\ seq' = IF IsDescriptor(item) THEN seq ELSE seq + 1
    /\ drainFor' = "loop" /\ advanced' = FALSE
    /\ UNCHANGED <<source, current, item, durable, decoder, worker, log, budgets>>

(* sendWork: the status timer fires.                                       *)
SendWorkStatus ==
    /\ pc = "send"
    /\ StandbyThen(durable, "send")
    /\ UNCHANGED <<wal, conn, sender, loop, durable, decoder, results, log, budgets>>

(* Mutant of Reconnect: dial at the slot's LSN instead of the durable one. *)
ReconnectAtConfirmed ==
    /\ pc = "reconnect"
    /\ StartReplication(confirmed)
    /\ txn' = None /\ pull' = None
    /\ pc' = resume
    /\ IF resume = "down" THEN PublisherGone ELSE UNCHANGED worker
    /\ UNCHANGED <<wal, confirmed, loop, durable, results, log, budgets>>

(* reconnect: dial at the durable LSN and reset the decoder.               *)
Reconnect ==
    /\ pc = "reconnect"
    /\ StartReplication(durable)
    /\ txn' = None /\ pull' = None
    /\ pc' = resume
    /\ IF resume = "down" THEN PublisherGone ELSE UNCHANGED worker
    /\ UNCHANGED <<wal, confirmed, loop, durable, results, log, budgets>>

(* reconnect: every dial attempt fails and the process exits.              *)
ReconnectFails ==
    /\ pc = "reconnect" /\ drops < MaxDrops
    /\ drops' = drops + 1
    /\ conn' = "broken"
    /\ pc' = "down" /\ PublisherGone
    /\ UNCHANGED <<wal, confirmed, sender, loop, durable, decoder, results, log,
                   crashes, failures>>

-----------------------------------------------------------------------------
(***************************************************************************)
(* The publisher goroutine.                                                *)
(***************************************************************************)

(* The broker appends the record of the produce request in flight.         *)
KafkaAppend ==
    /\ pub = "produce"
    /\ log' = Append(log, held)
    /\ pub' = "appended"
    /\ UNCHANGED <<source, pc, loop, durable, decoder, held, attempt, results,
                   budgets>>

(* publishTransactionEvent returns nil: the record is acknowledged.        *)
PublishAcked ==
    /\ pub = "appended"
    /\ pub' = "idle"
    /\ UNCHANGED <<source, pc, loop, durable, decoder, held, attempt, results,
                   log, budgets>>

(* Mutant of PublishFailed: exhausted retries are logged and ignored.      *)
PublishFailureIgnored ==
    /\ pub \in {"produce", "appended"} /\ failures < MaxProduceFailures
    /\ failures' = failures + 1
    /\ IF attempt < MaxRetries
       THEN pub' = "produce" /\ attempt' = attempt + 1
       ELSE pub' = "idle" /\ UNCHANGED attempt
    /\ UNCHANGED <<source, pc, loop, durable, decoder, held, results, log,
                   crashes, drops>>

(* Mutant of PublishFailed: retry.Do stops one attempt short.              *)
PublishGivesUpEarly ==
    /\ pub \in {"produce", "appended"} /\ failures < MaxProduceFailures
    /\ failures' = failures + 1
    /\ IF attempt + 1 < MaxRetries
       THEN pub' = "produce" /\ attempt' = attempt + 1
       ELSE pub' = "failing" /\ UNCHANGED attempt
    /\ UNCHANGED <<source, pc, loop, durable, decoder, held, results, log,
                   crashes, drops>>

(* publishTransactionEvent fails, whether or not the broker appended the   *)
(* record; retry.Do tries again until its attempts are used up.            *)
PublishFailed ==
    /\ pub \in {"produce", "appended"} /\ failures < MaxProduceFailures
    /\ failures' = failures + 1
    /\ IF attempt < MaxRetries
       THEN pub' = "produce" /\ attempt' = attempt + 1
       ELSE pub' = "failing" /\ UNCHANGED attempt
    /\ UNCHANGED <<source, pc, loop, durable, decoder, held, results, log,
                   crashes, drops>>

(* After a hard failure the publisher reports it and exits.                *)
ReportFailure ==
    /\ pub = "failing" /\ Len(results) < ResultsCapacity
    /\ results' = Append(results, [tx |-> held.tx, ok |-> FALSE])
    /\ pub' = "dead"
    /\ UNCHANGED <<source, pc, loop, durable, decoder, held, attempt, log, budgets>>

(* The descriptor says that every event of the transaction is published.   *)
ReportTransaction ==
    /\ pub = "report" /\ Len(results) < ResultsCapacity
    /\ results' = Append(results, [tx |-> held.tx, ok |-> TRUE])
    /\ pub' = "idle"
    /\ UNCHANGED <<source, pc, loop, durable, decoder, held, attempt, log, budgets>>

-----------------------------------------------------------------------------
HandleMessage == HandleBegin \/ HandleChange \/ HandleCommit

Stream ==
    \/ DrainResult \/ DrainDone \/ StatusDue \/ OtherMessage
    \/ HandleBegin \/ HandleChange \/ HandleCommit \/ ReceiveError
    \/ PullEvent \/ QueueDescriptor
    \/ SendWork \/ SendWorkAcked \/ SendWorkFailed \/ SendWorkStatus
    \/ Reconnect

Publisher ==
    KafkaAppend \/ PublishAcked \/ PublishFailed \/ ReportFailure \/ ReportTransaction

Environment ==
    \/ \E n \in EventCounts : SourceCommit(n)
    \/ ConnectionDrops \/ Crash \/ Shutdown \/ ReconnectFails

Next == Run \/ Stream \/ Publisher \/ Environment

Spec == Init /\ [][Next]_vars

(* What the stream loop does without waiting for a message.                *)
StreamLoop ==
    \/ DrainResult \/ DrainDone \/ PullEvent \/ QueueDescriptor
    \/ SendWork \/ SendWorkAcked \/ SendWorkFailed \/ Reconnect

(***************************************************************************)
(* Fairness.  The supervisor restarts the process; both goroutines are     *)
(* scheduled, and a produce is eventually answered.  Data waiting on the   *)
(* connection, or its failure, is eventually received even though status   *)
(* deadlines keep passing (strong fairness: TCP delivers in order, so      *)
(* keepalives do not overtake data), and nextStatus is an absolute         *)
(* deadline, which passes even though other messages keep arriving.        *)
(***************************************************************************)
Fairness ==
    /\ WF_vars(Run) /\ WF_vars(StreamLoop) /\ WF_vars(Publisher)
    /\ SF_vars(HandleMessage) /\ SF_vars(ReceiveError) /\ SF_vars(StatusDue)

FairSpec == Spec /\ Fairness

-----------------------------------------------------------------------------
(***************************************************************************)
(* Properties.                                                             *)
(***************************************************************************)

T == INSTANCE Topic

PositionsOK ==
    /\ wal \in Seq(Nat)
    /\ confirmed \in 0 .. Len(wal) /\ durable \in 0 .. Len(wal)
    /\ conn \in {"up", "broken"}
    /\ sender \in [tx : Nat, msg : Nat] /\ sender.tx <= Len(wal)
LoopOK ==
    /\ pc \in {"down", "drain", "receive", "queue", "send", "reconnect"}
    /\ resume \in {"drain", "queue", "down"}
    /\ drainFor \in {"loop", "status"} /\ advanced \in BOOLEAN
    /\ txn \in Nat \cup {None} /\ pull \in Nat \cup {None}
    /\ current \in [tx : Nat, count : Nat] /\ current.tx <= Len(wal)
    /\ seq \in Nat \ {0}
    /\ item \in Events /\ item.tx <= Len(wal)
PublisherOK ==
    /\ pub \in {"idle", "produce", "appended", "failing", "report", "dead"}
    /\ held \in Events /\ held.tx <= Len(wal)
    /\ attempt \in 1 .. MaxRetries
ChannelOK ==
    /\ results \in Seq(Results) /\ Len(results) <= ResultsCapacity
    /\ results # <<>> => results[1].tx <= Len(wal)
LogOK ==
    /\ log \in Seq(Events)
    /\ crashes \in 0 .. MaxCrashes /\ drops \in 0 .. MaxDrops
    /\ failures \in 0 .. MaxProduceFailures

(* Every variable has its type, and the positions the reader and the slot  *)
(* hold never exceed what the source has committed.                        *)
TypeOK == PositionsOK /\ LoopOK /\ PublisherOK /\ ChannelOK /\ LogOK

(* stream's invariant (main.go: "the WAL position reported back to         *)
(* PostgreSQL never exceeds what Kafka has confirmed"): PostgreSQL may     *)
(* recycle WAL only up to a position all of whose transactions have every  *)
(* event in the topic, whatever crashes, drops and produce failures occur. *)
ConfirmedOnlyAfterKafka == T!CompleteUpTo(confirmed)

(* applyPublicationResult's "completed out of source order" error cannot   *)
(* happen: no replay after a reconnect makes a pending result stale.       *)
NeverOutOfSourceOrder ==
    \A i \in DOMAIN results : results[i].ok => results[i].tx >= durable

(* The reader implements Topic: each record continues, repeats or restarts *)
(* as Topic allows, so replays never leave a gap.                          *)
ImplementsTopic == T!Spec

(* Records that repeat are replays: the first occurrence of each event in  *)
(* the topic comes after the first occurrence of the events before it.     *)
FirstOccurrencesInSourceOrder == T!FirstOccurrencesInSourceOrder

(* The stream loop decodes at most one transaction beyond the durable one: *)
(* the channel hand-off is what bounds how far Kafka can fall behind.      *)
AtMostOneUnacknowledged ==
    pc = "receive" /\ pub # "dead" => sender.tx <= durable + 1

(* The slot's position never moves back, across reconnects and restarts    *)
(* included: WAL that PostgreSQL may have recycled is never asked for.     *)
SlotNeverRegresses == [][confirmed' >= confirmed]_vars

(* Again and again everything committed is acknowledged, although the      *)
(* reader crashes, loses its connection and retries produces; unless       *)
(* retry.Do's attempts failed and the publisher has given up on an event   *)
(* (OutageRiddenOut).                                                      *)
GaveUp == pub = "dead" /\ pc # "down" /\ failures >= MaxRetries
EveryTransactionAcknowledged == []<>(confirmed = Len(wal) \/ GaveUp)

(* A Kafka outage is ridden out (recoverPublication: "a reconnect at the   *)
(* Kafka-durable LSN instead of an exit ... PostgreSQL replays the         *)
(* un-published transaction once publishing succeeds again"): the same     *)
(* promise when an event exhausts its produce retries.                     *)
OutageRiddenOut ==
    \A t \in 1 .. MaxTx : (t <= Len(wal) /\ pub = "failing") ~> confirmed >= t
=============================================================================
