------------------------------- MODULE Fence -------------------------------
(***************************************************************************)
(* Several source readers for one replication slot: acquireFence's         *)
(* advisory lock, findSlotLSN, createReplicationSlot and the dial          *)
(* (cmd/source-reader/main.go: run), with the stream abstracted to what    *)
(* the Reader module shows of it: events in source order, a Kafka-durable  *)
(* position, and at most one transaction under way.                        *)
(*                                                                         *)
(* PostgreSQL ends the lock and the walsender with their connections.  The *)
(* reader never looks at the fence's connection again, and it learns that  *)
(* the stream is gone only when it next receives.                          *)
(***************************************************************************)
EXTENDS Integers, Sequences

CONSTANTS
    Readers,        \* the reader processes
    Wal,            \* committed transactions: their event counts
    Nobody,         \* holds a lock or a slot that is free
    MaxExits,       \* bound: readers that die
    MaxFenceDrops,  \* bound: fence connections that fail
    MaxStreamDrops  \* bound: replication connections that fail

ASSUME FenceAssumption ==
    /\ Wal \in Seq(Nat \ {0})
    /\ Nobody \notin Readers
    /\ MaxExits \in Nat /\ MaxFenceDrops \in Nat /\ MaxStreamDrops \in Nat

VARIABLES
    lock,       \* the session that holds the advisory lock
    slot,       \* the slot exists
    active,     \* the session that streams from the slot
    confirmed,  \* the slot's confirmed position
    log,        \* the Kafka topic
    pc,         \* where each reader is
    found,      \* its slotExists
    durable,    \* its Kafka-durable position
    sent,       \* transactions its walsender has sent
    held,       \* events it has received and not yet produced
    exits, fenceDrops, streamDrops

server  == <<lock, slot, active, confirmed>>
stream  == <<durable, sent, held>>
budgets == <<exits, fenceDrops, streamDrops>>
vars    == <<lock, slot, active, confirmed, log, pc, found, durable, sent, held,
             exits, fenceDrops, streamDrops>>

T == INSTANCE Topic WITH wal <- Wal, EventCounts <- Nat

Init ==
    /\ lock = Nobody /\ slot = FALSE /\ active = Nobody /\ confirmed = 0 /\ log = <<>>
    /\ pc = [r \in Readers |-> "down"] /\ found = [r \in Readers |-> FALSE]
    /\ durable = [r \in Readers |-> 0] /\ sent = [r \in Readers |-> 0]
    /\ held = [r \in Readers |-> <<>>]
    /\ exits = 0 /\ fenceDrops = 0 /\ streamDrops = 0

Goto(r, next) == pc' = [pc EXCEPT ![r] = next]
Freed(holder, r) == IF holder = r THEN Nobody ELSE holder

-----------------------------------------------------------------------------
(* Mutant of AcquireFence: the result of pg_try_advisory_lock is ignored.  *)
AcquireAnyway(r) ==
    /\ pc[r] = "down"
    /\ lock' = (IF lock = Nobody THEN r ELSE lock) /\ Goto(r, "find")
    /\ UNCHANGED <<slot, active, confirmed, log, found, stream, budgets>>

(* acquireFence.  A reader that is refused exits and is started again.     *)
AcquireFence(r) ==
    /\ pc[r] = "down" /\ lock = Nobody
    /\ lock' = r /\ Goto(r, "find")
    /\ UNCHANGED <<slot, active, confirmed, log, found, stream, budgets>>

(* findSlotLSN: whether the slot exists and what it has confirmed.         *)
FindSlot(r) ==
    /\ pc[r] = "find" /\ Goto(r, "create")
    /\ found' = [found EXCEPT ![r] = slot]
    /\ durable' = [durable EXCEPT ![r] = confirmed]
    /\ UNCHANGED <<server, log, sent, held, budgets>>

(* What the end of the process leaves: both sessions end.                  *)
Ends(r) ==
    /\ Goto(r, "down")
    /\ lock' = Freed(lock, r) /\ active' = Freed(active, r)
    /\ held' = [held EXCEPT ![r] = <<>>]
    /\ UNCHANGED <<slot, confirmed, log, found, durable, sent>>

(* Mutant of CreateReplicationSlot: the slot is always created.            *)
CreateAlways(r) ==
    /\ pc[r] = "create"
    /\ IF slot
       THEN Ends(r)
       ELSE /\ slot' = TRUE /\ Goto(r, "dial")
            /\ UNCHANGED <<lock, active, confirmed, log, found, stream>>
    /\ UNCHANGED budgets

(* run: create the slot unless it was found; another reader may have       *)
(* created it since, and then the reader exits.                            *)
CreateReplicationSlot(r) ==
    /\ pc[r] = "create"
    /\ IF ~found[r] /\ slot
       THEN Ends(r)
       ELSE /\ slot' = TRUE /\ Goto(r, "dial")
            /\ UNCHANGED <<lock, active, confirmed, log, found, stream>>
    /\ UNCHANGED budgets

(* Mutant of DialReplication: resume behind the last record of the topic.  *)
DialPastOpen(r) ==
    /\ pc[r] \in {"dial", "reconnect"} /\ active = Nobody
    /\ active' = r /\ Goto(r, "stream")
    /\ sent' = [sent EXCEPT ![r] = IF log = <<>> THEN confirmed ELSE log[Len(log)].tx]
    /\ UNCHANGED <<lock, slot, confirmed, log, found, durable, held, budgets>>

(* dialReplication: PostgreSQL gives the slot to one walsender, which      *)
(* starts at the requested position or at the confirmed one, if later.     *)
DialReplication(r) ==
    /\ pc[r] \in {"dial", "reconnect"} /\ active = Nobody
    /\ active' = r /\ Goto(r, "stream")
    /\ sent' = [sent EXCEPT ![r] = IF durable[r] < confirmed THEN confirmed ELSE durable[r]]
    /\ UNCHANGED <<lock, slot, confirmed, log, found, durable, held, budgets>>

(* The slot is active for another session: the reader exits, when it       *)
(* reconnects after the retries.                                           *)
DialRefused(r) ==
    /\ pc[r] \in {"dial", "reconnect"} /\ active # Nobody
    /\ Ends(r) /\ UNCHANGED budgets

-----------------------------------------------------------------------------
(* stream, HandleCommit: a transaction is decoded, its events are queued.  *)
Receive(r) ==
    /\ pc[r] = "stream" /\ active = r /\ held[r] = <<>> /\ sent[r] < Len(Wal)
    /\ sent' = [sent EXCEPT ![r] = @ + 1]
    /\ held' = [held EXCEPT ![r] =
                  [k \in 1 .. Wal[sent[r] + 1] |-> T!Record(sent[r] + 1, k)]]
    /\ UNCHANGED <<server, log, pc, found, durable, budgets>>

(* publishTransactionEvent, and applyPublicationResult after the last      *)
(* event.  It needs neither the stream nor the fence.                      *)
Produce(r) ==
    /\ held[r] # <<>>
    /\ LET e == Head(held[r])
       IN  /\ log' = Append(log, e)
           /\ durable' = IF e.seq = Wal[e.tx] THEN [durable EXCEPT ![r] = e.tx] ELSE durable
    /\ held' = [held EXCEPT ![r] = Tail(@)]
    /\ UNCHANGED <<server, pc, found, sent, budgets>>

(* Mutant of SendStandby: what was received is reported as flushed.        *)
SendStandbyReceived(r) ==
    /\ pc[r] = "stream" /\ active = r
    /\ confirmed' = sent[r]
    /\ UNCHANGED <<lock, slot, active, log, pc, found, stream, budgets>>

(* sendStandby.  A position behind the confirmed one (another reader was   *)
(* there in between) is ignored, or, in older releases, taken.             *)
SendStandby(r) ==
    /\ pc[r] = "stream" /\ active = r
    /\ \/ confirmed' = durable[r]
       \/ durable[r] < confirmed /\ UNCHANGED confirmed
    /\ UNCHANGED <<lock, slot, active, log, pc, found, stream, budgets>>

(* Mutant of ReceiveError: reconnect with events of a transaction queued.  *)
ReceiveErrorEarly(r) ==
    /\ pc[r] = "stream" /\ active # r
    /\ Goto(r, "reconnect")
    /\ UNCHANGED <<server, log, found, stream, budgets>>

(* stream: ReceiveMessage fails, reconnect follows.                        *)
ReceiveError(r) ==
    /\ pc[r] = "stream" /\ active # r /\ held[r] = <<>>
    /\ Goto(r, "reconnect")
    /\ UNCHANGED <<server, log, found, stream, budgets>>

-----------------------------------------------------------------------------
(* The fence's connection fails: the lock is free, nobody is told.         *)
FenceDrops(r) ==
    /\ lock = r /\ fenceDrops < MaxFenceDrops
    /\ lock' = Nobody /\ fenceDrops' = fenceDrops + 1
    /\ UNCHANGED <<slot, active, confirmed, log, pc, found, stream, exits, streamDrops>>

(* The replication connection fails, or the walsender times out.           *)
StreamDrops(r) ==
    /\ active = r /\ streamDrops < MaxStreamDrops
    /\ active' = Nobody /\ streamDrops' = streamDrops + 1
    /\ UNCHANGED <<lock, slot, confirmed, log, pc, found, stream, exits, fenceDrops>>

Exit(r) ==
    /\ pc[r] # "down" /\ exits < MaxExits
    /\ Ends(r) /\ exits' = exits + 1
    /\ UNCHANGED <<fenceDrops, streamDrops>>

Work(r) ==
    \/ AcquireFence(r) \/ FindSlot(r) \/ CreateReplicationSlot(r)
    \/ DialReplication(r) \/ DialRefused(r)
    \/ Receive(r) \/ Produce(r) \/ ReceiveError(r)

Next == \E r \in Readers : Work(r) \/ SendStandby(r) \/ FenceDrops(r) \/ StreamDrops(r) \/ Exit(r)

Spec == Init /\ [][Next]_vars

(* Supervisors restart the readers; each reader's loop makes progress and  *)
(* reports its position again and again.                                   *)
FairSpec ==
    Spec /\ \A r \in Readers :
        /\ WF_vars(FindSlot(r)) /\ WF_vars(CreateReplicationSlot(r))
        /\ WF_vars(DialReplication(r) \/ DialRefused(r)) /\ WF_vars(Receive(r))
        /\ WF_vars(Produce(r)) /\ WF_vars(ReceiveError(r)) /\ WF_vars(SendStandby(r))
        /\ WF_vars(AcquireFence(r))

-----------------------------------------------------------------------------
(***************************************************************************)
(* Properties.                                                             *)
(***************************************************************************)

(* Every variable has its type.                                            *)
TypeOK ==
    /\ lock \in Readers \cup {Nobody} /\ active \in Readers \cup {Nobody}
    /\ slot \in BOOLEAN /\ confirmed \in 0 .. Len(Wal)
    /\ pc \in [Readers -> {"down", "find", "create", "dial", "stream", "reconnect"}]
    /\ found \in [Readers -> BOOLEAN]
    /\ durable \in [Readers -> 0 .. Len(Wal)] /\ sent \in [Readers -> 0 .. Len(Wal)]
    /\ \A r \in Readers : \A i \in DOMAIN held[r] : held[r][i].tx \in 1 .. sent[r]
    /\ exits \in 0 .. MaxExits /\ fenceDrops \in 0 .. MaxFenceDrops
    /\ streamDrops \in 0 .. MaxStreamDrops

(* "Only one reader may own a slot" (README): as long as no fence          *)
(* connection has failed, at most one reader is past acquireFence.  After  *)
(* a failure two readers may publish beside each other.                    *)
OneReader ==
    fenceDrops = 0 => \A r, s \in Readers : pc[r] # "down" /\ pc[s] # "down" => r = s

(* The slot is confirmed only up to what Kafka holds, also when a reader   *)
(* that has lost its fence publishes beside its successor.                 *)
ConfirmedOnlyAfterKafka == T!CompleteUpTo(confirmed)

(* Racing readers repeat and interleave events, but the first occurrence   *)
(* of each event still follows those of all events before it.              *)
FirstOccurrencesInSourceOrder == T!FirstOccurrencesInSourceOrder

(* A standby reader takes over: every transaction is eventually confirmed, *)
(* whichever readers die or lose a connection.                             *)
FailoverCompletes == <>(confirmed = Len(Wal))
=============================================================================
