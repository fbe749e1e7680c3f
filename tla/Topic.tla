-------------------------------- MODULE Topic --------------------------------
(***************************************************************************)
(* What the source reader promises about the Kafka topic, without saying   *)
(* how: every record continues the transaction of the record before it,    *)
(* repeats that record, or starts a transaction all of whose predecessors  *)
(* are already in the topic in full.  Replays after a crash, a reconnect   *)
(* or an ambiguous produce are the last two cases.                         *)
(***************************************************************************)
EXTENDS Integers, Sequences

CONSTANT EventCounts   \* possible numbers of row changes of a source transaction

VARIABLES
    wal,   \* committed source transactions in commit order: their event counts
    log    \* the topic's single partition: event identities [tx, seq]

Record(t, k) == [tx |-> t, seq |-> k]

Published(t, k) == \E i \in 1 .. Len(log) : log[i] = Record(t, k)
Complete(t)     == \A k \in 1 .. wal[t] : Published(t, k)
CompleteUpTo(t) == \A s \in 1 .. t : Complete(s)

IsLast(e) == Len(log) # 0 /\ log[Len(log)] = e

(* The next event of the transaction that the last record belongs to.      *)
Continues(e) == e.seq > 1 /\ IsLast(Record(e.tx, e.seq - 1))
(* The first event of a transaction: the next one, or one that is replayed.*)
Starts(e) == e.seq = 1 /\ CompleteUpTo(e.tx - 1)
(* The last record once more: a produce that was appended but reported as  *)
(* failed and tried again.                                                 *)
Repeats(e) == IsLast(e)

Follows(e) == Continues(e) \/ Starts(e) \/ Repeats(e)

Init == wal = <<>> /\ log = <<>>

Commit == \E n \in EventCounts : wal' = Append(wal, n) /\ UNCHANGED log

Publish ==
    \E t \in 1 .. Len(wal) : \E k \in 1 .. wal[t] :
        /\ Follows(Record(t, k))
        /\ log' = Append(log, Record(t, k))
        /\ UNCHANGED wal

Next == Commit \/ Publish

Spec == Init /\ [][Next]_<<wal, log>>

(* The first occurrence of each event comes after the first occurrences of *)
(* all events before it in source order: a consumer that drops repeated    *)
(* event IDs sees the source order without a gap.                          *)
FirstOccurrencesInSourceOrder ==
    \A i \in 1 .. Len(log) :
        LET Before(t, k) == \E h \in 1 .. i - 1 : log[h] = Record(t, k)
        IN  /\ \A k \in 1 .. log[i].seq - 1 : Before(log[i].tx, k)
            /\ \A t \in 1 .. log[i].tx - 1 : \A k \in 1 .. wal[t] : Before(t, k)
=============================================================================
