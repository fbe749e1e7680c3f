------------------------------- MODULE Spool -------------------------------
(***************************************************************************)
(* The decoder's buffer (internal/source/decoder.go): the row changes of   *)
(* the open transaction are kept in memory up to spoolCap and then in a    *)
(* temporary file; Commit turns the buffer into a pullState, from which    *)
(* queueTransactionEvents (cmd/source-reader/main.go) pulls the events one *)
(* by one.  A reconnect resets the decoder between any two messages or     *)
(* events; PostgreSQL then resends transactions from an earlier one on.    *)
(***************************************************************************)
EXTENDS Integers, Sequences

CONSTANTS
    Sizes,      \* the source's transactions: their numbers of row changes
    SpoolCap,   \* decoder.spoolCap
    MaxResets,  \* bound: reconnects
    MaxExits    \* bound: exits of the reader, failed reads of a spool file included

ASSUME SpoolAssumption ==
    Sizes \in Seq(Nat) /\ SpoolCap \in Nat /\ MaxResets \in Nat /\ MaxExits \in Nat

VARIABLES
    tx,          \* the transaction the walsender is at (external)
    got,         \* messages of it that were received, Begin included
    transaction, \* decoder.transaction: [mem, spool], spool = 0 for no file
    pull,        \* decoder.pull: [changes, spool, read, seq]
    files,       \* the temporary files: [data, linked]
    pc,          \* where the stream loop is
    current,     \* queueTransactionEvents' transaction: [tx, Count]
    pulled,      \* the events it has pulled
    drained,     \* history: the files of the transactions pulled whole
    resets, exits

decoder == <<transaction, pull, files>>
caller  == <<current, pulled, drained>>
vars    == <<tx, got, transaction, pull, files, pc, current, pulled, drained, resets, exits>>

Nil == [nil |-> TRUE]

Change(t, k) == [tx |-> t, seq |-> k]

Init ==
    /\ tx = 1 /\ got = 0
    /\ transaction = Nil /\ pull = Nil /\ files = <<>>
    /\ pc = "receive" /\ current = Change(0, 0) /\ pulled = <<>> /\ drained = {}
    /\ resets = 0 /\ exits = 0

(* os.Remove of a spool file.                                              *)
Remove(fs, f) == IF f = 0 THEN fs ELSE [fs EXCEPT ![f].linked = FALSE]
SpoolOf(buffer) == IF buffer = Nil THEN 0 ELSE buffer.spool

-----------------------------------------------------------------------------
(* Handle, BeginMessage.                                                   *)
Begin ==
    /\ pc = "receive" /\ tx <= Len(Sizes) /\ got = 0
    /\ got' = 1 /\ transaction' = [mem |-> <<>>, spool |-> 0]
    /\ UNCHANGED <<tx, pull, files, pc, caller, resets, exits>>

(* Handle, a row change, and append: memory first, then the spool file,    *)
(* which the first change beyond the cap creates.                          *)
AppendChange ==
    /\ pc = "receive" /\ transaction # Nil /\ got <= Sizes[tx]
    /\ got' = got + 1
    /\ LET c == Change(tx, got)
           f == transaction.spool
       IN  \/ /\ Len(transaction.mem) < SpoolCap
              /\ transaction' = [transaction EXCEPT !.mem = Append(@, c)]
              /\ UNCHANGED files
           \/ /\ Len(transaction.mem) >= SpoolCap /\ f = 0
              /\ files' = Append(files, [data |-> <<c>>, linked |-> TRUE])
              /\ transaction' = [transaction EXCEPT !.spool = Len(files) + 1]
           \/ /\ Len(transaction.mem) >= SpoolCap /\ f # 0
              /\ files' = [files EXCEPT ![f].data = Append(@, c)]
              /\ UNCHANGED transaction
    /\ UNCHANGED <<tx, pull, pc, caller, resets, exits>>

SpoolN == IF transaction.spool = 0 THEN 0 ELSE Len(files[transaction.spool].data)

(* Mutant of Commit: the spool file is not rewound.                        *)
CommitAtEnd ==
    /\ pc = "receive" /\ transaction # Nil /\ got = Sizes[tx] + 1
    /\ tx' = tx + 1 /\ got' = 0
    /\ transaction' = Nil
    /\ pull' = [changes |-> transaction.mem, spool |-> transaction.spool,
                read |-> SpoolN, seq |-> 0]
    /\ pc' = "queue" /\ pulled' = <<>>
    /\ current' = Change(tx, Len(transaction.mem) + SpoolN)
    /\ UNCHANGED <<files, drained, resets, exits>>

(* Handle, CommitMessage: the buffer becomes the new pullState, with the   *)
(* file rewound.  The last pullState is dropped as it is.                  *)
Commit ==
    /\ pc = "receive" /\ transaction # Nil /\ got = Sizes[tx] + 1
    /\ tx' = tx + 1 /\ got' = 0
    /\ transaction' = Nil
    /\ pull' = [changes |-> transaction.mem, spool |-> transaction.spool,
                read |-> 0, seq |-> 0]
    /\ pc' = "queue" /\ pulled' = <<>>
    /\ current' = Change(tx, Len(transaction.mem) + SpoolN)
    /\ UNCHANGED <<files, drained, resets, exits>>

-----------------------------------------------------------------------------
(* Mutant of NextFromMemory: the spool file goes first.                    *)
NextFromMemoryLast ==
    /\ pc = "queue" /\ Len(pulled) < current.seq
    /\ pull # Nil /\ pull.seq < Len(pull.changes)
    /\ pulled' = Append(pulled, IF pull.spool # 0 /\ pull.seq < Len(files[pull.spool].data)
                                THEN files[pull.spool].data[pull.seq + 1]
                                ELSE pull.changes[pull.seq + 1])
    /\ pull' = [pull EXCEPT !.seq = @ + 1]
    /\ UNCHANGED <<tx, got, transaction, files, pc, current, drained, resets, exits>>

(* queueTransactionEvents asks NextEvent for an event that memory holds.   *)
NextFromMemory ==
    /\ pc = "queue" /\ Len(pulled) < current.seq
    /\ pull # Nil /\ pull.seq < Len(pull.changes)
    /\ pulled' = Append(pulled, pull.changes[pull.seq + 1])
    /\ pull' = [pull EXCEPT !.seq = @ + 1]
    /\ UNCHANGED <<tx, got, transaction, files, pc, current, drained, resets, exits>>

(* The same for an event in the spool file.                                *)
NextFromSpool ==
    /\ pc = "queue" /\ Len(pulled) < current.seq
    /\ pull # Nil /\ pull.seq >= Len(pull.changes) /\ pull.spool # 0
    /\ pull.read < Len(files[pull.spool].data)
    /\ pulled' = Append(pulled, files[pull.spool].data[pull.read + 1])
    /\ pull' = [pull EXCEPT !.seq = @ + 1, !.read = @ + 1]
    /\ UNCHANGED <<tx, got, transaction, files, pc, current, drained, resets, exits>>

(* NextEvent finds the end of the buffer, or cannot read or decode the     *)
(* spool file: closePull, and the reader exits; in the first case because  *)
(* the transaction "ended early".                                          *)
NextFails ==
    /\ pc = "queue" /\ Len(pulled) < current.seq
    /\ pull # Nil /\ pull.seq >= Len(pull.changes)
    /\ IF pull.spool # 0 /\ pull.read < Len(files[pull.spool].data)
       THEN exits < MaxExits /\ exits' = exits + 1 /\ pc' = "down"
       ELSE pc' = "early" /\ UNCHANGED exits
    /\ files' = Remove(files, pull.spool) /\ pull' = Nil
    /\ UNCHANGED <<tx, got, transaction, caller, resets>>

(* NextEvent after a reset: "no open transaction to pull", the reader      *)
(* exits.                                                                  *)
NothingToPull ==
    /\ pc = "queue" /\ Len(pulled) < current.seq /\ pull = Nil
    /\ pc' = "down"
    /\ UNCHANGED <<tx, got, decoder, caller, resets, exits>>

(* All Count events are pulled; NextEvent is not called again.             *)
Queued ==
    /\ pc = "queue" /\ Len(pulled) = current.seq
    /\ pc' = "receive"
    /\ drained' = IF pull = Nil \/ pull.spool = 0 THEN drained ELSE drained \cup {pull.spool}
    /\ UNCHANGED <<tx, got, decoder, current, pulled, resets, exits>>

-----------------------------------------------------------------------------
(* Mutant of Reset: the open transaction's file is forgotten.              *)
ResetPullOnly(t) ==
    /\ pc \in {"receive", "queue"} /\ resets < MaxResets /\ resets' = resets + 1
    /\ files' = Remove(files, SpoolOf(pull))
    /\ transaction' = Nil /\ pull' = Nil
    /\ tx' = t /\ got' = 0
    /\ UNCHANGED <<pc, caller, exits>>

(* Reset, after a reconnect: closePull, and the same for the open          *)
(* transaction.                                                            *)
Reset(t) ==
    /\ pc \in {"receive", "queue"} /\ resets < MaxResets /\ resets' = resets + 1
    /\ files' = Remove(Remove(files, SpoolOf(pull)), SpoolOf(transaction))
    /\ transaction' = Nil /\ pull' = Nil
    /\ tx' = t /\ got' = 0
    /\ UNCHANGED <<pc, caller, exits>>

(* The reader exits or dies and is started again with a new decoder.       *)
Restart(t) ==
    /\ pc \in {"down", "early"} \/ exits < MaxExits
    /\ exits' = IF pc \in {"down", "early"} THEN exits ELSE exits + 1
    /\ transaction' = Nil /\ pull' = Nil
    /\ tx' = t /\ got' = 0
    /\ pc' = "receive" /\ current' = Change(0, 0) /\ pulled' = <<>>
    /\ UNCHANGED <<files, drained, resets>>

(* The whole source is received.                                           *)
Idle == pc = "receive" /\ tx > Len(Sizes) /\ UNCHANGED vars

Next ==
    \/ Begin \/ AppendChange \/ Commit
    \/ NextFromMemory \/ NextFromSpool \/ NextFails \/ NothingToPull \/ Queued
    \/ \E t \in 1 .. tx : Reset(t) \/ Restart(t)
    \/ Idle

Spec == Init /\ [][Next]_vars

-----------------------------------------------------------------------------
(* "publishes them still in commit order" (README, huge transactions):     *)
(* what queueTransactionEvents pulls are the first changes of the          *)
(* transaction it announces, in order, and Count is their number in the    *)
(* source, wherever the cap falls and whatever was reset or left behind    *)
(* before.                                                                 *)
PulledInOrder ==
    /\ \A i \in 1 .. Len(pulled) : pulled[i] = Change(current.tx, i)
    /\ current.tx # 0 => current.seq = Sizes[current.tx]

(* The committed transaction never runs out of events before Count         *)
(* ("transaction %d ended early" is unreachable).                          *)
NeverEndsEarly == pc # "early"

(* "closing and removing any temporary spool file" (Reset): as long as the *)
(* process lives, a file on disk belongs to the open transaction, to the   *)
(* committed one, or to one that was pulled to its end (and which nothing  *)
(* removes once the next commit replaces the pullState).                   *)
ResetLeavesNoSpool ==
    exits = 0 /\ pc \in {"receive", "queue"} =>
        \A f \in 1 .. Len(files) :
            files[f].linked => f \in drained \cup {SpoolOf(transaction), SpoolOf(pull)}
=============================================================================
