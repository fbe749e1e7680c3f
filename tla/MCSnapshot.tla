----------------------------- MODULE MCSnapshot -----------------------------
(* Instances of Snapshot for TLC. *)
EXTENDS Snapshot, SequencesExt

A  == CHOOSE t \in Tables : TRUE
K1 == CHOOSE k \in Keys : TRUE
Ok(op, k) == [op |-> op, table |-> A, key |-> k, fault |-> "none"]

Changes == {Ok("upsert", k) : k \in Keys} \cup
           {Ok(op, K1) : op \in {"preserve", "delete", "truncate"}}

(* Updates and deletes need a row.                                         *)
HasRow(rows, flat, n) ==
    LET row[i \in 0 .. n] ==
          IF i = 0 THEN <<A, K1>> \in rows
          ELSE IF flat[i].op \in {"truncate", "delete"} THEN FALSE
          ELSE row[i - 1] \/ flat[i].key = K1
    IN  row[n]
Executable(rows, flat) ==
    \A i \in 1 .. Len(flat) :
        flat[i].op \in {"preserve", "delete"} => HasRow(rows, flat, i - 1)

Txs == {<<c>> : c \in Changes}
AllHistories == {<<x, y>> : x \in Txs, y \in Txs} \cup
                {<<<<Ok("upsert", K1), Ok("preserve", K1)>>, <<c>>>> :
                    c \in {Ok("upsert", K1), Ok("delete", K1)}}

AllScenarios ==
    {s \in {{}, {<<A, K1>>}} \X AllHistories : Executable(s[1], FlattenSeq(s[2]))}

(* What SnapshotHandoverConverges asks of the histories.                   *)
ASSUME HistoriesInScope == TruncatesOnce /\ FaultFree
=============================================================================
