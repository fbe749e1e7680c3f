------------------------------ MODULE MCWriter ------------------------------
(* Instances of Writer for TLC: the source histories each run replicates. *)
EXTENDS Writer, SequencesExt

Change(op, t, k, f) == [op |-> op, table |-> t, key |-> k, fault |-> f]

(* Two tables and two keys, told apart where the histories need it.        *)
A  == CHOOSE t \in Tables : TRUE
K1 == CHOOSE k \in Keys : TRUE
Ok(op, t, k) == Change(op, t, k, "none")

Healthy == {Ok(op, A, K1) : op \in {"preserve", "delete"}}
           \cup {Ok("upsert", A, k) : k \in Keys}
           \cup {Ok("truncate", t, K1) : t \in Tables}

Refused == {Change("upsert", A, K1, f) : f \in {"poison", "malformed"}}

Poisonous == Refused
             \cup {Change("truncate", A, K1, "poison"), Change("preserve", A, K1, "poison")}

Drifted == {Change("upsert", A, k, "drift") : k \in Keys}

(* The changes are ones the source can execute: updates and deletes need a *)
(* row, which an upsert creates and a delete or truncate removes.          *)
HasRow(flat, n, t, k) ==
    LET row[i \in 0 .. n] ==
          IF i = 0 THEN FALSE
          ELSE LET c == flat[i]
               IN  IF c.table # t THEN row[i - 1]
                   ELSE IF c.op = "truncate" THEN FALSE
                   ELSE IF c.key # k THEN row[i - 1]
                   ELSE c.op # "delete"
    IN  row[n]

Executable(flat) ==
    \A i \in 1 .. Len(flat) :
        flat[i].op \in {"preserve", "delete"} =>
            HasRow(flat, i - 1, flat[i].table, flat[i].key)

TruncatesTwice(tx) ==
    \E i, j \in DOMAIN tx : /\ i # j /\ tx[i].op = "truncate" /\ tx[j].op = "truncate"
                           /\ tx[i].table = tx[j].table

Txs(C) == {<<c>> : c \in C} \cup {<<c, d>> : c \in C, d \in C}

Pairs(C, D) == {<<c, d>> : c \in C, d \in D}

(* What the source can commit, minus transactions that truncate a table    *)
(* twice.                                                                  *)
Possible(H) ==
    {h \in H : Executable(FlattenSeq(h)) /\ \A t \in DOMAIN h : ~TruncatesTwice(h[t])}

(* Two transactions of one or two healthy changes.                         *)
HealthyHistories == Possible(Pairs(Txs(Healthy), Txs(Healthy)))

(* A transaction of up to three changes with one or two poison ones, then  *)
(* a healthy one that changes, truncates, or changes and deletes.          *)
PoisonHistories ==
    Possible(Pairs({<<p>> : p \in Poisonous} \cup Pairs(Poisonous, Healthy)
                     \cup Pairs(Healthy, Poisonous) \cup Pairs(Poisonous, Poisonous)
                     \cup {<<c, p, d>> : c \in Healthy, p \in Refused, d \in Healthy},
                   {<<Ok("upsert", A, K1)>>, <<Ok("truncate", A, K1)>>,
                    <<Ok("upsert", A, K1), Ok("delete", A, K1)>>}))

(* Column drift in the last change of a transaction, at the head of its    *)
(* queue or behind one or two healthy changes.                             *)
DriftHistories ==
    Possible(Pairs({<<c>> : c \in Drifted} \cup Pairs(Healthy, Drifted)
                     \cup {<<Ok("upsert", A, K1), Ok(op, A, K1), Change("upsert", A, K1, "drift")>> :
                              op \in {"upsert", "preserve"}},
                   {<<c>> : c \in Drifted \cup Healthy} \cup Pairs({Ok("upsert", A, K1)}, Drifted)))

FaultyHistories == PoisonHistories \cup DriftHistories

(* Column drift in the first change of a transaction.                      *)
DriftFirstHistories == Possible({<<tx>> : tx \in Pairs(Drifted, Healthy)})

(* One transaction of two changes and one of one.                          *)
TornHistories == {<<<<Ok("upsert", A, K1), Ok("preserve", A, K1)>>, <<Ok("delete", A, K1)>>>>}
=============================================================================
