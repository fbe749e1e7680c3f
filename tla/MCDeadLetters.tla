--------------------------- MODULE MCDeadLetters ---------------------------
(* Instances of DeadLetters for TLC. *)
EXTENDS DeadLetters

A  == CHOOSE t \in Tables : TRUE
K1 == CHOOSE k \in Keys : TRUE
Changes(f) == {[op |-> "upsert", table |-> A, key |-> k, fault |-> f] : k \in Keys}

(* A column the repair cannot add, or an event that stays refused, before  *)
(* or after an upsert of the same or of another row, or in a transaction   *)
(* with an upsert of another row.  The keys are interchangeable: the first *)
(* change is one of K1.                                                    *)
Drifted == Changes("drift")
Refused == Changes("poison")
Healthy == Changes("none")
UpsertHistories ==
    {h \in {<<<<c>>, <<d>>>> : c \in Drifted \cup Refused, d \in Healthy \cup Drifted}
             \cup {<<<<c>>, <<d>>>> : c \in Healthy, d \in Drifted}
             \cup {<<<<c, d>>>> : c \in Healthy \cup Drifted, d \in Drifted \cup Refused} :
        h[1][1].key = K1 /\ (Len(h) = 1 => h[1][2].key # K1)}

(* The histories meet the condition under which StaleWritesRefused holds.  *)
ASSUME HistoriesInScope == RowsUpsertedOnce
=============================================================================
