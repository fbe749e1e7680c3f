------------------------------- MODULE Mirror -------------------------------
(***************************************************************************)
(* What the pipeline promises: the destination tables are the source       *)
(* tables after a prefix of the source's transactions, and they move from  *)
(* one transaction to the next in a single step.                           *)
(*                                                                         *)
(* A column value is abstracted to the identity of the change that wrote   *)
(* it.  A row has an ordinary column `val` and a TOASTed column `big`; a   *)
(* "preserve" change is an UPDATE that leaves `big` unchanged and whose    *)
(* event therefore does not carry it (cdc.Event.UnchangedColumns).         *)
(***************************************************************************)
EXTENDS Integers, Sequences

CONSTANTS Tables, Keys

VARIABLES
    source,   \* the source's history: a sequence of transactions, each a sequence of changes
    applied,  \* how many of them the destination shows
    rows      \* the destination tables

Ops    == {"upsert", "preserve", "delete", "truncate"}
Faults == {"none", "malformed", "poison", "drift"}
Change == [op : Ops, table : Tables, key : Keys, fault : Faults]

Nil     == [tx |-> 0, seq |-> 0]      \* what a column of a row that is not there holds
Default == [tx |-> 0, seq |-> 1]      \* the column default
NoRow   == [val |-> Nil, big |-> Nil]
Empty   == [t \in Tables |-> [k \in Keys |-> NoRow]]

Id(t, k) == [tx |-> t, seq |-> k]

(* The effect of one source change on the tables.                          *)
Exec(r, id, c) ==
    CASE c.op = "truncate" -> [r EXCEPT ![c.table] = [k \in Keys |-> NoRow]]
      [] c.op = "delete"   -> [r EXCEPT ![c.table][c.key] = NoRow]
      [] c.op = "upsert"   -> [r EXCEPT ![c.table][c.key] = [val |-> id, big |-> id]]
      [] c.op = "preserve" -> [r EXCEPT ![c.table][c.key] =
                                 [val |-> id,
                                  big |-> IF @ = NoRow THEN Default ELSE @.big]]

(* The tables after the changes in S, executed in source order on tables   *)
(* that hold `initial`.                                                    *)
RowsFrom(initial, S) ==
    LET tx[t \in 0 .. Len(source)] ==
          IF t = 0 THEN initial
          ELSE LET ch[k \in 0 .. Len(source[t])] ==
                     IF k = 0 THEN tx[t - 1]
                     ELSE IF Id(t, k) \in S THEN Exec(ch[k - 1], Id(t, k), source[t][k])
                          ELSE ch[k - 1]
               IN  ch[Len(source[t])]
    IN  tx[Len(source)]

RowsAfter(S) == RowsFrom(Empty, S)

Prefix(n) == UNION {{Id(t, k) : k \in 1 .. Len(source[t])} : t \in 1 .. n}

Init == applied = 0 /\ rows = Empty

ApplyTransaction ==
    /\ applied < Len(source)
    /\ applied' = applied + 1
    /\ rows' = RowsAfter(Prefix(applied + 1))
    /\ UNCHANGED source

Spec == Init /\ [][ApplyTransaction]_<<source, applied, rows>>
=============================================================================
