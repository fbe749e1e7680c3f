------------------------- MODULE DestinationProofs -------------------------
(***************************************************************************)
(* Facts about the events of a source history and the applier's operations *)
(* on them, for any tables and keys, any database and any events: which    *)
(* parts of the database each of them may change, which event a failing    *)
(* batch may blame, and which tables the events leave: what Mirror's fold  *)
(* over a set of events computes, and that the applier computes the same.  *)
(***************************************************************************)
EXTENDS Writer, SequenceTheorems, WellFoundedInduction, TLAPS

-----------------------------------------------------------------------------
(***************************************************************************)
(* Least elements, induction and recursive functions over the naturals, as *)
(* facts about sets: the provers instantiate a set, not the operator that  *)
(* the induction theorems of the library are about.                        *)
(***************************************************************************)
Less == {ss \in Nat \X Nat : ss[1] < ss[2]}

(* Every set of naturals that is not empty has a least element.            *)
LEMMA Least ==
    ASSUME NEW S \in SUBSET Nat, S # {}
    PROVE  \E x \in S : \A y \in S : x <= y
  <1>1. IsWellFoundedOn(Less, Nat)
    BY NatLessThanWellFounded DEF OpToRel, Less
  <1>2. \E x \in S : \A y \in S : ~ (<<y, x>> \in Less)
    BY <1>1, WFMin
  <1>3. \A x, y \in Nat : y < x => <<y, x>> \in Less
    <2> TAKE x, y \in Nat
    <2> HAVE y < x
    <2>1. <<y, x>> \in Nat \X Nat /\ <<y, x>>[1] < <<y, x>>[2]
      OBVIOUS
    <2> QED
      BY <2>1, Zenon DEF Less
  <1>4. PICK x \in S : \A y \in S : ~ (<<y, x>> \in Less)
    BY <1>2
  <1>5. ASSUME NEW y \in S
        PROVE  x <= y
    <2>1. x \in Nat /\ y \in Nat
      OBVIOUS
    <2>2. ~ (y < x)
      BY <1>3, <1>4, <2>1, Zenon
    <2> QED
      BY <2>1, <2>2
  <1> QED
    BY <1>5

(* Induction up to n.                                                      *)
LEMMA Induction ==
    ASSUME NEW n \in Nat, NEW S, 0 \in S,
           \A i \in 0 .. n - 1 : i \in S => i + 1 \in S
    PROVE  \A i \in 0 .. n : i \in S
  <1> SUFFICES ASSUME {i \in 0 .. n : i \notin S} # {} PROVE FALSE
    OBVIOUS
  <1> DEFINE B == {i \in 0 .. n : i \notin S}
  <1>1. B \in SUBSET Nat /\ B # {}
    OBVIOUS
  <1> HIDE DEF B
  <1>2. PICK x \in B : \A y \in B : x <= y
    BY <1>1, Least
  <1> USE DEF B
  <1>3. x # 0 /\ x \in 1 .. n /\ x - 1 \in 0 .. n - 1
    BY <1>2
  <1>4. x - 1 \in S
    BY <1>2, <1>3
  <1> QED
    BY <1>2, <1>3, <1>4

(* The functions that start with a and in which G[i] makes the value at i  *)
(* from the one before.                                                    *)
Solutions(n, D, a, G) ==
    {f \in [0 .. n -> D] : f[0] = a /\ \A i \in 1 .. n : f[i] = G[i][f[i - 1]]}

(* A function on 0 .. n may be defined by such a recursion.                *)
LEMMA Recursion ==
    ASSUME NEW n \in Nat, NEW D, NEW a \in D, NEW G \in [1 .. n -> [D -> D]]
    PROVE  Solutions(n, D, a, G) # {}
  <1> DEFINE Ok(f, m) == f[0] = a /\ \A i \in 1 .. m : f[i] = G[i][f[i - 1]]
             S == {m \in 0 .. n : \E f \in [0 .. m -> D] : Ok(f, m)}
  <1>1. 0 \in S
    <2>1. [j \in 0 .. 0 |-> a] \in [0 .. 0 -> D] /\ Ok([j \in 0 .. 0 |-> a], 0)
      OBVIOUS
    <2>2. \E f \in [0 .. 0 -> D] : Ok(f, 0)
      BY <2>1
    <2>3. 0 \in 0 .. n
      OBVIOUS
    <2> HIDE DEF Ok
    <2> QED
      BY <2>2, <2>3
  <1>2. ASSUME NEW m \in 0 .. n - 1, m \in S
        PROVE  m + 1 \in S
    <2>1. PICK f \in [0 .. m -> D] : Ok(f, m)
      BY <1>2
    <2> DEFINE g == [j \in 0 .. m + 1 |-> IF j = m + 1 THEN G[m + 1][f[m]] ELSE f[j]]
    <2>2. m \in Nat /\ m + 1 \in 1 .. n /\ m + 1 \in 0 .. n /\ f[m] \in D
      OBVIOUS
    <2>3. G[m + 1][f[m]] \in D
      BY <2>2
    <2>4. g \in [0 .. m + 1 -> D]
      BY <2>2, <2>3
    <2>5. g[0] = a /\ g[m + 1] = G[m + 1][g[m]] /\ \A j \in 0 .. m : g[j] = f[j]
      BY <2>1, <2>2
    <2> HIDE DEF g
    <2>6. ASSUME NEW i \in 1 .. m + 1
          PROVE  g[i] = G[i][g[i - 1]]
      <3>1. CASE i = m + 1
        BY <2>2, <2>5, <3>1
      <3>2. CASE i \in 1 .. m
        <4>1. i \in 0 .. m /\ i - 1 \in 0 .. m
          BY <2>2, <3>2
        <4> QED
          BY <2>1, <2>5, <3>2, <4>1
      <3> QED
        BY <2>2, <3>1, <3>2
    <2>7. Ok(g, m + 1)
      BY <2>5, <2>6
    <2> QED
      BY <2>2, <2>4, <2>7
  <1> HIDE DEF S
  <1>3. n \in S
    <2>1. \A i \in 0 .. n - 1 : i \in S => i + 1 \in S
      BY <1>2
    <2>2. \A i \in 0 .. n : i \in S
      BY <1>1, <2>1, Induction
    <2> QED
      BY <2>2
  <1>4. PICK f \in [0 .. n -> D] : Ok(f, n)
    BY <1>3 DEF S
  <1> QED
    BY <1>4 DEF Solutions

-----------------------------------------------------------------------------
(***************************************************************************)
(* The database and the events.                                            *)
(***************************************************************************)
Records   == [tx : Nat, seq : Nat]
Rows      == [lsn : Nat, val : Records, big : Records]
Databases == [rows : [Tables -> [Keys -> Rows]], marks : SUBSET Records,
              water : [Tables -> Nat], dead : SUBSET Records, cols : SUBSET Tables]
Events    == [id : Records, op : {"upsert", "preserve", "delete", "truncate"},
              table : Tables, key : Keys, fault : {"none", "malformed", "poison", "drift"}]

(* Two databases differ in the tables and their watermarks only.           *)
SameLedgers(c, d) == c.marks = d.marks /\ c.dead = d.dead /\ c.cols = d.cols

-----------------------------------------------------------------------------
(* A database with one row written.                                        *)
LEMMA RowWritten ==
    ASSUME NEW d \in Databases, NEW t \in Tables, NEW k \in Keys, NEW r \in Rows
    PROVE  /\ [d EXCEPT !.rows[t][k] = r] \in Databases
           /\ SameLedgers([d EXCEPT !.rows[t][k] = r], d)
  <1> DEFINE m == [d.rows EXCEPT ![t][k] = r]
  <1>1. d.rows \in [Tables -> [Keys -> Rows]]
    BY DEF Databases
  <1>2. m \in [Tables -> [Keys -> Rows]]
    BY <1>1
  <1>3. [d EXCEPT !.rows[t][k] = r] = [d EXCEPT !.rows = m]
    OBVIOUS
  <1> HIDE DEF m
  <1> QED
    BY <1>2, <1>3 DEF Databases, SameLedgers

(* The mutations touch neither markers nor dead letters nor columns.       *)
LEMMA MutationKeepsLedgers ==
    ASSUME NEW d \in Databases, NEW e \in Events
    PROVE  ApplyMutation(d, e) \in Databases /\ SameLedgers(ApplyMutation(d, e), d)
  <1>1. /\ e.table \in Tables /\ e.key \in Keys /\ e.id \in Records
        /\ e.op \in {"upsert", "preserve", "delete", "truncate"} /\ LSN(e) \in Nat
    BY DEF Events, Records, LSN
  <1>2. d.rows[e.table][e.key] \in Rows
    BY <1>1 DEF Databases
  <1>3. SameLedgers(d, d)
    BY DEF SameLedgers
  <1>4. Absent \in Rows /\ ColumnDefault \in Records
    BY DEF Absent, Nil, ColumnDefault, Rows, Records
  <1>5. CASE e.op = "upsert"
    <2>1. [lsn |-> LSN(e), val |-> e.id, big |-> e.id] \in Rows
      BY <1>1 DEF Rows
    <2>2. ApplyMutation(d, e) = Upsert(d, e)
      BY <1>5 DEF ApplyMutation
    <2> QED
      BY <1>1, <1>3, <2>1, <2>2, RowWritten DEF Upsert
  <1>6. CASE e.op = "preserve"
    <2> DEFINE row == d.rows[e.table][e.key]
               new == [lsn |-> LSN(e), val |-> e.id, big |-> ColumnDefault]
               upd == [lsn |-> LSN(e), val |-> e.id, big |-> row.big]
    <2>1. new \in Rows /\ upd \in Rows
      BY <1>1, <1>2, <1>4 DEF Rows
    <2>2. ApplyMutation(d, e) = UpdatePreserving(d, e)
      BY <1>6 DEF ApplyMutation
    <2>3. \/ UpdatePreserving(d, e) = [d EXCEPT !.rows[e.table][e.key] = new]
          \/ UpdatePreserving(d, e) = [d EXCEPT !.rows[e.table][e.key] = upd]
          \/ UpdatePreserving(d, e) = d
      BY DEF UpdatePreserving
    <2> HIDE DEF new, upd
    <2> QED
      BY <1>1, <1>3, <2>1, <2>2, <2>3, RowWritten
  <1>7. CASE e.op = "delete"
    <2>1. ApplyMutation(d, e) = Delete(d, e)
      BY <1>7 DEF ApplyMutation
    <2> QED
      BY <1>1, <1>3, <1>4, <2>1, RowWritten DEF Delete
  <1>8. CASE e.op = "truncate"
    <2>1. ApplyMutation(d, e) = Truncate(d, e)
      BY <1>8 DEF ApplyMutation
    <2> DEFINE x == [d EXCEPT !.rows[e.table] = [k \in Keys |-> Absent],
                              !.water[e.table] = LSN(e)]
               m == [d.rows EXCEPT ![e.table] = [k \in Keys |-> Absent]]
               w == [d.water EXCEPT ![e.table] = LSN(e)]
    <2>2. m \in [Tables -> [Keys -> Rows]] /\ w \in [Tables -> Nat]
      BY <1>1, <1>4 DEF Databases
    <2>3. x = [d EXCEPT !.rows = m, !.water = w]
      OBVIOUS
    <2> HIDE DEF m, w, x
    <2>4. x \in Databases /\ SameLedgers(x, d)
      BY <2>2, <2>3 DEF Databases, SameLedgers
    <2> QED
      BY <1>3, <2>1, <2>4 DEF Truncate, x
  <1> QED
    BY <1>1, <1>5, <1>6, <1>7, <1>8

(* Apply marks its event and quarantines nothing.                          *)
LEMMA ApplyMarks ==
    ASSUME NEW d \in Databases, NEW e \in Events
    PROVE  /\ Apply(d, e) \in Databases /\ Apply(d, e).marks = d.marks \cup {e.id}
           /\ Apply(d, e).dead = d.dead /\ Apply(d, e).cols = d.cols
  <1>1. /\ MarkApplied(d, e) \in Databases /\ MarkApplied(d, e).marks = d.marks \cup {e.id}
        /\ MarkApplied(d, e).dead = d.dead /\ MarkApplied(d, e).cols = d.cols
    BY DEF MarkApplied, Databases, Events
  <1>2. CASE IsMarked(d, e)
    BY <1>2 DEF Apply, IsMarked
  <1>3. CASE ~IsMarked(d, e)
    <2>1. Apply(d, e) = ApplyMutation(MarkApplied(d, e), e)
      BY <1>3 DEF Apply
    <2> QED
      BY <1>1, <2>1, MutationKeepsLedgers DEF SameLedgers
  <1> QED
    BY <1>2, <1>3

(* RecordDeadLetter marks its event and quarantines it.                    *)
LEMMA DeadLetterMarks ==
    ASSUME NEW d \in Databases, NEW e \in Events
    PROVE  /\ RecordDeadLetter(d, e) \in Databases
           /\ RecordDeadLetter(d, e).marks = d.marks \cup {e.id}
           /\ RecordDeadLetter(d, e).dead = d.dead \cup {e.id}
           /\ RecordDeadLetter(d, e).cols = d.cols
  BY DEF RecordDeadLetter, MarkApplied, Databases, Events

(* RepairSchema adds a column and nothing else.                            *)
LEMMA RepairAddsColumn ==
    ASSUME NEW d \in Databases, NEW e \in Events
    PROVE  /\ RepairSchema(d, e) \in Databases
           /\ RepairSchema(d, e).marks = d.marks /\ RepairSchema(d, e).dead = d.dead
           /\ RepairSchema(d, e).cols = d.cols \cup {e.table}
  BY DEF RepairSchema, Databases, Events

(* A healthy event fails nowhere.                                          *)
LEMMA OnlyFaultyFails ==
    ASSUME NEW d, NEW e, Fails(d, e)
    PROVE  e.fault # "none"
  BY DEF Fails, RefusedByApplier, RefusedByPostgres, UndefinedColumn

-----------------------------------------------------------------------------
(***************************************************************************)
(* ApplyBatch.                                                             *)
(***************************************************************************)

(* The database of a batch after its marker INSERTs.                       *)
Marked(d, events) == [d EXCEPT !.marks = @ \cup {events[i].id : i \in 1 .. Len(events)}]

(* What the loop of ApplyBatch makes of the database before event i.       *)
Advance(d, events, i, x) ==
    IF i \in Fresh(d, events) THEN ApplyMutation(x, events[i]) ELSE x

(* The recursion of BatchStates has a solution, which BatchStates denotes. *)
LEMMA BatchStatesEquation ==
    ASSUME NEW d \in Databases, NEW events \in Seq(Events)
    PROVE  /\ BatchStates(d, events) \in [0 .. Len(events) -> Databases]
           /\ BatchStates(d, events)[0] = Marked(d, events)
           /\ \A i \in 1 .. Len(events) :
                 BatchStates(d, events)[i]
                   = Advance(d, events, i, BatchStates(d, events)[i - 1])
  <1> DEFINE n == Len(events)
             a == Marked(d, events)
             G == [i \in 1 .. n |-> [x \in Databases |-> Advance(d, events, i, x)]]
             Body(f) == [i \in 0 .. n |-> IF i = 0 THEN a ELSE Advance(d, events, i, f[i - 1])]
             B == BatchStates(d, events)
  <1>1. n \in Nat /\ \A i \in 1 .. n : events[i] \in Events
    BY ElementOfSeq
  <1>2. a \in Databases
    <2>1. {events[i].id : i \in 1 .. n} \subseteq Records
      BY <1>1 DEF Events
    <2> QED
      BY <2>1 DEF Marked, Databases
  <1>3. \A i \in 1 .. n : \A x \in Databases : Advance(d, events, i, x) \in Databases
    BY <1>1, MutationKeepsLedgers DEF Advance
  <1>4. G \in [1 .. n -> [Databases -> Databases]]
    BY <1>3
  <1> HIDE DEF n, a, G
  <1>5. PICK f \in [0 .. n -> Databases] : f[0] = a /\ \A i \in 1 .. n : f[i] = G[i][f[i - 1]]
    <2>1. Solutions(n, Databases, a, G) # {}
      BY <1>1, <1>2, <1>4, Recursion
    <2> QED
      BY <2>1 DEF Solutions
  <1>6. \A i \in 1 .. n : i - 1 \in 0 .. n /\ f[i] = Advance(d, events, i, f[i - 1])
    <2> TAKE i \in 1 .. n
    <2>1. i - 1 \in 0 .. n /\ f[i - 1] \in Databases
      BY <1>1
    <2>2. G[i][f[i - 1]] = Advance(d, events, i, f[i - 1])
      BY <2>1 DEF G
    <2> QED
      BY <1>5, <2>1, <2>2
  <1>7. f = Body(f)
    <2>1. \A i \in 0 .. n : f[i] = Body(f)[i]
      BY <1>1, <1>5, <1>6
    <2> QED
      BY <2>1
  <1>8. B = CHOOSE g : g = Body(g)
    BY DEF BatchStates, Marked, Advance, n, a
  <1>9. B = Body(B)
    BY <1>7, <1>8
  <1> HIDE DEF B
  <1>10. B[0] = a /\ \A i \in 1 .. n : B[i] = Advance(d, events, i, B[i - 1])
    BY <1>1, <1>9
  <1>11. \A i \in 0 .. n : B[i] \in Databases
    <2> DEFINE S == {i \in 0 .. n : B[i] \in Databases}
    <2>1. 0 \in S
      BY <1>1, <1>2, <1>10
    <2>2. \A i \in 0 .. n - 1 : i \in S => i + 1 \in S
      <3> TAKE i \in 0 .. n - 1
      <3> HAVE i \in S
      <3>1. i + 1 \in 1 .. n /\ i + 1 \in 0 .. n /\ (i + 1) - 1 = i /\ B[i] \in Databases
        BY <1>1
      <3>2. B[i + 1] = Advance(d, events, i + 1, B[i])
        BY <1>10, <3>1
      <3> QED
        BY <1>3, <3>1, <3>2
    <2> HIDE DEF S
    <2>3. \A i \in 0 .. n : i \in S
      BY <1>1, <2>1, <2>2, Induction
    <2> QED
      BY <2>3 DEF S
  <1>12. B \in [0 .. n -> Databases]
    BY <1>9, <1>11
  <1> QED
    BY <1>10, <1>12 DEF B, n, a

(* Within a batch only the tables and their watermarks change.             *)
LEMMA BatchLedgers ==
    ASSUME NEW d \in Databases, NEW events \in Seq(Events), NEW j \in 0 .. Len(events)
    PROVE  SameLedgers(BatchStates(d, events)[j], Marked(d, events))
  <1> DEFINE n == Len(events)
             a == Marked(d, events)
             B == BatchStates(d, events)
             S == {i \in 0 .. n : SameLedgers(B[i], a)}
  <1>1. n \in Nat /\ \A i \in 1 .. n : events[i] \in Events
    BY ElementOfSeq
  <1>2. /\ \A i \in 0 .. n : B[i] \in Databases
        /\ B[0] = a /\ \A i \in 1 .. n : B[i] = Advance(d, events, i, B[i - 1])
    BY BatchStatesEquation
  <1> HIDE DEF n, a, B
  <1>3. 0 \in S
    BY <1>1, <1>2 DEF SameLedgers
  <1>4. \A i \in 0 .. n - 1 : i \in S => i + 1 \in S
    <2> TAKE i \in 0 .. n - 1
    <2> HAVE i \in S
    <2>1. i \in 0 .. n /\ i + 1 \in 1 .. n /\ i + 1 \in 0 .. n /\ (i + 1) - 1 = i
      BY <1>1
    <2>2. B[i + 1] = Advance(d, events, i + 1, B[i]) /\ B[i] \in Databases
      BY <1>2, <2>1
    <2>3. events[i + 1] \in Events
      BY <1>1, <2>1
    <2>4. SameLedgers(Advance(d, events, i + 1, B[i]), B[i])
      BY <2>2, <2>3, MutationKeepsLedgers DEF Advance, SameLedgers
    <2> QED
      BY <2>1, <2>2, <2>4 DEF SameLedgers
  <1> HIDE DEF S
  <1>5. \A i \in 0 .. n : i \in S
    BY <1>1, <1>3, <1>4, Induction
  <1> QED
    BY <1>5 DEF S, n, a, B

(* A batch marks all its events at once, quarantines nothing and alters no *)
(* table.                                                                  *)
LEMMA BatchMarks ==
    ASSUME NEW d \in Databases, NEW events \in Seq(Events)
    PROVE  /\ ApplyBatch(d, events) \in Databases
           /\ ApplyBatch(d, events).marks
                = d.marks \cup {events[i].id : i \in 1 .. Len(events)}
           /\ ApplyBatch(d, events).dead = d.dead /\ ApplyBatch(d, events).cols = d.cols
  <1> DEFINE n == Len(events)
             a == Marked(d, events)
             B == BatchStates(d, events)
  <1>1. n \in 0 .. n
    OBVIOUS
  <1>2. B[n] \in Databases
    BY <1>1, BatchStatesEquation
  <1>3. SameLedgers(B[n], a)
    BY <1>1, BatchLedgers
  <1>4. /\ a.marks = d.marks \cup {events[i].id : i \in 1 .. Len(events)}
        /\ a.dead = d.dead /\ a.cols = d.cols
    BY DEF Marked, Databases
  <1> HIDE DEF n, a, B
  <1> QED
    BY <1>2, <1>3, <1>4 DEF ApplyBatch, B, n, SameLedgers

(* Min picks the least element.                                            *)
LEMMA MinIsLeast ==
    ASSUME NEW S \in SUBSET Nat, S # {}
    PROVE  Min(S) \in S /\ \A y \in S : Min(S) <= y
  <1>1. \E x \in S : \A y \in S : x <= y
    BY Least
  <1> QED
    BY <1>1 DEF Min

(* A queue is flushed after its events, and no later than the next event   *)
(* that is not queued.                                                     *)
LEMMA FlushIsLater ==
    ASSUME NEW d, NEW events \in Seq(Events), NEW i \in 1 .. Len(events)
    PROVE  /\ FlushedAt(d, events, i) \in Nat /\ i < FlushedAt(d, events, i)
           /\ \A j \in Fresh(d, events) :
                 j > i /\ ~Queued(events[j]) => FlushedAt(d, events, i) <= j
  <1> DEFINE S == {Len(events) + 1} \cup
                  {j \in Fresh(d, events) : j > i /\ ~Queued(events[j])}
  <1>1. S \in SUBSET Nat /\ S # {} /\ \A j \in S : i < j
    BY DEF Fresh
  <1>2. \A j \in Fresh(d, events) : j > i /\ ~Queued(events[j]) => j \in S
    OBVIOUS
  <1>3. FlushedAt(d, events, i) = Min(S)
    BY DEF FlushedAt
  <1> HIDE DEF S
  <1>4. Min(S) \in S /\ \A y \in S : Min(S) <= y
    BY <1>1, MinIsLeast
  <1> QED
    BY <1>1, <1>2, <1>3, <1>4

(* A failure surfaces at some time.                                        *)
LEMMA SurfacesSomewhere ==
    ASSUME NEW d, NEW events \in Seq(Events), NEW i \in 1 .. Len(events)
    PROVE  SurfacesAt(d, events, i) \in Nat
  <1>1. FlushedAt(d, events, i) \in Nat
    BY FlushIsLater
  <1>2. i \in Nat
    OBVIOUS
  <1> QED
    BY <1>1, <1>2 DEF SurfacesAt

(* The failure that surfaces first is one of those that happen.            *)
LEMMA FirstFails ==
    ASSUME NEW d, NEW events \in Seq(Events),
           NEW bad \in SUBSET (1 .. Len(events)), bad # {}
    PROVE  FirstToSurface(d, events, bad) \in bad
  <1> DEFINE at(i) == SurfacesAt(d, events, i)
             first == {i \in bad : \A j \in bad : at(i) <= at(j)}
             moments == {at(i) : i \in bad}
  <1>1. FirstToSurface(d, events, bad) = Min(first)
    BY DEF FirstToSurface
  <1>2. \A i \in bad : at(i) \in Nat
    BY SurfacesSomewhere
  <1> HIDE DEF at
  <1>3. moments \in SUBSET Nat /\ moments # {}
    BY <1>2
  <1>4. PICK x \in moments : \A y \in moments : x <= y
    <2> HIDE DEF moments
    <2> QED
      BY <1>3, Least
  <1>5. first \in SUBSET Nat /\ first # {}
    <2>1. PICK i \in bad : x = at(i)
      BY <1>4
    <2>2. \A j \in bad : at(i) <= at(j)
      BY <1>4, <2>1
    <2>3. bad \subseteq Nat
      OBVIOUS
    <2> QED
      BY <2>1, <2>2, <2>3
  <1>6. first \subseteq bad
    OBVIOUS
  <1> HIDE DEF first
  <1>7. Min(first) \in first
    BY <1>5, MinIsLeast
  <1> QED
    BY <1>1, <1>6, <1>7

(* Event b is blamed for event i of the batch: they are the same, or i     *)
(* names a column that is missing and waits in the queue that b heads, so  *)
(* that every event between them is queued too, or was applied before.     *)
BlamedFor(d, events, b, i) ==
    \/ b = i
    \/ /\ b < i /\ UndefinedColumn(d, events[i])
       /\ Queued(events[b]) /\ Queued(events[i])
       /\ \A m \in b .. i : Queued(events[m]) \/ IsMarked(d, events[m])

(* The failure of an event that is not marked yet is put down to such an   *)
(* event.                                                                  *)
LEMMA BlamedIs ==
    ASSUME NEW d, NEW events \in Seq(Events), NEW i \in Fresh(d, events)
    PROVE  /\ Blamed(d, events, i) \in 1 .. Len(events)
           /\ ~IsMarked(d, events[Blamed(d, events, i)])
           /\ BlamedFor(d, events, Blamed(d, events, i), i)
  <1>1. i \in 1 .. Len(events) /\ ~IsMarked(d, events[i])
    BY DEF Fresh
  <1>2. CASE ~(Queued(events[i]) /\ UndefinedColumn(d, events[i]))
    BY <1>1, <1>2 DEF Blamed, BlamedFor
  <1>3. CASE Queued(events[i]) /\ UndefinedColumn(d, events[i])
    <2> DEFINE Q == Queue(d, events, i)
               b == Blamed(d, events, i)
    <2>1. b = Min(Q)
      BY <1>3 DEF Blamed
    <2>2. Q \in SUBSET Nat /\ i \in Q
      BY <1>3 DEF Queue, Fresh
    <2>3. \A j \in Q : /\ j \in Fresh(d, events) /\ Queued(events[j])
                       /\ FlushedAt(d, events, j) = FlushedAt(d, events, i)
      BY DEF Queue
    <2> HIDE DEF Q, b
    <2>4. b \in Q /\ b <= i
      BY <2>1, <2>2, MinIsLeast
    <2>5. /\ b \in 1 .. Len(events) /\ ~IsMarked(d, events[b]) /\ Queued(events[b])
          /\ FlushedAt(d, events, b) = FlushedAt(d, events, i)
      BY <2>3, <2>4 DEF Fresh
    <2>6. \A m \in b .. i : Queued(events[m]) \/ IsMarked(d, events[m])
      <3> SUFFICES ASSUME NEW m \in b .. i, ~Queued(events[m]), ~IsMarked(d, events[m])
                   PROVE  FALSE
        OBVIOUS
      <3>1. m \in 1 .. Len(events) /\ m # b /\ m # i
        BY <1>1, <1>3, <2>5
      <3>2. m \in Fresh(d, events) /\ m > b /\ m < i
        BY <1>1, <2>5, <3>1 DEF Fresh
      <3>3. FlushedAt(d, events, b) \in Nat /\ FlushedAt(d, events, b) <= m
        BY <2>5, <3>2, FlushIsLater
      <3>4. i < FlushedAt(d, events, i)
        BY <1>1, FlushIsLater
      <3> QED
        BY <1>1, <2>5, <3>1, <3>2, <3>3, <3>4
    <2>7. BlamedFor(d, events, b, i)
      BY <1>1, <1>3, <2>4, <2>5, <2>6 DEF BlamedFor
    <2> QED
      BY <2>5, <2>7 DEF b
  <1> QED
    BY <1>2, <1>3

(* The failure that a batch meets first: an event that is not marked yet,  *)
(* that has a fault and, when that is drift, whose column is missing.      *)
Surfaced(d, events) == FirstToSurface(d, events, Failing(d, events))

(* BatchError names an event of the batch that is not marked yet, and that *)
(* is the one whose failure surfaced or takes the blame for it: a healthy  *)
(* event is blamed only ahead of a drifted one whose column is missing.    *)
LEMMA BlamesFaulty ==
    ASSUME NEW d \in Databases, NEW events \in Seq(Events), BatchError(d, events) # 0
    PROVE  /\ BatchError(d, events) \in 1 .. Len(events)
           /\ ~IsMarked(d, events[BatchError(d, events)])
           /\ Surfaced(d, events) \in 1 .. Len(events)
           /\ ~IsMarked(d, events[Surfaced(d, events)])
           /\ events[Surfaced(d, events)].fault # "none"
           /\ events[Surfaced(d, events)].fault = "drift" =>
                 UndefinedColumn(d, events[Surfaced(d, events)])
           /\ BlamedFor(d, events, BatchError(d, events), Surfaced(d, events))
  <1> DEFINE i == Surfaced(d, events)
             x == BatchStates(d, events)[i - 1]
  <1>1. Failing(d, events) # {} /\ BatchError(d, events) = Blamed(d, events, i)
    BY DEF BatchError, Surfaced
  <1>2. Failing(d, events) \in SUBSET (1 .. Len(events))
    BY DEF Failing, Fresh
  <1>3. i \in Failing(d, events)
    BY <1>1, <1>2, FirstFails DEF Surfaced
  <1> HIDE DEF i
  <1>4. /\ i \in Fresh(d, events) /\ i \in 1 .. Len(events) /\ ~IsMarked(d, events[i])
        /\ Fails(x, events[i])
    BY <1>3 DEF Failing, Fresh
  <1>5. x.cols = d.cols
    <2>1. i - 1 \in 0 .. Len(events)
      BY <1>4
    <2>2. SameLedgers(x, Marked(d, events))
      BY <2>1, BatchLedgers
    <2>3. Marked(d, events).cols = d.cols
      BY DEF Marked, Databases
    <2> HIDE DEF x
    <2> QED
      BY <2>2, <2>3 DEF SameLedgers
  <1> HIDE DEF x
  <1>6. events[i].fault = "drift" => UndefinedColumn(d, events[i])
    BY <1>4, <1>5 DEF Fails, RefusedByApplier, RefusedByPostgres, UndefinedColumn
  <1>7. events[i].fault # "none"
    BY <1>4, OnlyFaultyFails
  <1>8. /\ Blamed(d, events, i) \in 1 .. Len(events)
        /\ ~IsMarked(d, events[Blamed(d, events, i)])
        /\ BlamedFor(d, events, Blamed(d, events, i), i)
    BY <1>4, BlamedIs
  <1> QED
    BY <1>1, <1>4, <1>6, <1>7, <1>8 DEF i

(* Without one, no event that is not marked yet fails where it stands.     *)
LEMMA BlamesNone ==
    ASSUME NEW d \in Databases, NEW events \in Seq(Events), BatchError(d, events) = 0
    PROVE  \A i \in Fresh(d, events) : ~Fails(BatchStates(d, events)[i - 1], events[i])
  <1>1. Failing(d, events) = {}
    <2> SUFFICES ASSUME Failing(d, events) # {} PROVE FALSE
      OBVIOUS
    <2>1. Failing(d, events) \in SUBSET (1 .. Len(events))
      BY DEF Failing, Fresh
    <2>2. Surfaced(d, events) \in Failing(d, events)
      BY <2>1, FirstFails DEF Surfaced
    <2>3. Surfaced(d, events) \in Fresh(d, events)
      BY <2>2 DEF Failing
    <2>4. Blamed(d, events, Surfaced(d, events)) \in 1 .. Len(events)
      BY <2>3, BlamedIs
    <2>5. Blamed(d, events, Surfaced(d, events)) = 0
      BY DEF BatchError, Surfaced
    <2> QED
      BY <2>4, <2>5
  <1> QED
    BY <1>1 DEF Failing

-----------------------------------------------------------------------------
(***************************************************************************)
(* The source and its events.                                              *)
(***************************************************************************)
(* Event and Ids of a history s.                                           *)
EventOf(s, r) == [id |-> r, op |-> s[r.tx][r.seq].op, table |-> s[r.tx][r.seq].table,
                  key |-> s[r.tx][r.seq].key, fault |-> s[r.tx][r.seq].fault]
IsId(s, r) == r \in Records /\ r.tx \in 1 .. Len(s) /\ r.seq \in 1 .. Len(s[r.tx])

(* Histories are sequences of transactions of at least one change.         *)
LEMMA SourceTyped ==
    ASSUME source \in Histories
    PROVE  /\ source \in Seq(Seq(M!Change))
           /\ \A t \in 1 .. Len(source) :
                 source[t] \in Seq(M!Change) /\ Len(source[t]) \in Nat /\ Len(source[t]) > 0
  <1>1. source \in Seq(Seq(M!Change))
    BY HistoriesAssumption
  <1>2. \A t \in 1 .. Len(source) : source[t] \in Seq(M!Change)
    BY <1>1, ElementOfSeq
  <1>3. \A t \in 1 .. Len(source) : Len(source[t]) > 0
    BY WriterAssumption
  <1>4. \A t \in 1 .. Len(source) : Len(source[t]) \in Nat
    BY <1>2
  <1> QED
    BY <1>1, <1>2, <1>3, <1>4

(* Its identities name events.                                             *)
LEMMA EventTyped ==
    ASSUME source \in Histories, NEW r, IsId(source, r)
    PROVE  /\ EventOf(source, r) \in Events /\ EventOf(source, r).id = r
           /\ EventOf(source, r).fault = source[r.tx][r.seq].fault
  <1>1. r \in Records /\ r.tx \in 1 .. Len(source) /\ r.seq \in 1 .. Len(source[r.tx])
    BY DEF IsId
  <1>2. source[r.tx][r.seq] \in M!Change
    BY <1>1, SourceTyped, ElementOfSeq
  <1> DEFINE c == source[r.tx][r.seq]
  <1>3. /\ c.op \in {"upsert", "preserve", "delete", "truncate"}
        /\ c.table \in Tables /\ c.key \in Keys
        /\ c.fault \in {"none", "malformed", "poison", "drift"}
    BY <1>2 DEF M!Change, M!Ops, M!Faults
  <1>4. EventOf(source, r) = [id |-> r, op |-> c.op, table |-> c.table, key |-> c.key,
                              fault |-> c.fault]
    BY DEF EventOf
  <1> HIDE DEF c
  <1> QED
    BY <1>1, <1>3, <1>4 DEF Events, c

(* The same identities as Writer's.                                        *)
LEMMA IdsAre ==
    ASSUME source \in Histories
    PROVE  \A r : r \in Ids <=> IsId(source, r)
  <1>1. \A t \in 1 .. Len(source) : Len(source[t]) \in Nat
    BY SourceTyped
  <1>2. ASSUME NEW r, r \in Ids
        PROVE  IsId(source, r)
    <2>1. PICK t \in 1 .. Len(source) : r \in {T!Record(t, k) : k \in 1 .. Len(source[t])}
      BY <1>2 DEF Ids
    <2>2. PICK k \in 1 .. Len(source[t]) : r = [tx |-> t, seq |-> k]
      BY <2>1 DEF T!Record
    <2>3. t \in Nat /\ k \in Nat
      BY <1>1
    <2> QED
      BY <2>2, <2>3 DEF IsId, Records
  <1>3. ASSUME NEW r, IsId(source, r)
        PROVE  r \in Ids
    <2>1. r = T!Record(r.tx, r.seq) /\ r.tx \in 1 .. Len(source) /\ r.seq \in 1 .. Len(source[r.tx])
      BY <1>3 DEF IsId, Records, T!Record
    <2> QED
      BY <2>1 DEF Ids
  <1> QED
    BY <1>2, <1>3

(* The changes of the first n transactions.                                *)
LEMMA PrefixIs ==
    ASSUME source \in Histories, NEW n \in 0 .. Len(source)
    PROVE  \A r : r \in M!Prefix(n) <=> IsId(source, r) /\ r.tx <= n
  <1>1. \A t \in 1 .. Len(source) : Len(source[t]) \in Nat
    BY SourceTyped
  <1>0. Len(source) \in Nat /\ n \in Nat
    BY SourceTyped
  <1>2. ASSUME NEW r \in M!Prefix(n)
        PROVE  IsId(source, r) /\ r.tx <= n
    <2>1. PICK t \in 1 .. n : \E k \in 1 .. Len(source[t]) : r = [tx |-> t, seq |-> k]
      BY <1>2 DEF M!Prefix, M!Id
    <2>2. PICK k \in 1 .. Len(source[t]) : r = [tx |-> t, seq |-> k]
      BY <2>1
    <2>3. t \in 1 .. Len(source) /\ t \in Nat /\ Len(source[t]) \in Nat
      BY <1>0, <1>1
    <2>4. k \in Nat
      BY <2>3
    <2> QED
      BY <2>2, <2>3, <2>4 DEF IsId, Records
  <1>3. ASSUME NEW r, IsId(source, r), r.tx <= n
        PROVE  r \in M!Prefix(n)
    <2>1. r.tx \in 1 .. n /\ r.seq \in 1 .. Len(source[r.tx]) /\ r = [tx |-> r.tx, seq |-> r.seq]
      BY <1>0, <1>3 DEF IsId, Records
    <2> QED
      BY <2>1 DEF M!Prefix, M!Id
  <1> QED
    BY <1>2, <1>3

-----------------------------------------------------------------------------
(***************************************************************************)
(* Mirror's RowsFrom: what the changes of a set S of identities make of    *)
(* the tables when they are executed in source order.                      *)
(***************************************************************************)
Cells    == [val : Records, big : Records]
Contents == [Tables -> [Keys -> Cells]]

(* Change k of transaction t, if it is in S.                               *)
Perform(S, t, k, x) ==
    IF [tx |-> t, seq |-> k] \in S THEN M!Exec(x, [tx |-> t, seq |-> k], source[t][k]) ELSE x

(* The tables within transaction t, and between the transactions.          *)
Within(S, t, y) ==
    LET ch[k \in 0 .. Len(source[t])] == IF k = 0 THEN y ELSE Perform(S, t, k, ch[k - 1])
    IN  ch
Between(S, a) ==
    LET tx[t \in 0 .. Len(source)] ==
          IF t = 0 THEN a ELSE Within(S, t, tx[t - 1])[Len(source[t])]
    IN  tx

(* A change maps tables to tables.                                         *)
LEMMA ExecTyped ==
    ASSUME NEW x \in Contents, NEW r \in Records, NEW c \in M!Change
    PROVE  M!Exec(x, r, c) \in Contents
  <1>1. /\ c.op \in {"upsert", "preserve", "delete", "truncate"}
        /\ c.table \in Tables /\ c.key \in Keys
    BY DEF M!Change, M!Ops
  <1>2. M!NoRow \in Cells /\ M!Default \in Records
    BY DEF M!NoRow, M!Nil, M!Default, Cells, Records
  <1>3. x[c.table] \in [Keys -> Cells] /\ x[c.table][c.key] \in Cells
    BY <1>1 DEF Contents
  <1>4. ASSUME NEW row \in Cells
        PROVE  [x EXCEPT ![c.table][c.key] = row] \in Contents
    BY <1>1 DEF Contents
  <1>5. CASE c.op = "truncate"
    <2>1. M!Exec(x, r, c) = [x EXCEPT ![c.table] = [k \in Keys |-> M!NoRow]]
      BY <1>5 DEF M!Exec
    <2>2. [k \in Keys |-> M!NoRow] \in [Keys -> Cells]
      BY <1>2
    <2> QED
      BY <1>1, <2>1, <2>2 DEF Contents
  <1>6. CASE c.op = "delete"
    <2>1. M!Exec(x, r, c) = [x EXCEPT ![c.table][c.key] = M!NoRow]
      BY <1>6 DEF M!Exec
    <2> QED
      BY <1>2, <1>4, <2>1
  <1>7. CASE c.op = "upsert"
    <2>1. M!Exec(x, r, c) = [x EXCEPT ![c.table][c.key] = [val |-> r, big |-> r]]
      BY <1>7 DEF M!Exec
    <2>2. [val |-> r, big |-> r] \in Cells
      BY DEF Cells
    <2> QED
      BY <1>4, <2>1, <2>2
  <1>8. CASE c.op = "preserve"
    <2> DEFINE old == x[c.table][c.key]
               row == [val |-> r, big |-> IF old = M!NoRow THEN M!Default ELSE old.big]
    <2>1. M!Exec(x, r, c) = [x EXCEPT ![c.table][c.key] = row]
      BY <1>8 DEF M!Exec
    <2>2. row \in Cells
      BY <1>2, <1>3 DEF Cells
    <2> HIDE DEF row
    <2> QED
      BY <1>4, <2>1, <2>2
  <1> QED
    BY <1>1, <1>5, <1>6, <1>7, <1>8

(* So does one that is performed only if it is in S.                       *)
LEMMA PerformTyped ==
    ASSUME source \in Histories, NEW S, NEW t \in 1 .. Len(source), NEW k \in 1 .. Len(source[t]),
           NEW x \in Contents
    PROVE  Perform(S, t, k, x) \in Contents
  <1>1. source[t][k] \in M!Change
    BY SourceTyped, ElementOfSeq
  <1>2. [tx |-> t, seq |-> k] \in Records
    BY DEF Records
  <1> QED
    BY <1>1, <1>2, ExecTyped DEF Perform

(* The recursion within a transaction has a solution, which Within denotes.*)
LEMMA WithinEquation ==
    ASSUME source \in Histories, NEW S, NEW t \in 1 .. Len(source), NEW y \in Contents
    PROVE  /\ Within(S, t, y) \in [0 .. Len(source[t]) -> Contents]
           /\ Within(S, t, y)[0] = y
           /\ \A k \in 1 .. Len(source[t]) :
                 Within(S, t, y)[k] = Perform(S, t, k, Within(S, t, y)[k - 1])
  <1> DEFINE n == Len(source[t])
             P(k, x) == Perform(S, t, k, x)
             G == [k \in 1 .. n |-> [x \in Contents |-> P(k, x)]]
             Body(f) == [k \in 0 .. n |-> IF k = 0 THEN y ELSE P(k, f[k - 1])]
             B == Within(S, t, y)
  <1>1. n \in Nat
    BY SourceTyped
  <1>2. \A k \in 1 .. n : \A x \in Contents : P(k, x) \in Contents
    BY PerformTyped
  <1>3. B = CHOOSE g : g = Body(g)
    BY DEF Within
  <1> HIDE DEF n, P, B
  <1>4. G \in [1 .. n -> [Contents -> Contents]]
    BY <1>2
  <1> HIDE DEF G
  <1>5. PICK f \in [0 .. n -> Contents] : f[0] = y /\ \A k \in 1 .. n : f[k] = G[k][f[k - 1]]
    <2>1. Solutions(n, Contents, y, G) # {}
      BY <1>1, <1>4, Recursion
    <2> QED
      BY <2>1 DEF Solutions
  <1>6. \A k \in 1 .. n : f[k] = P(k, f[k - 1])
    <2> TAKE k \in 1 .. n
    <2>1. k - 1 \in 0 .. n /\ f[k - 1] \in Contents
      BY <1>1
    <2>2. G[k][f[k - 1]] = P(k, f[k - 1])
      BY <2>1 DEF G
    <2> QED
      BY <1>5, <2>2
  <1>7. f = Body(f)
    <2>1. \A k \in 0 .. n : f[k] = Body(f)[k]
      BY <1>1, <1>5, <1>6
    <2> QED
      BY <2>1
  <1>8. B = Body(B)
    BY <1>3, <1>7
  <1>9. B[0] = y /\ \A k \in 1 .. n : B[k] = P(k, B[k - 1])
    BY <1>1, <1>8
  <1>10. \A k \in 0 .. n : B[k] \in Contents
    <2> DEFINE I == {k \in 0 .. n : B[k] \in Contents}
    <2>1. 0 \in I
      BY <1>1, <1>9
    <2>2. \A k \in 0 .. n - 1 : k \in I => k + 1 \in I
      <3> TAKE k \in 0 .. n - 1
      <3> HAVE k \in I
      <3>1. k + 1 \in 1 .. n /\ k + 1 \in 0 .. n /\ (k + 1) - 1 = k /\ B[k] \in Contents
        BY <1>1
      <3>2. B[k + 1] = P(k + 1, B[k])
        BY <1>9, <3>1
      <3> QED
        BY <1>2, <3>1, <3>2
    <2> HIDE DEF I
    <2>3. \A k \in 0 .. n : k \in I
      BY <1>1, <2>1, <2>2, Induction
    <2> QED
      BY <2>3 DEF I
  <1>11. B \in [0 .. n -> Contents]
    BY <1>8, <1>10
  <1> QED
    BY <1>9, <1>11 DEF B, n, P

(* The recursion over the transactions has a solution, which Between       *)
(* denotes.                                                                *)
LEMMA BetweenEquation ==
    ASSUME source \in Histories, NEW S, NEW a \in Contents
    PROVE  /\ Between(S, a) \in [0 .. Len(source) -> Contents]
           /\ Between(S, a)[0] = a
           /\ \A t \in 1 .. Len(source) :
                 Between(S, a)[t] = Within(S, t, Between(S, a)[t - 1])[Len(source[t])]
  <1> DEFINE n == Len(source)
             P(t, x) == Within(S, t, x)[Len(source[t])]
             G == [t \in 1 .. n |-> [x \in Contents |-> P(t, x)]]
             Body(f) == [t \in 0 .. n |-> IF t = 0 THEN a ELSE P(t, f[t - 1])]
             B == Between(S, a)
  <1>1. n \in Nat
    BY SourceTyped
  <1>2. \A t \in 1 .. n : \A x \in Contents : P(t, x) \in Contents
    <2> TAKE t \in 1 .. n
    <2> TAKE x \in Contents
    <2>1. Within(S, t, x) \in [0 .. Len(source[t]) -> Contents]
      BY WithinEquation
    <2>2. Len(source[t]) \in 0 .. Len(source[t])
      BY SourceTyped
    <2> QED
      BY <2>1, <2>2
  <1>3. B = CHOOSE g : g = Body(g)
    BY DEF Between
  <1> HIDE DEF n, P, B
  <1>4. G \in [1 .. n -> [Contents -> Contents]]
    BY <1>2
  <1> HIDE DEF G
  <1>5. PICK f \in [0 .. n -> Contents] : f[0] = a /\ \A t \in 1 .. n : f[t] = G[t][f[t - 1]]
    <2>1. Solutions(n, Contents, a, G) # {}
      BY <1>1, <1>4, Recursion
    <2> QED
      BY <2>1 DEF Solutions
  <1>6. \A t \in 1 .. n : f[t] = P(t, f[t - 1])
    <2> TAKE t \in 1 .. n
    <2>1. t - 1 \in 0 .. n /\ f[t - 1] \in Contents
      BY <1>1
    <2>2. G[t][f[t - 1]] = P(t, f[t - 1])
      BY <2>1 DEF G
    <2> QED
      BY <1>5, <2>2
  <1>7. f = Body(f)
    <2>1. \A t \in 0 .. n : f[t] = Body(f)[t]
      BY <1>1, <1>5, <1>6
    <2> QED
      BY <2>1
  <1>8. B = Body(B)
    BY <1>3, <1>7
  <1>9. B[0] = a /\ \A t \in 1 .. n : B[t] = P(t, B[t - 1])
    BY <1>1, <1>8
  <1>10. \A t \in 0 .. n : B[t] \in Contents
    <2> DEFINE I == {t \in 0 .. n : B[t] \in Contents}
    <2>1. 0 \in I
      BY <1>1, <1>9
    <2>2. \A t \in 0 .. n - 1 : t \in I => t + 1 \in I
      <3> TAKE t \in 0 .. n - 1
      <3> HAVE t \in I
      <3>1. t + 1 \in 1 .. n /\ t + 1 \in 0 .. n /\ (t + 1) - 1 = t /\ B[t] \in Contents
        BY <1>1
      <3>2. B[t + 1] = P(t + 1, B[t])
        BY <1>9, <3>1
      <3> QED
        BY <1>2, <3>1, <3>2
    <2> HIDE DEF I
    <2>3. \A t \in 0 .. n : t \in I
      BY <1>1, <2>1, <2>2, Induction
    <2> QED
      BY <2>3 DEF I
  <1>11. B \in [0 .. n -> Contents]
    BY <1>8, <1>10
  <1> QED
    BY <1>9, <1>11 DEF B, n, P

(* RowsFrom is the last of these.                                          *)
LEMMA RowsFromIs == \A S, a : M!RowsFrom(a, S) = Between(S, a)[Len(source)]
  BY DEF M!RowsFrom, Between, Within, Perform, M!Id

(* A transaction of which S has no change changes nothing.                 *)
LEMMA WithinIdle ==
    ASSUME source \in Histories, NEW S, NEW t \in 1 .. Len(source), NEW y \in Contents,
           NEW n \in 0 .. Len(source[t]),
           \A k \in n + 1 .. Len(source[t]) : [tx |-> t, seq |-> k] \notin S
    PROVE  Within(S, t, y)[Len(source[t])] = Within(S, t, y)[n]
  <1> DEFINE m == Len(source[t])
             B == Within(S, t, y)
             I == {i \in 0 .. m : i >= n => B[i] = B[n]}
  <1>1. m \in Nat
    BY SourceTyped
  <1>2. \A k \in 1 .. m : B[k] = Perform(S, t, k, B[k - 1])
    BY WithinEquation
  <1>3. \A k \in n + 1 .. m : [tx |-> t, seq |-> k] \notin S
    OBVIOUS
  <1> HIDE DEF m, B
  <1>4. n \in 0 .. m
    BY DEF m
  <1>5. 0 \in I
    BY <1>1, <1>4
  <1>6. \A i \in 0 .. m - 1 : i \in I => i + 1 \in I
    <2> TAKE i \in 0 .. m - 1
    <2> HAVE i \in I
    <2>1. i + 1 \in 1 .. m /\ i + 1 \in 0 .. m /\ (i + 1) - 1 = i
      BY <1>1
    <2>2. CASE i + 1 > n
      <3>1. i + 1 \in n + 1 .. m /\ i >= n
        BY <1>1, <1>4, <2>1, <2>2
      <3>2. B[i + 1] = B[i]
        BY <1>2, <1>3, <2>1, <3>1 DEF Perform
      <3> QED
        BY <2>1, <3>1, <3>2
    <2>3. CASE i + 1 = n
      BY <2>1, <2>3
    <2>4. CASE i + 1 < n
      BY <1>4, <2>1, <2>4
    <2> QED
      BY <1>1, <1>4, <2>1, <2>2, <2>3, <2>4
  <1> HIDE DEF I
  <1>7. \A i \in 0 .. m : i \in I
    BY <1>1, <1>5, <1>6, Induction
  <1>8. m \in 0 .. m /\ m >= n
    BY <1>1, <1>4
  <1> QED
    BY <1>7, <1>8 DEF I, m, B

(* Two sets that agree on the first n changes give the same tables there.  *)
LEMMA WithinAgree ==
    ASSUME source \in Histories, NEW S, NEW R, NEW t \in 1 .. Len(source), NEW y \in Contents,
           NEW n \in 0 .. Len(source[t]),
           \A k \in 1 .. n : [tx |-> t, seq |-> k] \in S <=> [tx |-> t, seq |-> k] \in R
    PROVE  Within(S, t, y)[n] = Within(R, t, y)[n]
  <1> DEFINE A == Within(S, t, y)
             B == Within(R, t, y)
             I == {i \in 0 .. n : A[i] = B[i]}
  <1>1. n \in Nat /\ Len(source[t]) \in Nat
    BY SourceTyped
  <1>2. \A k \in 1 .. n : A[k] = Perform(S, t, k, A[k - 1]) /\ B[k] = Perform(R, t, k, B[k - 1])
    <2>1. \A k \in 1 .. n : k \in 1 .. Len(source[t])
      BY <1>1
    <2> QED
      BY <2>1, WithinEquation
  <1>3. A[0] = y /\ B[0] = y
    BY WithinEquation
  <1> HIDE DEF A, B
  <1>4. 0 \in I
    BY <1>1, <1>3
  <1>5. \A i \in 0 .. n - 1 : i \in I => i + 1 \in I
    <2> TAKE i \in 0 .. n - 1
    <2> HAVE i \in I
    <2>1. i + 1 \in 1 .. n /\ i + 1 \in 0 .. n /\ (i + 1) - 1 = i
      BY <1>1
    <2>2. Perform(S, t, i + 1, A[i]) = Perform(R, t, i + 1, B[i])
      BY <2>1 DEF Perform
    <2> QED
      BY <1>2, <2>1, <2>2
  <1> HIDE DEF I
  <1>6. \A i \in 0 .. n : i \in I
    BY <1>1, <1>4, <1>5, Induction
  <1>7. n \in 0 .. n
    BY <1>1
  <1> QED
    BY <1>6, <1>7 DEF I, A, B

(* Nothing to execute leaves the tables as they were.                      *)
LEMMA FoldOfNone ==
    ASSUME source \in Histories, NEW a \in Contents
    PROVE  M!RowsFrom(a, {}) = a
  <1> DEFINE n == Len(source)
             B == Between({}, a)
             I == {i \in 0 .. n : B[i] = a}
  <1>1. n \in Nat
    BY SourceTyped
  <1>2. /\ B[0] = a
        /\ \A t \in 1 .. n : B[t] = Within({}, t, B[t - 1])[Len(source[t])]
    BY BetweenEquation
  <1>3. \A t \in 1 .. n : Within({}, t, a)[Len(source[t])] = a
    <2> TAKE t \in 1 .. n
    <2> DEFINE S == {}
    <2>1. \A k \in 0 + 1 .. Len(source[t]) : [tx |-> t, seq |-> k] \notin S
      OBVIOUS
    <2> HIDE DEF S
    <2>2. Within(S, t, a)[0] = a
      BY WithinEquation
    <2>3. 0 \in 0 .. Len(source[t])
      BY SourceTyped
    <2>4. Within(S, t, a)[Len(source[t])] = Within(S, t, a)[0]
      BY <2>1, <2>3, WithinIdle
    <2> QED
      BY <2>2, <2>4 DEF S
  <1> HIDE DEF n, B
  <1>4. 0 \in I
    BY <1>1, <1>2
  <1>5. \A i \in 0 .. n - 1 : i \in I => i + 1 \in I
    <2> TAKE i \in 0 .. n - 1
    <2> HAVE i \in I
    <2>1. i + 1 \in 1 .. n /\ i + 1 \in 0 .. n /\ (i + 1) - 1 = i
      BY <1>1
    <2> QED
      BY <1>2, <1>3, <2>1
  <1> HIDE DEF I
  <1>6. \A i \in 0 .. n : i \in I
    BY <1>1, <1>4, <1>5, Induction
  <1>7. n \in 0 .. n
    BY <1>1
  <1> QED
    BY <1>6, <1>7, RowsFromIs DEF I, n, B

(* q is before r in the source.                                            *)
Precedes(q, r) == q.tx < r.tx \/ (q.tx = r.tx /\ q.seq < r.seq)

(* A change that comes after all those of S is executed last.              *)
LEMMA FoldOfOneMore ==
    ASSUME source \in Histories, NEW a \in Contents, NEW S, NEW r, IsId(source, r),
           r \notin S, \A q \in S : IsId(source, q) /\ Precedes(q, r)
    PROVE  M!RowsFrom(a, S \cup {r}) = M!Exec(M!RowsFrom(a, S), r, source[r.tx][r.seq])
  <1> DEFINE n == Len(source)
             R == S \cup {r}
             x == r.tx
             k == r.seq
             E(y) == M!Exec(y, r, source[x][k])
             A == Between(S, a)
             B == Between(R, a)
             I == {i \in 0 .. n : IF i < x THEN B[i] = A[i] ELSE B[i] = E(A[i])}
  <1>1. /\ n \in Nat /\ x \in 1 .. n /\ k \in 1 .. Len(source[x]) /\ r = [tx |-> x, seq |-> k]
        /\ \A t \in 1 .. n : Len(source[t]) \in Nat
    BY SourceTyped DEF IsId, Records
  <1>2. /\ A \in [0 .. n -> Contents] /\ B \in [0 .. n -> Contents] /\ A[0] = a /\ B[0] = a
        /\ \A t \in 1 .. n : /\ A[t] = Within(S, t, A[t - 1])[Len(source[t])]
                             /\ B[t] = Within(R, t, B[t - 1])[Len(source[t])]
    BY BetweenEquation
  <1>3. ASSUME NEW t \in 1 .. n, NEW y \in Contents, t < x
        PROVE  Within(R, t, y)[Len(source[t])] = Within(S, t, y)[Len(source[t])]
    <2>1. \A j \in 1 .. Len(source[t]) : [tx |-> t, seq |-> j] # r
      BY <1>1, <1>3
    <2>2. Len(source[t]) \in 0 .. Len(source[t])
      BY <1>1
    <2> QED
      BY <2>1, <2>2, WithinAgree
  <1>4. ASSUME NEW t \in 1 .. n, NEW y \in Contents, t > x, NEW Q \in {S, R}
        PROVE  Within(Q, t, y)[Len(source[t])] = y
    <2>1. \A q \in Q : q.tx \in 1 .. n /\ q.tx <= x
      BY <1>1 DEF Precedes, IsId
    <2>2. \A j \in 0 + 1 .. Len(source[t]) : [tx |-> t, seq |-> j] \notin Q
      <3> SUFFICES ASSUME NEW j \in 0 + 1 .. Len(source[t]), [tx |-> t, seq |-> j] \in Q
                   PROVE  FALSE
        OBVIOUS
      <3>1. [tx |-> t, seq |-> j].tx <= x
        BY <2>1
      <3> QED
        BY <1>1, <1>4, <3>1
    <2> HIDE DEF R
    <2>3. Within(Q, t, y)[0] = y
      BY WithinEquation
    <2>4. 0 \in 0 .. Len(source[t])
      BY <1>1
    <2>5. Within(Q, t, y)[Len(source[t])] = Within(Q, t, y)[0]
      BY <2>2, <2>4, WithinIdle
    <2> QED
      BY <2>3, <2>5
  <1>5. ASSUME NEW y \in Contents
        PROVE  Within(R, x, y)[Len(source[x])] = E(Within(S, x, y)[Len(source[x])])
    <2> DEFINE m == Len(source[x])
    <2>1. /\ k \in 0 .. m /\ k - 1 \in 0 .. m /\ \A j \in 1 .. k - 1 : [tx |-> x, seq |-> j] # r
          /\ \A j \in k + 1 .. m : [tx |-> x, seq |-> j] # r
      BY <1>1
    <2>2. \A j \in k .. m : [tx |-> x, seq |-> j] \notin S
      <3> SUFFICES ASSUME NEW j \in k .. m, [tx |-> x, seq |-> j] \in S PROVE FALSE
        OBVIOUS
      <3>1. Precedes([tx |-> x, seq |-> j], r)
        OBVIOUS
      <3> QED
        BY <1>1, <3>1 DEF Precedes
    <2>3. \A j \in k + 1 .. m : [tx |-> x, seq |-> j] \notin S /\ [tx |-> x, seq |-> j] \notin R
      BY <1>1, <2>1, <2>2
    <2>4. Within(S, x, y)[m] = Within(S, x, y)[k] /\ Within(R, x, y)[m] = Within(R, x, y)[k]
      <3> HIDE DEF R, x, k
      <3> QED
        BY <1>1, <2>1, <2>3, WithinIdle
    <2>5. Within(S, x, y)[k - 1] = Within(R, x, y)[k - 1]
      <3>1. \A j \in 1 .. k - 1 : [tx |-> x, seq |-> j] \in S <=> [tx |-> x, seq |-> j] \in R
        BY <2>1
      <3> HIDE DEF R, x, k
      <3> QED
        BY <1>1, <2>1, <3>1, WithinAgree
    <2>6. /\ Within(S, x, y)[k] = Perform(S, x, k, Within(S, x, y)[k - 1])
          /\ Within(R, x, y)[k] = Perform(R, x, k, Within(R, x, y)[k - 1])
      <3> HIDE DEF R, x, k
      <3> QED
        BY <1>1, WithinEquation
    <2>7. Perform(S, x, k, Within(S, x, y)[k - 1]) = Within(S, x, y)[k - 1]
      BY <1>1, <2>2 DEF Perform
    <2>8. Perform(R, x, k, Within(R, x, y)[k - 1]) = E(Within(R, x, y)[k - 1])
      BY <1>1 DEF Perform
    <2> HIDE DEF E, R, m, x, k
    <2> QED
      BY <2>4, <2>5, <2>6, <2>7, <2>8 DEF m
  <1> HIDE DEF n, R, x, k, E, A, B
  <1>6. 0 \in I
    BY <1>1, <1>2
  <1>7. \A i \in 0 .. n - 1 : i \in I => i + 1 \in I
    <2> TAKE i \in 0 .. n - 1
    <2> HAVE i \in I
    <2>1. i + 1 \in 1 .. n /\ i + 1 \in 0 .. n /\ (i + 1) - 1 = i /\ i \in 0 .. n
      BY <1>1
    <2>2. /\ A[i + 1] = Within(S, i + 1, A[i])[Len(source[i + 1])]
          /\ B[i + 1] = Within(R, i + 1, B[i])[Len(source[i + 1])]
          /\ A[i] \in Contents /\ B[i] \in Contents
      BY <1>2, <2>1
    <2>3. CASE i + 1 < x
      <3>1. i < x
        BY <1>1, <2>1, <2>3
      <3>2. B[i] = A[i]
        BY <3>1
      <3>3. B[i + 1] = A[i + 1]
        BY <1>3, <2>1, <2>2, <2>3, <3>2
      <3> QED
        BY <2>1, <2>3, <3>3
    <2>4. CASE i + 1 = x
      <3>1. i < x
        BY <1>1, <2>1, <2>4
      <3>2. B[i] = A[i]
        BY <3>1
      <3>3. B[i + 1] = E(A[i + 1])
        BY <1>5, <2>2, <2>4, <3>2
      <3> QED
        BY <1>1, <2>1, <2>4, <3>3
    <2>5. CASE i + 1 > x
      <3>1. ~ (i < x)
        BY <1>1, <2>1, <2>5
      <3>2. B[i] = E(A[i])
        BY <3>1
      <3>3. A[i + 1] = A[i] /\ B[i + 1] = B[i]
        BY <1>4, <2>1, <2>2, <2>5
      <3> QED
        BY <1>1, <2>1, <2>5, <3>2, <3>3
    <2> QED
      BY <1>1, <2>1, <2>3, <2>4, <2>5
  <1> HIDE DEF I
  <1>8. \A i \in 0 .. n : i \in I
    BY <1>1, <1>6, <1>7, Induction
  <1>9. n \in 0 .. n /\ ~ (n < x)
    BY <1>1
  <1>10. B[n] = E(A[n])
    BY <1>8, <1>9 DEF I
  <1>11. M!RowsFrom(a, S) = A[n] /\ M!RowsFrom(a, R) = B[n]
    BY RowsFromIs DEF A, B, n
  <1> QED
    BY <1>10, <1>11 DEF E, R, x, k

-----------------------------------------------------------------------------
(***************************************************************************)
(* The applier's mutations against Mirror's: where the events come in      *)
(* source order, its guards on LSNs and watermarks refuse nothing.         *)
(***************************************************************************)
Cell(row) == [val |-> row.val, big |-> row.big]
Shown(d)  == [t \in Tables |-> [k \in Keys |-> Cell(d.rows[t][k])]]

(* The tables of d are what the changes of A make of empty ones, and their *)
(* rows and watermarks carry the LSNs of these changes.                    *)
Mirrored(d, A) ==
    /\ Shown(d) = M!RowsAfter(A)
    /\ \A t \in Tables, k \in Keys :
          \/ d.rows[t][k] = Absent
          \/ d.rows[t][k].val.tx > 0 /\ \E q \in A : d.rows[t][k].lsn = q.tx
    /\ \A t \in Tables : d.water[t] # 0 =>
          \E q \in A : /\ q.tx = d.water[t] /\ source[q.tx][q.seq].op = "truncate"
                       /\ source[q.tx][q.seq].table = t

(* What is shown after a row is written.                                   *)
LEMMA RowShown ==
    ASSUME NEW d \in Databases, NEW t \in Tables, NEW k \in Keys, NEW row \in Rows
    PROVE  /\ Shown([d EXCEPT !.rows[t][k] = row]) = [Shown(d) EXCEPT ![t][k] = Cell(row)]
           /\ [d EXCEPT !.rows[t][k] = row].water = d.water
           /\ \A u \in Tables, j \in Keys :
                 [d EXCEPT !.rows[t][k] = row].rows[u][j]
                   = IF u = t /\ j = k THEN row ELSE d.rows[u][j]
  <1> DEFINE m == [d.rows EXCEPT ![t][k] = row]
             x == [d EXCEPT !.rows[t][k] = row]
  <1>1. d.rows \in [Tables -> [Keys -> Rows]]
    BY DEF Databases
  <1>2. \A u \in Tables, j \in Keys : m[u][j] = IF u = t /\ j = k THEN row ELSE d.rows[u][j]
    BY <1>1
  <1>3. x.rows = m /\ x.water = d.water
    BY DEF Databases
  <1> HIDE DEF m, x
  <1>4. Shown(x) = [Shown(d) EXCEPT ![t][k] = Cell(row)]
    <2>1. /\ Shown(x) = [u \in Tables |-> [j \in Keys |-> Cell(m[u][j])]]
          /\ Shown(d) = [u \in Tables |-> [j \in Keys |-> Cell(d.rows[u][j])]]
      BY <1>3 DEF Shown
    <2>2. \A u \in Tables : Shown(x)[u] = [Shown(d) EXCEPT ![t][k] = Cell(row)][u]
      <3> TAKE u \in Tables
      <3>1. CASE u = t
        BY <1>2, <2>1, <3>1
      <3>2. CASE u # t
        BY <1>2, <2>1, <3>2
      <3> QED
        BY <3>1, <3>2
    <2> QED
      BY <2>1, <2>2
  <1> QED
    BY <1>2, <1>3, <1>4 DEF x

(* Nothing is shown of a row that is not there, and only of such a row.    *)
LEMMA NothingShown ==
    ASSUME NEW row \in Rows
    PROVE  /\ Cell(Absent) = M!NoRow
           /\ row.val.tx > 0 => Cell(row) # M!NoRow
           /\ M!Default = ColumnDefault /\ Cell(row) \in Cells
  BY DEF Cell, Absent, Nil, M!NoRow, M!Nil, M!Default, ColumnDefault, Rows, Records, Cells

(* The tables shown are tables.                                            *)
LEMMA ShownTyped == ASSUME NEW d \in Databases PROVE Shown(d) \in Contents
  BY NothingShown DEF Shown, Contents, Databases

(* No transaction truncates a table twice.                                 *)
LEMMA OneTruncate ==
    ASSUME source \in Histories, TruncatesOnce, NEW q, NEW r, IsId(source, q), IsId(source, r),
           q.tx = r.tx, source[q.tx][q.seq].op = "truncate", source[r.tx][r.seq].op = "truncate",
           source[q.tx][q.seq].table = source[r.tx][r.seq].table
    PROVE  q.seq = r.seq
  <1>1. source[r.tx] \in Transactions
    BY DEF Transactions, IsId
  <1>2. q.seq \in 1 .. Len(source[r.tx]) /\ r.seq \in 1 .. Len(source[r.tx])
    BY DEF IsId
  <1> QED
    BY <1>1, <1>2 DEF TruncatesOnce

(* A change of a history.                                                  *)
LEMMA ChangeTyped ==
    ASSUME source \in Histories, NEW r, IsId(source, r)
    PROVE  /\ source[r.tx][r.seq] \in M!Change
           /\ EventOf(source, r).op = source[r.tx][r.seq].op
           /\ EventOf(source, r).table = source[r.tx][r.seq].table
           /\ EventOf(source, r).key = source[r.tx][r.seq].key
           /\ source[r.tx][r.seq].op \in {"upsert", "preserve", "delete", "truncate"}
           /\ source[r.tx][r.seq].table \in Tables /\ source[r.tx][r.seq].key \in Keys
  <1>1. source[r.tx][r.seq] \in M!Change
    BY SourceTyped, ElementOfSeq DEF IsId
  <1>2. /\ EventOf(source, r).op = source[r.tx][r.seq].op
        /\ EventOf(source, r).table = source[r.tx][r.seq].table
        /\ EventOf(source, r).key = source[r.tx][r.seq].key
    BY DEF EventOf
  <1> QED
    BY <1>1, <1>2 DEF M!Change, M!Ops

(* A TRUNCATE that comes in source order is not stale.                     *)
LEMMA InOrderNotStale ==
    ASSUME source \in Histories, TruncatesOnce, NEW d \in Databases, NEW A, NEW r,
           IsId(source, r), \A q \in A : IsId(source, q) /\ q # r /\ q.tx <= r.tx,
           Mirrored(d, A)
    PROVE  ~StaleTruncate(d, EventOf(source, r))
  <1> DEFINE e == EventOf(source, r)
  <1> SUFFICES ASSUME e.op = "truncate", d.water[e.table] # 0, LSN(e) <= d.water[e.table]
               PROVE  FALSE
    BY DEF StaleTruncate, TruncateIsStale
  <1>1. /\ e.table \in Tables /\ e.table = source[r.tx][r.seq].table
        /\ source[r.tx][r.seq].op = "truncate" /\ LSN(e) = r.tx
    BY ChangeTyped, EventTyped DEF LSN
  <1> HIDE DEF e
  <1>2. PICK q \in A : /\ q.tx = d.water[e.table] /\ source[q.tx][q.seq].op = "truncate"
                       /\ source[q.tx][q.seq].table = e.table
    BY <1>1 DEF Mirrored
  <1>3. q \in Records /\ r \in Records /\ q.tx <= r.tx
    BY <1>2 DEF IsId
  <1>4. q.tx = r.tx
    <2>1. r.tx <= q.tx
      BY <1>1, <1>2
    <2> QED
      BY <1>3, <2>1 DEF Records
  <1>5. q.seq = r.seq
    BY <1>1, <1>2, <1>4, OneTruncate
  <1> QED
    BY <1>3, <1>4, <1>5 DEF Records

(* An event that comes after those applied is applied as the source did.   *)
LEMMA MutationMirrors ==
    ASSUME source \in Histories, TruncatesOnce, NEW d \in Databases, NEW A, NEW r,
           IsId(source, r), \A q \in A : IsId(source, q) /\ Precedes(q, r), Mirrored(d, A)
    PROVE  Mirrored(ApplyMutation(d, EventOf(source, r)), A \cup {r})
  <1> DEFINE e == EventOf(source, r)
             c == source[r.tx][r.seq]
             x == ApplyMutation(d, e)
             t == c.table
             k == c.key
             row == d.rows[t][k]
             Born(y, u, j, Q) == \/ y.rows[u][j] = Absent
                                 \/ y.rows[u][j].val.tx > 0 /\ \E q \in Q : y.rows[u][j].lsn = q.tx
             Truncated(y, u, Q) == y.water[u] # 0 =>
                 \E q \in Q : /\ q.tx = y.water[u] /\ source[q.tx][q.seq].op = "truncate"
                              /\ source[q.tx][q.seq].table = u
  <1>1. /\ e.id = r /\ e.op = c.op /\ e.table = t /\ e.key = k /\ LSN(e) = r.tx
        /\ c \in M!Change /\ c.op \in {"upsert", "preserve", "delete", "truncate"}
        /\ t \in Tables /\ k \in Keys
    BY ChangeTyped, EventTyped DEF LSN
  <1>2. r \in Records /\ r.tx \in Nat /\ r.tx > 0 /\ row \in Rows
    BY <1>1 DEF IsId, Databases, Records
  <1>3. \A q \in A : q.tx \in Nat /\ q.tx <= r.tx /\ q # r
    BY <1>2 DEF IsId, Records, Precedes
  <1>4. /\ Shown(d) = M!RowsAfter(A)
        /\ \A u \in Tables, j \in Keys : Born(d, u, j, A)
        /\ \A u \in Tables : Truncated(d, u, A)
    BY DEF Mirrored
  <1>5. M!RowsAfter(A \cup {r}) = M!Exec(M!RowsAfter(A), r, c)
    <2>1. M!Empty \in Contents
      BY DEF M!Empty, M!NoRow, M!Nil, Contents, Cells, Records
    <2>2. r \notin A
      BY <1>3
    <2>3. M!RowsFrom(M!Empty, A \cup {r}) = M!Exec(M!RowsFrom(M!Empty, A), r, source[r.tx][r.seq])
      BY <2>1, <2>2, FoldOfOneMore
    <2> QED
      BY <2>3 DEF M!RowsAfter
  <1>6. row.lsn <= r.tx /\ row.lsn \in Nat
    <2>1. row.lsn \in Nat
      BY <1>2 DEF Rows
    <2>2. CASE row = Absent
      BY <1>2, <2>2 DEF Absent
    <2>3. CASE row # Absent
      <3>1. Born(d, t, k, A)
        BY <1>1, <1>4
      <3>2. PICK q \in A : row.lsn = q.tx
        BY <2>3, <3>1
      <3> QED
        BY <1>3, <3>2
    <2> QED
      BY <2>1, <2>2, <2>3
  <1>7. Cell(row) = Shown(d)[t][k] /\ (row = Absent <=> Cell(row) = M!NoRow)
    <2>1. Cell(row) = Shown(d)[t][k]
      BY <1>1 DEF Shown
    <2>2. row = Absent => Cell(row) = M!NoRow
      BY <1>2, NothingShown
    <2>3. row # Absent => row.val.tx > 0
      BY <1>1, <1>4
    <2>4. row # Absent => Cell(row) # M!NoRow
      BY <1>2, <2>3, NothingShown
    <2> QED
      BY <2>1, <2>2, <2>4
  <1> SUFFICES /\ Shown(x) = M!Exec(Shown(d), r, c)
               /\ \A u \in Tables, j \in Keys : Born(x, u, j, A \cup {r})
               /\ \A u \in Tables : Truncated(x, u, A \cup {r})
    BY <1>4, <1>5 DEF Mirrored
  <1>8. ASSUME NEW new \in Rows, x = [d EXCEPT !.rows[t][k] = new],
               M!Exec(Shown(d), r, c) = [Shown(d) EXCEPT ![t][k] = Cell(new)],
               new = Absent \/ (new.val.tx > 0 /\ new.lsn = r.tx)
        PROVE  /\ Shown(x) = M!Exec(Shown(d), r, c)
               /\ \A u \in Tables, j \in Keys : Born(x, u, j, A \cup {r})
               /\ \A u \in Tables : Truncated(x, u, A \cup {r})
    <2> HIDE DEF x, e, t, k, c, row
    <2>1. /\ Shown(x) = [Shown(d) EXCEPT ![t][k] = Cell(new)]
          /\ x.water = d.water
          /\ \A u \in Tables, j \in Keys :
                x.rows[u][j] = IF u = t /\ j = k THEN new ELSE d.rows[u][j]
      <3> DEFINE y == [d EXCEPT !.rows[t][k] = new]
      <3>1. /\ Shown(y) = [Shown(d) EXCEPT ![t][k] = Cell(new)] /\ y.water = d.water
            /\ \A u \in Tables, j \in Keys :
                  y.rows[u][j] = IF u = t /\ j = k THEN new ELSE d.rows[u][j]
        BY <1>1, RowShown
      <3>2. x = y
        BY <1>8
      <3> HIDE DEF y
      <3> QED
        BY <3>1, <3>2
    <2>2. ASSUME NEW u \in Tables, NEW j \in Keys
          PROVE  Born(x, u, j, A \cup {r})
      <3>1. CASE u = t /\ j = k
        BY <1>8, <2>1, <3>1
      <3>2. CASE ~ (u = t /\ j = k)
        <4>1. x.rows[u][j] = d.rows[u][j] /\ Born(d, u, j, A)
          BY <1>4, <2>1, <3>2
        <4> QED
          BY <4>1
      <3> QED
        BY <3>1, <3>2
    <2>3. ASSUME NEW u \in Tables
          PROVE  Truncated(x, u, A \cup {r})
      <3>1. x.water[u] = d.water[u] /\ Truncated(d, u, A)
        BY <1>4, <2>1
      <3> QED
        BY <3>1
    <2> QED
      BY <1>8, <2>1, <2>2, <2>3
  <1>9. CASE c.op = "upsert"
    <2> DEFINE new == [lsn |-> r.tx, val |-> r, big |-> r]
    <2>1. /\ new \in Rows /\ new.val.tx > 0 /\ new.lsn = r.tx /\ Cell(new) = [val |-> r, big |-> r]
      BY <1>2 DEF Rows, Cell
    <2>2. x = [d EXCEPT !.rows[t][k] = new]
      <3>1. x = Upsert(d, e)
        BY <1>1, <1>9 DEF ApplyMutation
      <3> HIDE DEF x, e
      <3>2. ~ (row.lsn > r.tx)
        <4> HIDE DEF row
        <4> QED
          BY <1>2, <1>6
      <3> QED
        BY <1>1, <3>1, <3>2 DEF Upsert
    <2>3. M!Exec(Shown(d), r, c) = [Shown(d) EXCEPT ![t][k] = Cell(new)]
      BY <1>9, <2>1 DEF M!Exec
    <2> HIDE DEF new, x
    <2> QED
      BY <1>8, <2>1, <2>2, <2>3
  <1>10. CASE c.op = "preserve"
    <2> DEFINE new == [lsn |-> r.tx, val |-> r, big |-> IF row = Absent THEN ColumnDefault ELSE row.big]
    <2>1. new \in Rows /\ new.val.tx > 0 /\ new.lsn = r.tx
      BY <1>2 DEF Rows, ColumnDefault, Records
    <2>2. Cell(new) = [val |-> r, big |-> IF Cell(row) = M!NoRow THEN M!Default ELSE Cell(row).big]
      <3>1. M!Default = ColumnDefault /\ Cell(row).big = row.big
        BY <1>2, NothingShown DEF Cell
      <3>2. Cell(new) = [val |-> r, big |-> IF row = Absent THEN ColumnDefault ELSE row.big]
        BY DEF Cell
      <3> QED
        BY <1>7, <3>1, <3>2
    <2>3. x = [d EXCEPT !.rows[t][k] = new]
      <3>1. x = UpdatePreserving(d, e)
        BY <1>1, <1>10 DEF ApplyMutation
      <3> HIDE DEF x, e
      <3> QED
        BY <1>1, <1>6, <3>1 DEF UpdatePreserving
    <2>4. M!Exec(Shown(d), r, c) = [Shown(d) EXCEPT ![t][k] = Cell(new)]
      <3>1. M!Exec(Shown(d), r, c)
              = [Shown(d) EXCEPT ![t][k] =
                   [val |-> r, big |-> IF Shown(d)[t][k] = M!NoRow THEN M!Default ELSE Shown(d)[t][k].big]]
        BY <1>10 DEF M!Exec
      <3> QED
        BY <1>7, <2>2, <3>1
    <2> HIDE DEF new, x
    <2> QED
      BY <1>8, <2>1, <2>3, <2>4
  <1>11. CASE c.op = "delete"
    <2>1. Absent \in Rows /\ Cell(Absent) = M!NoRow
      BY NothingShown DEF Absent, Nil, Rows, Records
    <2>2. x = [d EXCEPT !.rows[t][k] = Absent]
      <3>1. x = Delete(d, e)
        BY <1>1, <1>11 DEF ApplyMutation
      <3> HIDE DEF x, e
      <3> QED
        BY <1>1, <1>6, <3>1 DEF Delete
    <2>3. M!Exec(Shown(d), r, c) = [Shown(d) EXCEPT ![t][k] = Cell(Absent)]
      BY <1>11, <2>1 DEF M!Exec
    <2> HIDE DEF x
    <2> QED
      BY <1>8, <2>1, <2>2, <2>3
  <1>12. CASE c.op = "truncate"
    <2> DEFINE m == [d.rows EXCEPT ![t] = [j \in Keys |-> Absent]]
               w == [d.water EXCEPT ![t] = r.tx]
    <2>1. x = [d EXCEPT !.rows[t] = [j \in Keys |-> Absent], !.water[t] = r.tx]
      <3>1. x = Truncate(d, e)
        BY <1>1, <1>12 DEF ApplyMutation
      <3>2. ~StaleTruncate(d, e)
        BY <1>3, InOrderNotStale
      <3>3. ~TruncateIsStale(LSN(e), d.water[e.table])
        BY <1>1, <1>12, <3>2 DEF StaleTruncate
      <3> HIDE DEF x, e
      <3> QED
        BY <1>1, <3>1, <3>3 DEF Truncate
    <2>2. x.rows = m /\ x.water = w
      BY <2>1 DEF Databases
    <2>3. d.rows \in [Tables -> [Keys -> Rows]] /\ d.water \in [Tables -> Nat]
      BY DEF Databases
    <2> HIDE DEF x
    <2>4. \A u \in Tables, j \in Keys : m[u][j] = IF u = t THEN Absent ELSE d.rows[u][j]
      BY <1>1, <2>3
    <2>5. \A u \in Tables : w[u] = IF u = t THEN r.tx ELSE d.water[u]
      BY <1>1, <2>3
    <2>6. Shown(x) = M!Exec(Shown(d), r, c)
      <3>1. Cell(Absent) = M!NoRow
        BY <1>2, NothingShown
      <3>2. M!Exec(Shown(d), r, c) = [Shown(d) EXCEPT ![t] = [j \in Keys |-> M!NoRow]]
        BY <1>12 DEF M!Exec
      <3>3. /\ Shown(x) = [u \in Tables |-> [j \in Keys |-> Cell(m[u][j])]]
            /\ Shown(d) = [u \in Tables |-> [j \in Keys |-> Cell(d.rows[u][j])]]
        BY <2>2 DEF Shown
      <3> HIDE DEF m
      <3>4. \A u \in Tables : Shown(x)[u] = [Shown(d) EXCEPT ![t] = [j \in Keys |-> M!NoRow]][u]
        <4> TAKE u \in Tables
        <4>1. CASE u = t
          BY <2>4, <3>1, <3>3, <4>1
        <4>2. CASE u # t
          BY <2>4, <3>3, <4>2
        <4> QED
          BY <4>1, <4>2
      <3> QED
        BY <3>2, <3>3, <3>4
    <2>7. ASSUME NEW u \in Tables, NEW j \in Keys
          PROVE  Born(x, u, j, A \cup {r})
      <3>1. CASE u = t
        BY <2>2, <2>4, <3>1
      <3>2. CASE u # t
        <4>1. x.rows[u][j] = d.rows[u][j] /\ Born(d, u, j, A)
          BY <1>4, <2>2, <2>4, <3>2
        <4> QED
          BY <4>1
      <3> QED
        BY <3>1, <3>2
    <2>8. ASSUME NEW u \in Tables
          PROVE  Truncated(x, u, A \cup {r})
      <3>1. CASE u = t
        <4>1. x.water[u] = r.tx /\ r \in A \cup {r}
          BY <2>2, <2>5, <3>1
        <4> QED
          BY <1>12, <3>1, <4>1
      <3>2. CASE u # t
        <4>1. x.water[u] = d.water[u] /\ Truncated(d, u, A)
          BY <1>4, <2>2, <2>5, <3>2
        <4> QED
          BY <4>1
      <3> QED
        BY <3>1, <3>2
    <2> QED
      BY <2>6, <2>7, <2>8
  <1> QED
    BY <1>1, <1>9, <1>10, <1>11, <1>12

(* Mirrored is about the tables and their watermarks.                      *)
LEMMA SameTables ==
    ASSUME NEW c \in Databases, NEW d \in Databases, c.rows = d.rows, c.water = d.water, NEW A,
           Mirrored(d, A)
    PROVE  Mirrored(c, A)
  BY DEF Mirrored, Shown

(* The events of a batch that are not marked yet come after those applied: *)
(* each is applied in source order.                                        *)
LEMMA BatchMirrors ==
    ASSUME source \in Histories, TruncatesOnce, NEW d \in Databases, NEW events \in Seq(Events),
           NEW x,
           \A i \in 1 .. Len(events) :
              /\ events[i].id = [tx |-> x, seq |-> i]
              /\ events[i] = EventOf(source, events[i].id) /\ IsId(source, events[i].id),
           NEW A, \A q \in A : IsId(source, q),
           \A i \in Fresh(d, events) : \A q \in A :
              /\ q.tx <= x /\ q # events[i].id
              /\ ~StaleTruncate(BatchStates(d, events)[i - 1], events[i])
                    => Precedes(q, events[i].id),
           Mirrored(d, A)
    PROVE  /\ Mirrored(ApplyBatch(d, events), A \cup {events[i].id : i \in Fresh(d, events)})
           /\ \A i \in Fresh(d, events) :
                 ~StaleTruncate(BatchStates(d, events)[i - 1], events[i])
  <1> DEFINE n == Len(events)
             F == Fresh(d, events)
             B == BatchStates(d, events)
             Upto(i) == A \cup {events[j].id : j \in {h \in F : h <= i}}
             S == {i \in 0 .. n : Mirrored(B[i], Upto(i))}
  <1>1. n \in Nat /\ F \subseteq 1 .. n
    BY DEF Fresh
  <1>2. /\ \A i \in 0 .. n : B[i] \in Databases
        /\ B[0] = Marked(d, events)
        /\ \A i \in 1 .. n : B[i] = Advance(d, events, i, B[i - 1])
    BY BatchStatesEquation
  <1>3. \A i \in 1 .. n : B[i] = IF i \in F THEN ApplyMutation(B[i - 1], events[i]) ELSE B[i - 1]
    BY <1>2 DEF Advance
  <1> HIDE DEF n, F, B
  <1>4. \A i \in 1 .. n : /\ events[i].id = [tx |-> x, seq |-> i]
                          /\ events[i] = EventOf(source, events[i].id) /\ IsId(source, events[i].id)
    BY DEF n
  <1>5. \A i \in F : \A q \in A :
           /\ q.tx <= x /\ q # events[i].id
           /\ ~StaleTruncate(B[i - 1], events[i]) => Precedes(q, events[i].id)
    BY DEF F, B
  <1>6. ASSUME NEW i \in 0 .. n, i + 1 \in F, Mirrored(B[i], Upto(i))
        PROVE  ~StaleTruncate(B[i], events[i + 1])
    <2> DEFINE r == events[i + 1].id
    <2>1. /\ i + 1 \in 1 .. n /\ (i + 1) - 1 = i /\ B[i] \in Databases
          /\ events[i + 1] = EventOf(source, r) /\ IsId(source, r) /\ r = [tx |-> x, seq |-> i + 1]
      BY <1>1, <1>2, <1>4, <1>6
    <2>2. ASSUME NEW q \in Upto(i)
          PROVE  IsId(source, q) /\ q # r /\ q.tx <= r.tx
      <3>1. CASE q \in A
        BY <1>5, <1>6, <2>1, <3>1
      <3>2. CASE q \notin A
        <4>1. PICK j \in F : j <= i /\ q = events[j].id
          BY <3>2
        <4>2. j \in 1 .. n /\ q = [tx |-> x, seq |-> j] /\ IsId(source, q) /\ j # i + 1
          BY <1>1, <1>4, <4>1
        <4>3. x \in Nat
          BY <4>2 DEF IsId, Records
        <4> HIDE DEF r
        <4> QED
          BY <2>1, <4>2, <4>3
      <3> QED
        BY <3>1, <3>2
    <2> HIDE DEF Upto, r
    <2>3. ~StaleTruncate(B[i], EventOf(source, r))
      BY <1>6, <2>1, <2>2, InOrderNotStale
    <2> QED
      BY <2>1, <2>3
  <1>7. 0 \in S
    <2>1. Upto(0) = A
      BY <1>1
    <2>2. B[0] \in Databases /\ B[0].rows = d.rows /\ B[0].water = d.water
      <3>1. 0 \in 0 .. n
        BY <1>1
      <3>2. Marked(d, events).rows = d.rows /\ Marked(d, events).water = d.water
        BY DEF Marked, Databases
      <3> QED
        BY <1>2, <3>1, <3>2
    <2>3. Mirrored(B[0], A)
      BY <2>2, SameTables
    <2>4. 0 \in 0 .. n
      BY <1>1
    <2> HIDE DEF Upto
    <2> QED
      BY <2>1, <2>3, <2>4
  <1>8. \A i \in 0 .. n - 1 : i \in S => i + 1 \in S
    <2> TAKE i \in 0 .. n - 1
    <2> HAVE i \in S
    <2> DEFINE r == events[i + 1].id
    <2>1. i \in 0 .. n /\ i + 1 \in 1 .. n /\ i + 1 \in 0 .. n /\ (i + 1) - 1 = i
      BY <1>1
    <2>2. Mirrored(B[i], Upto(i)) /\ B[i] \in Databases
      BY <1>2, <2>1
    <2>3. CASE i + 1 \in F
      <3>1. B[i + 1] = ApplyMutation(B[i], EventOf(source, r)) /\ IsId(source, r)
        BY <1>3, <1>4, <2>1, <2>3
      <3>2. Upto(i + 1) = Upto(i) \cup {r}
        <4>1. \A h \in F : h <= i + 1 <=> h <= i \/ h = i + 1
          BY <1>1, <2>1
        <4> QED
          BY <2>3, <4>1
      <3>3. ~StaleTruncate(B[i], events[i + 1])
        BY <1>6, <2>1, <2>2, <2>3
      <3>4. ASSUME NEW q \in Upto(i)
            PROVE  IsId(source, q) /\ Precedes(q, r)
        <4>1. CASE q \in A
          BY <1>5, <2>1, <2>3, <3>3, <4>1
        <4>2. CASE q \notin A
          <5>1. PICK j \in F : j <= i /\ q = events[j].id
            BY <4>2
          <5>2. j \in 1 .. n /\ q = [tx |-> x, seq |-> j] /\ IsId(source, q)
            BY <1>1, <1>4, <5>1
          <5>3. r = [tx |-> x, seq |-> i + 1]
            BY <1>4, <2>1
          <5>4. j < i + 1
            BY <2>1, <5>1, <5>2
          <5> HIDE DEF r
          <5> QED
            BY <5>2, <5>3, <5>4 DEF Precedes
        <4> QED
          BY <4>1, <4>2
      <3> HIDE DEF Upto, r
      <3>5. Mirrored(ApplyMutation(B[i], EventOf(source, r)), Upto(i) \cup {r})
        BY <2>2, <3>1, <3>4, MutationMirrors
      <3> QED
        BY <2>1, <3>1, <3>2, <3>5
    <2>4. CASE i + 1 \notin F
      <3>1. B[i + 1] = B[i]
        BY <1>3, <2>1, <2>4
      <3>2. Upto(i + 1) = Upto(i)
        <4>1. \A h \in F : h <= i + 1 <=> h <= i
          BY <1>1, <2>1, <2>4
        <4> QED
          BY <4>1
      <3> HIDE DEF Upto
      <3> QED
        BY <2>1, <2>2, <3>1, <3>2
    <2> QED
      BY <2>3, <2>4
  <1> HIDE DEF S
  <1>9. \A i \in 0 .. n : i \in S
    BY <1>1, <1>7, <1>8, Induction
  <1>10. n \in 0 .. n /\ Upto(n) = A \cup {events[i].id : i \in F}
    BY <1>1
  <1>11. Mirrored(B[n], A \cup {events[i].id : i \in F})
    <2>1. Mirrored(B[n], Upto(n))
      BY <1>9, <1>10 DEF S
    <2> HIDE DEF Upto
    <2> QED
      BY <1>10, <2>1
  <1>12. ASSUME NEW i \in F
         PROVE  ~StaleTruncate(B[i - 1], events[i])
    <2>1. i - 1 \in 0 .. n /\ (i - 1) + 1 = i
      BY <1>1
    <2>2. Mirrored(B[i - 1], Upto(i - 1))
      BY <1>9, <2>1 DEF S
    <2> HIDE DEF Upto
    <2> QED
      BY <1>6, <2>1, <2>2
  <1> QED
    BY <1>11, <1>12 DEF ApplyBatch, n, F, B
=============================================================================
