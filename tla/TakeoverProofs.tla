--------------------------- MODULE TakeoverProofs ---------------------------
(***************************************************************************)
(* Proofs about Takeover, and so about Writer, for any source histories,   *)
(* topics of any length, torn or not, any number of crashes, of evictions, *)
(* of refused statements and of failing repairs: what two writers that     *)
(* apply groups beside each other keep true together, that the tables are  *)
(* what the applied events produce once each in source order, and that the *)
(* writer implements Mirror.                                               *)
(***************************************************************************)
EXTENDS Takeover, DestinationProofs, FiniteSetTheorems, FunctionTheorems

(* A writer's locals.                                                      *)
Workers == [pc : {"down", "poll", "apply", "replay", "retry", "commit"}, pos : Nat,
            group : Seq(Events), poison : Nat, undefined : BOOLEAN, next : Nat \ {0}]

Locals(p, o, g, i, u, n) ==
    [pc |-> p, pos |-> o, group |-> g, poison |-> i, undefined |-> u, next |-> n]

Owner   == Locals(pc, pos, group, poison, undefined, next)
Evictee == Locals(oldPc, oldPos, oldGroup, oldPoison, oldUndefined, oldNext)

(***************************************************************************)
(* The inductive invariant.                                                *)
(***************************************************************************)

(* The transaction of the group in hand.                                   *)
Tx(w) == w.group[1].id.tx

(* A group is the last records polled: the first events of a transaction.  *)
GroupOf(s, l, w) ==
    /\ Len(w.group) <= w.pos
    /\ \A i \in 1 .. Len(w.group) :
          /\ w.group[i] = EventOf(s, l[w.pos - Len(w.group) + i])
          /\ l[w.pos - Len(w.group) + i] = [tx |-> Tx(w), seq |-> i]

(* Change k of transaction t may be found at fault: it has one itself, or  *)
(* it takes the blame for a later change with a missing column.            *)
Blamable(s, t, k) ==
    \/ s[t][k].fault # "none"
    \/ \E l \in k + 1 .. Len(s[t]) :
          s[t][l].fault = "drift" /\ \A j \in k .. l : Queued(s[t][j])

(* Where it is complete, and which of its events are marked already.       *)
Progress(s, m, quiet, w) ==
    /\ w.group # <<>> => IF w.pc = "poll" THEN Len(w.group) < Len(s[Tx(w)])
                         ELSE Len(w.group) = Len(s[Tx(w)])
    /\ w.pc # "poll" => w.group # <<>>
    /\ w.pc \in {"replay", "retry"} =>
          /\ w.poison \in 1 .. Len(w.group)
          /\ quiet => Blamable(s, Tx(w), w.poison)
          /\ \A i \in 1 .. Len(w.group) :
                i # w.poison /\ (w.pc = "replay" => i < w.next) => w.group[i].id \in m
    /\ w.pc = "commit" => \A i \in 1 .. Len(w.group) : w.group[i].id \in m

(* A writer w at work on the topic l of the history s, with markers m; no  *)
(* statement was refused that could have succeeded as long as it is quiet. *)
Local(s, l, m, quiet, w) ==
    /\ w \in Workers /\ w.pos <= Len(l) /\ Len(w.group) <= Len(l) /\ w.poison <= Len(l)
    /\ w.pc # "down" =>
          /\ GroupOf(s, l, w)
          /\ Progress(s, m, quiet, w)
          /\ \A i \in 1 .. w.pos - Len(w.group) : l[i] \in m

(* Before the first event of a transaction, all earlier transactions are   *)
(* in the topic l.                                                         *)
Preceded(s, l, n) ==
    /\ \A k \in 1 .. l[n].seq - 1 : \E h \in 1 .. n - 1 : l[h] = [tx |-> l[n].tx, seq |-> k]
    /\ \A t \in 1 .. l[n].tx - 1 : \A k \in 1 .. Len(s[t]) :
          \E h \in 1 .. n - 1 : l[h] = [tx |-> t, seq |-> k]

TopicInv ==
    /\ source \in Histories
    /\ log \in Seq(Records) /\ \A i \in 1 .. Len(log) : IsId(source, log[i])
    /\ \A i \in 1 .. Len(log) : Preceded(source, log, i)

(* The markers m are those of whole transactions, and of one more.         *)
Ordered(s, m) ==
    \A r \in m : \A t \in 1 .. r.tx - 1 : \A k \in 1 .. Len(s[t]) : [tx |-> t, seq |-> k] \in m

(* The transactions without a fault are marked whole or not at all.        *)
Whole(s, m) ==
    \A t \in 1 .. Len(s) :
        (\A k \in 1 .. Len(s[t]) : s[t][k].fault = "none") =>
            \/ \A k \in 1 .. Len(s[t]) : [tx |-> t, seq |-> k] \in m
            \/ \A k \in 1 .. Len(s[t]) : [tx |-> t, seq |-> k] \notin m

(* Ahead of a change that is marked, only one to blame is not.             *)
BlamedLast(s, m) ==
    \A r \in m : \A k \in 1 .. r.seq - 1 :
        [tx |-> r.tx, seq |-> k] \in m \/ Blamable(s, r.tx, k)

DatabaseInv ==
    /\ db \in Databases
    /\ \A r \in db.marks \cup db.dead : IsId(source, r)
    /\ db.dead \subseteq db.marks
    /\ Ordered(source, db.marks)
    /\ Undisturbed => Whole(source, db.marks)
    /\ Undisturbed => BlamedLast(source, db.marks)
    /\ Undisturbed => \A r \in db.dead : Blamable(source, r.tx, r.seq)

OffsetInv ==
    /\ offset \in 0 .. Len(log) /\ \A i \in 1 .. offset : log[i] \in db.marks
    /\ crashes \in 0 .. MaxCrashes /\ hiccups \in 0 .. MaxHiccups

IInv ==
    /\ TopicInv /\ DatabaseInv /\ OffsetInv
    /\ Local(source, log, db.marks, Undisturbed, Owner)
    /\ Local(source, log, db.marks, Undisturbed, Evictee)

-----------------------------------------------------------------------------
(***************************************************************************)
(* Writers.                                                                *)
(***************************************************************************)

(* What the others do leaves a writer's claims true: the topic grows at    *)
(* its end, markers are only added.                                        *)
LEMMA Bystander ==
    ASSUME NEW s, NEW l \in Seq(Records), NEW k \in Seq(Records),
           NEW m, NEW n, NEW q \in BOOLEAN, NEW p \in BOOLEAN, NEW w,
           Len(l) <= Len(k), \A i \in 1 .. Len(l) : k[i] = l[i],
           m \subseteq n, p => q, Local(s, l, m, q, w)
    PROVE  Local(s, k, n, p, w)
  <1>1. /\ w \in Workers /\ w.pos <= Len(l) /\ Len(w.group) <= Len(l) /\ w.poison <= Len(l)
        /\ w.pc # "down" =>
              /\ GroupOf(s, l, w) /\ Progress(s, m, q, w)
              /\ \A i \in 1 .. w.pos - Len(w.group) : l[i] \in m
    BY DEF Local
  <1>2. w.pos \in Nat /\ w.group \in Seq(Events) /\ w.poison \in Nat
    BY <1>1 DEF Workers
  <1>3. Len(w.group) \in Nat /\ Len(l) \in Nat /\ Len(k) \in Nat
    BY <1>2
  <1>4. w.pos <= Len(k) /\ Len(w.group) <= Len(k) /\ w.poison <= Len(k)
    BY <1>1, <1>2, <1>3
  <1>5. ASSUME w.pc # "down"
        PROVE  GroupOf(s, k, w)
    <2>1. GroupOf(s, l, w)
      BY <1>1, <1>5
    <2>2. \A i \in 1 .. Len(w.group) : w.pos - Len(w.group) + i \in 1 .. Len(l)
      BY <1>1, <1>2, <1>3, <2>1 DEF GroupOf
    <2> QED
      BY <2>1, <2>2 DEF GroupOf
  <1>6. ASSUME w.pc # "down"
        PROVE  Progress(s, n, p, w)
    BY <1>1, <1>6 DEF Progress
  <1>7. ASSUME w.pc # "down", NEW i \in 1 .. w.pos - Len(w.group)
        PROVE  k[i] \in n
    <2>1. i \in 1 .. Len(l)
      BY <1>1, <1>2, <1>3
    <2> QED
      BY <1>1, <1>7, <2>1
  <1> QED
    BY <1>1, <1>4, <1>5, <1>6, <1>7 DEF Local

(* The events a writer has in hand are of one transaction, all of whose    *)
(* predecessors are marked.                                                *)
LEMMA Predecessors ==
    ASSUME TopicInv, NEW m, NEW q, NEW w, Local(source, log, m, q, w),
           w.pc # "down", w.group # <<>>
    PROVE  /\ Tx(w) \in 1 .. Len(source)
           /\ Len(w.group) \in Nat /\ Len(w.group) <= Len(source[Tx(w)])
           /\ \A i \in 1 .. Len(w.group) :
                 /\ w.group[i] \in Events /\ w.group[i].id = [tx |-> Tx(w), seq |-> i]
                 /\ w.group[i] = EventOf(source, w.group[i].id)
                 /\ IsId(source, w.group[i].id)
           /\ \A t \in 1 .. Tx(w) - 1 : \A k \in 1 .. Len(source[t]) : [tx |-> t, seq |-> k] \in m
  <1> DEFINE b == w.pos - Len(w.group)
  <1>1. /\ w \in Workers /\ w.pos <= Len(log) /\ GroupOf(source, log, w)
        /\ Progress(source, m, q, w) /\ \A i \in 1 .. b : log[i] \in m
    BY DEF Local
  <1>2. w.pos \in Nat /\ w.group \in Seq(Events) /\ Len(w.group) \in Nat /\ Len(w.group) # 0
        /\ Len(log) \in Nat
    BY <1>1 DEF Workers, TopicInv
  <1>3. b \in Nat /\ b + 1 \in 1 .. Len(log) /\ \A i \in 1 .. Len(w.group) : b + i \in 1 .. Len(log)
    BY <1>1, <1>2 DEF GroupOf
  <1>4. \A i \in 1 .. Len(w.group) :
           /\ w.group[i] \in Events /\ w.group[i] = EventOf(source, log[b + i])
           /\ log[b + i] = [tx |-> Tx(w), seq |-> i]
    BY <1>1, <1>2, ElementOfSeq DEF GroupOf
  <1>5. \A i \in 1 .. Len(w.group) : IsId(source, log[b + i]) /\ w.group[i].id = log[b + i]
    <2> TAKE i \in 1 .. Len(w.group)
    <2>1. IsId(source, log[b + i])
      BY <1>3 DEF TopicInv
    <2>2. EventOf(source, log[b + i]).id = log[b + i]
      BY DEF EventOf
    <2> QED
      BY <1>4, <2>1, <2>2
  <1>6. 1 \in 1 .. Len(w.group) /\ log[b + 1] = [tx |-> Tx(w), seq |-> 1]
    BY <1>2, <1>4
  <1>7. Tx(w) \in 1 .. Len(source)
    BY <1>5, <1>6 DEF IsId
  <1>8. Len(w.group) <= Len(source[Tx(w)])
    <2>1. Len(source[Tx(w)]) \in Nat
      BY <1>7, SourceTyped DEF TopicInv
    <2> QED
      BY <1>1, <1>2, <2>1 DEF Progress
  <1>9. ASSUME NEW t \in 1 .. Tx(w) - 1, NEW k \in 1 .. Len(source[t])
        PROVE  [tx |-> t, seq |-> k] \in m
    <2>1. Preceded(source, log, b + 1) /\ log[b + 1].tx = Tx(w)
      BY <1>3, <1>6 DEF TopicInv
    <2>2. PICK h \in 1 .. (b + 1) - 1 : log[h] = [tx |-> t, seq |-> k]
      BY <2>1 DEF Preceded
    <2>3. h \in 1 .. b
      BY <1>3
    <2> QED
      BY <1>1, <2>2, <2>3
  <1> QED
    BY <1>2, <1>4, <1>5, <1>7, <1>8, <1>9

-----------------------------------------------------------------------------
(***************************************************************************)
(* What adding markers of the group in hand keeps true.                    *)
(***************************************************************************)

(* All predecessors of transaction x are marked, so that its own events    *)
(* may be.                                                                 *)
LEMMA OrderedStep ==
    ASSUME NEW s, NEW m, NEW new, NEW x \in Nat, Ordered(s, m),
           \A r \in new : r.tx = x,
           \A t \in 1 .. x - 1 : \A k \in 1 .. Len(s[t]) : [tx |-> t, seq |-> k] \in m
    PROVE  Ordered(s, m \cup new)
  BY DEF Ordered

(* They are added all at once, or the transaction has a fault.             *)
LEMMA WholeStep ==
    ASSUME NEW s \in Seq(Seq(M!Change)), NEW m, NEW new, NEW x \in 1 .. Len(s), Whole(s, m),
           \A r \in new : r.tx = x,
           \/ \A k \in 1 .. Len(s[x]) : [tx |-> x, seq |-> k] \in new
           \/ \E k \in 1 .. Len(s[x]) : s[x][k].fault # "none"
    PROVE  Whole(s, m \cup new)
  <1> SUFFICES ASSUME NEW t \in 1 .. Len(s), \A k \in 1 .. Len(s[t]) : s[t][k].fault = "none"
               PROVE  \/ \A k \in 1 .. Len(s[t]) : [tx |-> t, seq |-> k] \in m \cup new
                      \/ \A k \in 1 .. Len(s[t]) : [tx |-> t, seq |-> k] \notin m \cup new
    BY DEF Whole
  <1>1. \/ \A k \in 1 .. Len(s[t]) : [tx |-> t, seq |-> k] \in m
        \/ \A k \in 1 .. Len(s[t]) : [tx |-> t, seq |-> k] \notin m
    BY DEF Whole
  <1>2. CASE t = x
    BY <1>2
  <1>3. CASE t # x
    <2>1. \A k \in 1 .. Len(s[t]) : [tx |-> t, seq |-> k] \notin new
      BY <1>3
    <2> QED
      BY <1>1, <2>1
  <1> QED
    BY <1>2, <1>3

(* A step that adds markers of transaction x, and letters of some of them: *)
(* as the predecessors of x are marked; while it is quiet, all at once     *)
(* unless x has a fault, those to blame last, and only letters of them.    *)
Adds(x, new, letters) ==
    /\ db' \in Databases
    /\ db'.marks = db.marks \cup new /\ db'.dead = db.dead \cup letters
    /\ x \in 1 .. Len(source) /\ letters \subseteq new
    /\ \A r \in new : IsId(source, r) /\ r.tx = x
    /\ \A t \in 1 .. x - 1 : \A k \in 1 .. Len(source[t]) : [tx |-> t, seq |-> k] \in db.marks
    /\ Undisturbed' =>
          /\ Undisturbed
          /\ \/ \A k \in 1 .. Len(source[x]) : [tx |-> x, seq |-> k] \in new
             \/ \E k \in 1 .. Len(source[x]) : source[x][k].fault # "none"
             \/ new = {}
          /\ \A r \in new : \A k \in 1 .. r.seq - 1 :
                [tx |-> x, seq |-> k] \in db.marks \cup new \/ Blamable(source, x, k)
          /\ \A r \in letters : Blamable(source, x, r.seq)

(* Such a transaction keeps what the invariant says of the database.       *)
LEMMA LedgersStep ==
    ASSUME TopicInv, DatabaseInv, source' = source, NEW x, NEW new, NEW letters,
           Adds(x, new, letters)
    PROVE  DatabaseInv'
  <1> USE DEF Adds
  <1>1. db'.dead \subseteq db'.marks /\ \A r \in db'.marks \cup db'.dead : IsId(source', r)
    BY DEF DatabaseInv
  <1>2. Ordered(source', db'.marks)
    <2>1. x \in Nat
      OBVIOUS
    <2>2. Ordered(source, db.marks)
      BY DEF DatabaseInv
    <2>3. Ordered(source, db.marks \cup new)
      BY <2>1, <2>2, OrderedStep
    <2> QED
      BY <2>3
  <1>3. ASSUME Undisturbed'
        PROVE  Whole(source', db'.marks)
    <2>1. Whole(source, db.marks) /\ source \in Seq(Seq(M!Change))
      BY <1>3, SourceTyped DEF DatabaseInv, TopicInv
    <2>2. CASE new = {}
      <3>1. db'.marks = db.marks
        BY <2>2
      <3> QED
        BY <2>1, <3>1
    <2>3. CASE new # {}
      <3>1. Whole(source, db.marks \cup new)
        BY <1>3, <2>1, <2>3, WholeStep
      <3> QED
        BY <3>1
    <2> QED
      BY <2>2, <2>3
  <1>4. ASSUME Undisturbed', NEW r \in db'.dead
        PROVE  Blamable(source', r.tx, r.seq)
    BY <1>4 DEF DatabaseInv
  <1>5. ASSUME Undisturbed'
        PROVE  BlamedLast(source', db'.marks)
    <2> SUFFICES ASSUME NEW r \in db'.marks, NEW k \in 1 .. r.seq - 1
                 PROVE  [tx |-> r.tx, seq |-> k] \in db'.marks \/ Blamable(source, r.tx, k)
      BY DEF BlamedLast
    <2>1. CASE r \in db.marks
      BY <1>5, <2>1 DEF DatabaseInv, BlamedLast
    <2>2. CASE r \in new
      BY <1>5, <2>2
    <2> QED
      BY <2>1, <2>2
  <1> QED
    BY <1>1, <1>2, <1>3, <1>4, <1>5 DEF DatabaseInv

(* Apply, or RecordDeadLetter if that fails.                               *)
LEMMA Outcome ==
    ASSUME db \in Databases, hiccups \in 0 .. MaxHiccups, NEW e \in Events, ApplyOrQuarantine(e)
    PROVE  /\ db' \in Databases /\ db'.marks = db.marks \cup {e.id}
           /\ hiccups' \in 0 .. MaxHiccups /\ hiccups' >= hiccups
           /\ \/ db'.dead = db.dead
              \/ db'.dead = db.dead \cup {e.id} /\ (hiccups' = 0 => e.fault # "none")
  <1>1. hiccups \in Nat /\ MaxHiccups \in Nat
    BY WriterAssumption
  <1>2. CASE ApplyFails(db, e) /\ db' = RecordDeadLetter(db, e) /\ hiccups' = hiccups
    BY <1>1, <1>2, DeadLetterMarks, OnlyFaultyFails DEF ApplyFails
  <1>3. CASE Hiccup(e) /\ db' = RecordDeadLetter(db, e)
    <2>1. hiccups' = hiccups + 1 /\ hiccups < MaxHiccups
      BY <1>3 DEF Hiccup
    <2> QED
      BY <1>1, <1>3, <2>1, DeadLetterMarks
  <1>4. CASE db' = Apply(db, e) /\ hiccups' = hiccups
    BY <1>1, <1>4, ApplyMarks
  <1> QED
    BY <1>2, <1>3, <1>4 DEF ApplyOrQuarantine

-----------------------------------------------------------------------------
(***************************************************************************)
(* The steps of a writer from its locals w to v, whichever of the two it   *)
(* is, and that each keeps the database and its own claims.                *)
(***************************************************************************)

Reads(w, v) ==
    /\ w.pc = "poll" /\ w.pos < Len(log) /\ db' = db /\ hiccups' = hiccups
    /\ LET r == log[w.pos + 1]
       IN  \/ /\ IF w.group = <<>> THEN r.seq = 1
                 ELSE r.tx = Tx(w) /\ r.seq = Len(w.group) + 1
              /\ v = Locals(IF Len(w.group) + 1 = Len(source[r.tx]) THEN "apply" ELSE "poll",
                            w.pos + 1, Append(w.group, EventOf(source, r)),
                            w.poison, w.undefined, w.next)
           \/ v = Locals("down", w.pos + 1, w.group, w.poison, w.undefined, w.next)

Applies(w, v) ==
    /\ w.pc = "apply" /\ BatchError(db, w.group) = 0
    /\ db' = ApplyBatch(db, w.group) /\ hiccups' = hiccups
    /\ v = Locals("commit", w.pos, w.group, w.poison, w.undefined, w.next)

RollsBack(w, v) ==
    /\ w.pc = "apply" /\ db' = db
    /\ \E i \in 1 .. Len(w.group), u \in BOOLEAN :
          /\ v = Locals("replay", w.pos, w.group, i, u, 1)
          /\ \/ /\ i = BatchError(db, w.group) /\ hiccups' = hiccups
                /\ u = UndefinedColumn(db, w.group[Surfaced(db, w.group)])
             \/ hiccups < MaxHiccups /\ hiccups' = hiccups + 1

Replays(w, v) ==
    /\ w.pc = "replay" /\ w.next <= Len(w.group)
    /\ v = Locals("replay", w.pos, w.group, w.poison, w.undefined, w.next + 1)
    /\ IF w.next = w.poison THEN db' = db /\ hiccups' = hiccups
       ELSE ApplyOrQuarantine(w.group[w.next])

Repairs(w, v) ==
    /\ w.pc = "replay" /\ w.next > Len(w.group) /\ UndefinedColumn(db, w.group[w.poison])
    /\ db' = RepairSchema(db, w.group[w.poison]) /\ hiccups' = hiccups
    /\ v = Locals("retry", w.pos, w.group, w.poison, w.undefined, w.next)

Retries(w, v) ==
    /\ w.pc = "retry" /\ ApplyOrQuarantine(w.group[w.poison])
    /\ v = Locals("commit", w.pos, w.group, w.poison, w.undefined, w.next)

Quarantines(w, v) ==
    /\ w.pc = "replay" /\ w.next > Len(w.group)
    /\ w.undefined /\ UndefinedColumn(db, w.group[w.poison]) => RepairMayFail
    /\ db' = RecordDeadLetter(db, w.group[w.poison]) /\ hiccups' = hiccups
    /\ v = Locals("commit", w.pos, w.group, w.poison, w.undefined, w.next)

Works(w, v) ==
    \/ Reads(w, v) \/ Applies(w, v) \/ RollsBack(w, v) \/ Replays(w, v)
    \/ Repairs(w, v) \/ Retries(w, v) \/ Quarantines(w, v)

(* What a step of a writer starts from, and what it leaves.                *)
At(w) ==
    /\ TopicInv /\ DatabaseInv /\ hiccups \in 0 .. MaxHiccups /\ source' = source
    /\ Local(source, log, db.marks, Undisturbed, w)

Kept(v) ==
    /\ DatabaseInv' /\ hiccups' \in 0 .. MaxHiccups /\ (Undisturbed' => Undisturbed)
    /\ db.marks \subseteq db'.marks /\ db.dead \subseteq db'.dead
    /\ Local(source, log, db'.marks, Undisturbed', v)

(* A record is read: it continues the group, or the writer exits.          *)
LEMMA ReadsKeeps == ASSUME NEW w, NEW v, At(w), Reads(w, v) PROVE Kept(v)
  <1> DEFINE r == log[w.pos + 1]
             e == EventOf(source, r)
             n == Len(w.group)
  <1>1. /\ TopicInv /\ w \in Workers /\ w.pos <= Len(log) /\ n <= Len(log)
        /\ w.poison <= Len(log)
        /\ GroupOf(source, log, w) /\ Progress(source, db.marks, Undisturbed, w)
        /\ \A i \in 1 .. w.pos - n : log[i] \in db.marks
    BY DEF At, Local, Reads
  <1>2. /\ w.pos \in Nat /\ w.group \in Seq(Events) /\ n \in Nat /\ w.poison \in Nat
        /\ w.pos < Len(log) /\ Len(log) \in Nat /\ w.pc = "poll"
    BY <1>1 DEF Workers, Reads, TopicInv
  <1>3. w.pos + 1 \in 1 .. Len(log) /\ w.pos + 1 \in Nat /\ n <= w.pos
    BY <1>1, <1>2 DEF GroupOf
  <1>4. IsId(source, r) /\ source \in Histories /\ r \in Records
    BY <1>1, <1>3 DEF TopicInv, IsId
  <1>5. e \in Events /\ e.id = r
    BY <1>4, EventTyped
  <1>6. Local(source, log, db.marks, Undisturbed, v)
    <2>1. CASE v = Locals("down", w.pos + 1, w.group, w.poison, w.undefined, w.next)
      <3>1. /\ v \in Workers /\ v.pos = w.pos + 1 /\ v.pc = "down" /\ v.group = w.group
            /\ v.poison = w.poison
        BY <1>1, <1>3, <2>1 DEF Workers, Locals
      <3> QED
        BY <1>1, <1>2, <1>3, <3>1 DEF Local
    <2>2. CASE /\ IF w.group = <<>> THEN r.seq = 1 ELSE r.tx = Tx(w) /\ r.seq = n + 1
               /\ v = Locals(IF n + 1 = Len(source[r.tx]) THEN "apply" ELSE "poll",
                             w.pos + 1, Append(w.group, e), w.poison, w.undefined, w.next)
      <3> DEFINE g == Append(w.group, e)
      <3> HIDE DEF e, r
      <3>1. /\ g \in Seq(Events) /\ Len(g) = n + 1 /\ g # <<>> /\ g[n + 1] = e
            /\ \A i \in 1 .. n : g[i] = w.group[i]
        BY <1>2, <1>5, AppendProperties
      <3> HIDE DEF g
      <3>2. /\ v \in Workers /\ v.pos = w.pos + 1 /\ v.group = g /\ v.poison = w.poison
            /\ v.pc = IF n + 1 = Len(source[r.tx]) THEN "apply" ELSE "poll"
        BY <1>1, <1>3, <2>2, <3>1 DEF Workers, Locals, g
      <3>3. r = [tx |-> r.tx, seq |-> r.seq] /\ r.tx \in 1 .. Len(source) /\ r.tx \in Nat
            /\ r.seq \in Nat /\ Len(source[r.tx]) \in Nat /\ r.seq <= Len(source[r.tx])
        BY <1>4, SourceTyped DEF Records, IsId
      <3>4. r.seq = n + 1 /\ g[1].id.tx = r.tx /\ (n # 0 => Tx(w) = r.tx)
        <4>1. CASE w.group = <<>>
          <5>1. n = 0
            BY <4>1
          <5> QED
            BY <1>5, <2>2, <3>1, <3>3, <4>1, <5>1
        <4>2. CASE w.group # <<>>
          <5>1. n # 0
            BY <1>2, <4>2
          <5>2. 1 \in 1 .. n
            BY <1>2, <5>1
          <5>3. r.seq = n + 1 /\ r.tx = Tx(w)
            BY <2>2, <4>2
          <5> QED
            BY <3>1, <5>2, <5>3 DEF Tx
        <4> QED
          BY <4>1, <4>2
      <3>5. Tx(v) = r.tx /\ Len(v.group) = n + 1
        BY <3>1, <3>2, <3>4 DEF Tx
      <3>6. w.pos + 1 <= Len(log) /\ n + 1 <= w.pos + 1 /\ n + 1 <= Len(log)
            /\ (w.pos + 1) - (n + 1) = w.pos - n /\ w.pos - n \in Nat
        BY <1>2, <1>3
      <3>7. GroupOf(source, log, v)
        <4>1. ASSUME NEW i \in 1 .. n + 1
              PROVE  /\ v.group[i] = EventOf(source, log[(w.pos - n) + i])
                     /\ log[(w.pos - n) + i] = [tx |-> r.tx, seq |-> i]
          <5>1. CASE i = n + 1
            <6>1. (w.pos - n) + i = w.pos + 1
              BY <1>2, <5>1
            <6>2. log[(w.pos - n) + i] = r
              BY <6>1 DEF r
            <6> QED
              BY <3>1, <3>2, <3>3, <3>4, <5>1, <6>2 DEF e
          <5>2. CASE i \in 1 .. n
            <6>1. n # 0
              BY <1>2, <5>2
            <6>2. /\ w.group[i] = EventOf(source, log[(w.pos - n) + i])
                  /\ log[(w.pos - n) + i] = [tx |-> Tx(w), seq |-> i]
              BY <1>1, <5>2 DEF GroupOf
            <6> QED
              BY <3>1, <3>2, <3>4, <5>2, <6>1, <6>2
          <5> QED
            BY <1>2, <5>1, <5>2
        <4> QED
          BY <3>2, <3>5, <3>6, <4>1 DEF GroupOf
      <3>8. Progress(source, db.marks, Undisturbed, v)
        <4>1. v.pc \in {"apply", "poll"}
          BY <3>2
        <4>2. IF v.pc = "poll" THEN n + 1 < Len(source[r.tx]) ELSE n + 1 = Len(source[r.tx])
          BY <1>2, <3>2, <3>3, <3>4
        <4> QED
          BY <3>1, <3>2, <3>5, <4>1, <4>2 DEF Progress
      <3>9. \A i \in 1 .. v.pos - Len(v.group) : log[i] \in db.marks
        BY <1>1, <3>2, <3>5, <3>6
      <3> QED
        BY <1>1, <3>2, <3>5, <3>6, <3>7, <3>8, <3>9 DEF Local
    <2> QED
      BY <2>1, <2>2 DEF Reads
  <1>7. db' = db /\ hiccups' = hiccups /\ source' = source /\ DatabaseInv /\ hiccups \in 0 .. MaxHiccups
    BY DEF Reads, At
  <1>8. DatabaseInv' /\ (Undisturbed' <=> Undisturbed)
    BY <1>7 DEF DatabaseInv, Undisturbed
  <1>9. Local(source, log, db'.marks, Undisturbed', v)
    BY <1>6, <1>7 DEF Undisturbed
  <1> QED
    BY <1>7, <1>8, <1>9 DEF Kept

(* What a writer with a whole group relies on.                             *)
LEMMA InHand ==
    ASSUME NEW w, At(w), w.pc \in {"apply", "replay", "retry", "commit"}
    PROVE  /\ w \in Workers /\ w.group \in Seq(Events) /\ w.group # <<>>
           /\ db \in Databases /\ Tx(w) \in 1 .. Len(source)
           /\ Len(w.group) = Len(source[Tx(w)]) /\ Len(w.group) \in Nat
           /\ \A i \in 1 .. Len(w.group) :
                 /\ w.group[i] \in Events /\ w.group[i].id = [tx |-> Tx(w), seq |-> i]
                 /\ w.group[i] = EventOf(source, w.group[i].id)
                 /\ IsId(source, w.group[i].id) /\ w.group[i].fault = source[Tx(w)][i].fault
                 /\ Queued(w.group[i]) = Queued(source[Tx(w)][i])
           /\ \A t \in 1 .. Tx(w) - 1 : \A k \in 1 .. Len(source[t]) :
                 [tx |-> t, seq |-> k] \in db.marks
           /\ w.poison \in Nat /\ w.next \in Nat \ {0}
           /\ GroupOf(source, log, w) /\ Progress(source, db.marks, Undisturbed, w)
           /\ w.pos <= Len(log) /\ Len(w.group) <= Len(log) /\ w.poison <= Len(log)
           /\ \A i \in 1 .. w.pos - Len(w.group) : log[i] \in db.marks
  <1>1. /\ TopicInv /\ db \in Databases /\ Local(source, log, db.marks, Undisturbed, w)
    BY DEF At, DatabaseInv
  <1>2. /\ w \in Workers /\ w.pos <= Len(log) /\ Len(w.group) <= Len(log) /\ w.poison <= Len(log)
        /\ GroupOf(source, log, w) /\ Progress(source, db.marks, Undisturbed, w)
        /\ \A i \in 1 .. w.pos - Len(w.group) : log[i] \in db.marks
    BY <1>1 DEF Local
  <1>3. w.group \in Seq(Events) /\ w.poison \in Nat /\ w.next \in Nat \ {0}
    BY <1>2 DEF Workers
  <1>4. w.group # <<>> /\ Len(w.group) = Len(source[Tx(w)])
    BY <1>2 DEF Progress
  <1>5. /\ Tx(w) \in 1 .. Len(source) /\ Len(w.group) \in Nat
        /\ \A i \in 1 .. Len(w.group) :
              /\ w.group[i] \in Events /\ w.group[i].id = [tx |-> Tx(w), seq |-> i]
              /\ w.group[i] = EventOf(source, w.group[i].id)
              /\ IsId(source, w.group[i].id)
        /\ \A t \in 1 .. Tx(w) - 1 : \A k \in 1 .. Len(source[t]) :
              [tx |-> t, seq |-> k] \in db.marks
    <2>1. w.pc # "down"
      OBVIOUS
    <2> QED
      BY <1>1, <1>4, <2>1, Predecessors
  <1>6. ASSUME NEW i \in 1 .. Len(w.group)
        PROVE  /\ w.group[i].fault = source[Tx(w)][i].fault
               /\ Queued(w.group[i]) = Queued(source[Tx(w)][i])
    <2> DEFINE r == w.group[i].id
    <2>0. r = [tx |-> Tx(w), seq |-> i] /\ w.group[i] = EventOf(source, r) /\ IsId(source, r)
      BY <1>5
    <2> HIDE DEF r
    <2>1. r.tx = Tx(w) /\ r.seq = i
      BY <2>0
    <2>2. EventOf(source, r).fault = source[r.tx][r.seq].fault
      BY <2>0, <1>1, EventTyped DEF TopicInv
    <2>3. EventOf(source, r).op = source[r.tx][r.seq].op
      BY DEF EventOf
    <2> QED
      BY <2>0, <2>1, <2>2, <2>3 DEF Queued
  <1> QED
    BY <1>1, <1>2, <1>3, <1>4, <1>5, <1>6

(* The locals after a step that leaves the group where it is.              *)
LEMMA SameGroup ==
    ASSUME NEW s, NEW l, NEW m, NEW n, NEW q, NEW w, NEW v, v \in Workers,
           v.group = w.group, v.pos = w.pos, v.pc # "down", v.poison <= Len(l), m \subseteq n,
           w.pos <= Len(l), Len(w.group) <= Len(l), GroupOf(s, l, w),
           \A i \in 1 .. w.pos - Len(w.group) : l[i] \in m, Progress(s, n, q, v)
    PROVE  Local(s, l, n, q, v)
  <1>1. Tx(v) = Tx(w)
    BY DEF Tx
  <1>2. GroupOf(s, l, v)
    BY <1>1 DEF GroupOf
  <1>3. \A i \in 1 .. v.pos - Len(v.group) : l[i] \in n
    OBVIOUS
  <1> QED
    BY <1>2, <1>3 DEF Local

(* The whole group is applied: its markers appear together.                *)
LEMMA AppliesKeeps == ASSUME NEW w, NEW v, At(w), Applies(w, v) PROVE Kept(v)
  <1> DEFINE x == Tx(w)
             n == Len(w.group)
             new == {w.group[i].id : i \in 1 .. n}
             P == Progress(source, db'.marks, Undisturbed', v)
  <1>1. /\ w.pc = "apply" /\ db' = ApplyBatch(db, w.group) /\ hiccups' = hiccups
        /\ v = Locals("commit", w.pos, w.group, w.poison, w.undefined, w.next)
    BY DEF Applies
  <1>2. /\ TopicInv /\ DatabaseInv /\ hiccups \in 0 .. MaxHiccups /\ source' = source
    BY DEF At
  <1>3. /\ w \in Workers /\ w.group \in Seq(Events) /\ w.group # <<>>
        /\ db \in Databases /\ x \in 1 .. Len(source) /\ n = Len(source[x])
        /\ \A i \in 1 .. n : w.group[i].id = [tx |-> x, seq |-> i] /\ IsId(source, w.group[i].id)
        /\ \A t \in 1 .. x - 1 : \A k \in 1 .. Len(source[t]) : [tx |-> t, seq |-> k] \in db.marks
        /\ GroupOf(source, log, w)
        /\ w.pos <= Len(log) /\ n <= Len(log) /\ w.poison <= Len(log)
        /\ \A i \in 1 .. w.pos - n : log[i] \in db.marks
    BY <1>1, InHand
  <1>4. /\ db' \in Databases /\ db'.marks = db.marks \cup new /\ db'.dead = db.dead \cup {}
    BY <1>1, <1>3, BatchMarks
  <1>5. Undisturbed' = Undisturbed
    BY <1>1 DEF Undisturbed
  <1>6. /\ \A r \in new : IsId(source, r) /\ r.tx = x
        /\ \A k \in 1 .. Len(source[x]) : [tx |-> x, seq |-> k] \in new
    <2>1. \A k \in 1 .. n : w.group[k].id \in new
      OBVIOUS
    <2>2. \A r \in new : \E i \in 1 .. n : r = w.group[i].id
      OBVIOUS
    <2> HIDE DEF new, x, n
    <2>3. ASSUME NEW r \in new
          PROVE  IsId(source, r) /\ r.tx = x
      <3>1. PICK i \in 1 .. n : r = w.group[i].id
        BY <2>2
      <3>2. r = [tx |-> x, seq |-> i] /\ IsId(source, r)
        BY <1>3, <3>1
      <3> QED
        BY <3>2
    <2> QED
      BY <1>3, <2>1, <2>3
  <1>7. DatabaseInv'
    <2> HIDE DEF new, x, n
    <2>1. {} \subseteq new /\ \A r \in {} : Blamable(source, x, r.seq)
      OBVIOUS
    <2>2. ASSUME NEW r \in new, NEW k \in 1 .. r.seq - 1
          PROVE  [tx |-> x, seq |-> k] \in new
      <3>1. r.tx = x /\ r.seq \in 1 .. Len(source[x])
        BY <1>6 DEF IsId
      <3>2. Len(source[x]) \in Nat
        BY <1>2, <1>3, SourceTyped DEF TopicInv
      <3>3. k \in 1 .. Len(source[x])
        BY <3>1, <3>2
      <3> QED
        BY <1>6, <3>3
    <2>3. Adds(x, new, {})
      BY <1>3, <1>4, <1>5, <1>6, <2>1, <2>2 DEF Adds
    <2> QED
      BY <1>2, <2>3, LedgersStep
  <1>8. /\ v \in Workers /\ v.pc = "commit" /\ v.group = w.group /\ v.pos = w.pos
        /\ v.poison = w.poison
    BY <1>1, <1>3 DEF Workers, Locals
  <1>9. P
    BY <1>3, <1>4, <1>8 DEF Progress, Tx
  <1>10. Local(source, log, db'.marks, Undisturbed', v)
    <2> HIDE DEF new, x, P
    <2>1. db.marks \subseteq db'.marks /\ v.pc # "down"
      BY <1>4, <1>8
    <2> QED
      BY <1>3, <1>8, <1>9, <2>1, SameGroup DEF P
  <1> QED
    BY <1>1, <1>2, <1>4, <1>5, <1>7, <1>10 DEF Kept

(* A transaction with a change to blame has a fault.                       *)
LEMMA BlamableHasFault ==
    ASSUME NEW s \in Seq(Seq(M!Change)), NEW t \in 1 .. Len(s), NEW k \in 1 .. Len(s[t]),
           Blamable(s, t, k)
    PROVE  \E l \in 1 .. Len(s[t]) : s[t][l].fault # "none"
  <1>1. Len(s[t]) \in Nat
    BY ElementOfSeq
  <1>2. CASE s[t][k].fault # "none"
    BY <1>2
  <1>3. CASE s[t][k].fault = "none"
    <2>1. PICK l \in k + 1 .. Len(s[t]) : s[t][l].fault = "drift"
      BY <1>3 DEF Blamable
    <2>2. l \in 1 .. Len(s[t])
      BY <1>1
    <2> QED
      BY <2>1, <2>2
  <1> QED
    BY <1>2, <1>3

(* One event of a group with one to blame is marked, after the others that *)
(* precede it: while it is quiet the transaction has a fault, and may be   *)
(* seen in part.                                                           *)
LEMMA OneEventKeeps ==
    ASSUME NEW w, At(w), w.pc \in {"replay", "retry"}, NEW j \in 1 .. Len(w.group),
           db' \in Databases, db'.marks = db.marks \cup {w.group[j].id},
           \/ db'.dead = db.dead
           \/ /\ db'.dead = db.dead \cup {w.group[j].id}
              /\ Undisturbed' => Blamable(source, Tx(w), j),
           \A i \in 1 .. j - 1 : i # w.poison => w.group[i].id \in db.marks,
           Undisturbed' => Undisturbed
    PROVE  DatabaseInv'
  <1> DEFINE x == Tx(w)
             r == w.group[j].id
             p == w.poison
  <1>1. /\ x \in 1 .. Len(source) /\ Len(w.group) = Len(source[x]) /\ Len(w.group) \in Nat
        /\ \A i \in 1 .. Len(w.group) :
              /\ w.group[i].id = [tx |-> x, seq |-> i]
              /\ w.group[i] = EventOf(source, w.group[i].id)
              /\ IsId(source, w.group[i].id) /\ w.group[i].fault = source[x][i].fault
        /\ \A t \in 1 .. x - 1 : \A k \in 1 .. Len(source[t]) : [tx |-> t, seq |-> k] \in db.marks
        /\ Progress(source, db.marks, Undisturbed, w)
    BY InHand
  <1>2. p \in 1 .. Len(source[x]) /\ (Undisturbed => Blamable(source, x, p))
    BY <1>1 DEF Progress
  <1>3. IsId(source, r) /\ r = [tx |-> x, seq |-> j]
    BY <1>1
  <1>4. Undisturbed => \E k \in 1 .. Len(source[x]) : source[x][k].fault # "none"
    <2>1. source \in Seq(Seq(M!Change))
      BY SourceTyped DEF At, TopicInv
    <2> HIDE DEF x, p
    <2> QED
      BY <1>1, <1>2, <2>1, BlamableHasFault
  <1>5. ASSUME Undisturbed, NEW k \in 1 .. r.seq - 1
        PROVE  [tx |-> x, seq |-> k] \in db.marks \/ Blamable(source, x, k)
    <2> HIDE DEF x, r, p
    <2>1. r.seq = j /\ k \in 1 .. j - 1 /\ k \in 1 .. Len(w.group)
      BY <1>1, <1>3
    <2>2. CASE k = p
      BY <1>2, <1>5, <2>2
    <2>3. CASE k # p
      BY <1>1, <2>1, <2>3 DEF p
    <2> QED
      BY <2>2, <2>3
  <1>6. \E letters \in SUBSET {r} : Adds(x, {r}, letters)
    <2> HIDE DEF x, r, p
    <2>1. r.tx = x /\ r.seq = j
      BY <1>3
    <2>2. CASE db'.dead = db.dead
      <3>1. Adds(x, {r}, {})
        BY <1>1, <1>3, <1>4, <1>5, <2>1, <2>2 DEF Adds, r
      <3> QED
        BY <3>1
    <2>3. CASE db'.dead = db.dead \cup {r} /\ (Undisturbed' => Blamable(source, x, j))
      <3>1. Undisturbed' => \A q \in {r} : Blamable(source, x, q.seq)
        BY <2>1, <2>3
      <3>2. Adds(x, {r}, {r})
        BY <1>1, <1>3, <1>4, <1>5, <2>1, <2>3, <3>1 DEF Adds, r
      <3> QED
        BY <3>2
    <2> QED
      BY <2>2, <2>3 DEF r, x
  <1> HIDE DEF x, r
  <1> QED
    BY <1>6, LedgersStep DEF At

(* The event that a batch is rolled back for may be found at fault.  When  *)
(* it is named for another one, the events between the two are queued, or  *)
(* one of them is marked: a change to blame was left ahead of that one     *)
(* before.                                                                 *)
LEMMA BatchBlames ==
    ASSUME NEW w, At(w), w.pc = "apply", BatchError(db, w.group) # 0, Undisturbed
    PROVE  Blamable(source, Tx(w), BatchError(db, w.group))
  <1> DEFINE x == Tx(w)
             n == Len(w.group)
             b == BatchError(db, w.group)
             i == Surfaced(db, w.group)
  <1>1. /\ w.group \in Seq(Events) /\ db \in Databases
        /\ x \in 1 .. Len(source) /\ n = Len(source[x]) /\ n \in Nat
        /\ \A k \in 1 .. n : /\ w.group[k].id = [tx |-> x, seq |-> k]
                             /\ w.group[k].fault = source[x][k].fault
                             /\ Queued(w.group[k]) = Queued(source[x][k])
    BY InHand
  <1>2. /\ b \in 1 .. n /\ ~IsMarked(db, w.group[b]) /\ i \in 1 .. n
        /\ w.group[i].fault # "none" /\ BlamedFor(db, w.group, b, i)
    BY <1>1, BlamesFaulty
  <1>3. BlamedLast(source, db.marks)
    BY DEF At, DatabaseInv
  <1> HIDE DEF b, i, x, n
  <1>4. b \in Nat /\ i \in Nat /\ n \in Nat /\ \A m \in b .. i : m \in Nat /\ m \in 1 .. n
    BY <1>1, <1>2
  <1>5. CASE b = i
    BY <1>1, <1>2, <1>5 DEF Blamable, b, x
  <1>6. CASE /\ b < i /\ UndefinedColumn(db, w.group[i])
             /\ Queued(w.group[b]) /\ Queued(w.group[i])
             /\ \A m \in b .. i : Queued(w.group[m]) \/ IsMarked(db, w.group[m])
    <2>1. source[x][i].fault = "drift"
      BY <1>1, <1>2, <1>6 DEF UndefinedColumn
    <2>2. i \in b + 1 .. n
      BY <1>2, <1>6, <1>4
    <2>3. CASE \A m \in b .. i : Queued(w.group[m])
      <3>1. \A m \in b .. i : Queued(source[x][m])
        BY <1>1, <1>4, <2>3
      <3> QED
        BY <1>1, <2>1, <2>2, <3>1 DEF Blamable, b, x
    <2>4. CASE \E m \in b .. i : ~Queued(w.group[m])
      <3>1. PICK m \in b .. i : ~Queued(w.group[m])
        BY <2>4
      <3>2. IsMarked(db, w.group[m]) /\ m # b /\ m \in 1 .. n /\ m \in Nat
        BY <1>6, <1>4, <3>1
      <3> DEFINE r == w.group[m].id
      <3>3. r \in db.marks /\ r = [tx |-> x, seq |-> m]
        BY <1>1, <3>2 DEF IsMarked
      <3> HIDE DEF r
      <3>4. r.tx = x /\ r.seq = m
        BY <3>3
      <3>5. b \in 1 .. r.seq - 1
        BY <1>2, <1>4, <3>1, <3>2, <3>4
      <3>6. [tx |-> x, seq |-> b] \in db.marks \/ Blamable(source, x, b)
        BY <1>3, <3>3, <3>4, <3>5 DEF BlamedLast
      <3> QED
        BY <1>1, <1>2, <3>6 DEF IsMarked, b, x
    <2> QED
      BY <2>3, <2>4
  <1> QED
    BY <1>2, <1>5, <1>6 DEF BlamedFor

(* The group is rolled back: the poison may be found at fault while it is  *)
(* quiet.                                                                  *)
LEMMA RollsBackKeeps == ASSUME NEW w, NEW v, At(w), RollsBack(w, v) PROVE Kept(v)
  <1>1. w.pc = "apply" /\ db' = db
    BY DEF RollsBack
  <1>2. PICK i \in 1 .. Len(w.group), u \in BOOLEAN :
           /\ v = Locals("replay", w.pos, w.group, i, u, 1)
           /\ \/ i = BatchError(db, w.group) /\ hiccups' = hiccups
              \/ hiccups < MaxHiccups /\ hiccups' = hiccups + 1
    BY DEF RollsBack
  <1>3. /\ TopicInv /\ DatabaseInv /\ hiccups \in 0 .. MaxHiccups /\ source' = source
    BY DEF At
  <1>4. /\ w \in Workers /\ w.group \in Seq(Events) /\ w.group # <<>> /\ db \in Databases
        /\ Len(w.group) = Len(source[Tx(w)]) /\ Len(w.group) \in Nat
        /\ GroupOf(source, log, w)
        /\ w.pos <= Len(log) /\ Len(w.group) <= Len(log)
        /\ \A j \in 1 .. w.pos - Len(w.group) : log[j] \in db.marks
    BY <1>1, InHand
  <1>5. /\ hiccups' \in 0 .. MaxHiccups /\ (Undisturbed' => Undisturbed)
        /\ Undisturbed' => i = BatchError(db, w.group)
    BY <1>2, <1>3, WriterAssumption DEF Undisturbed
  <1>6. Undisturbed' => Blamable(source, Tx(w), i)
    <2>1. i # 0
      BY <1>4
    <2> QED
      BY <1>1, <1>5, <2>1, BatchBlames
  <1>7. DatabaseInv'
    BY <1>1, <1>3, <1>5 DEF DatabaseInv
  <1>8. /\ v \in Workers /\ v.pc = "replay" /\ v.group = w.group /\ v.pos = w.pos
        /\ v.poison = i /\ v.next = 1
    <2>1. i \in Nat /\ 1 \in Nat \ {0} /\ u \in BOOLEAN
      OBVIOUS
    <2>2. v = Locals("replay", w.pos, w.group, i, u, 1)
      BY <1>2
    <2> QED
      BY <1>4, <2>1, <2>2 DEF Workers, Locals
  <1>9. Progress(source, db'.marks, Undisturbed', v)
    <2>1. \A j \in 1 .. Len(w.group) : ~ (j < 1)
      OBVIOUS
    <2> QED
      BY <1>4, <1>6, <1>8, <2>1 DEF Progress, Tx
  <1>10. Local(source, log, db'.marks, Undisturbed', v)
    <2>1. v.poison <= Len(log) /\ db.marks \subseteq db'.marks /\ v.pc # "down"
      <3>1. Len(log) \in Nat
        BY <1>3 DEF TopicInv
      <3> QED
        BY <1>1, <1>4, <1>8, <3>1
    <2> QED
      BY <1>4, <1>8, <1>9, <2>1, SameGroup
  <1> QED
    BY <1>1, <1>5, <1>7, <1>10 DEF Kept

(* replayHealthyEvents takes the next event, unless it is the poison.      *)
LEMMA ReplaysKeeps == ASSUME NEW w, NEW v, At(w), Replays(w, v) PROVE Kept(v)
  <1> DEFINE j == w.next
             e == w.group[j]
  <1>1. /\ w.pc = "replay" /\ j <= Len(w.group)
        /\ v = Locals("replay", w.pos, w.group, w.poison, w.undefined, j + 1)
        /\ IF j = w.poison THEN db' = db /\ hiccups' = hiccups ELSE ApplyOrQuarantine(e)
    BY DEF Replays
  <1>2. /\ TopicInv /\ DatabaseInv /\ hiccups \in 0 .. MaxHiccups /\ source' = source
    BY DEF At
  <1>3. /\ w \in Workers /\ w.group \in Seq(Events) /\ w.group # <<>> /\ db \in Databases
        /\ Len(w.group) = Len(source[Tx(w)]) /\ Len(w.group) \in Nat
        /\ \A i \in 1 .. Len(w.group) :
              w.group[i] \in Events /\ w.group[i].fault = source[Tx(w)][i].fault
        /\ j \in Nat \ {0} /\ GroupOf(source, log, w) /\ Progress(source, db.marks, Undisturbed, w)
        /\ w.pos <= Len(log) /\ Len(w.group) <= Len(log) /\ w.poison <= Len(log)
        /\ \A i \in 1 .. w.pos - Len(w.group) : log[i] \in db.marks
    BY <1>1, InHand
  <1>4. /\ DatabaseInv' /\ hiccups' \in 0 .. MaxHiccups /\ (Undisturbed' => Undisturbed)
        /\ db.marks \subseteq db'.marks /\ db.dead \subseteq db'.dead
        /\ j # w.poison => e.id \in db'.marks
    <2>1. CASE db' = db /\ hiccups' = hiccups /\ j = w.poison
      BY <1>2, <2>1 DEF DatabaseInv, Undisturbed
    <2>2. CASE ApplyOrQuarantine(e) /\ j \in 1 .. Len(w.group)
      <3>1. e \in Events
        BY <1>3, <2>2
      <3>2. /\ db' \in Databases /\ db'.marks = db.marks \cup {e.id}
            /\ hiccups' \in 0 .. MaxHiccups /\ hiccups' >= hiccups
            /\ \/ db'.dead = db.dead
               \/ db'.dead = db.dead \cup {e.id} /\ (hiccups' = 0 => e.fault # "none")
        BY <1>2, <1>3, <2>2, <3>1, Outcome
      <3>3. Undisturbed' => Undisturbed
        BY <1>2, <3>2, WriterAssumption DEF Undisturbed
      <3>4. Undisturbed' /\ e.fault # "none" => Blamable(source, Tx(w), j)
        BY <1>3, <2>2 DEF Blamable
      <3>5. \A i \in 1 .. j - 1 : i # w.poison => w.group[i].id \in db.marks
        <4>1. \A i \in 1 .. Len(w.group) : i # w.poison /\ i < j => w.group[i].id \in db.marks
          BY <1>1, <1>3 DEF Progress
        <4>2. \A i \in 1 .. j - 1 : i \in 1 .. Len(w.group) /\ i < j
          BY <1>3, <2>2
        <4> QED
          BY <4>1, <4>2
      <3>6. DatabaseInv'
        BY <1>1, <2>2, <3>2, <3>3, <3>4, <3>5, OneEventKeeps DEF Undisturbed
      <3> QED
        BY <3>2, <3>3, <3>6
    <2>3. j \in 1 .. Len(w.group)
      BY <1>1, <1>3
    <2> QED
      BY <1>1, <2>1, <2>2, <2>3
  <1>5. /\ v \in Workers /\ v.pc = "replay" /\ v.group = w.group /\ v.pos = w.pos
        /\ v.poison = w.poison /\ v.next = j + 1
    BY <1>1, <1>3 DEF Workers, Locals
  <1>6. Progress(source, db'.marks, Undisturbed', v)
    <2>1. ASSUME NEW i \in 1 .. Len(w.group), i # w.poison, i < j + 1
          PROVE  w.group[i].id \in db'.marks
      <3>1. CASE i = j
        BY <1>4, <2>1, <3>1
      <3>2. CASE i < j
        BY <1>1, <1>3, <1>4, <2>1, <3>2 DEF Progress
      <3> QED
        BY <1>3, <2>1, <3>1, <3>2
    <2>2. w.poison \in 1 .. Len(w.group) /\ (Undisturbed' => Blamable(source, Tx(w), w.poison))
      BY <1>1, <1>3, <1>4 DEF Progress
    <2> HIDE DEF j, e
    <2> QED
      BY <1>3, <1>5, <2>1, <2>2 DEF Progress, Tx
  <1>7. Local(source, log, db'.marks, Undisturbed', v)
    <2> HIDE DEF j, e
    <2>1. v.pc # "down"
      BY <1>5
    <2> QED
      BY <1>3, <1>4, <1>5, <1>6, <2>1, SameGroup
  <1> QED
    BY <1>4, <1>7 DEF Kept

(* RepairSchema, before the retry.                                         *)
LEMMA RepairsKeeps == ASSUME NEW w, NEW v, At(w), Repairs(w, v) PROVE Kept(v)
  <1>1. /\ w.pc = "replay" /\ w.next > Len(w.group) /\ hiccups' = hiccups
        /\ db' = RepairSchema(db, w.group[w.poison])
        /\ v = Locals("retry", w.pos, w.group, w.poison, w.undefined, w.next)
    BY DEF Repairs
  <1>2. /\ TopicInv /\ DatabaseInv /\ hiccups \in 0 .. MaxHiccups /\ source' = source
    BY DEF At
  <1>3. /\ w \in Workers /\ w.group \in Seq(Events) /\ w.group # <<>> /\ db \in Databases
        /\ Len(w.group) = Len(source[Tx(w)]) /\ Len(w.group) \in Nat
        /\ \A i \in 1 .. Len(w.group) : w.group[i] \in Events
        /\ w.next \in Nat /\ GroupOf(source, log, w)
        /\ Progress(source, db.marks, Undisturbed, w)
        /\ w.pos <= Len(log) /\ Len(w.group) <= Len(log) /\ w.poison <= Len(log)
        /\ \A i \in 1 .. w.pos - Len(w.group) : log[i] \in db.marks
    BY <1>1, InHand
  <1>4. /\ w.poison \in 1 .. Len(w.group) /\ (Undisturbed => Blamable(source, Tx(w), w.poison))
        /\ \A i \in 1 .. Len(w.group) : i # w.poison /\ i < w.next => w.group[i].id \in db.marks
    BY <1>1, <1>3 DEF Progress
  <1>5. \A i \in 1 .. Len(w.group) : i < w.next
    BY <1>1, <1>3
  <1>6. db' \in Databases /\ db'.marks = db.marks /\ db'.dead = db.dead
    BY <1>1, <1>3, <1>4, RepairAddsColumn
  <1>7. DatabaseInv' /\ Undisturbed' = Undisturbed
    BY <1>1, <1>2, <1>6 DEF DatabaseInv, Undisturbed
  <1>8. /\ v \in Workers /\ v.pc = "retry" /\ v.group = w.group /\ v.pos = w.pos
        /\ v.poison = w.poison
    BY <1>1, <1>3 DEF Workers, Locals
  <1>9. Progress(source, db'.marks, Undisturbed', v)
    BY <1>3, <1>4, <1>5, <1>6, <1>7, <1>8 DEF Progress, Tx
  <1>10. Local(source, log, db'.marks, Undisturbed', v)
    <2>1. v.pc # "down" /\ db.marks \subseteq db'.marks
      BY <1>6, <1>8
    <2> QED
      BY <1>3, <1>8, <1>9, <2>1, SameGroup
  <1> QED
    BY <1>1, <1>2, <1>6, <1>7, <1>10 DEF Kept

(* The poison event comes last, by the retry or as a dead letter.          *)
LEMMA PoisonKeeps ==
    ASSUME NEW w, NEW v, At(w), Retries(w, v) \/ Quarantines(w, v)
    PROVE  Kept(v)
  <1> DEFINE e == w.group[w.poison]
  <1>1. /\ w.pc \in {"replay", "retry"} /\ (w.pc = "replay" => w.next > Len(w.group))
        /\ v = Locals("commit", w.pos, w.group, w.poison, w.undefined, w.next)
        /\ \/ ApplyOrQuarantine(e)
           \/ db' = RecordDeadLetter(db, e) /\ hiccups' = hiccups
    BY DEF Retries, Quarantines
  <1>2. /\ TopicInv /\ DatabaseInv /\ hiccups \in 0 .. MaxHiccups /\ source' = source
    BY DEF At
  <1>3. /\ w \in Workers /\ w.group \in Seq(Events) /\ w.group # <<>> /\ db \in Databases
        /\ Len(w.group) = Len(source[Tx(w)]) /\ Len(w.group) \in Nat
        /\ \A i \in 1 .. Len(w.group) : w.group[i] \in Events
        /\ w.next \in Nat /\ GroupOf(source, log, w)
        /\ Progress(source, db.marks, Undisturbed, w)
        /\ w.pos <= Len(log) /\ Len(w.group) <= Len(log) /\ w.poison <= Len(log)
        /\ \A i \in 1 .. w.pos - Len(w.group) : log[i] \in db.marks
    BY <1>1, InHand
  <1>4. /\ w.poison \in 1 .. Len(w.group) /\ (Undisturbed => Blamable(source, Tx(w), w.poison))
        /\ \A i \in 1 .. Len(w.group) :
              i # w.poison /\ (w.pc = "replay" => i < w.next) => w.group[i].id \in db.marks
    BY <1>1, <1>3 DEF Progress
  <1>5. \A i \in 1 .. Len(w.group) : w.pc = "replay" => i < w.next
    BY <1>1, <1>3
  <1>6. e \in Events
    BY <1>3, <1>4
  <1>7. /\ db' \in Databases /\ db'.marks = db.marks \cup {e.id}
        /\ hiccups' \in 0 .. MaxHiccups /\ hiccups' >= hiccups
        /\ \/ db'.dead = db.dead
           \/ db'.dead = db.dead \cup {e.id}
    <2>1. CASE ApplyOrQuarantine(e)
      BY <1>2, <1>3, <1>6, <2>1, Outcome
    <2>2. CASE db' = RecordDeadLetter(db, e) /\ hiccups' = hiccups
      <3>1. hiccups >= hiccups
        BY <1>2, WriterAssumption
      <3> HIDE DEF e
      <3> QED
        BY <1>2, <1>3, <1>6, <2>2, <3>1, DeadLetterMarks
    <2> QED
      BY <1>1, <2>1, <2>2
  <1>8. Undisturbed' => Undisturbed
    BY <1>2, <1>7, WriterAssumption DEF Undisturbed
  <1>9. DatabaseInv'
    <2>1. \A i \in 1 .. w.poison - 1 : i # w.poison => w.group[i].id \in db.marks
      BY <1>3, <1>4, <1>5
    <2>2. Undisturbed' => Blamable(source, Tx(w), w.poison)
      BY <1>4, <1>8
    <2> QED
      BY <1>1, <1>4, <1>7, <1>8, <2>1, <2>2, OneEventKeeps
  <1>10. /\ v \in Workers /\ v.pc = "commit" /\ v.group = w.group /\ v.pos = w.pos
         /\ v.poison = w.poison
    BY <1>1, <1>3 DEF Workers, Locals
  <1>11. Progress(source, db'.marks, Undisturbed', v)
    <2>1. \A i \in 1 .. Len(w.group) : w.group[i].id \in db'.marks
      BY <1>4, <1>5, <1>7
    <2> HIDE DEF e
    <2> QED
      BY <1>3, <1>10, <2>1 DEF Progress, Tx
  <1>12. Local(source, log, db'.marks, Undisturbed', v)
    <2>1. v.pc # "down" /\ db.marks \subseteq db'.marks
      BY <1>7, <1>10
    <2> QED
      BY <1>3, <1>10, <1>11, <2>1, SameGroup
  <1>13. db.marks \subseteq db'.marks /\ db.dead \subseteq db'.dead
    BY <1>7
  <1> QED
    BY <1>7, <1>8, <1>9, <1>12, <1>13 DEF Kept

(* Every step of a writer keeps the invariant.                             *)
LEMMA WorksKeeps == ASSUME NEW w, NEW v, At(w), Works(w, v) PROVE Kept(v)
  BY ReadsKeeps, AppliesKeeps, RollsBackKeeps, ReplaysKeeps, RepairsKeeps, PoisonKeeps
     DEF Works

-----------------------------------------------------------------------------
(***************************************************************************)
(* Old is an instance of Writer and has its own copy of every operator on  *)
(* databases.  The copies are the same operators.                          *)
(***************************************************************************)

(* Old's mutations are the applier's.                                      *)
LEMMA SameMutation == \A d, e : Old!ApplyMutation(d, e) = ApplyMutation(d, e)
  BY Zenon DEF Old!ApplyMutation, ApplyMutation, Old!Upsert, Upsert,
               Old!UpdatePreserving, UpdatePreserving, Old!Delete, Delete, Old!Truncate, Truncate,
               Old!TruncateIsStale, TruncateIsStale, Old!LSN, LSN, Old!Absent, Absent, Old!Nil, Nil,
               Old!ColumnDefault, ColumnDefault

(* Old applies, quarantines and repairs single events as the applier does. *)
LEMMA SameApply ==
    \A d, e : /\ Old!Apply(d, e) = Apply(d, e)
              /\ Old!RecordDeadLetter(d, e) = RecordDeadLetter(d, e)
              /\ Old!RepairSchema(d, e) = RepairSchema(d, e)
              /\ Old!Fails(d, e) = Fails(d, e)
              /\ Old!ApplyFails(d, e) = ApplyFails(d, e)
              /\ Old!UndefinedColumn(d, e) = UndefinedColumn(d, e)
              /\ Old!IsMarked(d, e) = IsMarked(d, e)
              /\ Old!RefusedByApplier(e) = RefusedByApplier(e)
  <1> TAKE d, e
  <1>1. Old!MarkApplied(d, e) = MarkApplied(d, e)
    BY Zenon DEF Old!MarkApplied, MarkApplied
  <1>2. Old!IsMarked(d, e) = IsMarked(d, e)
    BY Zenon DEF Old!IsMarked, IsMarked
  <1>3. Old!Apply(d, e) = Apply(d, e)
    BY <1>1, <1>2, SameMutation DEF Old!Apply, Apply
  <1>4. Old!RecordDeadLetter(d, e) = RecordDeadLetter(d, e)
    BY Zenon DEF Old!RecordDeadLetter, RecordDeadLetter, Old!MarkApplied, MarkApplied
  <1>5. Old!RepairSchema(d, e) = RepairSchema(d, e)
    BY Zenon DEF Old!RepairSchema, RepairSchema
  <1>6. Old!Fails(d, e) = Fails(d, e)
    BY Zenon DEF Old!Fails, Fails, Old!RefusedByApplier, RefusedByApplier,
                 Old!RefusedByPostgres, RefusedByPostgres, Old!StaleTruncate, StaleTruncate,
                 Old!UndefinedColumn, UndefinedColumn, Old!TruncateIsStale, TruncateIsStale,
                 Old!LSN, LSN
  <1>7. Old!ApplyFails(d, e) = ApplyFails(d, e)
    BY <1>2, <1>6 DEF Old!ApplyFails, ApplyFails
  <1>8. Old!UndefinedColumn(d, e) = UndefinedColumn(d, e)
        /\ Old!RefusedByApplier(e) = RefusedByApplier(e)
    BY Zenon DEF Old!UndefinedColumn, UndefinedColumn, Old!RefusedByApplier, RefusedByApplier
  <1> QED
    BY <1>2, <1>3, <1>4, <1>5, <1>6, <1>7, <1>8

(* Old's copy of Min.                                                      *)
LEMMA SameMin == \A S : Old!Min(S) = Min(S)
  BY Zenon DEF Old!Min, Min

(* Old applies a batch as the applier does, sees the same failures in the  *)
(* same order and blames the same event.                                   *)
LEMMA SameBatch ==
    \A d, g : /\ Old!ApplyBatch(d, g) = ApplyBatch(d, g)
              /\ Old!Failing(d, g) = Failing(d, g)
              /\ \A S : Old!FirstToSurface(d, g, S) = FirstToSurface(d, g, S)
              /\ \A i : Old!Blamed(d, g, i) = Blamed(d, g, i)
              /\ Old!BatchError(d, g) = BatchError(d, g)
  <1> TAKE d, g
  <1>1. Old!Fresh(d, g) = Fresh(d, g)
    BY Zenon DEF Old!Fresh, Fresh, Old!IsMarked, IsMarked
  <1>2. Old!BatchStates(d, g) = BatchStates(d, g)
    BY Zenon DEF Old!BatchStates, BatchStates, Old!Fresh, Fresh, Old!IsMarked, IsMarked,
                 Old!ApplyMutation, ApplyMutation, Old!Upsert, Upsert,
                 Old!UpdatePreserving, UpdatePreserving, Old!Delete, Delete,
                 Old!Truncate, Truncate, Old!TruncateIsStale, TruncateIsStale, Old!LSN, LSN,
                 Old!Absent, Absent, Old!Nil, Nil, Old!ColumnDefault, ColumnDefault
  <1>3. Old!ApplyBatch(d, g) = ApplyBatch(d, g)
    BY <1>2, Zenon DEF Old!ApplyBatch, ApplyBatch
  <1>4. Old!Failing(d, g) = Failing(d, g)
    BY <1>1, <1>2, SameApply DEF Old!Failing, Failing
  <1>5. \A i : Old!FlushedAt(d, g, i) = FlushedAt(d, g, i)
    BY Zenon DEF Old!FlushedAt, FlushedAt, Old!Queued, Queued, Old!Fresh, Fresh,
                 Old!IsMarked, IsMarked, Old!Min, Min
  <1>6. \A i : Old!SurfacesAt(d, g, i) = SurfacesAt(d, g, i)
    BY Zenon DEF Old!SurfacesAt, SurfacesAt, Old!FlushedAt, FlushedAt, Old!Queued, Queued,
                 Old!RefusedByApplier, RefusedByApplier, Old!Fresh, Fresh,
                 Old!UndefinedColumn, UndefinedColumn, Old!IsMarked, IsMarked, Old!Min, Min
  <1>7. \A S : Old!FirstToSurface(d, g, S) = FirstToSurface(d, g, S)
    <2> TAKE S
    <2> DEFINE first == {i \in S : \A j \in S : SurfacesAt(d, g, i) <= SurfacesAt(d, g, j)}
               oldFirst == {i \in S : \A j \in S :
                              Old!SurfacesAt(d, g, i) <= Old!SurfacesAt(d, g, j)}
    <2>1. first = oldFirst
      BY <1>6
    <2>2. FirstToSurface(d, g, S) = Min(first)
      BY Zenon DEF FirstToSurface
    <2>3. Old!FirstToSurface(d, g, S) = Old!Min(oldFirst)
      BY Zenon DEF Old!FirstToSurface
    <2> HIDE DEF first, oldFirst
    <2> QED
      BY <2>1, <2>2, <2>3, SameMin
  <1>8. \A i : Old!Blamed(d, g, i) = Blamed(d, g, i)
    <2> TAKE i
    <2> DEFINE q == Queue(d, g, i)
               oldQ == Old!Queue(d, g, i)
    <2>1. q = oldQ
      BY Zenon DEF Old!Queue, Queue, Old!FlushedAt, FlushedAt, Old!Queued, Queued,
                   Old!Fresh, Fresh, Old!IsMarked, IsMarked, Old!Min, Min
    <2>2. Blamed(d, g, i) = IF Queued(g[i]) /\ UndefinedColumn(d, g[i]) THEN Min(q) ELSE i
      BY Zenon DEF Blamed
    <2>3. Old!Blamed(d, g, i)
             = IF Queued(g[i]) /\ UndefinedColumn(d, g[i]) THEN Old!Min(oldQ) ELSE i
      BY Zenon DEF Old!Blamed, Old!Queued, Queued, Old!UndefinedColumn, UndefinedColumn
    <2> HIDE DEF q, oldQ
    <2> QED
      BY <2>1, <2>2, <2>3, SameMin
  <1>9. Old!BatchError(d, g) = BatchError(d, g)
    BY <1>4, <1>7, <1>8, Zenon DEF Old!BatchError, BatchError
  <1> QED
    BY <1>3, <1>4, <1>7, <1>8, <1>9

(* So does one event at a time.                                            *)
LEMMA SameOutcome == \A e : Old!ApplyOrQuarantine(e) => ApplyOrQuarantine(e)
  BY SameApply DEF Old!ApplyOrQuarantine, ApplyOrQuarantine, Old!Hiccup, Hiccup

-----------------------------------------------------------------------------
(***************************************************************************)
(* The actions of Takeover.                                                *)
(***************************************************************************)

(* The owner's actions are steps of a writer.                              *)
LEMMA OwnerWorks ==
    ASSUME IInv,
           \/ HandleEvent \/ CommitGroup \/ RollBackGroup \/ ReplayHealthyEvent
           \/ RepairPoison \/ RetryPoison \/ QuarantinePoison
           \/ \E i \in DOMAIN group : RollBackInterrupted(i)
    PROVE  Works(Owner, Owner') /\ UNCHANGED <<source, log, offset, crashes>>
  <1>0. /\ Owner.pc = pc /\ Owner.pos = pos /\ Owner.group = group /\ Owner.poison = poison
        /\ Owner.undefined = undefined /\ Owner.next = next /\ Tx(Owner) = group[1].id.tx
    BY DEF Owner, Locals, Tx
  <1>a. Owner' = Locals(pc', pos', group', poison', undefined', next')
    BY DEF Owner
  <1>1. CASE HandleEvent
    <2> DEFINE r == log[pos + 1]
               e == EventOf(source, r)
    <2>1. Event(r) = e /\ e.id = r /\ Count(r) = Len(source[r.tx])
      BY DEF Event, EventOf, Count
    <2>2. /\ pc = "poll" /\ pos < Len(log) /\ pos' = pos + 1 /\ db' = db /\ hiccups' = hiccups
          /\ poison' = poison /\ undefined' = undefined /\ next' = next
          /\ \/ /\ IF group = <<>> THEN r.seq = 1
                   ELSE r.tx = group[1].id.tx /\ r.seq = Len(group) + 1
                /\ group' = Append(group, e)
                /\ pc' = IF Len(group) + 1 = Len(source[r.tx]) THEN "apply" ELSE "poll"
             \/ pc' = "down" /\ group' = group
      <3> HIDE DEF e
      <3> QED
        BY <1>1, <2>1 DEF HandleEvent, InOrder, batch, budgets
    <2>3. Reads(Owner, Owner')
      BY <1>0, <1>a, <2>2 DEF Reads
    <2> QED
      BY <1>1, <2>3 DEF Works, HandleEvent, topic, budgets
  <1>2. CASE CommitGroup
    <2>1. Applies(Owner, Owner')
      BY <1>0, <1>a, <1>2 DEF CommitGroup, Applies, batch, budgets
    <2> QED
      BY <1>2, <2>1 DEF Works, CommitGroup, topic, budgets
  <1>3. CASE RollBackGroup
    <2>1. group \in Seq(Events) /\ db \in Databases
      BY <1>0 DEF IInv, Local, Workers, DatabaseInv
    <2>2. BatchError(db, group) # 0
      BY <1>3 DEF RollBackGroup
    <2>3. BatchError(db, group) \in 1 .. Len(group)
      BY <2>1, <2>2, BlamesFaulty
    <2>4. undefined' \in BOOLEAN
      BY <1>3 DEF RollBackGroup, UndefinedColumn
    <2>5. /\ pc = "apply" /\ db' = db /\ hiccups' = hiccups /\ pc' = "replay" /\ pos' = pos
          /\ group' = group /\ poison' = BatchError(db, group) /\ next' = 1
          /\ undefined' = UndefinedColumn(db, group[Surfaced(db, group)])
      BY <1>3 DEF RollBackGroup, budgets, Surfaced
    <2>6. RollsBack(Owner, Owner')
      BY <1>0, <1>a, <2>3, <2>4, <2>5 DEF RollsBack
    <2> QED
      BY <1>3, <2>6 DEF Works, RollBackGroup, topic, budgets
  <1>4. CASE ReplayHealthyEvent
    <2>1. Replays(Owner, Owner')
      BY <1>0, <1>a, <1>4 DEF ReplayHealthyEvent, Replays
    <2> QED
      BY <1>4, <2>1 DEF Works, ReplayHealthyEvent, topic, budgets
  <1>5. CASE RepairPoison
    <2>1. Repairs(Owner, Owner')
      BY <1>0, <1>a, <1>5 DEF RepairPoison, Repairable, Repairs, batch, budgets
    <2> QED
      BY <1>5, <2>1 DEF Works, RepairPoison, topic, budgets
  <1>6. CASE RetryPoison
    <2>1. Retries(Owner, Owner')
      BY <1>0, <1>a, <1>6 DEF RetryPoison, Retries, batch
    <2> QED
      BY <1>6, <2>1 DEF Works, RetryPoison, topic, budgets
  <1>7. CASE QuarantinePoison
    <2>1. Quarantines(Owner, Owner')
      BY <1>0, <1>a, <1>7 DEF QuarantinePoison, Repairable, Quarantines, batch, budgets
    <2> QED
      BY <1>7, <2>1 DEF Works, QuarantinePoison, topic, budgets
  <1>8. CASE \E i \in DOMAIN group : RollBackInterrupted(i)
    <2>1. PICK i \in DOMAIN group : RollBackInterrupted(i)
      BY <1>8
    <2> DEFINE b == Blamed(db, group, i)
    <2>2. group \in Seq(Events)
      BY <1>0 DEF IInv, Local, Workers
    <2>3. i \in Fresh(db, group)
      BY <2>1, <2>2 DEF RollBackInterrupted, Hiccup, Fresh
    <2>4. b \in 1 .. Len(group)
      BY <2>2, <2>3, BlamedIs
    <2>5. /\ pc = "apply" /\ db' = db /\ hiccups < MaxHiccups /\ hiccups' = hiccups + 1
          /\ pc' = "replay" /\ pos' = pos /\ group' = group /\ poison' = b
          /\ undefined' = FALSE /\ next' = 1
      BY <2>1 DEF RollBackInterrupted, Hiccup
    <2> HIDE DEF b
    <2>6. RollsBack(Owner, Owner')
      BY <1>0, <1>a, <2>4, <2>5 DEF RollsBack
    <2> QED
      BY <2>1, <2>6 DEF Works, RollBackInterrupted, topic, budgets
  <1> QED
    BY <1>1, <1>2, <1>3, <1>4, <1>5, <1>6, <1>7, <1>8

(* So are the evicted writer's.                                             *)
LEMMA EvicteeWorks ==
    ASSUME IInv,
           \/ Old!HandleEvent \/ Old!CommitGroup \/ Old!RollBackGroup \/ Old!ReplayHealthyEvent
           \/ Old!RepairPoison \/ Old!RetryPoison \/ Old!QuarantinePoison
           \/ \E i \in DOMAIN oldGroup : Old!RollBackInterrupted(i)
    PROVE  Works(Evictee, Evictee') /\ UNCHANGED <<source, log, offset, crashes>>
  <1>0. /\ Evictee.pc = oldPc /\ Evictee.pos = oldPos /\ Evictee.group = oldGroup /\ Evictee.poison = oldPoison
        /\ Evictee.undefined = oldUndefined /\ Evictee.next = oldNext /\ Tx(Evictee) = oldGroup[1].id.tx
    BY DEF Evictee, Locals, Tx
  <1>a. Evictee' = Locals(oldPc', oldPos', oldGroup', oldPoison', oldUndefined', oldNext')
    BY DEF Evictee
  <1>1. CASE Old!HandleEvent
    <2> DEFINE r == log[oldPos + 1]
               e == EventOf(source, r)
    <2>1. Old!Event(r) = e /\ e.id = r /\ Old!Count(r) = Len(source[r.tx])
      BY DEF Old!Event, EventOf, Old!Count
    <2>2. /\ oldPc = "poll" /\ oldPos < Len(log) /\ oldPos' = oldPos + 1 /\ db' = db /\ hiccups' = hiccups
          /\ oldPoison' = oldPoison /\ oldUndefined' = oldUndefined /\ oldNext' = oldNext
          /\ \/ /\ IF oldGroup = <<>> THEN r.seq = 1
                   ELSE r.tx = oldGroup[1].id.tx /\ r.seq = Len(oldGroup) + 1
                /\ oldGroup' = Append(oldGroup, e)
                /\ oldPc' = IF Len(oldGroup) + 1 = Len(source[r.tx]) THEN "apply" ELSE "poll"
             \/ oldPc' = "down" /\ oldGroup' = oldGroup
      <3> HIDE DEF e
      <3> QED
        BY <1>1, <2>1 DEF Old!HandleEvent, Old!InOrder, Old!batch, Old!budgets
    <2>3. Reads(Evictee, Evictee')
      BY <1>0, <1>a, <2>2 DEF Reads
    <2> QED
      BY <1>1, <2>3 DEF Works, Old!HandleEvent, Old!topic, Old!budgets
  <1>2. CASE Old!CommitGroup
    <2>1. Applies(Evictee, Evictee')
      BY <1>0, <1>a, <1>2, SameBatch DEF Old!CommitGroup, Applies, Old!batch, Old!budgets
    <2> QED
      BY <1>2, <2>1 DEF Works, Old!CommitGroup, Old!topic, Old!budgets
  <1>3. CASE Old!RollBackGroup
    <2>1. oldGroup \in Seq(Events) /\ db \in Databases
      BY <1>0 DEF IInv, Local, Workers, DatabaseInv
    <2>2. BatchError(db, oldGroup) # 0
      BY <1>3, SameBatch DEF Old!RollBackGroup
    <2>3. BatchError(db, oldGroup) \in 1 .. Len(oldGroup)
      BY <2>1, <2>2, BlamesFaulty
    <2>4. oldUndefined' \in BOOLEAN
      BY <1>3 DEF Old!RollBackGroup, Old!UndefinedColumn
    <2>5. /\ oldPc = "apply" /\ db' = db /\ hiccups' = hiccups /\ oldPc' = "replay" /\ oldPos' = oldPos
          /\ oldGroup' = oldGroup /\ oldPoison' = BatchError(db, oldGroup) /\ oldNext' = 1
          /\ oldUndefined' = UndefinedColumn(db, oldGroup[Surfaced(db, oldGroup)])
      BY <1>3, SameBatch, SameApply DEF Old!RollBackGroup, Old!budgets, Surfaced
    <2>6. RollsBack(Evictee, Evictee')
      BY <1>0, <1>a, <2>3, <2>4, <2>5 DEF RollsBack
    <2> QED
      BY <1>3, <2>6 DEF Works, Old!RollBackGroup, Old!topic, Old!budgets
  <1>4. CASE Old!ReplayHealthyEvent
    <2>1. Replays(Evictee, Evictee')
      BY <1>0, <1>a, <1>4, SameOutcome DEF Old!ReplayHealthyEvent, Replays
    <2> QED
      BY <1>4, <2>1 DEF Works, Old!ReplayHealthyEvent, Old!topic, Old!budgets
  <1>5. CASE Old!RepairPoison
    <2>1. Repairs(Evictee, Evictee')
      BY <1>0, <1>a, <1>5, SameApply
         DEF Old!RepairPoison, Old!Repairable, Repairs, Old!batch, Old!budgets
    <2> QED
      BY <1>5, <2>1 DEF Works, Old!RepairPoison, Old!topic, Old!budgets
  <1>6. CASE Old!RetryPoison
    <2>1. Retries(Evictee, Evictee')
      BY <1>0, <1>a, <1>6, SameOutcome DEF Old!RetryPoison, Retries, Old!batch
    <2> QED
      BY <1>6, <2>1 DEF Works, Old!RetryPoison, Old!topic, Old!budgets
  <1>7. CASE Old!QuarantinePoison
    <2>1. Quarantines(Evictee, Evictee')
      BY <1>0, <1>a, <1>7, SameApply
         DEF Old!QuarantinePoison, Old!Repairable, Quarantines, Old!batch, Old!budgets
    <2> QED
      BY <1>7, <2>1 DEF Works, Old!QuarantinePoison, Old!topic, Old!budgets
  <1>8. CASE \E i \in DOMAIN oldGroup : Old!RollBackInterrupted(i)
    <2>1. PICK i \in DOMAIN oldGroup : Old!RollBackInterrupted(i)
      BY <1>8
    <2> DEFINE b == Blamed(db, oldGroup, i)
    <2>2. oldGroup \in Seq(Events)
      BY <1>0 DEF IInv, Local, Workers
    <2>3. i \in Fresh(db, oldGroup)
      BY <2>1, <2>2, SameApply DEF Old!RollBackInterrupted, Old!Hiccup, Fresh
    <2>4. b \in 1 .. Len(oldGroup)
      BY <2>2, <2>3, BlamedIs
    <2>5. /\ oldPc = "apply" /\ db' = db /\ hiccups < MaxHiccups /\ hiccups' = hiccups + 1
          /\ oldPc' = "replay" /\ oldPos' = oldPos /\ oldGroup' = oldGroup /\ oldPoison' = b
          /\ oldUndefined' = FALSE /\ oldNext' = 1
      BY <2>1, SameBatch DEF Old!RollBackInterrupted, Old!Hiccup
    <2> HIDE DEF b
    <2>6. RollsBack(Evictee, Evictee')
      BY <1>0, <1>a, <2>4, <2>5 DEF RollsBack
    <2> QED
      BY <2>1, <2>6 DEF Works, Old!RollBackInterrupted, Old!topic, Old!budgets
  <1> QED
    BY <1>1, <1>2, <1>3, <1>4, <1>5, <1>6, <1>7, <1>8

(* The topic grows as Topic allows: whatever it restarts or repeats, every *)
(* record is preceded by all that come before it in the source.            *)
LEMMA PublishStep ==
    ASSUME TopicInv, NEW t \in 1 .. Len(source), NEW k \in 1 .. Len(source[t]), Publish(t, k)
    PROVE  /\ TopicInv' /\ log' \in Seq(Records) /\ Len(log') >= Len(log)
           /\ \A i \in 1 .. Len(log) : log'[i] = log[i]
  <1> DEFINE e == [tx |-> t, seq |-> k]
             n == Len(log)
             InLog(s, q) == \E h \in 1 .. n : log[h] = [tx |-> s, seq |-> q]
  <1>1. log \in Seq(Records) /\ n \in Nat /\ source \in Histories /\ Len(source[t]) \in Nat
    BY SourceTyped DEF TopicInv
  <1>2. t \in Nat /\ k \in Nat /\ t >= 1 /\ k >= 1
    BY <1>1
  <1>3. e \in Records /\ IsId(source, e)
    BY <1>2 DEF Records, IsId
  <1>4. source' = source /\ log' = Append(log, e)
    BY DEF Publish, T!Record
  <1>5. T!Continues(T!Record(t, k)) \/ T!Starts(T!Record(t, k)) \/ T!Repeats(T!Record(t, k))
    BY DEF Publish, T!Follows
  <1> HIDE DEF e
  <1>6. /\ log' \in Seq(Records) /\ Len(log') = n + 1 /\ log'[n + 1] = e
        /\ \A i \in 1 .. n : log'[i] = log[i]
    BY <1>1, <1>3, <1>4
  <1>7. /\ \A q \in 1 .. k - 1 : InLog(t, q)
        /\ \A s \in 1 .. t - 1 : \A q \in 1 .. Len(source[s]) : InLog(s, q)
    <2>1. ASSUME NEW b \in Nat, n # 0, log[n] = [tx |-> t, seq |-> b], k <= b + 1
          PROVE  /\ \A q \in 1 .. k - 1 : InLog(t, q)
                 /\ \A s \in 1 .. t - 1 : \A q \in 1 .. Len(source[s]) : InLog(s, q)
      <3>1. n \in 1 .. n /\ Preceded(source, log, n) /\ log[n].tx = t /\ log[n].seq = b
        BY <1>1, <2>1 DEF TopicInv
      <3>2. /\ \A q \in 1 .. b - 1 : \E h \in 1 .. n - 1 : log[h] = [tx |-> t, seq |-> q]
            /\ \A s \in 1 .. t - 1 : \A q \in 1 .. Len(source[s]) :
                  \E h \in 1 .. n - 1 : log[h] = [tx |-> s, seq |-> q]
        BY <3>1 DEF Preceded
      <3>3. \A h \in 1 .. n - 1 : h \in 1 .. n
        BY <1>1
      <3>4. \A q \in 1 .. k - 1 : q = b \/ q \in 1 .. b - 1
        BY <1>2, <2>1
      <3>5. \A q \in 1 .. k - 1 : InLog(t, q)
        <4> TAKE q \in 1 .. k - 1
        <4>1. CASE q = b
          BY <2>1, <3>1, <4>1
        <4>2. CASE q \in 1 .. b - 1
          BY <3>2, <3>3, <4>2
        <4> QED
          BY <3>4, <4>1, <4>2
      <3>6. \A s \in 1 .. t - 1 : \A q \in 1 .. Len(source[s]) : InLog(s, q)
        BY <3>2, <3>3
      <3> HIDE DEF InLog
      <3> QED
        BY <3>5, <3>6
    <2>2. CASE T!Continues(T!Record(t, k))
      <3>1. n # 0 /\ log[n] = [tx |-> t, seq |-> k - 1] /\ k > 1
        BY <2>2 DEF T!Continues, T!IsLast, T!Record
      <3>2. k - 1 \in Nat /\ k <= (k - 1) + 1
        BY <1>2, <3>1
      <3> QED
        BY <2>1, <3>1, <3>2
    <2>3. CASE T!Repeats(T!Record(t, k))
      <3>1. n # 0 /\ log[n] = [tx |-> t, seq |-> k] /\ k <= k + 1
        BY <1>2, <2>3 DEF T!Repeats, T!IsLast, T!Record
      <3> QED
        BY <1>2, <2>1, <3>1
    <2>4. CASE T!Starts(T!Record(t, k))
      <3>1. k = 1 /\ T!CompleteUpTo(t - 1)
        BY <2>4 DEF T!Starts, T!Record
      <3>2. \A s \in 1 .. t - 1 : s \in 1 .. Len(source)
        BY <1>2
      <3>3. \A s \in 1 .. t - 1 : \A q \in 1 .. Len(source[s]) : InLog(s, q)
        BY <3>1, <3>2 DEF T!CompleteUpTo, T!Complete, T!Published, T!Record
      <3>4. \A q \in 1 .. k - 1 : InLog(t, q)
        BY <3>1
      <3> HIDE DEF InLog
      <3> QED
        BY <3>3, <3>4
    <2> QED
      BY <1>5, <2>2, <2>3, <2>4
  <1>8. ASSUME NEW i \in 1 .. n + 1
        PROVE  IsId(source, log'[i]) /\ Preceded(source, log', i)
    <2>1. CASE i \in 1 .. n
      <3>1. IsId(source, log[i]) /\ Preceded(source, log, i) /\ log'[i] = log[i]
        BY <1>6, <2>1 DEF TopicInv
      <3>2. \A h \in 1 .. i - 1 : log'[h] = log[h]
        BY <1>1, <1>6, <2>1
      <3> QED
        BY <3>1, <3>2 DEF Preceded
    <2>2. CASE i = n + 1
      <3>1. log'[i] = e /\ e.tx = t /\ e.seq = k
        BY <1>6, <2>2 DEF e
      <3>2. \A s, q : InLog(s, q) => \E h \in 1 .. i - 1 : log'[h] = [tx |-> s, seq |-> q]
        BY <1>1, <1>6, <2>2
      <3>3. Preceded(source, log', i)
        <4> HIDE DEF InLog
        <4> QED
          BY <1>7, <3>1, <3>2 DEF Preceded
      <3> QED
        BY <1>3, <3>1, <3>3
    <2> QED
      BY <1>1, <2>1, <2>2
  <1>9. TopicInv'
    BY <1>1, <1>4, <1>6, <1>8 DEF TopicInv
  <1> QED
    BY <1>1, <1>6, <1>9

(* IInv survives when one writer works and the other's locals stay.        *)
LEMMA WorkStep ==
    ASSUME IInv, UNCHANGED <<source, log, offset, crashes>>,
           \/ Works(Owner, Owner') /\ Evictee' = Evictee
           \/ Works(Evictee, Evictee') /\ Owner' = Owner
    PROVE  IInv' /\ db.marks \subseteq db'.marks /\ db.dead \subseteq db'.dead
  <1>1. ASSUME NEW w, NEW v, NEW x, Works(w, v),
               Local(source, log, db.marks, Undisturbed, w),
               Local(source, log, db.marks, Undisturbed, x)
        PROVE  Kept(v) /\ Local(source, log, db'.marks, Undisturbed', x)
    <2>1. At(w)
      BY <1>1 DEF At, IInv, OffsetInv
    <2>2. Kept(v)
      BY <1>1, <2>1, WorksKeeps
    <2>3. db.marks \subseteq db'.marks /\ (Undisturbed' => Undisturbed) /\ log \in Seq(Records)
      BY <2>2 DEF Kept, IInv, TopicInv
    <2>4. Len(log) <= Len(log)
      BY <2>3
    <2>5. Undisturbed \in BOOLEAN /\ Undisturbed' \in BOOLEAN
      BY DEF Undisturbed
    <2>6. Local(source, log, db'.marks, Undisturbed', x)
      BY <1>1, <2>3, <2>4, <2>5, Bystander
    <2> QED
      BY <2>2, <2>6
  <1>2. TopicInv'
    BY DEF IInv, TopicInv
  <1>3. ASSUME NEW v, Kept(v)
        PROVE  DatabaseInv' /\ OffsetInv' /\ Local(source, log, db'.marks, Undisturbed', v)
               /\ db.marks \subseteq db'.marks /\ db.dead \subseteq db'.dead
    BY <1>3 DEF Kept, IInv, OffsetInv
  <1>4. CASE Works(Owner, Owner') /\ Evictee' = Evictee
    <2>1. Kept(Owner') /\ Local(source, log, db'.marks, Undisturbed', Evictee)
      BY <1>1, <1>4 DEF IInv
    <2> QED
      BY <1>2, <1>3, <1>4, <2>1 DEF IInv
  <1>5. CASE Works(Evictee, Evictee') /\ Owner' = Owner
    <2>1. Kept(Evictee') /\ Local(source, log, db'.marks, Undisturbed', Owner)
      BY <1>1, <1>5 DEF IInv
    <2> QED
      BY <1>2, <1>3, <1>5, <2>1 DEF IInv
  <1> QED
    BY <1>4, <1>5

(* A writer without a group claims only that it starts at a good offset.   *)
LEMMA FreshWriter ==
    ASSUME TopicInv, NEW m, NEW q, NEW o \in 0 .. Len(log), \A i \in 1 .. o : log[i] \in m
    PROVE  Local(source, log, m, q, Locals("poll", o, <<>>, 0, FALSE, 1))
  <1> DEFINE w == Locals("poll", o, <<>>, 0, FALSE, 1)
  <1>1. log \in Seq(Records) /\ Len(log) \in Nat /\ o \in Nat
    BY DEF TopicInv
  <1>2. w \in Workers /\ w.pos = o /\ w.group = <<>> /\ w.poison = 0 /\ w.pc = "poll"
    BY <1>1 DEF Workers, Locals
  <1> HIDE DEF w
  <1>3. GroupOf(source, log, w) /\ Progress(source, m, q, w)
    BY <1>1, <1>2 DEF GroupOf, Progress
  <1>4. \A i \in 1 .. w.pos - Len(w.group) : log[i] \in m
    BY <1>1, <1>2
  <1>5. Local(source, log, m, q, w)
    BY <1>1, <1>2, <1>3, <1>4 DEF Local
  <1> QED
    BY <1>5 DEF w

(* A writer that is down claims nothing about its group.                   *)
LEMMA DownWriter ==
    ASSUME NEW s, NEW l, NEW m, NEW q, NEW p, NEW o, NEW g, NEW i, NEW u, NEW n,
           Local(s, l, m, q, Locals(p, o, g, i, u, n))
    PROVE  Local(s, l, m, q, Locals("down", o, g, i, u, n))
  <1> DEFINE w == Locals(p, o, g, i, u, n)
             v == Locals("down", o, g, i, u, n)
  <1>1. w \in Workers /\ w.pos <= Len(l) /\ Len(w.group) <= Len(l) /\ w.poison <= Len(l)
    BY DEF Local
  <1>2. /\ w.pos = o /\ w.group = g /\ w.poison = i /\ w.undefined = u /\ w.next = n
        /\ v.pos = o /\ v.group = g /\ v.poison = i /\ v.undefined = u /\ v.next = n
        /\ v.pc = "down"
    BY DEF Locals
  <1>3. o \in Nat /\ g \in Seq(Events) /\ i \in Nat /\ u \in BOOLEAN /\ n \in Nat \ {0}
    BY <1>1, <1>2 DEF Workers
  <1>4. v \in Workers
    BY <1>3 DEF Workers, Locals
  <1> HIDE DEF v, w
  <1>5. Local(s, l, m, q, v)
    BY <1>1, <1>2, <1>4 DEF Local
  <1> QED
    BY <1>5 DEF v

(* The steps of the topic and of the processes, which leave the database   *)
(* alone.                                                                  *)
LEMMA ControlStep ==
    ASSUME IInv,
           \/ \E t \in 1 .. Len(source) : \E k \in 1 .. Len(source[t]) :
                 Publish(t, k) /\ UNCHANGED evicted
           \/ (PollEmpty \/ Crash) /\ UNCHANGED evicted
           \/ (Run \/ CommitKafkaOffset) /\ UNCHANGED evicted
           \/ Evict \/ OldCommitRefused \/ UNCHANGED allVars
    PROVE  IInv' /\ db' = db
  <1>0. /\ TopicInv /\ DatabaseInv /\ OffsetInv
        /\ Local(source, log, db.marks, Undisturbed, Owner)
        /\ Local(source, log, db.marks, Undisturbed, Evictee)
        /\ crashes \in Nat /\ MaxCrashes \in Nat /\ hiccups \in 0 .. MaxHiccups
    BY WriterAssumption DEF IInv, OffsetInv
  <1>1. ASSUME source' = source, db' = db, hiccups' = hiccups
        PROVE  DatabaseInv' /\ Undisturbed' = Undisturbed
    BY <1>0, <1>1 DEF DatabaseInv, Undisturbed
  <1>2. ASSUME source' = source, log' = log PROVE TopicInv'
    BY <1>0, <1>2 DEF TopicInv
  <1>3. CASE UNCHANGED allVars \/ (PollEmpty /\ UNCHANGED evicted)
    <2>1. UNCHANGED <<vars, evicted>>
      BY <1>3 DEF allVars, PollEmpty
    <2>2. Owner' = Owner /\ Evictee' = Evictee /\ UNCHANGED <<source, log, offset, db, crashes, hiccups>>
      BY <2>1 DEF vars, evicted, Owner, Evictee
    <2>3. OffsetInv'
      BY <1>0, <2>2 DEF OffsetInv
    <2> QED
      BY <1>0, <1>1, <1>2, <2>2, <2>3 DEF IInv
  <1>4. CASE \E t \in 1 .. Len(source) : \E k \in 1 .. Len(source[t]) :
                 Publish(t, k) /\ UNCHANGED evicted
    <2>1. PICK t \in 1 .. Len(source) : \E k \in 1 .. Len(source[t]) :
              Publish(t, k) /\ UNCHANGED evicted
      BY <1>4
    <2>2. PICK k \in 1 .. Len(source[t]) : Publish(t, k) /\ UNCHANGED evicted
      BY <2>1
    <2>3. /\ UNCHANGED <<source, offset, db, crashes, hiccups>>
          /\ Owner' = Owner /\ Evictee' = Evictee
      BY <2>2 DEF Publish, batch, budgets, evicted, Owner, Evictee
    <2>4. /\ TopicInv' /\ log' \in Seq(Records) /\ Len(log') >= Len(log)
          /\ \A i \in 1 .. Len(log) : log'[i] = log[i]
      BY <1>0, <2>2, PublishStep
    <2>5. log \in Seq(Records) /\ Len(log) \in Nat /\ Len(log') \in Nat /\ Len(log) <= Len(log')
      BY <1>0, <2>4 DEF TopicInv
    <2>6. Undisturbed \in BOOLEAN
      BY DEF Undisturbed
    <2>7. ASSUME NEW x, Local(source, log, db.marks, Undisturbed, x)
          PROVE  Local(source, log', db.marks, Undisturbed, x)
      BY <2>4, <2>5, <2>6, <2>7, Bystander
    <2>8. OffsetInv'
      BY <1>0, <2>3, <2>4, <2>5 DEF OffsetInv
    <2>9. DatabaseInv' /\ Undisturbed' = Undisturbed
      BY <1>1, <2>3
    <2>10. /\ Local(source, log', db.marks, Undisturbed, Owner)
           /\ Local(source, log', db.marks, Undisturbed, Evictee)
      BY <1>0, <2>7
    <2> QED
      BY <2>3, <2>4, <2>8, <2>9, <2>10 DEF IInv
  <1>5. CASE Crash /\ UNCHANGED evicted
    <2>1. /\ UNCHANGED <<source, log, offset, db, hiccups>> /\ Evictee' = Evictee
          /\ crashes < MaxCrashes /\ crashes' = crashes + 1
      BY <1>5 DEF Crash, topic, evicted, Evictee
    <2>2. Owner' = Locals("down", pos, group, poison, undefined, next)
      BY <1>5 DEF Crash, batch, Owner
    <2>3. Local(source, log, db.marks, Undisturbed, Owner')
      BY <1>0, <2>2, DownWriter DEF Owner
    <2>4. OffsetInv'
      BY <1>0, <2>1 DEF OffsetInv
    <2> QED
      BY <1>0, <1>1, <1>2, <2>1, <2>3, <2>4 DEF IInv
  <1>6. CASE Run /\ UNCHANGED evicted
    <2>1. UNCHANGED <<source, log, offset, db, crashes, hiccups>> /\ Evictee' = Evictee
      BY <1>6 DEF Run, topic, budgets, evicted, Evictee
    <2>2. Owner' = Locals("poll", offset, <<>>, 0, FALSE, 1)
      BY <1>6 DEF Run, DropBatch, Owner
    <2>3. Local(source, log, db.marks, Undisturbed, Owner')
      BY <1>0, <2>2, FreshWriter DEF OffsetInv
    <2>4. OffsetInv'
      BY <1>0, <2>1 DEF OffsetInv
    <2> QED
      BY <1>0, <1>1, <1>2, <2>1, <2>3, <2>4 DEF IInv
  <1>7. CASE CommitKafkaOffset /\ UNCHANGED evicted
    <2>1. /\ UNCHANGED <<source, log, db, crashes, hiccups>> /\ Evictee' = Evictee
          /\ offset' = pos /\ pc = "commit"
      BY <1>7 DEF CommitKafkaOffset, budgets, evicted, Evictee
    <2>2. Owner' = Locals("poll", pos, <<>>, 0, FALSE, 1)
      BY <1>7 DEF CommitKafkaOffset, DropBatch, Owner
    <2>3. Owner.pc = "commit" /\ Owner.pos = pos /\ Owner.group = group
      BY <2>1 DEF Owner, Locals
    <2>4. /\ Owner \in Workers /\ Owner.pos <= Len(log) /\ GroupOf(source, log, Owner)
          /\ Progress(source, db.marks, Undisturbed, Owner)
          /\ \A i \in 1 .. Owner.pos - Len(Owner.group) : log[i] \in db.marks
      BY <1>0, <2>3 DEF Local
    <2>5. pos \in Nat /\ group \in Seq(Events) /\ Len(group) \in Nat /\ Len(log) \in Nat
      BY <1>0, <2>3, <2>4 DEF Workers, TopicInv
    <2>6. ASSUME NEW i \in 1 .. pos
          PROVE  log[i] \in db.marks
      <3>1. CASE i \in 1 .. pos - Len(group)
        BY <2>3, <2>4, <3>1
      <3>2. CASE i \notin 1 .. pos - Len(group)
        <4> DEFINE j == i - (pos - Len(group))
        <4>1. j \in 1 .. Len(group) /\ pos - Len(group) + j = i
          BY <2>3, <2>4, <2>5, <3>2 DEF GroupOf
        <4> HIDE DEF j
        <4>2. group[j] = EventOf(source, log[i])
          BY <2>3, <2>4, <4>1 DEF GroupOf
        <4>3. group[j].id \in db.marks
          BY <2>3, <2>4, <4>1 DEF Progress
        <4>4. EventOf(source, log[i]).id = log[i]
          BY DEF EventOf
        <4> QED
          BY <4>2, <4>3, <4>4
      <3> QED
        BY <3>1, <3>2
    <2>7. pos \in 0 .. Len(log)
      BY <2>3, <2>4, <2>5
    <2>8. Local(source, log, db.marks, Undisturbed, Owner')
      BY <1>0, <2>2, <2>6, <2>7, FreshWriter
    <2>9. OffsetInv'
      BY <1>0, <2>1, <2>6, <2>7 DEF OffsetInv
    <2> QED
      BY <1>0, <1>1, <1>2, <2>1, <2>8, <2>9 DEF IInv
  <1>8. CASE Evict
    <2>1. /\ UNCHANGED <<source, log, offset, db, hiccups>>
          /\ crashes < MaxCrashes /\ crashes' = crashes + 1
      BY <1>8 DEF Evict, topic
    <2>2. /\ Owner' = Locals("down", pos, group, poison, undefined, next)
          /\ Evictee' = Owner
      BY <1>8 DEF Evict, batch, Owner, Evictee
    <2>3. Local(source, log, db.marks, Undisturbed, Owner')
      BY <1>0, <2>2, DownWriter DEF Owner
    <2>4. OffsetInv'
      BY <1>0, <2>1 DEF OffsetInv
    <2> QED
      BY <1>0, <1>1, <1>2, <2>1, <2>2, <2>3, <2>4 DEF IInv
  <1>9. CASE OldCommitRefused
    <2>1. UNCHANGED <<source, log, offset, db, crashes, hiccups>> /\ Owner' = Owner
      BY <1>9 DEF OldCommitRefused, topic, budgets, owner, Owner
    <2>2. Evictee' = Locals("down", oldPos, oldGroup, oldPoison, oldUndefined, oldNext)
      BY <1>9 DEF OldCommitRefused, Evictee
    <2>3. Local(source, log, db.marks, Undisturbed, Evictee')
      BY <1>0, <2>2, DownWriter DEF Evictee
    <2>4. OffsetInv'
      BY <1>0, <2>1 DEF OffsetInv
    <2> QED
      BY <1>0, <1>1, <1>2, <2>1, <2>3, <2>4 DEF IInv
  <1> QED
    BY <1>3, <1>4, <1>5, <1>6, <1>7, <1>8, <1>9

-----------------------------------------------------------------------------
(* Nothing is published, marked or in hand at the start.                   *)
LEMMA InitInv == TakeoverInit => IInv
  <1> SUFFICES ASSUME TakeoverInit PROVE IInv
    OBVIOUS
  <1>1. /\ source \in Histories /\ log = <<>> /\ offset = 0 /\ db = EmptyDatabase
        /\ crashes = 0 /\ hiccups = 0
        /\ Owner = Locals("down", 0, <<>>, 0, FALSE, 1)
        /\ Evictee = Locals("down", 0, <<>>, 0, FALSE, 1)
    BY DEF TakeoverInit, Init, Owner, Evictee
  <1>2. TopicInv
    BY <1>1 DEF TopicInv
  <1>3. db \in Databases /\ db.marks = {} /\ db.dead = {}
    <2>1. Absent \in Rows
      BY DEF Absent, Nil, Rows, Records
    <2> QED
      BY <1>1, <2>1 DEF EmptyDatabase, Databases
  <1>4. DatabaseInv
    BY <1>3 DEF DatabaseInv, Ordered, Whole, BlamedLast
  <1>5. OffsetInv
    BY <1>1, WriterAssumption DEF OffsetInv
  <1> DEFINE w == Locals("down", 0, <<>>, 0, FALSE, 1)
  <1>6. w \in Workers /\ w.pos = 0 /\ w.group = <<>> /\ w.poison = 0 /\ w.pc = "down"
    BY DEF Workers, Locals
  <1> HIDE DEF w
  <1>7. Local(source, log, db.marks, Undisturbed, w)
    BY <1>1, <1>6 DEF Local
  <1> QED
    BY <1>1, <1>2, <1>4, <1>5, <1>7 DEF IInv, w

(* Every step of either writer keeps IInv, and no marker or letter goes.   *)
LEMMA StepInv ==
    ASSUME IInv, [TakeoverNext]_allVars
    PROVE  IInv' /\ db.marks \subseteq db'.marks /\ db.dead \subseteq db'.dead
  <1>1. CASE /\ UNCHANGED evicted
             /\ \/ HandleEvent \/ CommitGroup \/ RollBackGroup \/ ReplayHealthyEvent
                \/ RepairPoison \/ RetryPoison \/ QuarantinePoison
                \/ \E i \in DOMAIN group : RollBackInterrupted(i)
    <2>1. Works(Owner, Owner') /\ UNCHANGED <<source, log, offset, crashes>>
      BY <1>1, OwnerWorks
    <2>2. Evictee' = Evictee
      BY <1>1 DEF evicted, Evictee
    <2> QED
      BY <2>1, <2>2, WorkStep
  <1>2. CASE OldStep
    <2>1. /\ UNCHANGED <<owner, contested>>
          /\ \/ Old!HandleEvent \/ Old!CommitGroup \/ Old!RollBackGroup
             \/ Old!ReplayHealthyEvent \/ Old!RepairPoison \/ Old!RetryPoison
             \/ Old!QuarantinePoison
             \/ \E i \in DOMAIN oldGroup : Old!RollBackInterrupted(i)
      BY <1>2 DEF OldStep
    <2>2. Works(Evictee, Evictee') /\ UNCHANGED <<source, log, offset, crashes>>
      BY <2>1, EvicteeWorks
    <2>3. Owner' = Owner
      BY <2>1 DEF owner, Owner
    <2> QED
      BY <2>2, <2>3, WorkStep
  <1>3. CASE \/ \E t \in 1 .. Len(source) : \E k \in 1 .. Len(source[t]) :
                    Publish(t, k) /\ UNCHANGED evicted
             \/ (PollEmpty \/ Crash) /\ UNCHANGED evicted
             \/ (Run \/ CommitKafkaOffset) /\ UNCHANGED evicted
             \/ Evict \/ OldCommitRefused \/ UNCHANGED allVars
    <2>1. IInv' /\ db' = db
      BY <1>3, ControlStep
    <2> QED
      BY <2>1
  <1> QED
    BY <1>1, <1>2, <1>3 DEF TakeoverNext, OwnerNext

(* The inductive invariant holds in every reachable state.                 *)
THEOREM TakeoverInvariance == TakeoverSpec => []IInv
  <1>1. IInv /\ [TakeoverNext]_allVars => IInv'
    BY StepInv
  <1> QED
    BY <1>1, InitInv, PTL DEF TakeoverSpec

(* Every variable has its type.                                            *)
THEOREM TakeoverTypes == TakeoverSpec => []TypeOK
  <1>1. IInv => TypeOK
    <2> SUFFICES ASSUME IInv PROVE TypeOK
      OBVIOUS
    <2>1. \A r : IsId(source, r) => r \in Ids
      BY IdsAre DEF IInv, TopicInv
    <2>2. log \in Seq(Records) /\ \A i \in DOMAIN log : log[i] \in Ids
      BY <2>1 DEF IInv, TopicInv
    <2>3. /\ Owner \in Workers /\ Owner.pos <= Len(log) /\ Len(Owner.group) <= Len(log)
          /\ Owner.poison <= Len(log)
      BY DEF IInv, Local
    <2>4. /\ Owner.pc = pc /\ Owner.pos = pos /\ Owner.group = group /\ Owner.poison = poison
          /\ Owner.undefined = undefined /\ Owner.next = next
      BY DEF Owner, Locals
    <2>5. /\ pc \in {"down", "poll", "apply", "replay", "retry", "commit"}
          /\ pos \in Nat /\ poison \in Nat /\ undefined \in BOOLEAN /\ next \in Nat
      BY <2>3, <2>4 DEF Workers
    <2>6. pos \in 0 .. Len(log) /\ poison \in 0 .. Len(log) /\ Len(group) <= Len(log)
      BY <2>2, <2>3, <2>4, <2>5
    <2>7. db.marks \subseteq Ids /\ db.dead \subseteq Ids
      BY <2>1 DEF IInv, DatabaseInv
    <2> QED
      BY <2>2, <2>5, <2>6, <2>7 DEF TypeOK, IInv, OffsetInv
  <1> QED
    BY <1>1, TakeoverInvariance, PTL

(* Kafka is committed only after the destination transaction commits, by   *)
(* whichever writer.                                                       *)
THEOREM TakeoverLosesNoEvent == TakeoverSpec => []NoEventLost
  <1>1. IInv => NoEventLost
    BY DEF IInv, OffsetInv, NoEventLost
  <1> QED
    BY <1>1, TakeoverInvariance, PTL

(* No event is recorded while one of an earlier transaction is not.        *)
THEOREM TakeoverInOrder == TakeoverSpec => []TransactionsInOrder
  <1>1. IInv => TransactionsInOrder
    <2> SUFFICES ASSUME IInv, NEW r \in db.marks, NEW q \in Ids, q.tx < r.tx
                 PROVE  q \in db.marks
      BY DEF TransactionsInOrder
    <2>1. IsId(source, q) /\ IsId(source, r)
      BY IdsAre DEF IInv, TopicInv, DatabaseInv
    <2>2. /\ q.tx \in 1 .. r.tx - 1 /\ q.seq \in 1 .. Len(source[q.tx])
          /\ q = [tx |-> q.tx, seq |-> q.seq]
      BY <2>1 DEF IsId, Records
    <2>3. Ordered(source, db.marks)
      BY DEF IInv, DatabaseInv
    <2>4. [tx |-> q.tx, seq |-> q.seq] \in db.marks
      BY <2>2, <2>3 DEF Ordered
    <2> QED
      BY <2>2, <2>4
  <1> QED
    BY <1>1, TakeoverInvariance, PTL

(* A transaction without a faulty event is recorded whole or not at all.   *)
THEOREM TakeoverAtomic == TakeoverSpec => []HealthyTransactionsAtomic
  <1>1. IInv => HealthyTransactionsAtomic
    <2> SUFFICES ASSUME IInv, Undisturbed, NEW t \in 1 .. Len(source),
                        \A k \in 1 .. Len(source[t]) : source[t][k].fault = "none"
                 PROVE  LET ids == {T!Record(t, k) : k \in 1 .. Len(source[t])}
                        IN  ids \subseteq db.marks \/ ids \cap db.marks = {}
      BY DEF HealthyTransactionsAtomic
    <2>1. \/ \A k \in 1 .. Len(source[t]) : [tx |-> t, seq |-> k] \in db.marks
          \/ \A k \in 1 .. Len(source[t]) : [tx |-> t, seq |-> k] \notin db.marks
      BY DEF IInv, DatabaseInv, Whole
    <2> QED
      BY <2>1 DEF T!Record
  <1> QED
    BY <1>1, TakeoverInvariance, PTL

(* A change to blame is faulty or takes the blame as the writer sees it.   *)
LEMMA BlamableIs ==
    ASSUME NEW r, IsId(source, r), Blamable(source, r.tx, r.seq)
    PROVE  Event(r).fault # "none" \/ TakesBlame(r)
  <1>1. Event(r).fault = source[r.tx][r.seq].fault
    BY DEF Event
  <1> QED
    BY <1>1 DEF Blamable, TakesBlame, Count

(* A healthy event is never quarantined, unless it takes the blame for a   *)
(* missing column.                                                         *)
THEOREM TakeoverQuarantinesFaulty == TakeoverSpec => []OnlyFaultyQuarantined
  <1>1. IInv => OnlyFaultyQuarantined
    BY BlamableIs DEF IInv, DatabaseInv, OnlyFaultyQuarantined
  <1> QED
    BY <1>1, TakeoverInvariance, PTL

-----------------------------------------------------------------------------
(***************************************************************************)
(* Applied once, in source order.  Under the conditions on Histories that  *)
(* the theorems name, the tables are a mirror of the events that are       *)
(* marked and not quarantined; the two writers keep it together because    *)
(* whatever precedes an applied event is marked already.                   *)
(***************************************************************************)
Appliable(r) == source[r.tx][r.seq].fault \in {"none", "drift"}

(* The database d: its tables, that only events that can succeed were      *)
(* applied, and that none of these was overtaken.                          *)
Faithful(d) ==
    /\ Mirrored(d, d.marks \ d.dead)
    /\ \A r \in d.marks \ d.dead :
          /\ Appliable(r)
          /\ \A q \in Records : IsId(source, q) /\ Appliable(q) /\ Precedes(q, r) => q \in d.marks

(* A writer about to repair or quarantine a drifted event is the first to  *)
(* record it.                                                              *)
Awaits(m, w) ==
    w.pc = "replay" /\ w.group[w.poison].fault = "drift" => w.group[w.poison].id \notin m

(* An evicted writer has a group in hand, and it is contested if the       *)
(* transaction drifts.                                                     *)
EvicteeInv ==
    /\ contested \in BOOLEAN
    /\ contested => \E t \in 1 .. Len(source) : Drifts(source[t])
    /\ Evictee.pc # "down" =>
          Evictee.group # <<>> /\ (Drifts(source[Tx(Evictee)]) => contested)

AppliedInv ==
    Undisturbed /\ DriftsLead /\ ~contested => Faithful(db) /\ Awaits(db.marks, Owner)

(***************************************************************************)
(* Column drift heals: who rolls back for a drifted event finds its column *)
(* missing when it comes to the repair, and there when it retries.         *)
(***************************************************************************)
Healed(d) == \A r \in d.dead : source[r.tx][r.seq].fault # "drift"

Heals(cols, w) ==
    w.pc \in {"replay", "retry"} /\ w.group[w.poison].fault = "drift" =>
        IF w.pc = "replay" THEN w.undefined /\ w.group[w.poison].table \notin cols
        ELSE w.group[w.poison].table \in cols

HealedInv ==
    Undisturbed /\ DriftsLead /\ ~contested => Healed(db) /\ Heals(db.cols, Owner)

-----------------------------------------------------------------------------
(* What is applied is not after an event r that is not recorded, unless r  *)
(* can never be applied.                                                   *)
LEMMA NotOvertaken ==
    ASSUME TopicInv, DatabaseInv, Faithful(db), NEW r, IsId(source, r), r \notin db.marks,
           NEW q \in db.marks \ db.dead
    PROVE  /\ IsId(source, q) /\ q # r /\ q.tx <= r.tx
           /\ Appliable(r) => Precedes(q, r)
  <1>1. IsId(source, q) /\ q # r
    BY DEF DatabaseInv
  <1>2. /\ q \in Records /\ r \in Records /\ q.tx \in Nat /\ q.seq \in Nat /\ r.tx \in Nat
        /\ r.seq \in Nat /\ r.tx >= 1 /\ r.seq \in 1 .. Len(source[r.tx])
        /\ r = [tx |-> r.tx, seq |-> r.seq] /\ q = [tx |-> q.tx, seq |-> q.seq]
    BY <1>1 DEF IsId, Records
  <1>3. q.tx <= r.tx
    <2> SUFFICES ASSUME r.tx < q.tx PROVE FALSE
      BY <1>2
    <2>1. r.tx \in 1 .. q.tx - 1
      BY <1>2
    <2>2. [tx |-> r.tx, seq |-> r.seq] \in db.marks
      BY <1>2, <2>1 DEF DatabaseInv, Ordered
    <2> QED
      BY <1>2, <2>2
  <1>4. ASSUME Appliable(r)
        PROVE  Precedes(q, r)
    <2> SUFFICES ASSUME ~Precedes(q, r) PROVE FALSE
      OBVIOUS
    <2>1. q.tx # r.tx \/ q.seq # r.seq
      BY <1>1, <1>2
    <2>2. Precedes(r, q)
      BY <1>2, <2>1 DEF Precedes
    <2> QED
      BY <1>2, <1>4, <2>2 DEF Faithful
  <1> QED
    BY <1>1, <1>3, <1>4

(* An event that does not fail after all that can be applied before it.    *)
LEMMA ApplyFaithful ==
    ASSUME TopicInv, DatabaseInv, TruncatesOnce, Faithful(db), NEW r, IsId(source, r),
           \A q \in Records : IsId(source, q) /\ Appliable(q) /\ Precedes(q, r) => q \in db.marks,
           ~ApplyFails(db, EventOf(source, r))
    PROVE  Faithful(Apply(db, EventOf(source, r)))
  <1> DEFINE e == EventOf(source, r)
             d == MarkApplied(db, e)
             x == ApplyMutation(d, e)
             A == db.marks \ db.dead
  <1>1. e \in Events /\ e.id = r /\ e.fault = source[r.tx][r.seq].fault /\ source \in Histories
        /\ e.fault \in {"none", "malformed", "poison", "drift"}
    BY EventTyped DEF TopicInv, Events
  <1>2. db \in Databases /\ db.dead \subseteq db.marks /\ \A q \in db.marks : IsId(source, q)
    BY DEF DatabaseInv
  <1>3. CASE IsMarked(db, e)
    BY <1>3 DEF Apply
  <1>4. CASE ~IsMarked(db, e)
    <2>1. r \notin db.marks /\ ~Fails(db, e) /\ Apply(db, e) = x
      BY <1>1, <1>4 DEF IsMarked, ApplyFails, Apply
    <2>2. \A q \in A : IsId(source, q) /\ q # r /\ q.tx <= r.tx /\ (Appliable(r) => Precedes(q, r))
      BY <2>1, NotOvertaken
    <2>3. Mirrored(db, A)
      BY DEF Faithful
    <2> HIDE DEF e, A
    <2>4. ~StaleTruncate(db, e)
      BY <1>1, <1>2, <2>2, <2>3, InOrderNotStale DEF e
    <2>5. Appliable(r)
      BY <1>1, <2>1, <2>4 DEF Fails, RefusedByApplier, RefusedByPostgres, Appliable
    <2>6. d \in Databases /\ d.rows = db.rows /\ d.water = db.water
          /\ d.marks = db.marks \cup {r} /\ d.dead = db.dead
      BY <1>1, <1>2 DEF MarkApplied, Databases, Events
    <2> HIDE DEF d
    <2>7. Mirrored(d, A)
      BY <1>2, <2>3, <2>6, SameTables
    <2>8. Mirrored(x, A \cup {r})
      BY <1>1, <2>2, <2>5, <2>6, <2>7, MutationMirrors DEF e
    <2>9. x.marks = db.marks \cup {r} /\ x.dead = db.dead
      BY <1>1, <2>6, MutationKeepsLedgers DEF SameLedgers
    <2> HIDE DEF x
    <2>10. x.marks \ x.dead = A \cup {r}
      BY <1>2, <2>1, <2>9 DEF A
    <2>11. ASSUME NEW p \in x.marks \ x.dead
           PROVE  /\ Appliable(p)
                  /\ \A q \in Records :
                        IsId(source, q) /\ Appliable(q) /\ Precedes(q, p) => q \in x.marks
      <3>1. CASE p = r
        BY <2>5, <2>9, <3>1
      <3>2. CASE p # r
        <4>1. p \in db.marks \ db.dead
          BY <2>10, <3>2 DEF A
        <4> QED
          BY <2>9, <4>1 DEF Faithful
      <3> QED
        BY <3>1, <3>2
    <2>12. Faithful(x)
      BY <2>8, <2>10, <2>11 DEF Faithful
    <2> QED
      BY <2>1, <2>12 DEF e
  <1> QED
    BY <1>3, <1>4

(* A dead letter for an event that was not applied changes no table.       *)
LEMMA LetterFaithful ==
    ASSUME TopicInv, DatabaseInv, Faithful(db), NEW r, IsId(source, r),
           r \notin db.marks \ db.dead
    PROVE  Faithful(RecordDeadLetter(db, EventOf(source, r)))
  <1> DEFINE e == EventOf(source, r)
             x == RecordDeadLetter(db, e)
             A == db.marks \ db.dead
  <1>1. e \in Events /\ e.id = r /\ db \in Databases
    BY EventTyped DEF TopicInv, DatabaseInv
  <1>2. x \in Databases /\ x.marks = db.marks \cup {r} /\ x.dead = db.dead \cup {r}
    BY <1>1, DeadLetterMarks
  <1>3. x.rows = db.rows /\ x.water = db.water
    BY <1>1 DEF RecordDeadLetter, MarkApplied, Databases
  <1> HIDE DEF x
  <1>4. x.marks \ x.dead = A
    BY <1>2
  <1>5. Mirrored(x, A)
    BY <1>1, <1>2, <1>3, SameTables DEF Faithful
  <1>6. Faithful(x)
    BY <1>2, <1>4, <1>5 DEF Faithful
  <1> QED
    BY <1>6 DEF x

(* The events in hand: which of those that precede one are marked.         *)
LEMMA PrecedingInHand ==
    ASSUME NEW w, At(w), w.pc \in {"apply", "replay", "retry", "commit"},
           NEW j \in 1 .. Len(w.group), NEW q, IsId(source, q), Precedes(q, w.group[j].id),
           q \notin db.marks
    PROVE  \E i \in 1 .. j - 1 : /\ i \in 1 .. Len(w.group) /\ q = w.group[i].id
                                 /\ w.group[i].fault = source[q.tx][q.seq].fault
  <1> DEFINE x == Tx(w)
  <1>1. /\ x \in 1 .. Len(source) /\ Len(w.group) = Len(source[x]) /\ Len(w.group) \in Nat
        /\ \A i \in 1 .. Len(w.group) :
              w.group[i].id = [tx |-> x, seq |-> i] /\ w.group[i].fault = source[x][i].fault
        /\ \A t \in 1 .. x - 1 : \A k \in 1 .. Len(source[t]) : [tx |-> t, seq |-> k] \in db.marks
    BY InHand
  <1> HIDE DEF x
  <1>2. /\ q.tx \in 1 .. Len(source) /\ q.seq \in 1 .. Len(source[q.tx])
        /\ q = [tx |-> q.tx, seq |-> q.seq] /\ q.tx \in Nat /\ q.seq \in Nat
    BY DEF IsId, Records
  <1>3. w.group[j].id.tx = x /\ w.group[j].id.seq = j
    <2>1. w.group[j].id = [tx |-> x, seq |-> j]
      BY <1>1
    <2> QED
      BY <2>1
  <1>4. ~ (q.tx < x)
    <2> SUFFICES ASSUME q.tx < x PROVE FALSE
      OBVIOUS
    <2>1. q.tx \in 1 .. x - 1
      BY <1>1, <1>2
    <2> QED
      BY <1>1, <1>2, <2>1
  <1>5. q.tx = x /\ q.seq < j
    BY <1>3, <1>4 DEF Precedes
  <1>6. q.seq \in 1 .. j - 1 /\ q.seq \in 1 .. Len(w.group)
    BY <1>1, <1>2, <1>5
  <1>7. q = w.group[q.seq].id /\ w.group[q.seq].fault = source[q.tx][q.seq].fault
    BY <1>1, <1>2, <1>5, <1>6
  <1> QED
    BY <1>6, <1>7

(* A drifted change is the last of its transaction.                        *)
LEMMA DriftIsLast ==
    ASSUME DriftsLast, source \in Histories, NEW t \in 1 .. Len(source),
           NEW k \in 1 .. Len(source[t]), source[t][k].fault = "drift"
    PROVE  k = Len(source[t])
  <1>1. source[t] \in Transactions
    BY DEF Transactions
  <1> QED
    BY <1>1 DEF DriftsLast

(* Where no healthy change takes the blame, one to blame is faulty.        *)
LEMMA BlameIsDeserved ==
    ASSUME source \in Histories, DriftsLead, NEW t \in 1 .. Len(source),
           NEW k \in 1 .. Len(source[t]), Blamable(source, t, k)
    PROVE  source[t][k].fault # "none"
  <1> DEFINE r == [tx |-> t, seq |-> k]
  <1>1. Len(source) \in Nat /\ Len(source[t]) \in Nat
    BY SourceTyped
  <1>2. t \in Nat /\ k \in Nat
    BY <1>1
  <1>3. r \in Records /\ r.tx = t /\ r.seq = k
    BY <1>2 DEF Records
  <1> HIDE DEF r
  <1>4. IsId(source, r)
    BY <1>3 DEF IsId
  <1>5. r \in Ids
    BY <1>4, IdsAre
  <1>6. Event(r).fault = source[t][k].fault
    BY <1>3 DEF Event
  <1>7. Event(r).fault # "none" \/ TakesBlame(r)
    BY <1>3, <1>4, BlamableIs
  <1> QED
    BY <1>5, <1>6, <1>7 DEF DriftsLead

(* Apply, or RecordDeadLetter if that fails, for an event in hand.         *)
LEMMA OutcomeFaithful ==
    ASSUME TruncatesOnce, NEW w, At(w), w.pc \in {"replay", "retry"}, Undisturbed', Faithful(db),
           NEW j \in 1 .. Len(w.group),
           \A i \in 1 .. j - 1 : i \in 1 .. Len(w.group) =>
              \/ w.group[i].id \in db.marks
              \/ w.group[i].fault \notin {"none", "drift"},
           ApplyOrQuarantine(w.group[j])
    PROVE  Faithful(db')
  <1> DEFINE r == w.group[j].id
             e == w.group[j]
  <1>1. TopicInv /\ DatabaseInv /\ hiccups \in Nat
    BY WriterAssumption DEF At
  <1>2. e = EventOf(source, r) /\ IsId(source, r) /\ e \in Events
    BY InHand
  <1>3. ASSUME NEW q \in Records, IsId(source, q), Appliable(q), Precedes(q, r), q \notin db.marks
        PROVE  FALSE
    <2>1. PICK i \in 1 .. j - 1 : /\ i \in 1 .. Len(w.group) /\ q = w.group[i].id
                                  /\ w.group[i].fault = source[q.tx][q.seq].fault
      BY <1>3, PrecedingInHand
    <2> QED
      BY <1>3, <2>1 DEF Appliable
  <1> HIDE DEF r, e
  <1>4. CASE ApplyFails(db, e) /\ db' = RecordDeadLetter(db, e)
    <2>1. r \notin db.marks
      BY <1>4 DEF ApplyFails, IsMarked, r, e
    <2>2. Faithful(RecordDeadLetter(db, EventOf(source, r)))
      BY <1>1, <1>2, <2>1, LetterFaithful
    <2> QED
      BY <1>2, <1>4, <2>2
  <1>5. CASE Hiccup(e)
    <2>1. hiccups' = hiccups + 1
      BY <1>5 DEF Hiccup
    <2> QED
      BY <1>1, <2>1 DEF Undisturbed
  <1>6. CASE ~ApplyFails(db, e) /\ db' = Apply(db, e)
    <2>1. Faithful(Apply(db, EventOf(source, r)))
      BY <1>1, <1>2, <1>3, <1>6, ApplyFaithful
    <2> QED
      BY <1>2, <1>6, <2>1
  <1> QED
    BY <1>4, <1>5, <1>6 DEF ApplyOrQuarantine, e

(* The whole group: none of its events fails, so each comes after all that *)
(* are applied.                                                            *)
LEMMA AppliesFaithful ==
    ASSUME TruncatesOnce, NEW w, NEW v, At(w), Applies(w, v), Faithful(db)
    PROVE  Faithful(db')
  <1> DEFINE x == Tx(w)
             g == w.group
             n == Len(w.group)
             A == db.marks \ db.dead
             F == Fresh(db, g)
             B == BatchStates(db, g)
             new == {g[i].id : i \in F}
  <1>1. /\ w.pc = "apply" /\ BatchError(db, g) = 0 /\ db' = ApplyBatch(db, g)
    BY DEF Applies
  <1>2. /\ TopicInv /\ DatabaseInv /\ db \in Databases /\ db.dead \subseteq db.marks
        /\ source \in Histories /\ \A q \in db.marks : IsId(source, q)
    BY DEF At, DatabaseInv, TopicInv
  <1>3. /\ g \in Seq(Events) /\ n \in Nat
        /\ \A i \in 1 .. n : /\ g[i] \in Events /\ g[i].id = [tx |-> x, seq |-> i]
                             /\ g[i] = EventOf(source, g[i].id)
                             /\ IsId(source, g[i].id) /\ g[i].fault = source[x][i].fault
    BY <1>1, InHand
  <1>4. \A i \in F : i \in 1 .. n /\ g[i].id \notin db.marks /\ ~Fails(B[i - 1], g[i])
    BY <1>1, <1>2, <1>3, BlamesNone DEF Fresh, IsMarked
  <1>5. db' \in Databases /\ db'.marks = db.marks \cup {g[i].id : i \in 1 .. n} /\ db'.dead = db.dead
    BY <1>1, <1>2, <1>3, BatchMarks
  <1> HIDE DEF x, g, n, A, F, B
  <1>6. ASSUME NEW i \in F
        PROVE  Appliable(g[i].id) \/ StaleTruncate(B[i - 1], g[i])
    <2>1. g[i].fault \in {"none", "malformed", "poison", "drift"} /\ i \in 1 .. n
      BY <1>3, <1>4 DEF Events
    <2>2. g[i].fault = source[g[i].id.tx][g[i].id.seq].fault
      <3> DEFINE r == g[i].id
      <3>1. g[i] = EventOf(source, r) /\ IsId(source, r)
        BY <1>3, <2>1
      <3> HIDE DEF r
      <3>2. EventOf(source, r).fault = source[r.tx][r.seq].fault
        BY <1>2, <3>1, EventTyped
      <3> QED
        BY <3>1, <3>2 DEF r
    <2>3. g[i].fault \in {"none", "drift"} \/ StaleTruncate(B[i - 1], g[i])
      BY <1>4, <2>1 DEF Fails, RefusedByApplier, RefusedByPostgres
    <2> QED
      BY <2>2, <2>3 DEF Appliable
  <1>7. ASSUME NEW i \in F, NEW q \in A
        PROVE  /\ q.tx <= x /\ q # g[i].id
               /\ ~StaleTruncate(B[i - 1], g[i]) => Precedes(q, g[i].id)
    <2> DEFINE r == g[i].id
    <2>1. r = [tx |-> x, seq |-> i] /\ IsId(source, r) /\ r \notin db.marks
      BY <1>3, <1>4
    <2> HIDE DEF r
    <2>2. r.tx = x
      BY <2>1
    <2>3. /\ q # r /\ q.tx <= r.tx /\ (Appliable(r) => Precedes(q, r))
      BY <1>2, <2>1, NotOvertaken DEF A
    <2> QED
      BY <1>6, <2>2, <2>3 DEF r
  <1>8. Mirrored(db, A) /\ \A q \in A : IsId(source, q)
    BY <1>2 DEF Faithful, A
  <1>9. /\ Mirrored(ApplyBatch(db, g), A \cup {g[i].id : i \in F})
        /\ \A i \in F : ~StaleTruncate(B[i - 1], g[i])
    <2>1. \A i \in 1 .. Len(g) : /\ g[i].id = [tx |-> x, seq |-> i]
                                 /\ g[i] = EventOf(source, g[i].id) /\ IsId(source, g[i].id)
      BY <1>3 DEF n, g
    <2>2. \A i \in Fresh(db, g) : \A q \in A :
              /\ q.tx <= x /\ q # g[i].id
              /\ ~StaleTruncate(BatchStates(db, g)[i - 1], g[i]) => Precedes(q, g[i].id)
      BY <1>7 DEF F, B
    <2>3. /\ Mirrored(ApplyBatch(db, g), A \cup {g[i].id : i \in Fresh(db, g)})
          /\ \A i \in Fresh(db, g) : ~StaleTruncate(BatchStates(db, g)[i - 1], g[i])
      BY <1>2, <1>3, <1>8, <2>1, <2>2, BatchMirrors
    <2> QED
      BY <2>3 DEF F, B
  <1>10. db'.marks \ db'.dead = A \cup new
    <2>1. \A i \in 1 .. n : i \in F \/ g[i].id \in db.marks
      BY DEF F, Fresh, IsMarked, n, g
    <2> QED
      BY <1>2, <1>4, <1>5, <2>1 DEF A
  <1>11. ASSUME NEW p \in db'.marks \ db'.dead
         PROVE  /\ Appliable(p)
                /\ \A q \in Records :
                      IsId(source, q) /\ Appliable(q) /\ Precedes(q, p) => q \in db'.marks
    <2>1. CASE p \in A
      BY <1>5, <2>1 DEF Faithful, A
    <2>2. CASE p \notin A
      <3>1. PICK j \in F : p = g[j].id
        BY <1>10, <2>2
      <3>2. Appliable(p)
        BY <1>6, <1>9, <3>1
      <3>3. ASSUME NEW q \in Records, IsId(source, q), Precedes(q, p), q \notin db.marks
            PROVE  q \in db'.marks
        <4>1. j \in 1 .. n
          BY <1>4
        <4>2. PICK i \in 1 .. j - 1 : i \in 1 .. Len(w.group) /\ q = w.group[i].id
          BY <1>1, <3>1, <3>3, <4>1, PrecedingInHand DEF g, n
        <4> QED
          BY <1>5, <4>2 DEF g, n
      <3> QED
        BY <1>5, <3>2, <3>3
    <2> QED
      BY <2>1, <2>2
  <1> QED
    BY <1>1, <1>9, <1>10, <1>11 DEF Faithful

(* Every step of a writer keeps the tables faithful.                       *)
LEMMA WorksFaithful ==
    ASSUME TruncatesOnce, DriftsLast, DriftsLead, NEW w, NEW v, At(w), Works(w, v), Undisturbed',
           Faithful(db), Awaits(db.marks, w)
    PROVE  Faithful(db') /\ Awaits(db'.marks, v)
  <1>1. /\ TopicInv /\ DatabaseInv /\ hiccups \in Nat /\ source \in Histories /\ db \in Databases
    BY WriterAssumption DEF At, TopicInv, DatabaseInv
  <1>2. ASSUME db'.marks = db.marks, db'.dead = db.dead, db'.rows = db.rows, db'.water = db.water,
               db' \in Databases
        PROVE  Faithful(db')
    <2>1. Mirrored(db', db.marks \ db.dead)
      BY <1>1, <1>2, SameTables DEF Faithful
    <2> QED
      BY <1>2, <2>1 DEF Faithful
  <1>3. CASE Reads(w, v)
    <2>1. v.pc # "replay" /\ db' = db
      BY <1>3 DEF Reads, Locals
    <2> QED
      BY <2>1 DEF Awaits
  <1>4. CASE Applies(w, v)
    <2>1. v.pc = "commit"
      BY <1>4 DEF Applies, Locals
    <2> QED
      BY <1>4, <2>1, AppliesFaithful DEF Awaits
  <1>5. CASE RollsBack(w, v)
    <2>1. w.pc = "apply" /\ db' = db
      BY <1>5 DEF RollsBack
    <2>2. PICK i \in 1 .. Len(w.group), u \in BOOLEAN :
             /\ v = Locals("replay", w.pos, w.group, i, u, 1)
             /\ \/ i = BatchError(db, w.group) /\ hiccups' = hiccups
                \/ hiccups' = hiccups + 1
      BY <1>5 DEF RollsBack
    <2>3. i = BatchError(db, w.group) /\ i # 0 /\ w.group \in Seq(Events)
      BY <1>1, <2>1, <2>2, InHand DEF Undisturbed
    <2>4. w.group[i].id \notin db.marks
      BY <1>1, <2>3, BlamesFaulty DEF IsMarked
    <2>5. v.group = w.group /\ v.poison = i
      BY <2>2 DEF Locals
    <2> QED
      BY <2>1, <2>4, <2>5 DEF Awaits
  <1>6. ASSUME w.pc \in {"replay", "retry"}
        PROVE  /\ w.poison \in 1 .. Len(w.group) /\ Len(w.group) = Len(source[Tx(w)])
               /\ Tx(w) \in 1 .. Len(source) /\ w.next \in Nat \ {0} /\ Len(w.group) \in Nat
               /\ \A i \in 1 .. Len(w.group) :
                     /\ w.group[i].id = [tx |-> Tx(w), seq |-> i] /\ IsId(source, w.group[i].id)
                     /\ w.group[i].fault = source[Tx(w)][i].fault /\ w.group[i] \in Events
                     /\ w.group[i] = EventOf(source, w.group[i].id)
               /\ \A i \in 1 .. Len(w.group) :
                     i # w.poison /\ (w.pc = "replay" => i < w.next) => w.group[i].id \in db.marks
               /\ Undisturbed => w.group[w.poison].fault # "none"
               /\ w.group[w.poison].fault = "drift" => w.poison = Len(w.group)
    <2>1. /\ Tx(w) \in 1 .. Len(source) /\ Len(w.group) = Len(source[Tx(w)]) /\ Len(w.group) \in Nat
          /\ \A i \in 1 .. Len(w.group) :
                /\ w.group[i].id = [tx |-> Tx(w), seq |-> i] /\ IsId(source, w.group[i].id)
                /\ w.group[i].fault = source[Tx(w)][i].fault /\ w.group[i] \in Events
                /\ w.group[i] = EventOf(source, w.group[i].id)
          /\ w.next \in Nat \ {0} /\ Progress(source, db.marks, Undisturbed, w)
      BY <1>6, InHand
    <2>2. /\ w.poison \in 1 .. Len(w.group)
          /\ \A i \in 1 .. Len(w.group) :
                i # w.poison /\ (w.pc = "replay" => i < w.next) => w.group[i].id \in db.marks
          /\ Undisturbed => Blamable(source, Tx(w), w.poison)
      BY <1>6, <2>1 DEF Progress
    <2>3. w.group[w.poison].fault = "drift" => w.poison = Len(w.group)
      BY <1>1, <2>1, <2>2, DriftIsLast
    <2>4. Undisturbed => w.group[w.poison].fault # "none"
      <3>1. /\ Tx(w) \in 1 .. Len(source) /\ w.poison \in 1 .. Len(source[Tx(w)])
            /\ w.group[w.poison].fault = source[Tx(w)][w.poison].fault
            /\ Undisturbed => Blamable(source, Tx(w), w.poison)
        BY <2>1, <2>2
      <3> QED
        BY <1>1, <3>1, BlameIsDeserved
    <2> QED
      BY <2>1, <2>2, <2>3, <2>4
  <1>7. CASE Replays(w, v)
    <2> DEFINE j == w.next
    <2>1. /\ w.pc = "replay" /\ j <= Len(w.group) /\ v.group = w.group /\ v.poison = w.poison
          /\ IF j = w.poison THEN db' = db /\ hiccups' = hiccups ELSE ApplyOrQuarantine(w.group[j])
      BY <1>7 DEF Replays, Locals
    <2>2. CASE j = w.poison
      BY <2>1, <2>2 DEF Awaits
    <2>3. CASE j # w.poison
      <3>1. ApplyOrQuarantine(w.group[j]) /\ j \in 1 .. Len(w.group) /\ w.group[j] \in Events
        <4>1. w.pc = "replay" /\ j <= Len(w.group)
          BY <2>1
        <4>2. j \in Nat \ {0} /\ Len(w.group) \in Nat /\ \A i \in 1 .. Len(w.group) : w.group[i] \in Events
          BY <1>6, <4>1
        <4>3. j \in 1 .. Len(w.group)
          BY <4>1, <4>2
        <4> QED
          BY <2>1, <2>3, <4>2, <4>3
      <3>2. /\ db'.marks = db.marks \cup {w.group[j].id} /\ hiccups' >= hiccups
        <4>1. hiccups \in 0 .. MaxHiccups
          BY DEF At
        <4> QED
          BY <1>1, <3>1, <4>1, Outcome
      <3>3. Undisturbed
        BY <1>1, <3>2 DEF Undisturbed
      <3>4. ASSUME NEW i \in 1 .. j - 1, i \in 1 .. Len(w.group)
            PROVE  w.group[i].id \in db.marks \/ w.group[i].fault \notin {"none", "drift"}
        <4>1. CASE i # w.poison
          BY <1>6, <2>1, <3>1, <3>4, <4>1
        <4>2. CASE i = w.poison
          BY <1>6, <2>1, <3>1, <3>3, <3>4, <4>2
        <4> QED
          BY <4>1, <4>2
      <3>5. Faithful(db')
        BY <2>1, <3>1, <3>4, OutcomeFaithful
      <3>6. Awaits(db'.marks, v)
        <4> SUFFICES ASSUME w.group[w.poison].fault = "drift"
                     PROVE  w.group[w.poison].id \notin db'.marks
          BY <2>1 DEF Awaits
        <4>1. w.group[w.poison].id \notin db.marks
          BY <2>1 DEF Awaits
        <4>2. /\ w.group[w.poison].id = [tx |-> Tx(w), seq |-> w.poison]
              /\ w.group[j].id = [tx |-> Tx(w), seq |-> j]
          BY <1>6, <2>1, <3>1
        <4> QED
          BY <2>3, <3>2, <4>1, <4>2
      <3> QED
        BY <3>5, <3>6
    <2> QED
      BY <2>2, <2>3
  <1>8. CASE Repairs(w, v)
    <2>1. w.pc = "replay" /\ v.pc = "retry" /\ db' = RepairSchema(db, w.group[w.poison])
      BY <1>8 DEF Repairs, Locals
    <2>2. db' \in Databases /\ db'.marks = db.marks /\ db'.dead = db.dead
      BY <1>1, <1>6, <2>1, RepairAddsColumn
    <2>3. db'.rows = db.rows /\ db'.water = db.water
      BY <1>1, <2>1 DEF RepairSchema, Databases
    <2> QED
      BY <1>2, <2>1, <2>2, <2>3 DEF Awaits
  <1>9. CASE Retries(w, v)
    <2>1. w.pc = "retry" /\ v.pc = "commit" /\ ApplyOrQuarantine(w.group[w.poison])
      BY <1>9 DEF Retries, Locals
    <2>2. \A i \in 1 .. w.poison - 1 : i \in 1 .. Len(w.group) => w.group[i].id \in db.marks
      BY <1>6, <2>1
    <2>3. Faithful(db')
      BY <1>6, <2>1, <2>2, OutcomeFaithful
    <2> QED
      BY <2>1, <2>3 DEF Awaits
  <1>10. CASE Quarantines(w, v)
    <2> DEFINE r == w.group[w.poison].id
    <2>1. /\ w.pc = "replay" /\ v.pc = "commit" /\ db' = RecordDeadLetter(db, w.group[w.poison])
          /\ hiccups' = hiccups
      BY <1>10 DEF Quarantines, Locals
    <2>2. IsId(source, r) /\ w.group[w.poison] = EventOf(source, r) /\ w.group[w.poison].fault # "none"
      BY <1>6, <2>1 DEF Undisturbed
    <2>3. r \notin db.marks \ db.dead
      <3>1. CASE w.group[w.poison].fault = "drift"
        BY <2>1, <3>1 DEF Awaits
      <3>2. CASE w.group[w.poison].fault # "drift"
        <4> HIDE DEF r
        <4>1. EventOf(source, r).fault = source[r.tx][r.seq].fault
          BY <1>1, <2>2, EventTyped
        <4>2. ~Appliable(r)
          BY <2>2, <3>2, <4>1 DEF Appliable
        <4> QED
          BY <4>2 DEF Faithful
      <3> QED
        BY <3>1, <3>2
    <2> HIDE DEF r
    <2>4. Faithful(RecordDeadLetter(db, EventOf(source, r)))
      BY <1>1, <2>2, <2>3, LetterFaithful
    <2> QED
      BY <2>1, <2>2, <2>4 DEF Awaits
  <1> QED
    BY <1>3, <1>4, <1>5, <1>7, <1>8, <1>9, <1>10 DEF Works

(* A step records events of the transaction in hand only, adds columns     *)
(* only if that drifts, and stays with that transaction.                   *)
LEMMA WorksOnOne ==
    ASSUME NEW w, NEW v, At(w), Works(w, v)
    PROVE  /\ \A r \in db'.marks : r \in db.marks \/ r.tx = Tx(w)
           /\ db.cols \subseteq db'.cols
           /\ db'.cols = db.cols \/ Drifts(source[Tx(w)])
           /\ v.pc # "down" /\ w.group # <<>> => v.group # <<>> /\ Tx(v) = Tx(w)
  <1>0. db \in Databases /\ hiccups \in 0 .. MaxHiccups /\ w \in Workers /\ w.group \in Seq(Events)
    BY DEF At, DatabaseInv, Local, Workers
  <1>1. ASSUME w.pc \in {"apply", "replay", "retry"}
        PROVE  /\ w.group # <<>> /\ Tx(w) \in 1 .. Len(source) /\ Len(w.group) = Len(source[Tx(w)])
               /\ w.next \in Nat \ {0} /\ Len(w.group) \in Nat
               /\ \A i \in 1 .. Len(w.group) :
                     /\ w.group[i].id = [tx |-> Tx(w), seq |-> i] /\ w.group[i] \in Events
                     /\ w.group[i].fault = source[Tx(w)][i].fault
               /\ w.pc # "apply" => w.poison \in 1 .. Len(w.group)
    BY <1>1, InHand DEF Progress
  <1>2. ASSUME w.pc \in {"apply", "replay", "retry"}, NEW i \in 1 .. Len(w.group)
        PROVE  w.group[i].id.tx = Tx(w)
    <2>1. w.group[i].id = [tx |-> Tx(w), seq |-> i]
      BY <1>1, <1>2
    <2> QED
      BY <2>1
  <1>3. ASSUME v.group = w.group
        PROVE  v.pc # "down" /\ w.group # <<>> => v.group # <<>> /\ Tx(v) = Tx(w)
    BY <1>3 DEF Tx
  <1>4. CASE Reads(w, v)
    <2>1. db' = db
      BY <1>4 DEF Reads
    <2>2. ASSUME v.pc # "down", w.group # <<>>
          PROVE  v.group # <<>> /\ Tx(v) = Tx(w)
      <3> DEFINE e == EventOf(source, log[w.pos + 1])
      <3>1. v.group = Append(w.group, e)
        BY <1>4, <2>2 DEF Reads, Locals
      <3> HIDE DEF e
      <3>2. Append(w.group, e) # <<>> /\ Append(w.group, e)[1] = w.group[1]
        <4>1. Len(w.group) \in Nat /\ Len(w.group) # 0
          BY <1>0, <2>2
        <4> QED
          BY <1>0, <4>1
      <3> QED
        BY <3>1, <3>2 DEF Tx
    <2> QED
      BY <2>1, <2>2
  <1>5. CASE Applies(w, v)
    <2>1. w.pc = "apply" /\ db' = ApplyBatch(db, w.group) /\ v.group = w.group
      BY <1>5 DEF Applies, Locals
    <2>2. db'.marks = db.marks \cup {w.group[i].id : i \in 1 .. Len(w.group)} /\ db'.cols = db.cols
      BY <1>0, <2>1, BatchMarks
    <2> QED
      BY <1>2, <1>3, <2>1, <2>2
  <1>6. CASE RollsBack(w, v)
    <2>1. db' = db /\ v.group = w.group
      BY <1>6 DEF RollsBack, Locals
    <2> QED
      BY <1>3, <2>1
  <1>7. ASSUME NEW e \in Events, ApplyOrQuarantine(e)
        PROVE  db'.marks = db.marks \cup {e.id} /\ db'.cols = db.cols
    <2>1. db'.marks = db.marks \cup {e.id}
      BY <1>0, <1>7, Outcome
    <2>2. db' = RecordDeadLetter(db, e) \/ db' = Apply(db, e)
      BY <1>7 DEF ApplyOrQuarantine
    <2> QED
      BY <1>0, <2>1, <2>2, ApplyMarks, DeadLetterMarks
  <1>8. CASE Replays(w, v)
    <2>1. /\ w.pc = "replay" /\ w.next <= Len(w.group) /\ v.group = w.group
          /\ db' = db \/ ApplyOrQuarantine(w.group[w.next])
      BY <1>8 DEF Replays, Locals
    <2>2. w.next \in 1 .. Len(w.group) /\ w.group[w.next] \in Events
      <3>1. w.pc = "replay" /\ w.next <= Len(w.group)
        BY <2>1
      <3>2. /\ w.next \in Nat \ {0} /\ Len(w.group) \in Nat
            /\ \A i \in 1 .. Len(w.group) : w.group[i] \in Events
        BY <1>1, <3>1
      <3>3. w.next \in 1 .. Len(w.group)
        BY <3>1, <3>2
      <3> QED
        BY <3>2, <3>3
    <2>3. CASE db' = db
      BY <1>3, <2>1, <2>3
    <2>4. CASE ApplyOrQuarantine(w.group[w.next])
      <3>1. db'.marks = db.marks \cup {w.group[w.next].id} /\ db'.cols = db.cols
        BY <1>7, <2>2, <2>4
      <3> QED
        BY <1>2, <1>3, <2>1, <2>2, <3>1
    <2> QED
      BY <2>1, <2>3, <2>4
  <1>9. CASE Repairs(w, v)
    <2>1. /\ w.pc = "replay" /\ v.group = w.group /\ UndefinedColumn(db, w.group[w.poison])
          /\ db' = RepairSchema(db, w.group[w.poison])
      BY <1>9 DEF Repairs, Locals
    <2>2. w.poison \in 1 .. Len(source[Tx(w)]) /\ source[Tx(w)][w.poison].fault = "drift"
      BY <1>1, <2>1 DEF UndefinedColumn
    <2>3. Drifts(source[Tx(w)])
      BY <2>2 DEF Drifts
    <2>4. db'.marks = db.marks /\ db.cols \subseteq db'.cols
      BY <1>0, <1>1, <2>1, RepairAddsColumn
    <2> QED
      BY <1>3, <2>1, <2>3, <2>4
  <1>10. CASE Retries(w, v) \/ Quarantines(w, v)
    <2> DEFINE e == w.group[w.poison]
    <2>1. /\ w.pc \in {"replay", "retry"} /\ v.group = w.group
          /\ ApplyOrQuarantine(e) \/ db' = RecordDeadLetter(db, e)
      BY <1>10 DEF Retries, Quarantines, Locals
    <2>2. w.poison \in 1 .. Len(w.group) /\ e \in Events
      BY <1>1, <2>1
    <2>3. db'.marks = db.marks \cup {e.id} /\ db'.cols = db.cols
      <3> HIDE DEF e
      <3>1. CASE ApplyOrQuarantine(e)
        BY <1>7, <2>2, <3>1
      <3>2. CASE db' = RecordDeadLetter(db, e)
        BY <1>0, <2>2, <3>2, DeadLetterMarks
      <3> QED
        BY <2>1, <3>1, <3>2
    <2> QED
      BY <1>2, <1>3, <2>1, <2>2, <2>3
  <1> QED
    BY <1>4, <1>5, <1>6, <1>8, <1>9, <1>10 DEF Works

-----------------------------------------------------------------------------
(* A drifted change is the only faulty one of its transaction.             *)
LEMMA DriftIsAlone ==
    ASSUME DriftsAlone, source \in Histories, NEW t \in 1 .. Len(source),
           NEW i \in 1 .. Len(source[t]), NEW j \in 1 .. Len(source[t]),
           source[t][i].fault = "drift", source[t][j].fault # "none"
    PROVE  i = j
  <1>1. source[t] \in Transactions
    BY DEF Transactions
  <1> QED
    BY <1>1 DEF DriftsAlone

(* An event in hand is quarantined only if it fails.                       *)
LEMMA OutcomeHealed ==
    ASSUME NEW w, At(w), w.pc \in {"replay", "retry"}, Undisturbed', Healed(db),
           NEW j \in 1 .. Len(w.group), ApplyOrQuarantine(w.group[j]),
           w.group[j].fault = "drift" => w.group[j].table \in db.cols
    PROVE  Healed(db')
  <1> DEFINE e == w.group[j]
  <1>1. /\ db \in Databases /\ e \in Events /\ e.id = [tx |-> Tx(w), seq |-> j]
        /\ e.fault = source[Tx(w)][j].fault
    BY InHand
  <1>2. hiccups \in Nat /\ source' = source
    BY WriterAssumption DEF At
  <1> HIDE DEF e
  <1>3. ~Hiccup(e)
    BY <1>2 DEF Hiccup, Undisturbed
  <1>4. CASE db' = RecordDeadLetter(db, e) /\ ApplyFails(db, e)
    <2>1. db'.dead = db.dead \cup {e.id}
      BY <1>1, <1>4, DeadLetterMarks
    <2>2. e.fault # "drift"
      BY <1>4 DEF e, ApplyFails, Fails, RefusedByApplier, RefusedByPostgres, UndefinedColumn
    <2>3. source[e.id.tx][e.id.seq].fault # "drift"
      BY <1>1, <2>2
    <2> QED
      BY <1>2, <2>1, <2>3 DEF Healed
  <1>5. CASE db' = Apply(db, e)
    BY <1>1, <1>2, <1>5, ApplyMarks DEF Healed
  <1>6. ApplyOrQuarantine(e)
    BY DEF e
  <1> QED
    BY <1>3, <1>4, <1>5, <1>6 DEF ApplyOrQuarantine

(* Every step of a writer heals the drift it meets.                        *)
LEMMA WorksHeals ==
    ASSUME DriftsAlone, DriftsLead, ~RepairMayFail, NEW w, NEW v, At(w), Works(w, v), Undisturbed',
           Healed(db), Heals(db.cols, w)
    PROVE  Healed(db') /\ Heals(db'.cols, v)
  <1>1. /\ db \in Databases /\ hiccups \in Nat /\ hiccups \in 0 .. MaxHiccups /\ source' = source
        /\ source \in Histories
    BY WriterAssumption DEF At, DatabaseInv, TopicInv
  <1>2. ASSUME db'.dead = db.dead PROVE Healed(db')
    BY <1>1, <1>2 DEF Healed
  <1>3. ASSUME w.pc \in {"replay", "retry"}
        PROVE  /\ Tx(w) \in 1 .. Len(source) /\ Len(w.group) = Len(source[Tx(w)])
               /\ w.next \in Nat \ {0} /\ Len(w.group) \in Nat /\ w.poison \in 1 .. Len(w.group)
               /\ \A i \in 1 .. Len(w.group) :
                     /\ w.group[i].id = [tx |-> Tx(w), seq |-> i] /\ w.group[i] \in Events
                     /\ w.group[i].fault = source[Tx(w)][i].fault
               /\ Undisturbed => w.group[w.poison].fault # "none"
    <2>1. /\ Tx(w) \in 1 .. Len(source) /\ Len(w.group) = Len(source[Tx(w)])
          /\ w.next \in Nat \ {0} /\ Len(w.group) \in Nat /\ w.poison \in 1 .. Len(w.group)
          /\ \A i \in 1 .. Len(w.group) :
                /\ w.group[i].id = [tx |-> Tx(w), seq |-> i] /\ w.group[i] \in Events
                /\ w.group[i].fault = source[Tx(w)][i].fault
          /\ Undisturbed => Blamable(source, Tx(w), w.poison)
      BY <1>3, InHand DEF Progress
    <2>2. Undisturbed => w.group[w.poison].fault # "none"
      <3>1. /\ Tx(w) \in 1 .. Len(source) /\ w.poison \in 1 .. Len(source[Tx(w)])
            /\ w.group[w.poison].fault = source[Tx(w)][w.poison].fault
            /\ Undisturbed => Blamable(source, Tx(w), w.poison)
        BY <2>1
      <3> QED
        BY <1>1, <3>1, BlameIsDeserved
    <2> QED
      BY <2>1, <2>2
  <1>4. CASE Reads(w, v)
    <2>1. v.pc \notin {"replay", "retry"} /\ db' = db
      BY <1>4 DEF Reads, Locals
    <2> QED
      BY <1>2, <2>1 DEF Heals
  <1>5. CASE Applies(w, v)
    <2>1. w.pc = "apply" /\ v.pc = "commit" /\ db' = ApplyBatch(db, w.group)
      BY <1>5 DEF Applies, Locals
    <2>2. w.group \in Seq(Events)
      BY <2>1, InHand
    <2>3. db'.dead = db.dead
      BY <1>1, <2>1, <2>2, BatchMarks
    <2> QED
      BY <1>2, <2>1, <2>3 DEF Heals
  <1>6. CASE RollsBack(w, v)
    <2>1. w.pc = "apply" /\ db' = db
      BY <1>6 DEF RollsBack
    <2>2. PICK i \in 1 .. Len(w.group), u \in BOOLEAN :
             /\ v = Locals("replay", w.pos, w.group, i, u, 1)
             /\ \/ /\ i = BatchError(db, w.group) /\ hiccups' = hiccups
                   /\ u = UndefinedColumn(db, w.group[Surfaced(db, w.group)])
                \/ hiccups' = hiccups + 1
      BY <1>6 DEF RollsBack
    <2> DEFINE m == Surfaced(db, w.group)
    <2>3. hiccups' # hiccups + 1
      BY <1>1 DEF Undisturbed
    <2>4. i = BatchError(db, w.group) /\ u = UndefinedColumn(db, w.group[m]) /\ Undisturbed
      BY <2>2, <2>3 DEF Undisturbed
    <2>5. /\ w.group \in Seq(Events) /\ Len(w.group) \in Nat
          /\ Tx(w) \in 1 .. Len(source) /\ Len(w.group) = Len(source[Tx(w)])
          /\ \A k \in 1 .. Len(w.group) : w.group[k].fault = source[Tx(w)][k].fault
      BY <2>1, InHand
    <2>6. /\ m \in 1 .. Len(w.group) /\ w.group[m].fault # "none"
          /\ w.group[m].fault = "drift" => UndefinedColumn(db, w.group[m])
      BY <1>1, <2>4, <2>5, BlamesFaulty
    <2> HIDE DEF m
    <2>7. w.group[i].fault = "drift" => i = m
      BY <1>1, <2>5, <2>6, DriftIsAlone
    <2>8. v.group = w.group /\ v.poison = i /\ v.undefined = u /\ v.pc = "replay"
      BY <2>2 DEF Locals
    <2> QED
      BY <1>2, <2>1, <2>4, <2>6, <2>7, <2>8 DEF Heals, UndefinedColumn
  <1>7. CASE Replays(w, v)
    <2> DEFINE j == w.next
    <2>1. /\ w.pc = "replay" /\ j <= Len(w.group)
          /\ v.pc = "replay" /\ v.group = w.group /\ v.poison = w.poison /\ v.undefined = w.undefined
      BY <1>7 DEF Replays, Locals
    <2>2. j \in 1 .. Len(w.group)
      <3>1. j \in Nat \ {0} /\ Len(w.group) \in Nat
        BY <1>3, <2>1
      <3> QED
        BY <2>1, <3>1
    <2>3. ASSUME db'.cols = db.cols PROVE Heals(db'.cols, v)
      BY <2>1, <2>3 DEF Heals
    <2>4. CASE j = w.poison
      <3>1. db' = db
        BY <1>7, <2>4 DEF Replays
      <3> QED
        BY <1>2, <2>3, <3>1
    <2>5. CASE j # w.poison
      <3>1. ApplyOrQuarantine(w.group[j])
        BY <1>7, <2>5 DEF Replays
      <3>2. w.group[j] \in Events
        BY <1>3, <2>1, <2>2
      <3>3. hiccups' >= hiccups
        BY <1>1, <3>1, <3>2, Outcome
      <3>4. w.group[w.poison].fault # "none"
        BY <1>1, <1>3, <2>1, <3>3 DEF Undisturbed
      <3>5. w.group[j].fault # "drift"
        <4>1. /\ source[Tx(w)][w.poison].fault = w.group[w.poison].fault
              /\ source[Tx(w)][j].fault = w.group[j].fault
              /\ w.poison \in 1 .. Len(source[Tx(w)]) /\ j \in 1 .. Len(source[Tx(w)])
              /\ Tx(w) \in 1 .. Len(source)
          BY <1>3, <2>1, <2>2
        <4> QED
          BY <1>1, <2>5, <3>4, <4>1, DriftIsAlone
      <3>6. Healed(db')
        BY <2>1, <2>2, <3>1, <3>5, OutcomeHealed
      <3>7. db'.cols = db.cols
        <4> DEFINE e == w.group[j]
        <4>1. e \in Events /\ ApplyOrQuarantine(e)
          BY <3>1, <3>2
        <4> HIDE DEF e
        <4>2. db' = RecordDeadLetter(db, e) \/ db' = Apply(db, e)
          BY <4>1 DEF ApplyOrQuarantine
        <4> QED
          BY <1>1, <4>1, <4>2, ApplyMarks, DeadLetterMarks
      <3> QED
        BY <2>3, <3>6, <3>7
    <2> QED
      BY <2>4, <2>5
  <1>8. CASE Repairs(w, v)
    <2>1. /\ w.pc = "replay" /\ v.pc = "retry" /\ db' = RepairSchema(db, w.group[w.poison])
          /\ v.group = w.group /\ v.poison = w.poison
      BY <1>8 DEF Repairs, Locals
    <2>2. w.group[w.poison] \in Events
      BY <1>3, <2>1
    <2>3. db'.dead = db.dead /\ db'.cols = db.cols \cup {w.group[w.poison].table}
      BY <1>1, <2>1, <2>2, RepairAddsColumn
    <2> QED
      BY <1>2, <2>1, <2>3 DEF Heals
  <1>9. CASE Retries(w, v)
    <2>1. w.pc = "retry" /\ v.pc = "commit" /\ ApplyOrQuarantine(w.group[w.poison])
      BY <1>9 DEF Retries, Locals
    <2>2. w.poison \in 1 .. Len(w.group)
      BY <1>3, <2>1
    <2>3. w.group[w.poison].fault = "drift" => w.group[w.poison].table \in db.cols
      BY <2>1 DEF Heals
    <2>4. Healed(db')
      BY <2>1, <2>2, <2>3, OutcomeHealed
    <2> QED
      BY <2>1, <2>4 DEF Heals
  <1>10. CASE Quarantines(w, v)
    <2> DEFINE e == w.group[w.poison]
    <2>1. /\ w.pc = "replay" /\ v.pc = "commit" /\ db' = RecordDeadLetter(db, e)
          /\ ~(w.undefined /\ UndefinedColumn(db, e))
      BY <1>10 DEF Quarantines, Locals
    <2>2. e.fault # "drift"
      BY <2>1 DEF Heals, UndefinedColumn
    <2>3. e \in Events /\ e.id = [tx |-> Tx(w), seq |-> w.poison] /\ e.fault = source[Tx(w)][w.poison].fault
      BY <1>3, <2>1
    <2> HIDE DEF e
    <2>4. db'.dead = db.dead \cup {e.id}
      BY <1>1, <2>1, <2>3, DeadLetterMarks
    <2>5. source[e.id.tx][e.id.seq].fault # "drift"
      BY <2>2, <2>3
    <2>6. Healed(db')
      BY <1>1, <2>4, <2>5 DEF Healed
    <2> QED
      BY <2>1, <2>6 DEF Heals
  <1> QED
    BY <1>4, <1>5, <1>6, <1>7, <1>8, <1>9, <1>10 DEF Works

-----------------------------------------------------------------------------
(* A step is one of the owner's, one of the evicted writer's, or leaves    *)
(* the database alone.                                                     *)
LEMMA KindsOfSteps ==
    ASSUME IInv, [TakeoverNext]_allVars
    PROVE  /\ source' = source
           /\ \/ /\ Works(Owner, Owner') /\ log' = log
                 /\ Evictee' = Evictee /\ contested' = contested
              \/ /\ Works(Evictee, Evictee') /\ log' = log
                 /\ Owner' = Owner /\ contested' = contested
              \/ /\ db' = db /\ hiccups' = hiccups
                 /\ Owner' = Owner \/ Owner'.pc \notin {"replay", "retry"}
                 /\ \/ contested' = contested /\ (Evictee' = Evictee \/ Evictee'.pc = "down")
                    \/ /\ Evictee' = Owner /\ Owner.pc # "down" /\ Owner.group # <<>>
                       /\ contested' = (contested \/ Drifts(source[Tx(Owner)]))
  <1>0. Owner.pc = pc /\ Owner.group = group /\ Owner'.pc = pc' /\ Evictee'.pc = oldPc'
    BY DEF Owner, Evictee, Locals
  <1>1. CASE /\ UNCHANGED evicted
             /\ \/ HandleEvent \/ CommitGroup \/ RollBackGroup \/ ReplayHealthyEvent
                \/ RepairPoison \/ RetryPoison \/ QuarantinePoison
                \/ \E i \in DOMAIN group : RollBackInterrupted(i)
    <2>1. Works(Owner, Owner') /\ UNCHANGED <<source, log, offset, crashes>>
      BY <1>1, OwnerWorks
    <2>2. Evictee' = Evictee /\ contested' = contested
      BY <1>1 DEF evicted, Evictee
    <2> QED
      BY <2>1, <2>2
  <1>2. CASE OldStep
    <2>1. /\ UNCHANGED <<owner, contested>>
          /\ \/ Old!HandleEvent \/ Old!CommitGroup \/ Old!RollBackGroup
             \/ Old!ReplayHealthyEvent \/ Old!RepairPoison \/ Old!RetryPoison
             \/ Old!QuarantinePoison
             \/ \E i \in DOMAIN oldGroup : Old!RollBackInterrupted(i)
      BY <1>2 DEF OldStep
    <2>2. Works(Evictee, Evictee') /\ UNCHANGED <<source, log, offset, crashes>>
      BY <2>1, EvicteeWorks
    <2>3. Owner' = Owner /\ contested' = contested
      BY <2>1 DEF owner, Owner
    <2> QED
      BY <2>2, <2>3
  <1>3. CASE UNCHANGED allVars \/ (PollEmpty /\ UNCHANGED evicted)
    <2>1. UNCHANGED <<vars, evicted>>
      BY <1>3 DEF allVars, PollEmpty
    <2>2. /\ Owner' = Owner /\ Evictee' = Evictee /\ contested' = contested
          /\ source' = source /\ db' = db /\ hiccups' = hiccups
      BY <2>1 DEF vars, evicted, Owner, Evictee
    <2> QED
      BY <2>2
  <1>4. CASE /\ UNCHANGED evicted
             /\ \E t \in 1 .. Len(source) : \E k \in 1 .. Len(source[t]) : Publish(t, k)
    <2>1. Evictee' = Evictee /\ contested' = contested
      BY <1>4 DEF evicted, Evictee
    <2>2. Owner' = Owner /\ source' = source /\ db' = db /\ hiccups' = hiccups
      BY <1>4 DEF Publish, batch, budgets, Owner
    <2> QED
      BY <2>1, <2>2
  <1>5. CASE (Crash \/ Run \/ CommitKafkaOffset) /\ UNCHANGED evicted
    <2>1. Evictee' = Evictee /\ contested' = contested
      BY <1>5 DEF evicted, Evictee
    <2>2. pc' \notin {"replay", "retry"} /\ source' = source /\ db' = db /\ hiccups' = hiccups
      BY <1>5 DEF Crash, Run, CommitKafkaOffset, topic, budgets
    <2> QED
      BY <1>0, <2>1, <2>2
  <1>6. CASE Evict
    <2>1. /\ pc # "down" /\ group # <<>> /\ pc' = "down"
          /\ source' = source /\ db' = db /\ hiccups' = hiccups
          /\ contested' = (contested \/ Drifts(source[group[1].id.tx]))
      BY <1>6 DEF Evict, topic
    <2>2. Evictee' = Owner
      BY <1>6 DEF Evict, Evictee, Owner
    <2>3. Tx(Owner) = group[1].id.tx
      BY <1>0 DEF Tx
    <2> QED
      BY <1>0, <2>1, <2>2, <2>3
  <1>7. CASE OldCommitRefused
    <2>1. /\ oldPc' = "down" /\ UNCHANGED owner /\ contested' = contested
          /\ source' = source /\ db' = db /\ hiccups' = hiccups
      BY <1>7 DEF OldCommitRefused, topic, budgets
    <2>2. Owner' = Owner
      BY <2>1 DEF owner, Owner
    <2> QED
      BY <1>0, <2>1, <2>2
  <1> QED
    BY <1>1, <1>2, <1>3, <1>4, <1>5, <1>6, <1>7 DEF TakeoverNext, OwnerNext

(* A writer that steps has a transaction in hand that drifts if its poison *)
(* does.                                                                   *)
LEMMA PoisonDrifts ==
    ASSUME NEW w, At(w), w.pc \in {"replay", "retry"}, w.group[w.poison].fault = "drift"
    PROVE  Drifts(source[Tx(w)]) /\ w.group[w.poison].id.tx = Tx(w)
  <1>1. /\ w.poison \in 1 .. Len(w.group) /\ Len(w.group) = Len(source[Tx(w)])
        /\ \A i \in 1 .. Len(w.group) :
              w.group[i].id = [tx |-> Tx(w), seq |-> i] /\ w.group[i].fault = source[Tx(w)][i].fault
    BY InHand DEF Progress
  <1>2. w.group[w.poison].id = [tx |-> Tx(w), seq |-> w.poison]
    BY <1>1
  <1> QED
    BY <1>1, <1>2 DEF Drifts

(* Both writers are at a step when either takes one.                       *)
LEMMA BothAt ==
    ASSUME IInv, source' = source
    PROVE  At(Owner) /\ At(Evictee)
  BY DEF IInv, OffsetInv, At

(* A writer that works is not down.                                        *)
LEMMA WorkerIsUp == ASSUME NEW w, NEW v, Works(w, v) PROVE w.pc # "down"
  BY DEF Works, Reads, Applies, RollsBack, Replays, Repairs, Retries, Quarantines

(* An eviction in the middle of a drifted transaction is remembered.       *)
LEMMA EvicteeStep == ASSUME IInv, EvicteeInv, [TakeoverNext]_allVars PROVE EvicteeInv'
  <1>1. source' = source /\ At(Owner) /\ At(Evictee)
    BY KindsOfSteps, BothAt
  <1>2. CASE contested' = contested /\ (Evictee' = Evictee \/ Evictee'.pc = "down")
    BY <1>1, <1>2 DEF EvicteeInv
  <1>3. CASE Works(Evictee, Evictee') /\ contested' = contested
    <2>1. Evictee.group # <<>> /\ (Drifts(source[Tx(Evictee)]) => contested)
      BY <1>3, WorkerIsUp DEF EvicteeInv
    <2>2. Evictee'.pc # "down" => Evictee'.group # <<>> /\ Tx(Evictee') = Tx(Evictee)
      BY <1>1, <1>3, <2>1, WorksOnOne
    <2> QED
      BY <1>1, <1>3, <2>1, <2>2 DEF EvicteeInv, Tx
  <1>4. CASE /\ Evictee' = Owner /\ Owner.pc # "down" /\ Owner.group # <<>>
             /\ contested' = (contested \/ Drifts(source[Tx(Owner)]))
    <2>1. Tx(Owner) \in 1 .. Len(source)
      BY <1>1, <1>4, Predecessors DEF At
    <2>2. contested' \in BOOLEAN /\ (contested' => \E t \in 1 .. Len(source) : Drifts(source[t]))
      BY <1>4, <2>1 DEF EvicteeInv
    <2>3. Evictee'.group # <<>> /\ Tx(Evictee') = Tx(Owner)
      BY <1>4 DEF Tx
    <2> QED
      BY <1>1, <1>4, <2>2, <2>3 DEF EvicteeInv, Tx
  <1> QED
    BY <1>2, <1>3, <1>4, KindsOfSteps

(* The source does not change: what holds of db' holds of db afterwards.   *)
LEMMA FaithfulNext == ASSUME source' = source, Faithful(db') PROVE Faithful(db)'
  <1>1. M!RowsAfter(db.marks \ db.dead)' = M!RowsAfter(db'.marks \ db'.dead)
    BY SMT DEF M!RowsAfter, M!RowsFrom
  <1>2. Mirrored(db, db.marks \ db.dead)'
    BY <1>1 DEF Faithful, Mirrored, Shown
  <1> QED
    BY <1>2 DEF Faithful, Appliable, IsId

(* Nor does who takes the blame.                                           *)
LEMMA LeadsNext == ASSUME source' = source PROVE DriftsLead' <=> DriftsLead
  <1>1. Ids' = Ids
    BY DEF Ids
  <1> QED
    BY <1>1 DEF DriftsLead, TakesBlame, Event, Count

(* Neither writer applies an event twice or out of order.                  *)
LEMMA AppliedStep ==
    ASSUME TruncatesOnce, DriftsLast, IInv, EvicteeInv, AppliedInv, [TakeoverNext]_allVars
    PROVE  AppliedInv'
  <1> SUFFICES ASSUME Undisturbed', DriftsLead, ~contested'
               PROVE  Faithful(db') /\ Awaits(db'.marks, Owner')
    <2>1. source' = source
      BY KindsOfSteps
    <2>2. Awaits(db'.marks, Owner') <=> Awaits(db.marks, Owner)'
      BY DEF Awaits
    <2> QED
      BY <2>1, <2>2, FaithfulNext, LeadsNext DEF AppliedInv
  <1>1. source' = source /\ At(Owner) /\ At(Evictee)
    BY KindsOfSteps, BothAt
  <1>2. CASE Works(Owner, Owner') /\ contested' = contested
    <2>1. Undisturbed
      BY <1>1, <1>2, WorksKeeps DEF Kept
    <2> QED
      BY <1>1, <1>2, <2>1, WorksFaithful DEF AppliedInv
  <1>3. CASE Works(Evictee, Evictee') /\ Owner' = Owner /\ contested' = contested
    <2>1. Undisturbed
      BY <1>1, <1>3, WorksKeeps DEF Kept
    <2>2. Faithful(db) /\ Awaits(db.marks, Owner)
      BY <1>3, <2>1 DEF AppliedInv
    <2>3. ~Drifts(source[Tx(Evictee)])
      BY <1>3, WorkerIsUp DEF EvicteeInv
    <2>4. Awaits(db.marks, Evictee)
      BY <1>1, <2>3, PoisonDrifts DEF Awaits
    <2>5. Faithful(db')
      BY <1>1, <1>3, <2>2, <2>4, WorksFaithful
    <2>6. ASSUME Owner.pc = "replay", Owner.group[Owner.poison].fault = "drift"
          PROVE  Owner.group[Owner.poison].id \notin db'.marks
      <3>1. Drifts(source[Tx(Owner)]) /\ Owner.group[Owner.poison].id.tx = Tx(Owner)
        BY <1>1, <2>6, PoisonDrifts
      <3>2. Owner.group[Owner.poison].id \notin db.marks
        BY <2>2, <2>6 DEF Awaits
      <3>3. \A r \in db'.marks : r \in db.marks \/ r.tx = Tx(Evictee)
        BY <1>1, <1>3, WorksOnOne
      <3> QED
        BY <2>3, <3>1, <3>2, <3>3
    <2> QED
      BY <1>3, <2>5, <2>6 DEF Awaits
  <1>4. CASE /\ db' = db /\ hiccups' = hiccups /\ (contested => contested')
             /\ Owner' = Owner \/ Owner'.pc \notin {"replay", "retry"}
    <2>1. Faithful(db) /\ Awaits(db.marks, Owner)
      BY <1>4 DEF AppliedInv, Undisturbed
    <2> QED
      BY <1>4, <2>1 DEF Awaits
  <1> QED
    BY <1>2, <1>3, <1>4, KindsOfSteps

(* Neither writer quarantines a drifted event.                             *)
LEMMA HealedStep ==
    ASSUME DriftsAlone, ~RepairMayFail, IInv, EvicteeInv, HealedInv, [TakeoverNext]_allVars
    PROVE  HealedInv'
  <1>1. source' = source /\ At(Owner) /\ At(Evictee)
    BY KindsOfSteps, BothAt
  <1> SUFFICES ASSUME Undisturbed', DriftsLead, ~contested'
               PROVE  Healed(db') /\ Heals(db'.cols, Owner')
    BY <1>1, LeadsNext DEF HealedInv, Healed, Heals
  <1>2. CASE Works(Owner, Owner') /\ contested' = contested
    <2>1. Undisturbed
      BY <1>1, <1>2, WorksKeeps DEF Kept
    <2> QED
      BY <1>1, <1>2, <2>1, WorksHeals DEF HealedInv
  <1>3. CASE Works(Evictee, Evictee') /\ Owner' = Owner /\ contested' = contested
    <2>1. Undisturbed
      BY <1>1, <1>3, WorksKeeps DEF Kept
    <2>2. Healed(db) /\ Heals(db.cols, Owner)
      BY <1>3, <2>1 DEF HealedInv
    <2>3. ~Drifts(source[Tx(Evictee)])
      BY <1>3, WorkerIsUp DEF EvicteeInv
    <2>4. Heals(db.cols, Evictee)
      BY <1>1, <2>3, PoisonDrifts DEF Heals
    <2>5. Healed(db')
      BY <1>1, <1>3, <2>2, <2>4, WorksHeals
    <2>6. db'.cols = db.cols
      BY <1>1, <1>3, <2>3, WorksOnOne
    <2> QED
      BY <1>3, <2>2, <2>5, <2>6
  <1>4. CASE /\ db' = db /\ hiccups' = hiccups /\ (contested => contested')
             /\ Owner' = Owner \/ Owner'.pc \notin {"replay", "retry"}
    <2>1. Healed(db) /\ Heals(db.cols, Owner)
      BY <1>4 DEF HealedInv, Undisturbed
    <2> QED
      BY <1>4, <2>1 DEF Heals
  <1> QED
    BY <1>2, <1>3, <1>4, KindsOfSteps

(* At the start nothing is applied, quarantined or in hand.                *)
LEMMA InitApplied == TakeoverInit => EvicteeInv /\ AppliedInv /\ HealedInv
  <1> SUFFICES ASSUME TakeoverInit PROVE EvicteeInv /\ AppliedInv /\ HealedInv
    OBVIOUS
  <1>1. /\ source \in Histories /\ db = EmptyDatabase /\ Owner.pc = "down" /\ Evictee.pc = "down"
        /\ contested = FALSE
    BY DEF TakeoverInit, Init, Owner, Evictee, Locals
  <1>2. /\ db.marks = {} /\ db.dead = {} /\ db.water = [t \in Tables |-> 0]
        /\ db.rows = [t \in Tables |-> [k \in Keys |-> Absent]]
    BY <1>1 DEF EmptyDatabase
  <1>3. Shown(db) = M!Empty /\ M!Empty \in Contents
    <2>1. Cell(Absent) = M!NoRow /\ M!NoRow \in Cells
      BY DEF Cell, Absent, Nil, M!NoRow, M!Nil, Cells, Records
    <2>2. \A t \in Tables, k \in Keys : db.rows[t][k] = Absent
      BY <1>2
    <2> QED
      BY <2>1, <2>2 DEF Shown, M!Empty, Contents
  <1>4. M!RowsAfter({}) = M!Empty
    BY <1>1, <1>3, FoldOfNone DEF M!RowsAfter
  <1>5. Mirrored(db, {})
    <2>1. \A t \in Tables, k \in Keys : db.rows[t][k] = Absent
      BY <1>2
    <2>2. \A t \in Tables : db.water[t] = 0
      BY <1>2
    <2> QED
      BY <1>3, <1>4, <2>1, <2>2 DEF Mirrored
  <1>6. Faithful(db) /\ Healed(db)
    <2>1. db.marks \ db.dead = {}
      BY <1>2
    <2> QED
      BY <1>2, <1>5, <2>1 DEF Faithful, Healed
  <1> QED
    BY <1>1, <1>6 DEF EvicteeInv, AppliedInv, HealedInv, Awaits, Heals

(* What the two invariants say of what the runs check.                     *)
LEMMA AppliedOnce == AppliedInv /\ DriftsLead /\ ~contested => AppliedOnceInSourceOrder
  <1>1. Visible = Shown(db)
    BY DEF Visible, Shown, Cell
  <1> QED
    BY <1>1 DEF AppliedInv, Faithful, Mirrored, AppliedOnceInSourceOrder

LEMMA DriftIsHealed == HealedInv /\ DriftsLead /\ ~contested => DriftHealed
  BY DEF HealedInv, Healed, DriftHealed, Event

-----------------------------------------------------------------------------
(* "Applied once and never out of order", for any histories without the    *)
(* two things that break it: a second TRUNCATE of a table in a transaction *)
(* and a drifted change that is not the last, as long as no healthy change *)
(* takes the blame for a missing column.  Two writers at work on the same  *)
(* group do not break it, unless they contest a drifted transaction.       *)
THEOREM TakeoverAppliesOnce ==
    ASSUME TruncatesOnce, DriftsLast
    PROVE  TakeoverSpec => []TakeoverAppliedOnce
  <1>1. IInv /\ EvicteeInv /\ AppliedInv /\ [TakeoverNext]_allVars
            => IInv' /\ EvicteeInv' /\ AppliedInv'
    BY StepInv, EvicteeStep, AppliedStep
  <1>2. TakeoverInit => IInv /\ EvicteeInv /\ AppliedInv
    BY InitInv, InitApplied
  <1>3. AppliedInv => TakeoverAppliedOnce
    BY AppliedOnce DEF TakeoverAppliedOnce
  <1> QED
    BY <1>1, <1>2, <1>3, PTL DEF TakeoverSpec

(* Without drift nobody takes the blame for another change.                *)
LEMMA LeadsWithoutDrift ==
    ASSUME source \in Histories, \A tx \in Transactions : ~Drifts(tx)
    PROVE  DriftsLead
  <1> SUFFICES ASSUME NEW r \in Ids, TakesBlame(r) PROVE FALSE
    BY DEF DriftsLead
  <1>1. IsId(source, r)
    BY IdsAre
  <1>2. r.tx \in 1 .. Len(source) /\ r.seq \in Nat /\ r.seq >= 1 /\ Len(source[r.tx]) \in Nat
    BY <1>1, SourceTyped DEF IsId, Records
  <1>3. PICK k \in r.seq + 1 .. Len(source[r.tx]) : source[r.tx][k].fault = "drift"
    BY DEF TakesBlame, Count
  <1>4. k \in 1 .. Len(source[r.tx]) /\ source[r.tx] \in Transactions
    BY <1>2 DEF Transactions
  <1> QED
    BY <1>3, <1>4 DEF Drifts

(* Without drift there is nothing to contest, and nobody else to blame.    *)
THEOREM AppliesOnceWithoutDrift ==
    ASSUME TruncatesOnce, \A tx \in Transactions : ~Drifts(tx)
    PROVE  TakeoverSpec => []AppliedOnceInSourceOrder
  <1>1. DriftsLast
    BY DEF DriftsLast, Drifts
  <1>2. source \in Histories => DriftsLead
    BY LeadsWithoutDrift
  <1>3. IInv /\ EvicteeInv /\ AppliedInv /\ [TakeoverNext]_allVars
            => IInv' /\ EvicteeInv' /\ AppliedInv'
    BY <1>1, StepInv, EvicteeStep, AppliedStep
  <1>4. TakeoverInit => IInv /\ EvicteeInv /\ AppliedInv
    BY InitInv, InitApplied
  <1>5. IInv /\ EvicteeInv /\ AppliedInv => AppliedOnceInSourceOrder
    <2>1. IInv /\ EvicteeInv => ~contested
      BY DEF IInv, TopicInv, EvicteeInv, Transactions
    <2> QED
      BY <1>2, <2>1, AppliedOnce DEF IInv, TopicInv
  <1> QED
    BY <1>3, <1>4, <1>5, PTL DEF TakeoverSpec

(* A writer that is never evicted applies once and in order also what it   *)
(* has to repair, unless a healthy change takes the blame for it:          *)
(* OwnerNext is Writer's Next.                                             *)
THEOREM WriterAppliesOnce ==
    ASSUME TruncatesOnce, DriftsLast
    PROVE  TakeoverInit /\ [][OwnerNext]_allVars
              => [](DriftsLead => AppliedOnceInSourceOrder)
  <1>1. /\ IInv /\ EvicteeInv /\ AppliedInv /\ ~contested /\ [OwnerNext]_allVars
        => IInv' /\ EvicteeInv' /\ AppliedInv' /\ ~contested'
    <2> SUFFICES ASSUME IInv, EvicteeInv, AppliedInv, ~contested, [OwnerNext]_allVars
                 PROVE  IInv' /\ EvicteeInv' /\ AppliedInv' /\ ~contested'
      OBVIOUS
    <2>1. [TakeoverNext]_allVars
      BY DEF TakeoverNext
    <2>2. contested' = contested
      BY DEF OwnerNext, evicted, allVars
    <2> QED
      BY <2>1, <2>2, StepInv, EvicteeStep, AppliedStep
  <1>2. TakeoverInit => IInv /\ EvicteeInv /\ AppliedInv /\ ~contested
    BY InitInv, InitApplied DEF TakeoverInit
  <1> QED
    BY <1>1, <1>2, AppliedOnce, PTL

(* Column drift heals, for any histories in which a drifted change is the  *)
(* only faulty one of its transaction, as long as repairs do not fail.     *)
THEOREM TakeoverHealsDrift ==
    ASSUME DriftsAlone, ~RepairMayFail
    PROVE  TakeoverSpec => []TakeoverDriftHealed
  <1>1. IInv /\ EvicteeInv /\ HealedInv /\ [TakeoverNext]_allVars
            => IInv' /\ EvicteeInv' /\ HealedInv'
    BY StepInv, EvicteeStep, HealedStep
  <1>2. TakeoverInit => IInv /\ EvicteeInv /\ HealedInv
    BY InitInv, InitApplied
  <1>3. HealedInv => TakeoverDriftHealed
    BY DriftIsHealed DEF TakeoverDriftHealed
  <1> QED
    BY <1>1, <1>2, <1>3, PTL DEF TakeoverSpec

(***************************************************************************)
(* No row is overtaken.  A row's LSN is that of the transaction that wrote *)
(* it and not below the watermark of its table, which is that of a marked  *)
(* event; and no event marked so far is later than the one to apply.       *)
(***************************************************************************)
Touches(c, k) == c.op = "truncate" \/ c.key = k

(* The tables of the database d of the history s, with markers m, of which *)
(* the events A were applied.                                              *)
Current(s, d, m, A) ==
    /\ \A t \in Tables : d.water[t] # 0 => \E q \in m : q.tx = d.water[t]
    /\ \A t \in Tables, k \in Keys :
          \/ d.rows[t][k] = Absent
          \/ d.rows[t][k].lsn = d.rows[t][k].val.tx /\ d.rows[t][k].lsn >= d.water[t]
    /\ \A r \in A : \A k \in Keys : LET c == s[r.tx][r.seq] IN
          Touches(c, k) => \/ d.rows[c.table][k] = Absent
                           \/ d.rows[c.table][k].lsn >= r.tx

CurrentInv == Current(source, db, db.marks, db.marks \ db.dead)

(* From d to y the event e writes rows with its LSN, clears rows, or       *)
(* leaves them alone; those it is about are left behind it only if the     *)
(* table's watermark is not.                                               *)
Writes(d, y, e) ==
    /\ \A t \in Tables, k \in Keys :
          \/ y.rows[t][k] = d.rows[t][k] \/ y.rows[t][k] = Absent
          \/ y.rows[t][k].lsn = LSN(e) /\ y.rows[t][k].val.tx = LSN(e)
    /\ \A t \in Tables :
          \/ y.water[t] = d.water[t]
          \/ y.water[t] = LSN(e) /\ \A k \in Keys : y.rows[t][k] = Absent
    /\ \A k \in Keys : Touches(e, k) =>
          \/ y.rows[e.table][k] = Absent \/ y.rows[e.table][k].lsn >= LSN(e)
          \/ y = d /\ d.water[e.table] >= LSN(e)

(* Every mutation does.                                                    *)
LEMMA MutationWrites ==
    ASSUME NEW d \in Databases, NEW e \in Events
    PROVE  Writes(d, ApplyMutation(d, e), e)
  <1> DEFINE y == ApplyMutation(d, e)
             t == e.table
             x == LSN(e)
             row == d.rows[t][e.key]
  <1>1. /\ t \in Tables /\ e.key \in Keys /\ e.id \in Records /\ x \in Nat /\ e.id.tx = x
        /\ e.op \in {"upsert", "preserve", "delete", "truncate"}
    BY DEF Events, Records, LSN
  <1>2. /\ row \in Rows /\ row.lsn \in Nat /\ d.rows \in [Tables -> [Keys -> Rows]]
        /\ d.water \in [Tables -> Nat]
    BY <1>1 DEF Databases, Rows
  <1>3. ASSUME NEW z \in Rows, y = [d EXCEPT !.rows[t][e.key] = z],
               z = Absent \/ (z.lsn = x /\ z.val.tx = x), e.op # "truncate"
        PROVE  Writes(d, y, e)
    <2>1. y.water = d.water
      BY <1>3 DEF Databases
    <2>2. \A u \in Tables, k \in Keys :
             y.rows[u][k] = IF u = t /\ k = e.key THEN z ELSE d.rows[u][k]
      BY <1>1, <1>2, <1>3 DEF Databases
    <2> HIDE DEF y
    <2> QED
      BY <1>1, <1>3, <2>1, <2>2 DEF Writes, Touches
  <1>4. ASSUME y = d, row.lsn > x, e.op # "truncate"
        PROVE  Writes(d, y, e)
    <2> HIDE DEF y
    <2> QED
      BY <1>1, <1>2, <1>4 DEF Writes, Touches
  <1>5. CASE e.op = "upsert"
    <2> DEFINE z == [lsn |-> x, val |-> e.id, big |-> e.id]
    <2>1. y = Upsert(d, e)
      BY <1>5 DEF ApplyMutation
    <2>2. y = [d EXCEPT !.rows[t][e.key] = z] \/ (y = d /\ row.lsn > x)
      BY <2>1 DEF Upsert
    <2>3. z \in Rows /\ z.lsn = x /\ z.val.tx = x
      BY <1>1 DEF Rows
    <2> HIDE DEF y, z
    <2> QED
      BY <1>3, <1>4, <1>5, <2>2, <2>3 DEF y
  <1>6. CASE e.op = "preserve"
    <2> DEFINE z == [lsn |-> x, val |-> e.id,
                     big |-> IF row = Absent THEN ColumnDefault ELSE row.big]
    <2>1. y = UpdatePreserving(d, e)
      BY <1>6 DEF ApplyMutation
    <2>2. y = [d EXCEPT !.rows[t][e.key] = z] \/ (y = d /\ ~(row.lsn <= x))
      BY <2>1 DEF UpdatePreserving
    <2>3. z \in Rows /\ z.lsn = x /\ z.val.tx = x
      BY <1>1, <1>2 DEF Rows, ColumnDefault, Records
    <2>4. ~(row.lsn <= x) => row.lsn > x
      BY <1>1, <1>2
    <2> HIDE DEF y, z
    <2> QED
      BY <1>3, <1>4, <1>6, <2>2, <2>3, <2>4 DEF y
  <1>7. CASE e.op = "delete"
    <2>1. y = Delete(d, e)
      BY <1>7 DEF ApplyMutation
    <2>2. y = [d EXCEPT !.rows[t][e.key] = Absent] \/ (y = d /\ ~(row.lsn <= x))
      BY <2>1 DEF Delete
    <2>3. Absent \in Rows
      BY DEF Absent, Nil, Rows, Records
    <2>4. ~(row.lsn <= x) => row.lsn > x
      BY <1>1, <1>2
    <2> HIDE DEF y
    <2> QED
      BY <1>3, <1>4, <1>7, <2>2, <2>3, <2>4 DEF y
  <1>8. CASE e.op = "truncate"
    <2>1. y = Truncate(d, e)
      BY <1>8 DEF ApplyMutation
    <2>2. CASE TruncateIsStale(x, d.water[t])
      <3>1. y = d /\ d.water[t] >= x
        BY <1>1, <1>2, <2>1, <2>2 DEF Truncate, TruncateIsStale
      <3> HIDE DEF y
      <3>2. \A u \in Tables, k \in Keys : y.rows[u][k] = d.rows[u][k]
        BY <3>1
      <3>3. \A u \in Tables : y.water[u] = d.water[u]
        BY <3>1
      <3> QED
        BY <3>1, <3>2, <3>3, Zenon DEF Writes, y
    <2>3. CASE ~TruncateIsStale(x, d.water[t])
      <3>1. y = [d EXCEPT !.rows[t] = [k \in Keys |-> Absent], !.water[t] = x]
        BY <2>1, <2>3 DEF Truncate
      <3> HIDE DEF y
      <3>2. /\ \A u \in Tables, k \in Keys :
                  y.rows[u][k] = IF u = t THEN Absent ELSE d.rows[u][k]
            /\ \A u \in Tables : y.water[u] = IF u = t THEN x ELSE d.water[u]
        BY <1>1, <1>2, <3>1 DEF Databases
      <3>3. \A k \in Keys : y.rows[t][k] = Absent
        BY <1>1, <3>2
      <3>4. \A u \in Tables, k \in Keys : y.rows[u][k] = d.rows[u][k] \/ y.rows[u][k] = Absent
        BY <3>2
      <3>5. y.water[t] = x /\ \A u \in Tables : u # t => y.water[u] = d.water[u]
        BY <1>1, <3>2
      <3> QED
        BY <3>3, <3>4, <3>5 DEF Writes, y
    <2> QED
      BY <2>2, <2>3
  <1> QED
    BY <1>1, <1>5, <1>6, <1>7, <1>8

(* An event is about a table.                                              *)
LEMMA IdTable ==
    ASSUME source \in Histories, NEW q, IsId(source, q)
    PROVE  source[q.tx][q.seq].table \in Tables
  <1>1. EventOf(source, q) \in Events
    BY EventTyped
  <1>2. EventOf(source, q).table = source[q.tx][q.seq].table
    BY DEF EventOf
  <1> QED
    BY <1>1, <1>2 DEF Events

(* One more event is applied, none of whose predecessors is later.         *)
LEMMA MutationCurrent ==
    ASSUME source \in Histories, NEW d \in Databases, NEW m \in SUBSET Records,
           NEW A \in SUBSET m, NEW r \in m, \A q \in m : IsId(source, q) /\ q.tx <= r.tx,
           Current(source, d, m, A)
    PROVE  Current(source, ApplyMutation(d, EventOf(source, r)), m, A \cup {r})
  <1> DEFINE e == EventOf(source, r)
             y == ApplyMutation(d, e)
             x == r.tx
             c == source[r.tx][r.seq]
  <1>1. /\ e \in Events /\ e.id = r /\ LSN(e) = x /\ x \in Nat
        /\ e.op = c.op /\ e.table = c.table /\ e.key = c.key /\ c.table \in Tables
    <2>1. e \in Events /\ e.id = r
      BY EventTyped
    <2>2. e.op = c.op /\ e.table = c.table /\ e.key = c.key
      BY DEF EventOf
    <2> HIDE DEF e
    <2> QED
      BY <2>1, <2>2 DEF LSN, Events, Records
  <1>2. Writes(d, y, e) /\ y \in Databases
    BY <1>1, MutationWrites, MutationKeepsLedgers
  <1> HIDE DEF e, y, c
  <1>3. \A t \in Tables, k \in Keys :
           /\ d.rows[t][k].lsn \in Nat /\ d.water[t] \in Nat
           /\ y.rows[t][k].lsn \in Nat /\ y.water[t] \in Nat
    BY <1>2 DEF Databases, Rows
  <1>4. \A q \in m : q.tx \in Nat /\ q.tx <= x
    BY DEF Records
  <1>5. \A t \in Tables : d.water[t] <= x
    <2> SUFFICES ASSUME NEW t \in Tables, d.water[t] # 0 PROVE d.water[t] <= x
      BY <1>1
    <2>1. PICK q \in m : q.tx = d.water[t]
      BY DEF Current
    <2> QED
      BY <1>4, <2>1
  <1>6. ASSUME NEW t \in Tables, y.water[t] # 0
        PROVE  \E q \in m : q.tx = y.water[t]
    <2>1. CASE y.water[t] = d.water[t]
      BY <1>6, <2>1 DEF Current
    <2>2. CASE y.water[t] = x
      BY <2>2
    <2> QED
      BY <1>1, <1>2, <2>1, <2>2 DEF Writes
  <1>7. ASSUME NEW t \in Tables, NEW k \in Keys, y.rows[t][k] # Absent
        PROVE  y.rows[t][k].lsn = y.rows[t][k].val.tx /\ y.rows[t][k].lsn >= y.water[t]
    <2>1. y.water[t] = d.water[t]
      BY <1>2, <1>7 DEF Writes
    <2>2. CASE y.rows[t][k] = d.rows[t][k]
      BY <1>7, <2>1, <2>2 DEF Current
    <2>3. CASE y.rows[t][k].lsn = x /\ y.rows[t][k].val.tx = x
      BY <1>1, <1>3, <1>5, <2>1, <2>3
    <2> QED
      BY <1>1, <1>2, <1>7, <2>2, <2>3 DEF Writes
  <1>8. ASSUME NEW q \in A \cup {r}, NEW k \in Keys, Touches(source[q.tx][q.seq], k),
               y.rows[source[q.tx][q.seq].table][k] # Absent
        PROVE  y.rows[source[q.tx][q.seq].table][k].lsn >= q.tx
    <2> DEFINE t == source[q.tx][q.seq].table
    <2>1. CASE q \in A
      <3>1. q.tx \in Nat /\ q.tx <= x
        BY <1>4, <2>1
      <3>2. t \in Tables
        BY <2>1, IdTable
      <3>3. CASE y.rows[t][k] = d.rows[t][k]
        BY <1>8, <2>1, <3>3 DEF Current
      <3>4. CASE y.rows[t][k].lsn = x
        BY <1>1, <3>1, <3>4
      <3> QED
        BY <1>1, <1>2, <1>8, <3>2, <3>3, <3>4 DEF Writes
    <2>2. CASE q = r
      <3>1. t = e.table /\ Touches(e, k) /\ t \in Tables
        BY <1>1, <1>8, <2>2 DEF Touches, c
      <3>2. CASE y.rows[t][k].lsn >= x
        BY <2>2, <3>2
      <3>3. CASE y = d /\ d.water[t] >= x
        <4>1. d.rows[t][k].lsn >= d.water[t]
          BY <1>8, <3>1, <3>3 DEF Current
        <4> QED
          BY <1>1, <1>3, <2>2, <3>1, <3>3, <4>1
      <3> QED
        BY <1>1, <1>2, <1>8, <3>1, <3>2, <3>3 DEF Writes
    <2> QED
      BY <2>1, <2>2
  <1> QED
    BY <1>6, <1>7, <1>8 DEF Current, y, e

(* A batch applies the events that are not marked yet, all of which are of *)
(* the latest transaction.                                                 *)
LEMMA BatchCurrent ==
    ASSUME source \in Histories, NEW d \in Databases, NEW g \in Seq(Events),
           NEW m \in SUBSET Records, m = d.marks \cup {g[i].id : i \in 1 .. Len(g)},
           NEW A \in SUBSET m, \A q \in m : IsId(source, q),
           \A i \in 1 .. Len(g) : g[i] = EventOf(source, g[i].id),
           \A i \in Fresh(d, g) : \A q \in m : q.tx <= g[i].id.tx,
           Current(source, d, m, A)
    PROVE  Current(source, ApplyBatch(d, g), m, A \cup {g[i].id : i \in Fresh(d, g)})
  <1> DEFINE n == Len(g)
             F == Fresh(d, g)
             B == BatchStates(d, g)
             Upto(i) == A \cup {g[h].id : h \in {h \in F : h <= i}}
             S == {i \in 0 .. n : Current(source, B[i], m, Upto(i))}
  <1>1. n \in Nat /\ F \subseteq 1 .. n
    BY DEF Fresh
  <1>2. /\ \A i \in 0 .. n : B[i] \in Databases
        /\ B[0] = Marked(d, g) /\ \A i \in 1 .. n : B[i] = Advance(d, g, i, B[i - 1])
    BY BatchStatesEquation
  <1>3. /\ \A i \in F : B[i] = ApplyMutation(B[i - 1], g[i])
        /\ \A i \in 1 .. n : i \notin F => B[i] = B[i - 1]
    BY <1>1, <1>2 DEF Advance
  <1>4. \A i \in 1 .. n : g[i].id \in m
    OBVIOUS
  <1> HIDE DEF n, F, B
  <1>5. 0 \in S
    <2>1. Upto(0) = A
      BY <1>1
    <2>2. Marked(d, g).rows = d.rows /\ Marked(d, g).water = d.water
      BY DEF Marked, Databases
    <2>3. Current(source, Marked(d, g), m, A)
      BY <2>2 DEF Current
    <2> HIDE DEF Upto
    <2>4. 0 \in 0 .. n /\ Current(source, B[0], m, Upto(0))
      BY <1>1, <1>2, <2>1, <2>3
    <2> QED
      BY <2>4
  <1>6. \A i \in 0 .. n - 1 : i \in S => i + 1 \in S
    <2> TAKE i \in 0 .. n - 1
    <2> HAVE i \in S
    <2>1. i \in 0 .. n /\ i + 1 \in 1 .. n /\ i + 1 \in 0 .. n /\ (i + 1) - 1 = i
      BY <1>1
    <2>2. Current(source, B[i], m, Upto(i)) /\ B[i] \in Databases
      BY <1>2, <2>1
    <2>3. CASE i + 1 \in F
      <3> DEFINE r == g[i + 1].id
      <3>1. B[i + 1] = ApplyMutation(B[i], EventOf(source, r))
        BY <1>3, <2>1, <2>3 DEF n
      <3>2. Upto(i + 1) = Upto(i) \cup {r}
        <4>1. \A h \in F : h <= i + 1 <=> h <= i \/ h = i + 1
          BY <1>1, <2>1
        <4> QED
          BY <2>3, <4>1
      <3>3. Upto(i) \in SUBSET m /\ r \in m
        BY <1>1, <1>4, <2>1
      <3>4. \A q \in m : IsId(source, q) /\ q.tx <= r.tx
        BY <2>3 DEF F
      <3> HIDE DEF r, Upto
      <3>5. Current(source, ApplyMutation(B[i], EventOf(source, r)), m, Upto(i) \cup {r})
        BY <2>2, <3>3, <3>4, MutationCurrent
      <3> QED
        BY <2>1, <3>1, <3>2, <3>5
    <2>4. CASE i + 1 \notin F
      <3>1. B[i + 1] = B[i]
        BY <1>3, <2>1, <2>4
      <3>2. Upto(i + 1) = Upto(i)
        <4>1. \A h \in F : h <= i + 1 <=> h <= i
          BY <1>1, <2>1, <2>4
        <4> QED
          BY <4>1
      <3> HIDE DEF Upto
      <3> QED
        BY <2>1, <2>2, <3>1, <3>2
    <2> QED
      BY <2>3, <2>4
  <1> HIDE DEF S
  <1>7. n \in S
    <2>1. \A i \in 0 .. n : i \in S
      BY <1>1, <1>5, <1>6, Induction
    <2> QED
      BY <1>1, <2>1
  <1>8. Upto(n) = A \cup {g[i].id : i \in F}
    <2>1. \A h \in F : h <= n
      BY <1>1
    <2> QED
      BY <2>1
  <1> QED
    BY <1>7, <1>8 DEF S, ApplyBatch, B, n, F

(* Every step of a writer keeps the rows current.                          *)
LEMMA WorksCurrent ==
    ASSUME NEW w, NEW v, At(w), Works(w, v), CurrentInv
    PROVE  Current(source, db', db'.marks, db'.marks \ db'.dead)
  <1> DEFINE A == db.marks \ db.dead
  <1>1. /\ TopicInv /\ DatabaseInv /\ source \in Histories /\ db \in Databases
        /\ \A q \in db.marks : IsId(source, q) /\ q \in Records
        /\ db.dead \subseteq db.marks
    BY DEF At, TopicInv, DatabaseInv, IsId
  <1>2. ASSUME db'.rows = db.rows, db'.water = db.water, db.marks \subseteq db'.marks,
               db'.marks \ db'.dead \subseteq A
        PROVE  Current(source, db', db'.marks, db'.marks \ db'.dead)
    BY <1>2 DEF CurrentInv, Current
  <1>3. ASSUME NEW r, IsId(source, r), r \notin db.marks, NEW q \in db.marks
        PROVE  q.tx <= r.tx
    <2>1. /\ q.tx \in Nat /\ r.tx \in Nat /\ r.tx >= 1 /\ r.seq \in 1 .. Len(source[r.tx])
          /\ r = [tx |-> r.tx, seq |-> r.seq]
      BY <1>1, <1>3 DEF IsId, Records
    <2> SUFFICES ASSUME r.tx < q.tx PROVE FALSE
      BY <2>1
    <2>2. r.tx \in 1 .. q.tx - 1
      BY <2>1
    <2>3. [tx |-> r.tx, seq |-> r.seq] \in db.marks
      BY <1>1, <2>1, <2>2 DEF DatabaseInv, Ordered
    <2> QED
      BY <1>3, <2>1, <2>3
  <1>4. ASSUME NEW e \in Events, db' = RecordDeadLetter(db, e)
        PROVE  Current(source, db', db'.marks, db'.marks \ db'.dead)
    <2>1. db'.rows = db.rows /\ db'.water = db.water
      BY <1>1, <1>4 DEF RecordDeadLetter, MarkApplied, Databases
    <2>2. db'.marks = db.marks \cup {e.id} /\ db'.dead = db.dead \cup {e.id}
      BY <1>1, <1>4, DeadLetterMarks
    <2> QED
      BY <1>2, <2>1, <2>2
  <1>5. ASSUME NEW r, IsId(source, r), db' = Apply(db, EventOf(source, r))
        PROVE  Current(source, db', db'.marks, db'.marks \ db'.dead)
    <2> DEFINE e == EventOf(source, r)
               d == MarkApplied(db, e)
    <2>1. e \in Events /\ e.id = r /\ r \in Records
      BY <1>1, <1>5, EventTyped DEF IsId
    <2>2. CASE IsMarked(db, e)
      <3>1. db' = db
        BY <1>5, <2>2 DEF Apply
      <3> QED
        BY <3>1 DEF CurrentInv
    <2>3. CASE ~IsMarked(db, e)
      <3>1. db' = ApplyMutation(d, e) /\ r \notin db.marks
        BY <1>5, <2>1, <2>3 DEF Apply, IsMarked
      <3> HIDE DEF e
      <3>2. d \in Databases /\ d.rows = db.rows /\ d.water = db.water
        BY <1>1, <2>1 DEF MarkApplied, Databases
      <3>3. db'.marks = db.marks \cup {r} /\ db'.dead = db.dead
        BY <1>1, <1>5, <2>1, ApplyMarks DEF e
      <3> HIDE DEF d
      <3>4. Current(source, d, db.marks \cup {r}, A)
        BY <3>2 DEF CurrentInv, Current
      <3>5. \A q \in db.marks \cup {r} : IsId(source, q) /\ q.tx <= r.tx
        <4>1. r.tx \in Nat
          BY <2>1 DEF Records
        <4>2. r.tx <= r.tx
          BY <4>1
        <4> QED
          BY <1>1, <1>3, <1>5, <3>1, <4>2
      <3>6. db.marks \cup {r} \in SUBSET Records /\ A \in SUBSET (db.marks \cup {r})
        BY <1>1, <2>1
      <3> HIDE DEF A
      <3>7. Current(source, ApplyMutation(d, EventOf(source, r)), db.marks \cup {r}, A \cup {r})
        BY <1>1, <3>2, <3>4, <3>5, <3>6, MutationCurrent
      <3>8. db'.marks \ db'.dead = A \cup {r}
        BY <1>1, <3>1, <3>3 DEF A
      <3> QED
        BY <3>1, <3>3, <3>7, <3>8 DEF e
    <2> QED
      BY <2>2, <2>3
  <1>6. ASSUME NEW j \in 1 .. Len(w.group), w.pc \in {"replay", "retry"},
               ApplyOrQuarantine(w.group[j])
        PROVE  Current(source, db', db'.marks, db'.marks \ db'.dead)
    <2> DEFINE r == w.group[j].id
    <2>1. IsId(source, r) /\ w.group[j] = EventOf(source, r) /\ w.group[j] \in Events
      BY <1>6, InHand
    <2>2. db' = RecordDeadLetter(db, w.group[j]) \/ db' = Apply(db, w.group[j])
      BY <1>6 DEF ApplyOrQuarantine
    <2> HIDE DEF r
    <2> QED
      BY <1>4, <1>5, <2>1, <2>2
  <1>7. ASSUME w.pc \in {"replay", "retry"}
        PROVE  /\ w.poison \in 1 .. Len(w.group) /\ w.group[w.poison] \in Events
               /\ w.next \in Nat \ {0} /\ Len(w.group) \in Nat
    BY <1>7, InHand DEF Progress
  <1>8. CASE Reads(w, v) \/ RollsBack(w, v)
    <2>1. db' = db
      BY <1>8 DEF Reads, RollsBack
    <2> QED
      BY <2>1 DEF CurrentInv
  <1>9. CASE Applies(w, v)
    <2> DEFINE g == w.group
               F == Fresh(db, g)
               m == db.marks \cup {g[i].id : i \in 1 .. Len(g)}
    <2>1. w.pc = "apply" /\ db' = ApplyBatch(db, g)
      BY <1>9 DEF Applies
    <2>2. /\ g \in Seq(Events)
          /\ \A i \in 1 .. Len(g) :
                /\ g[i].id = [tx |-> Tx(w), seq |-> i] /\ g[i] = EventOf(source, g[i].id)
                /\ IsId(source, g[i].id) /\ g[i] \in Events
          /\ Tx(w) \in 1 .. Len(source)
      BY <2>1, InHand
    <2>3. db'.marks = m /\ db'.dead = db.dead
      BY <1>1, <2>1, <2>2, BatchMarks
    <2>4. \A q \in m : q \in db.marks \/ (IsId(source, q) /\ q.tx = Tx(w))
      <3> SUFFICES ASSUME NEW i \in 1 .. Len(g)
                   PROVE  IsId(source, g[i].id) /\ g[i].id.tx = Tx(w)
        OBVIOUS
      <3>1. IsId(source, g[i].id) /\ g[i].id = [tx |-> Tx(w), seq |-> i]
        BY <2>2
      <3> QED
        BY <3>1
    <2>5. \A i \in F : i \in 1 .. Len(g) /\ g[i].id \notin db.marks
      BY DEF Fresh, IsMarked
    <2>6. \A i \in 1 .. Len(g) : i \in F \/ g[i].id \in db.marks
      BY DEF Fresh, IsMarked
    <2>7. m \in SUBSET Records /\ A \in SUBSET m /\ \A q \in m : IsId(source, q)
      BY <1>1, <2>4 DEF IsId
    <2>8. \A i \in F : \A q \in m : q.tx <= g[i].id.tx
      <3> TAKE i \in F
      <3> TAKE q \in m
      <3> DEFINE r == g[i].id
      <3>1. r = [tx |-> Tx(w), seq |-> i] /\ IsId(source, r) /\ r \notin db.marks
        BY <2>2, <2>5
      <3> HIDE DEF r
      <3>2. r.tx = Tx(w) /\ r.tx \in Nat
        BY <3>1 DEF IsId, Records
      <3>3. CASE q \in db.marks
        BY <1>3, <3>1, <3>3 DEF r
      <3>4. CASE q \notin db.marks
        <4>1. q.tx = Tx(w)
          BY <2>4, <3>4
        <4> QED
          BY <3>2, <4>1 DEF r
      <3> QED
        BY <3>3, <3>4
    <2>9. Current(source, db, m, A)
      BY DEF CurrentInv, Current
    <2> DEFINE new == {g[i].id : i \in F}
    <2>10. Current(source, ApplyBatch(db, g), m, A \cup new)
      <3>1. m = db.marks \cup {g[i].id : i \in 1 .. Len(g)}
        OBVIOUS
      <3>2. \A i \in 1 .. Len(g) : g[i] = EventOf(source, g[i].id)
        BY <2>2
      <3> HIDE DEF A, m, g
      <3> QED
        BY <1>1, <2>2, <2>7, <2>8, <2>9, <3>1, <3>2, BatchCurrent
    <2>11. db'.marks \ db'.dead = A \cup new
      <3> HIDE DEF F
      <3> QED
        BY <1>1, <2>3, <2>5, <2>6
    <2> HIDE DEF new, m, A
    <2> QED
      BY <2>1, <2>3, <2>10, <2>11
  <1>10. CASE Replays(w, v)
    <2>1. /\ w.pc = "replay" /\ w.next <= Len(w.group)
          /\ db' = db \/ ApplyOrQuarantine(w.group[w.next])
      BY <1>10 DEF Replays
    <2>2. w.next \in 1 .. Len(w.group)
      BY <1>7, <2>1
    <2>3. CASE db' = db
      BY <2>3 DEF CurrentInv
    <2> QED
      BY <1>6, <2>1, <2>2, <2>3
  <1>11. CASE Repairs(w, v)
    <2>1. w.pc = "replay" /\ db' = RepairSchema(db, w.group[w.poison])
      BY <1>11 DEF Repairs
    <2>2. db'.marks = db.marks /\ db'.dead = db.dead
      BY <1>1, <1>7, <2>1, RepairAddsColumn
    <2>3. db'.rows = db.rows /\ db'.water = db.water
      BY <1>1, <2>1 DEF RepairSchema, Databases
    <2> QED
      BY <1>2, <2>2, <2>3
  <1>12. CASE Retries(w, v)
    BY <1>6, <1>7, <1>12 DEF Retries
  <1>13. CASE Quarantines(w, v)
    BY <1>4, <1>7, <1>13 DEF Quarantines
  <1> QED
    BY <1>8, <1>9, <1>10, <1>11, <1>12, <1>13 DEF Works

(* No row is older than a change that was applied to it, for any history,  *)
(* whatever is quarantined, repaired or repeated and by whom: what follows *)
(* a transaction is applied only when all of it is recorded.               *)
THEOREM TakeoverNoRowOvertaken == TakeoverSpec => []NoRowOvertaken
  <1>1. TakeoverInit => CurrentInv
    <2> SUFFICES ASSUME TakeoverInit PROVE CurrentInv
      OBVIOUS
    <2>1. db = EmptyDatabase
      BY DEF TakeoverInit, Init
    <2>2. /\ db.marks \ db.dead = {} /\ \A t \in Tables : db.water[t] = 0
          /\ \A t \in Tables, k \in Keys : db.rows[t][k] = Absent
      BY <2>1 DEF EmptyDatabase
    <2> QED
      BY <2>2 DEF CurrentInv, Current
  <1>2. IInv /\ CurrentInv /\ [TakeoverNext]_allVars => CurrentInv'
    <2> SUFFICES ASSUME IInv, CurrentInv, [TakeoverNext]_allVars PROVE CurrentInv'
      OBVIOUS
    <2>1. source' = source /\ At(Owner) /\ At(Evictee)
      BY KindsOfSteps, BothAt
    <2>2. Current(source, db', db'.marks, db'.marks \ db'.dead)
      <3>1. CASE db' = db
        BY <3>1 DEF CurrentInv
      <3> QED
        BY <2>1, <3>1, KindsOfSteps, WorksCurrent
    <2> QED
      BY <2>1, <2>2 DEF CurrentInv, Current
  <1>3. IInv /\ CurrentInv => NoRowOvertaken
    <2> SUFFICES ASSUME IInv, CurrentInv PROVE NoRowOvertaken
      OBVIOUS
    <2> SUFFICES ASSUME NEW r \in db.marks \ db.dead,
                        NEW k \in (IF Event(r).op = "truncate" THEN Keys ELSE {Event(r).key}),
                        db.rows[Event(r).table][k] # Absent
                 PROVE  db.rows[Event(r).table][k].val.tx >= r.tx
      BY DEF NoRowOvertaken
    <2> DEFINE c == source[r.tx][r.seq]
    <2>1. IsId(source, r) /\ source \in Histories
      BY DEF IInv, DatabaseInv, TopicInv
    <2>2. Event(r).op = c.op /\ Event(r).table = c.table /\ Event(r).key = c.key
      BY DEF Event
    <2>3. c.table \in Tables /\ c.key \in Keys
      <3>1. EventOf(source, r) \in Events
        BY <2>1, EventTyped
      <3>2. EventOf(source, r).key = c.key
        BY DEF EventOf
      <3> QED
        BY <2>1, <3>1, <3>2, IdTable DEF Events
    <2> HIDE DEF c
    <2>4. k \in Keys /\ Touches(c, k)
      BY <2>2, <2>3 DEF Touches
    <2>5. db.rows[c.table][k].lsn >= r.tx
      BY <2>2, <2>4 DEF CurrentInv, Current, c
    <2>6. db.rows[c.table][k].lsn = db.rows[c.table][k].val.tx
      BY <2>2, <2>3, <2>4 DEF CurrentInv, Current
    <2> QED
      BY <2>2, <2>5, <2>6
  <1> QED
    BY <1>1, <1>2, <1>3, TakeoverInvariance, PTL DEF TakeoverSpec

-----------------------------------------------------------------------------
(***************************************************************************)
(* The writers implement Mirror: on histories without faults the markers   *)
(* are those of a prefix of the source, which grows by one transaction at  *)
(* a time, and the tables are what that prefix leaves.                     *)
(***************************************************************************)
MirrorInv ==
    \E n \in 0 .. Len(source) :
        /\ db.marks = M!Prefix(n) /\ Visible = M!RowsAfter(M!Prefix(n))
        /\ Cardinality({r \in Ids : r.seq = 1 /\ r \in db.marks}) = n

(* The first change of every transaction.                                  *)
LEMMA FirstChange ==
    ASSUME source \in Histories, NEW t \in 1 .. Len(source)
    PROVE  IsId(source, [tx |-> t, seq |-> 1])
  <1>1. Len(source[t]) \in Nat /\ Len(source[t]) > 0 /\ Len(source) \in Nat
    BY SourceTyped
  <1>2. t \in Nat /\ 1 \in 1 .. Len(source[t])
    BY <1>1
  <1> QED
    BY <1>2 DEF IsId, Records

(* It counts the transactions.                                             *)
LEMMA PrefixCounts ==
    ASSUME source \in Histories, NEW n \in 0 .. Len(source)
    PROVE  Cardinality({r \in Ids : r.seq = 1 /\ r \in M!Prefix(n)}) = n
  <1> DEFINE F == {r \in Ids : r.seq = 1 /\ r \in M!Prefix(n)}
             f == [t \in 1 .. n |-> [tx |-> t, seq |-> 1]]
  <1>0. Len(source) \in Nat /\ n \in Nat
    BY SourceTyped
  <1>1. ASSUME NEW t \in 1 .. n
        PROVE  f[t] \in F
    <2>1. t \in 1 .. Len(source)
      BY <1>0
    <2>2. IsId(source, [tx |-> t, seq |-> 1])
      BY <2>1, FirstChange
    <2>3. [tx |-> t, seq |-> 1] \in M!Prefix(n) /\ [tx |-> t, seq |-> 1] \in Ids
      BY <2>2, <1>0, PrefixIs, IdsAre
    <2> QED
      BY <2>3
  <1>2. \A s, t \in 1 .. n : f[s] = f[t] => s = t
    OBVIOUS
  <1>3. ASSUME NEW r \in F
        PROVE  \E t \in 1 .. n : f[t] = r
    <2>1. IsId(source, r) /\ r.tx <= n /\ r.seq = 1
      BY PrefixIs
    <2>2. r.tx \in 1 .. n /\ r = [tx |-> r.tx, seq |-> 1]
      BY <1>0, <2>1 DEF IsId, Records
    <2> QED
      BY <2>2
  <1>4. f \in Bijection(1 .. n, F)
    <2>1. f \in [1 .. n -> F]
      BY <1>1
    <2> HIDE DEF F, f
    <2> QED
      BY <1>2, <1>3, <2>1, Fun_IsBij
  <1>5. ExistsBijection(1 .. n, F)
    BY <1>4 DEF ExistsBijection
  <1> HIDE DEF F
  <1>6. Cardinality(F) = n
    BY <1>0, <1>5, FS_CountingElements
  <1> QED
    BY <1>6 DEF F

(* Nothing is refused: the markers are those of whole transactions.        *)
LEMMA MarksArePrefix ==
    ASSUME FaultFree, MaxHiccups = 0, IInv
    PROVE  \E n \in 0 .. Len(source) : db.marks = M!Prefix(n)
  <1>1. /\ source \in Histories /\ Undisturbed /\ \A r \in db.marks : IsId(source, r)
        /\ Ordered(source, db.marks) /\ Whole(source, db.marks)
    BY DEF IInv, TopicInv, DatabaseInv, OffsetInv, Undisturbed
  <1>2. ASSUME NEW t \in 1 .. Len(source), NEW k \in 1 .. Len(source[t])
        PROVE  source[t][k].fault = "none"
    <2>1. source[t] \in Transactions
      BY <1>1 DEF Transactions
    <2> QED
      BY <2>1 DEF FaultFree
  <1>3. Len(source) \in Nat
    BY <1>1, SourceTyped
  <1> DEFINE S == {n \in 0 .. Len(source) : \A r \in db.marks : r.tx <= n}
  <1>4. Len(source) \in S
    BY <1>1, <1>3 DEF IsId
  <1>5. S \in SUBSET Nat /\ S # {}
    BY <1>3, <1>4
  <1>6. PICK n \in S : \A m \in S : n <= m
    <2> HIDE DEF S
    <2> QED
      BY <1>5, Least
  <1>7. n \in 0 .. Len(source) /\ n \in Nat /\ \A r \in db.marks : r.tx <= n
    BY <1>3
  <1>8. ASSUME NEW r, IsId(source, r), r.tx <= n
        PROVE  r \in db.marks
    <2>1. /\ r.tx \in 1 .. Len(source) /\ r.tx \in Nat /\ r.seq \in 1 .. Len(source[r.tx])
          /\ r = [tx |-> r.tx, seq |-> r.seq]
      BY <1>8 DEF IsId, Records
    <2>2. PICK q \in db.marks : q.tx = n
      <3> SUFFICES ASSUME \A q \in db.marks : q.tx # n PROVE FALSE
        OBVIOUS
      <3>1. n - 1 \in 0 .. Len(source)
        BY <1>3, <1>7, <1>8, <2>1
      <3>2. \A q \in db.marks : q.tx \in Nat
        BY <1>1 DEF IsId, Records
      <3>3. \A q \in db.marks : q.tx <= n - 1
        BY <1>7, <3>2
      <3> QED
        BY <1>6, <1>7, <3>1, <3>3
    <2>3. CASE r.tx < n
      <3>1. r.tx \in 1 .. q.tx - 1
        BY <1>7, <2>1, <2>2, <2>3
      <3> QED
        BY <1>1, <2>1, <3>1 DEF Ordered
    <2>4. CASE r.tx = n
      <3>1. q = [tx |-> r.tx, seq |-> q.seq] /\ q.seq \in 1 .. Len(source[r.tx])
        BY <1>1, <2>2, <2>4 DEF IsId, Records
      <3> QED
        BY <1>1, <1>2, <2>1, <3>1 DEF Whole
    <2> QED
      BY <1>7, <1>8, <2>1, <2>3, <2>4
  <1>9. \A r : r \in db.marks <=> r \in M!Prefix(n)
    BY <1>1, <1>7, <1>8, PrefixIs
  <1>10. db.marks = M!Prefix(n)
    BY <1>9
  <1> QED
    BY <1>7, <1>10

(* The tables are those of the prefix: nothing was quarantined.            *)
LEMMA ShowsPrefix ==
    ASSUME FaultFree, MaxHiccups = 0
    PROVE  IInv /\ EvicteeInv /\ AppliedInv => MirrorInv
  <1> SUFFICES ASSUME IInv, EvicteeInv, AppliedInv PROVE MirrorInv
    OBVIOUS
  <1>1. /\ source \in Histories /\ Undisturbed /\ \A r \in db.dead : IsId(source, r)
        /\ \A r \in db.dead : Blamable(source, r.tx, r.seq)
    BY DEF IInv, TopicInv, DatabaseInv, OffsetInv, Undisturbed
  <1>2. ASSUME NEW t \in 1 .. Len(source), NEW k \in 1 .. Len(source[t])
        PROVE  source[t][k].fault = "none"
    <2>1. source[t] \in Transactions
      BY <1>1 DEF Transactions
    <2> QED
      BY <2>1 DEF FaultFree
  <1>3. ~contested
    BY <1>2 DEF EvicteeInv, Drifts
  <1>4. db.dead = {}
    <2>1. ASSUME NEW r \in db.dead PROVE FALSE
      <3>1. r.tx \in 1 .. Len(source) /\ r.seq \in 1 .. Len(source[r.tx])
        BY <1>1 DEF IsId
      <3>2. source \in Seq(Seq(M!Change)) /\ Blamable(source, r.tx, r.seq)
        BY <1>1, SourceTyped
      <3>3. \E l \in 1 .. Len(source[r.tx]) : source[r.tx][l].fault # "none"
        BY <3>1, <3>2, BlamableHasFault
      <3> QED
        BY <1>2, <3>1, <3>3
    <2> QED
      BY <2>1
  <1>5. PICK n \in 0 .. Len(source) : db.marks = M!Prefix(n)
    BY MarksArePrefix
  <1>6. Visible = M!RowsAfter(M!Prefix(n))
    <2>1. AppliedOnceInSourceOrder
      <3>1. \A tx \in Transactions : ~Drifts(tx)
        BY DEF FaultFree, Drifts
      <3> QED
        BY <1>1, <1>3, <3>1, LeadsWithoutDrift, AppliedOnce
    <2>2. db.marks \ db.dead = M!Prefix(n)
      BY <1>4, <1>5
    <2> QED
      BY <1>1, <2>1, <2>2 DEF AppliedOnceInSourceOrder
  <1>7. Cardinality({r \in Ids : r.seq = 1 /\ r \in db.marks}) = n
    BY <1>1, <1>5, PrefixCounts
  <1> QED
    BY <1>5, <1>6, <1>7 DEF MirrorInv

(* Nothing is refused: a writer changes the database only by a whole group.*)
LEMMA WorksWhole ==
    ASSUME FaultFree, MaxHiccups = 0, NEW w, NEW v, At(w), Works(w, v)
    PROVE  db' = db \/ (w.pc = "apply" /\ db' = ApplyBatch(db, w.group))
  <1>1. Undisturbed /\ source \in Histories
    BY DEF At, TopicInv, Undisturbed
  <1>2. ASSUME w.pc \in {"replay", "retry"} PROVE FALSE
    <2>1. /\ w.poison \in 1 .. Len(w.group) /\ Len(w.group) = Len(source[Tx(w)])
          /\ Tx(w) \in 1 .. Len(source) /\ Blamable(source, Tx(w), w.poison)
      BY <1>1, <1>2, InHand DEF Progress
    <2>2. source[Tx(w)] \in Transactions /\ source \in Seq(Seq(M!Change))
      BY <1>1, <2>1, SourceTyped DEF Transactions
    <2>3. \E l \in 1 .. Len(source[Tx(w)]) : source[Tx(w)][l].fault # "none"
      BY <2>1, <2>2, BlamableHasFault
    <2> QED
      BY <2>2, <2>3 DEF FaultFree
  <1> QED
    BY <1>2 DEF Works, Reads, Applies, RollsBack, Replays, Repairs, Retries, Quarantines

(* A step applies the next transaction or leaves the tables as they are.   *)
LEMMA MirrorStep ==
    ASSUME FaultFree, MaxHiccups = 0, IInv, MirrorInv, MirrorInv', [TakeoverNext]_allVars
    PROVE  [M!ApplyTransaction]_<<source, Cardinality({r \in Ids : r.seq = 1 /\ r \in db.marks}),
                                  Visible>>
  <1>1. source' = source /\ At(Owner) /\ At(Evictee) /\ source \in Histories
    BY KindsOfSteps, BothAt DEF IInv, TopicInv
  <1>2. Len(source) \in Nat
    BY <1>1, SourceTyped
  <1> DEFINE count == Cardinality({r \in Ids : r.seq = 1 /\ r \in db.marks})
  <1>3. PICK n \in 0 .. Len(source) :
           db.marks = M!Prefix(n) /\ Visible = M!RowsAfter(M!Prefix(n)) /\ count = n
    BY DEF MirrorInv
  <1>4. PICK m \in 0 .. Len(source) :
           db'.marks = M!Prefix(m)' /\ Visible' = M!RowsAfter(M!Prefix(m))' /\ count' = m
    BY <1>1 DEF MirrorInv
  <1>5. M!Prefix(m)' = M!Prefix(m) /\ M!RowsAfter(M!Prefix(m))' = M!RowsAfter(M!Prefix(m))
    BY <1>1, SMT DEF M!Prefix, M!RowsAfter, M!RowsFrom
  <1>6. ASSUME NEW t \in 1 .. Len(source)
        PROVE  /\ [tx |-> t, seq |-> 1] \in db.marks <=> t <= n
               /\ [tx |-> t, seq |-> 1] \in db'.marks <=> t <= m
    <2>1. IsId(source, [tx |-> t, seq |-> 1])
      BY <1>1, FirstChange
    <2> QED
      BY <1>1, <1>3, <1>4, <1>5, <2>1, PrefixIs
  <1>7. m = n \/ m = n + 1
    <2>1. CASE db' = db
      <3>1. \A t \in 1 .. Len(source) : t <= n <=> t <= m
        BY <1>6, <2>1
      <3> QED
        BY <1>2, <3>1
    <2>2. ASSUME NEW w, At(w), w.pc = "apply", db' = ApplyBatch(db, w.group)
          PROVE  m = n \/ m = n + 1
      <3> DEFINE x == Tx(w)
      <3>1. /\ w.group \in Seq(Events) /\ db \in Databases /\ x \in 1 .. Len(source)
            /\ \A i \in 1 .. Len(w.group) : w.group[i].id = [tx |-> x, seq |-> i]
            /\ Len(w.group) = Len(source[x])
            /\ \A t \in 1 .. x - 1 : \A k \in 1 .. Len(source[t]) : [tx |-> t, seq |-> k] \in db.marks
        BY <2>2, InHand
      <3> HIDE DEF x
      <3>2. db'.marks = db.marks \cup {w.group[i].id : i \in 1 .. Len(w.group)}
        BY <2>2, <3>1, BatchMarks
      <3>3. 1 \in 1 .. Len(w.group)
        BY <1>1, <3>1, SourceTyped
      <3>4. ASSUME NEW t \in 1 .. Len(source)
            PROVE  [tx |-> t, seq |-> 1] \in db'.marks <=> t <= n \/ t = x
        <4>1. (\E i \in 1 .. Len(w.group) : [tx |-> t, seq |-> 1] = w.group[i].id) <=> t = x
          <5>1. t = x => [tx |-> t, seq |-> 1] = w.group[1].id
            BY <3>1, <3>3
          <5>2. ASSUME NEW i \in 1 .. Len(w.group), [tx |-> t, seq |-> 1] = w.group[i].id
                PROVE  t = x
            <6>1. w.group[i].id = [tx |-> x, seq |-> i]
              BY <3>1
            <6>2. [tx |-> t, seq |-> 1].tx = [tx |-> x, seq |-> i].tx
              BY <5>2, <6>1
            <6> QED
              BY <6>2
          <5> QED
            BY <3>3, <5>1, <5>2
        <4> QED
          BY <1>6, <3>2, <4>1
      <3>5. \A t \in 1 .. Len(source) : t <= m <=> t <= n \/ t = x
        BY <1>6, <3>4
      <3>6. x - 1 <= n
        <4>1. CASE x = 1
          BY <4>1
        <4>2. CASE x # 1
          <5>1. x - 1 \in 1 .. x - 1 /\ x - 1 \in 1 .. Len(source)
            BY <1>2, <3>1, <4>2
          <5>2. 1 \in 1 .. Len(source[x - 1])
            BY <1>1, <5>1, SourceTyped
          <5>3. [tx |-> x - 1, seq |-> 1] \in db.marks
            BY <3>1, <5>1, <5>2
          <5> QED
            BY <1>6, <5>1, <5>3
        <4> QED
          BY <4>1, <4>2
      <3> QED
        BY <1>2, <3>1, <3>5, <3>6
    <2>3. \/ db' = db
          \/ Owner.pc = "apply" /\ db' = ApplyBatch(db, Owner.group)
          \/ Evictee.pc = "apply" /\ db' = ApplyBatch(db, Evictee.group)
      BY <1>1, KindsOfSteps, WorksWhole
    <2> QED
      BY <1>1, <2>1, <2>2, <2>3
  <1>8. CASE m = n
    <2>1. count' = count /\ Visible' = Visible
      BY <1>3, <1>4, <1>5, <1>8
    <2> QED
      BY <1>1, <2>1
  <1>9. CASE m = n + 1
    <2>1. count < Len(source) /\ count' = count + 1 /\ Visible' = M!RowsAfter(M!Prefix(count + 1))
      BY <1>2, <1>3, <1>4, <1>5, <1>9
    <2>2. M!ApplyTransaction
      BY <1>1, <2>1 DEF M!ApplyTransaction
    <2> QED
      BY <2>2
  <1> QED
    BY <1>7, <1>8, <1>9

(* The writers implement Mirror, however they crash, are evicted and replay*)
(* what the other has applied: the destination moves from one source       *)
(* transaction to the next.                                                *)
THEOREM TakeoverImplementsMirror ==
    ASSUME TruncatesOnce, FaultFree, MaxHiccups = 0
    PROVE  TakeoverSpec => ImplementsMirror
  <1>1. DriftsLast
    BY DEF DriftsLast, FaultFree
  <1>2. IInv /\ EvicteeInv /\ AppliedInv /\ [TakeoverNext]_allVars
            => IInv' /\ EvicteeInv' /\ AppliedInv'
    BY <1>1, StepInv, EvicteeStep, AppliedStep
  <1>3. TakeoverInit => IInv /\ EvicteeInv /\ AppliedInv
    BY InitInv, InitApplied
  <1>4. IInv /\ EvicteeInv /\ AppliedInv => MirrorInv
    BY ShowsPrefix
  <1>5. IInv /\ MirrorInv /\ MirrorInv' /\ [TakeoverNext]_allVars
            => [M!ApplyTransaction]_<<source,
                  Cardinality({r \in Ids : r.seq = 1 /\ r \in db.marks}), Visible>>
    BY MirrorStep
  <1>6. TakeoverInit => M!Init
    <2> SUFFICES ASSUME TakeoverInit PROVE M!Init
      OBVIOUS
    <2>1. db = EmptyDatabase /\ db.marks = {}
      BY DEF TakeoverInit, Init, EmptyDatabase
    <2>2. Cardinality({r \in Ids : r.seq = 1 /\ r \in db.marks}) = 0
      <3>1. {r \in Ids : r.seq = 1 /\ r \in db.marks} = {}
        BY <2>1
      <3> QED
        BY <3>1, FS_EmptySet
    <2>3. Visible = M!Empty
      BY <2>1 DEF Visible, EmptyDatabase, Absent, Nil, M!Empty, M!NoRow, M!Nil
    <2> QED
      BY <2>2, <2>3 DEF M!Init
  <1> QED
    BY <1>2, <1>3, <1>4, <1>5, <1>6, PTL DEF TakeoverSpec, ImplementsMirror, M!Spec
=============================================================================
