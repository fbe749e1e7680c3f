---------------------------- MODULE SpoolProofs ----------------------------
(***************************************************************************)
(* Proofs about Spool, for transactions of any number of rows, any cap and *)
(* any number of reconnects and exits.                                     *)
(***************************************************************************)
EXTENDS Spool, SequenceTheorems, TLAPS

Changes == [tx : Nat, seq : Nat]
Files   == [data : Seq(Changes), linked : BOOLEAN]
Buffers == [mem : Seq(Changes), spool : Nat]
Pulls   == [changes : Seq(Changes), spool : Nat, read : Nat, seq : Nat]

(***************************************************************************)
(* The inductive invariant.                                                *)
(***************************************************************************)

Types ==
    /\ tx \in Nat \ {0} /\ got \in Nat
    /\ transaction # Nil => transaction \in Buffers
    /\ pull # Nil => pull \in Pulls
    /\ files \in Seq(Files) /\ pulled \in Seq(Changes) /\ current \in Changes
    /\ pc \in {"receive", "queue", "down"} /\ exits \in Nat

(* n events of a transaction t: those of mem, then those of the file.      *)
Holds(fs, t, n, mem, f) ==
    /\ \A i \in 1 .. Len(mem) : mem[i] = Change(t, i)
    /\ f = 0 => n = Len(mem)
    /\ f # 0 =>
          /\ f \in 1 .. Len(fs) /\ n = Len(mem) + Len(fs[f].data)
          /\ \A i \in 1 .. Len(fs[f].data) : fs[f].data[i] = Change(t, Len(mem) + i)

(* The buffer has what was received of the open transaction; the file is   *)
(* only used when memory is full.                                          *)
OpenInv ==
    /\ transaction = Nil <=> got = 0
    /\ pc # "receive" => got = 0
    /\ transaction # Nil =>
          /\ tx <= Len(Sizes) /\ got <= Sizes[tx] + 1
          /\ Holds(files, tx, got - 1, transaction.mem, transaction.spool)
          /\ transaction.spool # 0 => Len(transaction.mem) >= SpoolCap

(* What is announced and what is pulled of it.                             *)
PulledInv ==
    /\ \A i \in 1 .. Len(pulled) : pulled[i] = Change(current.tx, i)
    /\ current.tx <= Len(Sizes)
    /\ current.tx # 0 => current.seq = Sizes[current.tx]

(* The pullState has the whole transaction, and its position in memory and *)
(* file is the number of events pulled.                                    *)
PullInv ==
    pull # Nil /\ pc = "queue" =>
        /\ current.tx # 0
        /\ Holds(files, current.tx, current.seq, pull.changes, pull.spool)
        /\ pull.seq = Len(pulled)
        /\ pull.read = IF pull.seq <= Len(pull.changes) THEN 0
                       ELSE pull.seq - Len(pull.changes)

(* The files on disk, as long as no exit has left one behind.              *)
FilesInv ==
    /\ pc = "receive" /\ pull # Nil /\ pull.spool # 0 => pull.spool \in drained
    /\ exits = 0 /\ pc = "down" => pull = Nil
    /\ exits = 0 => \A f \in 1 .. Len(files) :
           files[f].linked => f \in drained \cup {SpoolOf(transaction), SpoolOf(pull)}

IInv == Types /\ OpenInv /\ PulledInv /\ PullInv /\ FilesInv

-----------------------------------------------------------------------------
(* A buffered transaction is not the absent one.                           *)
LEMMA BufferNotNil == \A m, s : [mem |-> m, spool |-> s] # Nil
  <1> SUFFICES ASSUME NEW m, NEW s, [mem |-> m, spool |-> s] = Nil PROVE FALSE
    OBVIOUS
  <1>1. DOMAIN [mem |-> m, spool |-> s] = {"mem", "spool"} /\ DOMAIN Nil = {"nil"}
    BY DEF Nil
  <1> QED
    BY <1>1

(* A pull in progress is not the absent one.                               *)
LEMMA PullNotNil ==
    \A c, s, r, q : [changes |-> c, spool |-> s, read |-> r, seq |-> q] # Nil
  <1> SUFFICES ASSUME NEW c, NEW s, NEW r, NEW q,
                      [changes |-> c, spool |-> s, read |-> r, seq |-> q] = Nil PROVE FALSE
    OBVIOUS
  <1>1. /\ DOMAIN [changes |-> c, spool |-> s, read |-> r, seq |-> q]
              = {"changes", "spool", "read", "seq"}
        /\ DOMAIN Nil = {"nil"}
    BY DEF Nil
  <1> QED
    BY <1>1

(* A new decoder satisfies the invariant.                                  *)
LEMMA InitInv == Init => IInv
  <1> SUFFICES ASSUME Init PROVE IInv
    OBVIOUS
  <1> USE SpoolAssumption DEF Init
  <1>1. Types
    BY DEF Types, Changes, Change, Files
  <1>2. OpenInv
    BY DEF OpenInv
  <1>3. PulledInv
    BY DEF PulledInv, Change
  <1>4. PullInv
    BY DEF PullInv
  <1>5. FilesInv
    BY DEF FilesInv, SpoolOf
  <1> QED
    BY <1>1, <1>2, <1>3, <1>4, <1>5 DEF IInv

(* The actions of the decoder and of its caller keep the invariant, one    *)
(* lemma for each.                                                         *)
LEMMA BeginStep == ASSUME IInv, Begin PROVE IInv'
  <1> USE DEF Begin, IInv
  <1> USE SpoolAssumption
  <1>1. Types'
    BY DEF Types, Buffers, caller
  <1>2. OpenInv'
    <2>1. transaction = Nil /\ tx \in 1 .. Len(Sizes) /\ Sizes[tx] \in Nat
      BY DEF OpenInv, Types
    <2>2. transaction' # Nil /\ transaction'.mem = <<>> /\ transaction'.spool = 0
      BY BufferNotNil
    <2>3. Holds(files', tx', got' - 1, transaction'.mem, transaction'.spool)
      BY <2>2 DEF Holds
    <2> QED
      BY <2>1, <2>2, <2>3 DEF OpenInv, Types
  <1>3. PulledInv'
    BY DEF PulledInv, caller
  <1>4. PullInv'
    BY DEF PullInv, caller
  <1>5. FilesInv'
    <2>1. transaction = Nil
      BY DEF OpenInv
    <2>2. SpoolOf(transaction) = 0 /\ SpoolOf(transaction)' = 0 /\ SpoolOf(pull)' = SpoolOf(pull)
      BY <2>1 DEF SpoolOf
    <2> QED
      BY <2>2 DEF FilesInv, caller
  <1> QED
    BY <1>1, <1>2, <1>3, <1>4, <1>5

(* The open transaction has one more event: in memory, in a new file, or   *)
(* at the end of its file.                                                 *)
LEMMA AppendStep == ASSUME IInv, AppendChange PROVE IInv'
  <1> USE DEF IInv
  <1> USE SpoolAssumption
  <1> DEFINE c == Change(tx, got)
             f == transaction.spool
             mem == transaction.mem
  <1>1. /\ pc = "receive" /\ transaction # Nil /\ transaction \in Buffers
        /\ mem \in Seq(Changes) /\ f \in Nat /\ files \in Seq(Files)
        /\ tx \in Nat /\ got \in Nat /\ got # 0 /\ got <= Sizes[tx] /\ tx \in 1 .. Len(Sizes)
        /\ Sizes[tx] \in Nat
        /\ Holds(files, tx, got - 1, mem, f) /\ (f # 0 => Len(mem) >= SpoolCap)
    <2>1. pc = "receive" /\ transaction # Nil /\ got <= Sizes[tx]
      BY DEF AppendChange
    <2>2. /\ transaction \in Buffers /\ files \in Seq(Files) /\ tx \in Nat \ {0} /\ got \in Nat
          /\ got # 0 /\ tx <= Len(Sizes)
          /\ Holds(files, tx, got - 1, mem, f) /\ (f # 0 => Len(mem) >= SpoolCap)
      BY <2>1 DEF Types, OpenInv
    <2>3. mem \in Seq(Changes) /\ f \in Nat
      BY <2>2 DEF Buffers
    <2>4. tx \in 1 .. Len(Sizes) /\ Sizes[tx] \in Nat
      BY <2>2
    <2> QED
      BY <2>1, <2>2, <2>3, <2>4
  <1>2. /\ got' = got + 1 /\ tx' = tx /\ pull' = pull /\ pc' = pc /\ current' = current
        /\ pulled' = pulled /\ drained' = drained /\ exits' = exits
    BY DEF AppendChange, caller
  <1>3. c \in Changes
    BY <1>1 DEF Change, Changes
  <1>4. /\ transaction' # Nil /\ transaction' \in Buffers /\ files' \in Seq(Files)
        /\ Len(files') >= Len(files)
        /\ \A i \in 1 .. Len(files) : files'[i].linked = files[i].linked
        /\ \A i \in 1 .. Len(files') : i \notin 1 .. Len(files) => i = transaction'.spool
        /\ Holds(files', tx, got, transaction'.mem, transaction'.spool)
        /\ transaction'.spool # 0 => Len(transaction'.mem) >= SpoolCap
        /\ f # 0 => transaction'.spool = f
    <2>1. CASE /\ Len(mem) < SpoolCap /\ files' = files
               /\ transaction' = [transaction EXCEPT !.mem = Append(@, c)]
      <3>1. transaction' = [mem |-> Append(mem, c), spool |-> f]
        BY <1>1, <2>1 DEF Buffers
      <3>0. Len(mem) \in Nat /\ f = 0
        BY <1>1, <2>1
      <3>2. /\ Append(mem, c) \in Seq(Changes) /\ Len(Append(mem, c)) = Len(mem) + 1
            /\ Append(mem, c)[Len(mem) + 1] = c
            /\ \A i \in 1 .. Len(mem) : Append(mem, c)[i] = mem[i]
        BY <1>1, <1>3, AppendProperties
      <3>3. Len(mem) = got - 1 /\ \A i \in 1 .. Len(mem) : mem[i] = Change(tx, i)
        BY <1>1, <3>0 DEF Holds
      <3>4. Len(Append(mem, c)) = got
            /\ \A i \in 1 .. Len(Append(mem, c)) : Append(mem, c)[i] = Change(tx, i)
        BY <1>1, <3>0, <3>2, <3>3
      <3>5. Holds(files', tx, got, transaction'.mem, transaction'.spool)
        BY <3>0, <3>1, <3>2, <3>4 DEF Holds
      <3>6. transaction' # Nil /\ transaction' \in Buffers /\ transaction'.spool = 0
        BY <1>1, <3>0, <3>1, <3>2, BufferNotNil DEF Buffers
      <3> QED
        <4>1. Len(files') >= Len(files) /\ \A i \in 1 .. Len(files') : i \in 1 .. Len(files)
          BY <1>1, <2>1
        <4> HIDE DEF c, f, mem
        <4> QED
          BY <1>1, <2>1, <3>0, <3>5, <3>6, <4>1
    <2>2. CASE /\ Len(mem) >= SpoolCap /\ f = 0
               /\ files' = Append(files, [data |-> <<c>>, linked |-> TRUE])
               /\ transaction' = [transaction EXCEPT !.spool = Len(files) + 1]
      <3>0. Len(files) \in Nat /\ Len(mem) \in Nat
        BY <1>1
      <3>1. transaction' = [mem |-> mem, spool |-> Len(files) + 1]
        BY <1>1, <2>2, Zenon DEF Buffers
      <3> DEFINE x == [data |-> <<c>>, linked |-> TRUE]
      <3>2. x \in Files /\ x.data = <<c>>
        BY <1>3 DEF Files
      <3>3. /\ files' = Append(files, x)
        BY <2>2
      <3> HIDE DEF x
      <3>4. /\ files' \in Seq(Files) /\ Len(files') = Len(files) + 1
            /\ files'[Len(files) + 1] = x
            /\ \A i \in 1 .. Len(files) : files'[i] = files[i]
        BY <1>1, <3>2, <3>3
      <3>5. Len(mem) = got - 1 /\ \A i \in 1 .. Len(mem) : mem[i] = Change(tx, i)
        BY <1>1, <2>2 DEF Holds
      <3>6. /\ files'[Len(files) + 1].data = <<c>>
            /\ Len(<<c>>) = 1 /\ \A i \in 1 .. 1 : <<c>>[i] = Change(tx, Len(mem) + i)
        BY <1>1, <3>2, <3>4, <3>5
      <3>7. Holds(files', tx, got, transaction'.mem, transaction'.spool)
        <4>1. transaction'.mem = mem /\ transaction'.spool = Len(files) + 1
          BY <3>1
        <4>2. Len(files) + 1 # 0 /\ Len(files) + 1 \in 1 .. Len(files') /\ got = Len(mem) + 1
          BY <1>1, <3>0, <3>4, <3>5
        <4> HIDE DEF c, mem
        <4> QED
          BY <3>5, <3>6, <4>1, <4>2 DEF Holds
      <3>8. \A i \in 1 .. Len(files') : i \notin 1 .. Len(files) => i = transaction'.spool
        BY <3>1, <3>4
      <3>9. transaction' # Nil /\ transaction' \in Buffers /\ transaction'.mem = mem
        BY <1>1, <3>1, BufferNotNil DEF Buffers
      <3> QED
        BY <2>2, <3>1, <3>4, <3>7, <3>8, <3>9
    <2>3. CASE /\ Len(mem) >= SpoolCap /\ f # 0
               /\ files' = [files EXCEPT ![f].data = Append(@, c)] /\ transaction' = transaction
      <3>1. /\ f \in 1 .. Len(files) /\ got - 1 = Len(mem) + Len(files[f].data)
            /\ \A i \in 1 .. Len(mem) : mem[i] = Change(tx, i)
            /\ \A i \in 1 .. Len(files[f].data) : files[f].data[i] = Change(tx, Len(mem) + i)
        BY <1>1, <2>3 DEF Holds
      <3> DEFINE d == files[f].data
                 x == [files[f] EXCEPT !.data = Append(d, c)]
      <3>2. files[f] \in Files /\ d \in Seq(Changes)
        <4>1. files[f] \in Files
          BY <1>1, <3>1, ElementOfSeq
        <4> QED
          BY <4>1 DEF Files
      <3>3. /\ Append(d, c) \in Seq(Changes) /\ Len(Append(d, c)) = Len(d) + 1
            /\ Append(d, c)[Len(d) + 1] = c
            /\ \A i \in 1 .. Len(d) : Append(d, c)[i] = d[i]
        BY <1>3, <3>2
      <3>4. x \in Files /\ x.data = Append(d, c) /\ x.linked = files[f].linked
        BY <3>2, <3>3 DEF Files
      <3>5. files' = [files EXCEPT ![f] = x]
        BY <2>3
      <3> HIDE DEF x
      <3>6. /\ files' \in Seq(Files) /\ Len(files') = Len(files) /\ files'[f] = x
            /\ \A i \in 1 .. Len(files) : i # f => files'[i] = files[i]
        BY <1>1, <3>1, <3>4, <3>5
      <3>7. Len(mem) + Len(Append(d, c)) = got
            /\ \A i \in 1 .. Len(Append(d, c)) : Append(d, c)[i] = Change(tx, Len(mem) + i)
        <4>1. Len(d) \in Nat /\ Len(mem) \in Nat /\ Len(mem) + (Len(d) + 1) = got
          <5>2. got - 1 = Len(mem) + Len(d) /\ d \in Seq(Changes) /\ mem \in Seq(Changes)
            BY <1>1, <3>1, <3>2
          <5> HIDE DEF d, mem
          <5>1. Len(d) \in Nat /\ Len(mem) \in Nat
            BY <5>2
          <5> QED
            BY <1>1, <5>1, <5>2
        <4>2. c = Change(tx, Len(mem) + (Len(d) + 1))
          BY <4>1
        <4>3. \A i \in 1 .. Len(d) : d[i] = Change(tx, Len(mem) + i)
          BY <3>1
        <4> HIDE DEF c, d, mem
        <4>4. \A i \in 1 .. Len(d) + 1 : i \in 1 .. Len(d) \/ i = Len(d) + 1
          BY <4>1
        <4> QED
          BY <3>3, <4>1, <4>2, <4>3, <4>4
      <3> HIDE DEF d, c
      <3>8. Holds(files', tx, got, mem, f)
        <4>1. files'[f].data = Append(d, c) /\ f \in 1 .. Len(files')
          BY <3>1, <3>4, <3>6
        <4> HIDE DEF f, mem
        <4> QED
          BY <2>3, <3>1, <3>7, <4>1 DEF Holds
      <3>9. \A i \in 1 .. Len(files) : files'[i].linked = files[i].linked
        BY <3>4, <3>6
      <3>10. \A i \in 1 .. Len(files') : i \in 1 .. Len(files)
        BY <3>6
      <3>11. Len(files') >= Len(files)
        BY <1>1, <3>6
      <3> QED
        BY <1>1, <2>3, <3>6, <3>8, <3>9, <3>10, <3>11
    <2> HIDE DEF c, f, mem
    <2> QED
      BY <2>1, <2>2, <2>3 DEF AppendChange, c, f, mem
  <1>5. Types'
    BY <1>1, <1>2, <1>4 DEF Types
  <1>6. OpenInv'
    <2>1. got' - 1 = got /\ got' # 0 /\ got' <= Sizes[tx] + 1
      BY <1>1, <1>2
    <2> QED
      BY <1>1, <1>2, <1>4, <2>1 DEF OpenInv
  <1>7. PulledInv'
    BY <1>2 DEF PulledInv
  <1>8. PullInv'
    BY <1>1, <1>2 DEF PullInv
  <1>9. FilesInv'
    <2>1. SpoolOf(pull)' = SpoolOf(pull) /\ SpoolOf(transaction) = f
          /\ SpoolOf(transaction)' = transaction'.spool
      BY <1>1, <1>2, <1>4 DEF SpoolOf
    <2>2. ASSUME exits = 0, NEW i \in 1 .. Len(files'), files'[i].linked
          PROVE  i \in drained \cup {transaction'.spool, SpoolOf(pull)}
      <3>1. CASE i \in 1 .. Len(files)
        <4>1. i \in drained \cup {f, SpoolOf(pull)}
          BY <1>4, <2>1, <2>2, <3>1 DEF FilesInv
        <4>2. i # 0
          BY <3>1
        <4> QED
          BY <1>4, <4>1, <4>2
      <3> QED
        BY <1>4, <3>1
    <2> QED
      BY <1>1, <1>2, <2>1, <2>2 DEF FilesInv
  <1> QED
    BY <1>5, <1>6, <1>7, <1>8, <1>9

(* The open transaction is complete and becomes the one to pull.           *)
LEMMA CommitStep == ASSUME IInv, Commit PROVE IInv'
  <1> USE DEF IInv
  <1> USE SpoolAssumption
  <1> DEFINE f == transaction.spool
             mem == transaction.mem
  <1>1. /\ pc = "receive" /\ transaction # Nil /\ got = Sizes[tx] + 1
        /\ tx' = tx + 1 /\ got' = 0 /\ transaction' = Nil
        /\ pull' = [changes |-> mem, spool |-> f, read |-> 0, seq |-> 0]
        /\ pc' = "queue" /\ pulled' = <<>>
        /\ current' = Change(tx, Len(mem) + SpoolN)
        /\ files' = files /\ drained' = drained /\ exits' = exits
    BY DEF Commit
  <1>2. /\ transaction \in Buffers /\ tx \in Nat /\ tx # 0 /\ tx <= Len(Sizes)
        /\ Holds(files, tx, got - 1, mem, f)
    BY <1>1 DEF Types, OpenInv
  <1>3. mem \in Seq(Changes) /\ f \in Nat /\ tx \in 1 .. Len(Sizes) /\ Sizes[tx] \in Nat
    BY <1>2 DEF Buffers
  <1>4. Len(mem) + SpoolN = Sizes[tx] /\ Holds(files, tx, Sizes[tx], mem, f)
    <2>1. got - 1 = Sizes[tx]
      BY <1>1, <1>3
    <2>2. Len(mem) \in Nat
      BY <1>3
    <2>3. Holds(files, tx, Sizes[tx], mem, f)
      BY <1>2, <2>1
    <2>4. Len(mem) + SpoolN = Sizes[tx]
      <3>1. /\ f = 0 => Sizes[tx] = Len(mem)
            /\ f # 0 => Sizes[tx] = Len(mem) + Len(files[f].data)
        BY <2>3 DEF Holds
      <3>2. SpoolN = IF f = 0 THEN 0 ELSE Len(files[f].data)
        BY DEF SpoolN
      <3> HIDE DEF f, mem
      <3> QED
        BY <2>2, <3>1, <3>2
    <2> QED
      BY <2>3, <2>4
  <1>5. /\ pull' # Nil /\ pull' \in Pulls /\ pull'.changes = mem /\ pull'.spool = f
        /\ pull'.read = 0 /\ pull'.seq = 0
    BY <1>1, <1>3, PullNotNil DEF Pulls
  <1>6. current' = [tx |-> tx, seq |-> Sizes[tx]]
    BY <1>1, <1>4 DEF Change
  <1>7. Types'
    <2>1. tx + 1 \in Nat \ {0} /\ current' \in Changes /\ pulled' \in Seq(Changes)
      BY <1>1, <1>2, <1>3, <1>6 DEF Changes
    <2> HIDE DEF f, mem
    <2> QED
      BY <1>1, <1>5, <2>1 DEF Types
  <1>8. OpenInv'
    BY <1>1 DEF OpenInv
  <1>9. PulledInv'
    BY <1>1, <1>2, <1>6 DEF PulledInv
  <1>10. PullInv'
    <2>1. Len(pulled') = 0 /\ 0 <= Len(mem) /\ current'.tx = tx /\ current'.seq = Sizes[tx]
      BY <1>1, <1>3, <1>6
    <2> HIDE DEF mem, f
    <2> QED
      BY <1>1, <1>2, <1>4, <1>5, <2>1 DEF PullInv
  <1>11. FilesInv'
    <2>1. SpoolOf(transaction) = f /\ SpoolOf(transaction)' = 0 /\ SpoolOf(pull)' = f
      BY <1>1, <1>5 DEF SpoolOf
    <2>2. SpoolOf(pull) \in drained \cup {0}
      BY <1>1 DEF FilesInv, SpoolOf
    <2>3. \A i \in 1 .. Len(files) : i # 0
      OBVIOUS
    <2> HIDE DEF f
    <2> QED
      BY <1>1, <2>1, <2>2, <2>3 DEF FilesInv
  <1> QED
    BY <1>7, <1>8, <1>9, <1>10, <1>11

(* The announced transaction's next event is in memory.                    *)
LEMMA FromMemoryStep == ASSUME IInv, NextFromMemory PROVE IInv'
  <1> USE DEF IInv
  <1> DEFINE c == pull.changes
             n == pull.seq
  <1>1. /\ pc = "queue" /\ pull # Nil /\ n < Len(c)
        /\ pulled' = Append(pulled, c[n + 1]) /\ pull' = [pull EXCEPT !.seq = n + 1]
        /\ tx' = tx /\ got' = got /\ transaction' = transaction /\ files' = files /\ pc' = pc
        /\ current' = current /\ drained' = drained /\ exits' = exits
    BY DEF NextFromMemory
  <1>2. /\ pull \in Pulls /\ pulled \in Seq(Changes) /\ current \in Changes
        /\ current.tx # 0 /\ Holds(files, current.tx, current.seq, c, pull.spool)
        /\ n = Len(pulled) /\ pull.read = IF n <= Len(c) THEN 0 ELSE n - Len(c)
    BY <1>1 DEF Types, PullInv
  <1>3. c \in Seq(Changes) /\ n \in Nat /\ pull.read \in Nat /\ pull.spool \in Nat
    BY <1>2 DEF Pulls
  <1>4. /\ pull' # Nil /\ pull' \in Pulls /\ pull'.changes = c /\ pull'.spool = pull.spool
        /\ pull'.read = pull.read /\ pull'.seq = n + 1
    <2>1. pull' = [changes |-> c, spool |-> pull.spool, read |-> pull.read, seq |-> n + 1]
      BY <1>1, <1>2 DEF Pulls
    <2> HIDE DEF c, n
    <2> QED
      BY <1>3, <2>1, PullNotNil DEF Pulls
  <1> HIDE DEF c, n
  <1>5. n + 1 \in 1 .. Len(c) /\ c[n + 1] \in Changes /\ c[n + 1] = Change(current.tx, n + 1)
    BY <1>1, <1>2, <1>3 DEF Holds
  <1>6. /\ pulled' \in Seq(Changes) /\ Len(pulled') = n + 1
        /\ \A i \in 1 .. Len(pulled) : pulled'[i] = pulled[i]
        /\ pulled'[n + 1] = c[n + 1]
    BY <1>1, <1>2, <1>5, AppendProperties
  <1>7. Types'
    BY <1>1, <1>4, <1>6 DEF Types
  <1>8. OpenInv'
    BY <1>1 DEF OpenInv
  <1>9. PulledInv'
    <2>1. \A i \in 1 .. n + 1 : i \in 1 .. Len(pulled) \/ i = n + 1
      BY <1>2, <1>3
    <2> QED
      BY <1>1, <1>5, <1>6, <2>1 DEF PulledInv
  <1>10. PullInv'
    <2>1. n <= Len(c) /\ n + 1 <= Len(c) /\ pull.read = 0
      BY <1>1, <1>2, <1>3
    <2> QED
      BY <1>1, <1>2, <1>4, <1>6, <2>1 DEF PullInv
  <1>11. FilesInv'
    <2>1. SpoolOf(pull)' = SpoolOf(pull) /\ SpoolOf(transaction)' = SpoolOf(transaction)
      BY <1>1, <1>4 DEF SpoolOf
    <2> QED
      BY <1>1, <2>1 DEF FilesInv
  <1> QED
    BY <1>7, <1>8, <1>9, <1>10, <1>11

(* Its next event is in the spool file.                                    *)
LEMMA FromSpoolStep == ASSUME IInv, NextFromSpool PROVE IInv'
  <1> USE DEF IInv
  <1> DEFINE c == pull.changes
             n == pull.seq
             d == files[pull.spool].data
             r == pull.read
  <1>1. /\ pc = "queue" /\ pull # Nil /\ n >= Len(c) /\ pull.spool # 0 /\ r < Len(d)
        /\ pulled' = Append(pulled, d[r + 1])
        /\ pull' = [pull EXCEPT !.seq = n + 1, !.read = r + 1]
        /\ tx' = tx /\ got' = got /\ transaction' = transaction /\ files' = files /\ pc' = pc
        /\ current' = current /\ drained' = drained /\ exits' = exits
    BY DEF NextFromSpool
  <1>2. /\ pull \in Pulls /\ pulled \in Seq(Changes) /\ current \in Changes
        /\ files \in Seq(Files)
        /\ current.tx # 0 /\ Holds(files, current.tx, current.seq, c, pull.spool)
        /\ n = Len(pulled) /\ r = IF n <= Len(c) THEN 0 ELSE n - Len(c)
    BY <1>1 DEF Types, PullInv
  <1>3. c \in Seq(Changes) /\ n \in Nat /\ r \in Nat /\ pull.spool \in Nat
    BY <1>2 DEF Pulls
  <1>4. /\ pull' # Nil /\ pull' \in Pulls /\ pull'.changes = c /\ pull'.spool = pull.spool
        /\ pull'.read = r + 1 /\ pull'.seq = n + 1
    <2>1. pull' = [changes |-> c, spool |-> pull.spool, read |-> r + 1, seq |-> n + 1]
      BY <1>1, <1>2 DEF Pulls
    <2> HIDE DEF c, n, r
    <2> QED
      BY <1>3, <2>1, PullNotNil DEF Pulls
  <1>5. /\ pull.spool \in 1 .. Len(files)
        /\ \A i \in 1 .. Len(d) : d[i] = Change(current.tx, Len(c) + i)
    BY <1>1, <1>2 DEF Holds
  <1>6. d \in Seq(Changes)
    <2>1. files[pull.spool] \in Files
      BY <1>2, <1>5, ElementOfSeq
    <2> QED
      BY <2>1 DEF Files
  <1> HIDE DEF c, n, d, r
  <1>7. /\ Len(c) \in Nat /\ Len(d) \in Nat /\ r = n - Len(c) /\ r + 1 \in 1 .. Len(d)
        /\ Len(c) + (r + 1) = n + 1
    BY <1>1, <1>2, <1>3, <1>6
  <1>8. d[r + 1] \in Changes /\ d[r + 1] = Change(current.tx, n + 1)
    BY <1>5, <1>6, <1>7
  <1>9. /\ pulled' \in Seq(Changes) /\ Len(pulled') = n + 1
        /\ \A i \in 1 .. Len(pulled) : pulled'[i] = pulled[i]
        /\ pulled'[n + 1] = d[r + 1]
    BY <1>1, <1>2, <1>8, AppendProperties
  <1>10. Types'
    BY <1>1, <1>4, <1>9 DEF Types
  <1>11. OpenInv'
    BY <1>1 DEF OpenInv
  <1>12. PulledInv'
    <2>1. \A i \in 1 .. n + 1 : i \in 1 .. Len(pulled) \/ i = n + 1
      BY <1>2, <1>3
    <2> QED
      BY <1>1, <1>8, <1>9, <2>1 DEF PulledInv
  <1>13. PullInv'
    <2>1. ~ (n + 1 <= Len(c)) /\ r + 1 = (n + 1) - Len(c)
      BY <1>1, <1>3, <1>7
    <2> QED
      BY <1>1, <1>2, <1>4, <1>9, <2>1 DEF PullInv
  <1>14. FilesInv'
    <2>1. SpoolOf(pull)' = SpoolOf(pull) /\ SpoolOf(transaction)' = SpoolOf(transaction)
      BY <1>1, <1>4 DEF SpoolOf
    <2> QED
      BY <1>1, <2>1 DEF FilesInv
  <1> QED
    BY <1>10, <1>11, <1>12, <1>13, <1>14

(* Removing a file.                                                        *)
LEMMA Removed ==
    ASSUME NEW fs \in Seq(Files), NEW f
    PROVE  /\ Remove(fs, f) \in Seq(Files) /\ Len(Remove(fs, f)) = Len(fs)
           /\ \A i \in 1 .. Len(fs) : Remove(fs, f)[i].linked => fs[i].linked /\ i # f
  <1>1. CASE f = 0
    BY <1>1 DEF Remove
  <1>2. CASE f # 0 /\ f \in 1 .. Len(fs)
    <2> DEFINE x == [fs[f] EXCEPT !.linked = FALSE]
    <2>1. x \in Files /\ x.linked = FALSE
      <3>1. fs[f] \in Files
        BY <1>2, ElementOfSeq
      <3> QED
        BY <3>1 DEF Files
    <2>2. Remove(fs, f) = [fs EXCEPT ![f] = x]
      BY <1>2 DEF Remove
    <2> HIDE DEF x
    <2> QED
      BY <1>2, <2>1, <2>2
  <1>3. CASE f # 0 /\ f \notin 1 .. Len(fs)
    <2>1. Remove(fs, f) = fs
      BY <1>3 DEF Remove
    <2> QED
      BY <1>3, <2>1
  <1> QED
    BY <1>1, <1>2, <1>3

(* The pullState cannot be at its end while events are missing: NextEvent  *)
(* only fails when a read does.                                            *)
LEMMA FailsStep == ASSUME IInv, NextFails PROVE IInv'
  <1> USE DEF IInv
  <1>1. /\ pc = "queue" /\ Len(pulled) < current.seq /\ pull # Nil
        /\ pull.seq >= Len(pull.changes)
        /\ files' = Remove(files, pull.spool) /\ pull' = Nil
        /\ tx' = tx /\ got' = got /\ transaction' = transaction
        /\ current' = current /\ pulled' = pulled /\ drained' = drained
    BY DEF NextFails, caller
  <1>2. pull.spool # 0 /\ pull.read < Len(files[pull.spool].data)
    <2> DEFINE c == pull.changes
               d == files[pull.spool].data
               f == pull.spool
               n == pull.seq
               r == pull.read
    <2>1. /\ pull \in Pulls /\ current \in Changes /\ files \in Seq(Files)
          /\ Holds(files, current.tx, current.seq, c, f)
          /\ n = Len(pulled) /\ r = IF n <= Len(c) THEN 0 ELSE n - Len(c)
      BY <1>1 DEF Types, PullInv
    <2>2. c \in Seq(Changes) /\ n \in Nat /\ current.seq \in Nat /\ n >= Len(c) /\ n < current.seq
      BY <1>1, <2>1 DEF Pulls, Changes
    <2>3. /\ f = 0 => current.seq = Len(c)
          /\ f # 0 => f \in 1 .. Len(files) /\ current.seq = Len(c) + Len(d)
      BY <2>1 DEF Holds
    <2>4. f # 0 => d \in Seq(Changes)
      <3>1. f # 0 => files[f] \in Files
        BY <2>1, <2>3, ElementOfSeq
      <3> QED
        BY <3>1 DEF Files
    <2> HIDE DEF c, d, f, n, r
    <2>5. f # 0
      BY <2>2, <2>3
    <2>6. Len(c) \in Nat /\ Len(d) \in Nat /\ r = n - Len(c)
      BY <2>1, <2>2, <2>4, <2>5
    <2>7. r < Len(d)
      BY <2>2, <2>3, <2>5, <2>6
    <2> QED
      BY <2>5, <2>7 DEF c, d, f, n, r
  <1>3. exits' = exits + 1 /\ pc' = "down" /\ exits \in Nat
    BY <1>2 DEF NextFails, Types
  <1>4. files' \in Seq(Files)
    BY <1>1, Removed DEF Types
  <1>5. Types'
    BY <1>1, <1>3, <1>4 DEF Types
  <1>6. OpenInv'
    BY <1>1, <1>3 DEF OpenInv
  <1>7. PulledInv'
    BY <1>1 DEF PulledInv
  <1>8. PullInv'
    BY <1>1 DEF PullInv
  <1>9. FilesInv'
    BY <1>1, <1>3 DEF FilesInv
  <1> QED
    BY <1>5, <1>6, <1>7, <1>8, <1>9

(* The steps of the caller alone.                                          *)
LEMMA CallerStep == ASSUME IInv, NothingToPull \/ Queued PROVE IInv'
  <1> USE DEF IInv
  <1>1. /\ tx' = tx /\ got' = got /\ transaction' = transaction /\ pull' = pull
        /\ files' = files /\ current' = current /\ pulled' = pulled /\ exits' = exits
        /\ pc = "queue"
    BY DEF NothingToPull, Queued, decoder, caller
  <1>2. \/ pc' = "down" /\ pull = Nil /\ drained' = drained
        \/ /\ pc' = "receive"
           /\ drained' = IF pull = Nil \/ pull.spool = 0 THEN drained
                         ELSE drained \cup {pull.spool}
    BY DEF NothingToPull, Queued, caller
  <1>3. Types'
    BY <1>1, <1>2 DEF Types
  <1>4. OpenInv'
    BY <1>1, <1>2 DEF OpenInv
  <1>5. PulledInv'
    BY <1>1 DEF PulledInv
  <1>6. PullInv'
    BY <1>1, <1>2 DEF PullInv
  <1>7. FilesInv'
    <2>1. SpoolOf(pull)' = SpoolOf(pull) /\ SpoolOf(transaction)' = SpoolOf(transaction)
      BY <1>1 DEF SpoolOf
    <2>2. drained \subseteq drained'
      BY <1>2
    <2>3. pc' = "receive" /\ pull # Nil /\ pull.spool # 0 => pull.spool \in drained'
      BY <1>2
    <2> QED
      BY <1>1, <1>2, <2>1, <2>2, <2>3 DEF FilesInv
  <1> QED
    BY <1>3, <1>4, <1>5, <1>6, <1>7

(* A reconnect: both buffers are dropped with their files.                 *)
LEMMA ResetStep == ASSUME IInv, NEW t \in 1 .. tx, Reset(t) PROVE IInv'
  <1> USE DEF IInv
  <1> DEFINE once == Remove(files, SpoolOf(pull))
  <1>1. /\ pc \in {"receive", "queue"} /\ files' = Remove(once, SpoolOf(transaction))
        /\ transaction' = Nil /\ pull' = Nil /\ tx' = t /\ got' = 0
        /\ pc' = pc /\ current' = current /\ pulled' = pulled /\ drained' = drained
        /\ exits' = exits
    BY DEF Reset, caller
  <1>2. files \in Seq(Files) /\ tx \in Nat /\ t \in Nat \ {0}
    BY DEF Types
  <1>3. /\ once \in Seq(Files) /\ Len(once) = Len(files)
        /\ \A i \in 1 .. Len(files) : once[i].linked => files[i].linked /\ i # SpoolOf(pull)
    BY <1>2, Removed
  <1> HIDE DEF once
  <1>4. /\ files' \in Seq(Files) /\ Len(files') = Len(files)
        /\ \A i \in 1 .. Len(files) :
               files'[i].linked => once[i].linked /\ i # SpoolOf(transaction)
    BY <1>1, <1>3, Removed
  <1>5. Types'
    BY <1>1, <1>2, <1>4 DEF Types
  <1>6. OpenInv'
    BY <1>1 DEF OpenInv
  <1>7. PulledInv'
    BY <1>1 DEF PulledInv
  <1>8. PullInv'
    BY <1>1 DEF PullInv
  <1>9. FilesInv'
    <2>1. ASSUME exits = 0, NEW i \in 1 .. Len(files), files'[i].linked
          PROVE  i \in drained
      <3>1. files[i].linked /\ i # SpoolOf(pull) /\ i # SpoolOf(transaction)
        BY <1>3, <1>4, <2>1
      <3> QED
        BY <2>1, <3>1 DEF FilesInv
    <2> QED
      BY <1>1, <1>4, <2>1 DEF FilesInv
  <1> QED
    BY <1>5, <1>6, <1>7, <1>8, <1>9

(* The process is new; the files of the old one stay.                      *)
LEMMA RestartStep == ASSUME IInv, NEW t \in 1 .. tx, Restart(t) PROVE IInv'
  <1> USE DEF IInv
  <1>1. /\ transaction' = Nil /\ pull' = Nil /\ tx' = t /\ got' = 0
        /\ pc' = "receive" /\ current' = Change(0, 0) /\ pulled' = <<>>
        /\ files' = files /\ drained' = drained
        /\ exits' = IF pc \in {"down", "early"} THEN exits ELSE exits + 1
    BY DEF Restart
  <1>2. tx \in Nat /\ t \in Nat \ {0} /\ exits \in Nat
    BY DEF Types
  <1>3. Types'
    BY <1>1, <1>2 DEF Types, Change, Changes
  <1>4. OpenInv'
    BY <1>1 DEF OpenInv
  <1>5. PulledInv'
    BY <1>1, SpoolAssumption DEF PulledInv, Change
  <1>6. PullInv'
    BY <1>1 DEF PullInv
  <1>7. FilesInv'
    <2>1. ASSUME exits' = 0 PROVE exits = 0 /\ pc = "down"
      BY <1>1, <1>2, <2>1 DEF Types
    <2>2. ASSUME exits' = 0 PROVE SpoolOf(transaction) = 0 /\ SpoolOf(pull) = 0
      BY <2>1, <2>2 DEF OpenInv, FilesInv, SpoolOf
    <2>3. \A i \in 1 .. Len(files) : i # 0
      OBVIOUS
    <2> QED
      BY <1>1, <2>1, <2>2, <2>3 DEF FilesInv
  <1> QED
    BY <1>3, <1>4, <1>5, <1>6, <1>7

(* The invariant is inductive.                                             *)
LEMMA StepInv == IInv /\ [Next]_vars => IInv'
  <1> SUFFICES ASSUME IInv, [Next]_vars PROVE IInv'
    OBVIOUS
  <1>1. CASE UNCHANGED vars
    BY <1>1 DEF vars, IInv, Types, OpenInv, PulledInv, PullInv, FilesInv, SpoolOf
  <1>2. CASE Begin \/ AppendChange \/ Commit
    BY <1>2, BeginStep, AppendStep, CommitStep
  <1>3. CASE NextFromMemory \/ NextFromSpool \/ NextFails \/ NothingToPull \/ Queued
    BY <1>3, FromMemoryStep, FromSpoolStep, FailsStep, CallerStep
  <1>4. CASE \E t \in 1 .. tx : Reset(t) \/ Restart(t)
    BY <1>4, ResetStep, RestartStep
  <1>5. CASE Idle
    BY <1>1, <1>5 DEF Idle
  <1> QED
    BY <1>1, <1>2, <1>3, <1>4, <1>5 DEF Next

(* The inductive invariant holds in every reachable state.                 *)
THEOREM SpoolInvariance == Spec => []IInv
  BY InitInv, StepInv, PTL DEF Spec

(* What queueTransactionEvents pulls is the announced transaction, from    *)
(* its first row change on and in order, and Count is its size.            *)
THEOREM SpoolOrder == Spec => []PulledInOrder
  <1>1. IInv => PulledInOrder
    BY DEF IInv, PulledInv, PulledInOrder
  <1> QED
    BY <1>1, SpoolInvariance, PTL

(* "transaction %d ended early" is unreachable.                            *)
THEOREM SpoolComplete == Spec => []NeverEndsEarly
  <1>1. IInv => NeverEndsEarly
    BY DEF IInv, Types, NeverEndsEarly
  <1> QED
    BY <1>1, SpoolInvariance, PTL

(* Reset removes the files of both buffers: a process that has not exited  *)
(* owns every file it left on disk, or has pulled it to its end.           *)
THEOREM SpoolFilesOwned == Spec => []ResetLeavesNoSpool
  <1>1. IInv => ResetLeavesNoSpool
    BY DEF IInv, FilesInv, ResetLeavesNoSpool
  <1> QED
    BY <1>1, SpoolInvariance, PTL
=============================================================================
