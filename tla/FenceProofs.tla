---------------------------- MODULE FenceProofs ----------------------------
(***************************************************************************)
(* Proofs about Fence, for any number of readers, transactions and faults: *)
(* the fence admits one reader as long as its connection stands, and when  *)
(* it falls, the slot is still confirmed only up to what Kafka holds.      *)
(***************************************************************************)
EXTENDS Fence, SequenceTheorems, TLAPS

InLog(l, t, k) == \E i \in 1 .. Len(l) : l[i] = [tx |-> t, seq |-> k]
Done(l, t) == \A s \in 1 .. t : \A k \in 1 .. Wal[s] : InLog(l, s, k)

Records == [tx : 1 .. Len(Wal), seq : Nat]

(***************************************************************************)
(* The inductive invariant.                                                *)
(***************************************************************************)

(* TypeOK, with the sequences.                                             *)
Types ==
    /\ lock \in Readers \cup {Nobody} /\ active \in Readers \cup {Nobody}
    /\ slot \in BOOLEAN /\ confirmed \in 0 .. Len(Wal)
    /\ pc \in [Readers -> {"down", "find", "create", "dial", "stream", "reconnect"}]
    /\ found \in [Readers -> BOOLEAN]
    /\ durable \in [Readers -> 0 .. Len(Wal)] /\ sent \in [Readers -> 0 .. Len(Wal)]
    /\ log \in Seq(Records) /\ held \in [Readers -> Seq(Records)]
    /\ exits \in 0 .. MaxExits /\ fenceDrops \in 0 .. MaxFenceDrops
    /\ streamDrops \in 0 .. MaxStreamDrops

(* A reader that is up has the lock, until a fence connection fails.       *)
LockInv == fenceDrops = 0 => \A r \in Readers : pc[r] # "down" => lock = r

(* How many events of the transaction in hand are produced.                *)
Produced(r) == Wal[sent[r]] - Len(held[r])

(* What a reader holds are the last events of the transaction it was sent  *)
(* last; it leaves the stream only with empty hands.                       *)
HeldInv ==
    \A r \in Readers : held[r] # <<>> =>
        /\ pc[r] = "stream" /\ sent[r] >= 1 /\ Produced(r) \in Nat
        /\ \A i \in 1 .. Len(held[r]) :
               held[r][i] = [tx |-> sent[r], seq |-> Produced(r) + i]

(* Everything before it is in the topic, whoever put it there.             *)
PublishedInv ==
    \A r \in Readers :
        /\ held[r] # <<>> =>
              /\ Done(log, sent[r] - 1)
              /\ \A k \in 1 .. Produced(r) : InLog(log, sent[r], k)
        /\ pc[r] = "stream" /\ held[r] = <<>> => Done(log, sent[r])

(* So is what the slot and any reader, a late one too, considers durable.  *)
DurableInv == Done(log, confirmed) /\ \A r \in Readers : Done(log, durable[r])

IInv == Types /\ LockInv /\ HeldInv /\ PublishedInv /\ DurableInv

-----------------------------------------------------------------------------
(* A log that grows keeps what it had.                                     *)
LEMMA LogGrows ==
    ASSUME NEW l \in Seq(Records), NEW e \in Records
    PROVE  /\ \A t, k : InLog(l, t, k) => InLog(Append(l, e), t, k)
           /\ InLog(Append(l, e), e.tx, e.seq)
           /\ \A t : Done(l, t) => Done(Append(l, e), t)
  <1>1. Len(Append(l, e)) = Len(l) + 1 /\ Append(l, e)[Len(l) + 1] = e
    OBVIOUS
  <1>2. \A i \in 1 .. Len(l) : Append(l, e)[i] = l[i]
    OBVIOUS
  <1>3. Len(l) \in Nat /\ e = [tx |-> e.tx, seq |-> e.seq]
    BY DEF Records
  <1>4. \A t, k : InLog(l, t, k) => InLog(Append(l, e), t, k)
    BY <1>1, <1>2, <1>3 DEF InLog
  <1>5. InLog(Append(l, e), e.tx, e.seq)
    BY <1>1, <1>3 DEF InLog
  <1>6. \A t : Done(l, t) => Done(Append(l, e), t)
    BY <1>4 DEF Done
  <1> QED
    BY <1>4, <1>5, <1>6

(* A transaction whose events are in the log completes the ones before it. *)
LEMMA DoneNext ==
    ASSUME NEW l, NEW t \in Nat \ {0}, Done(l, t - 1),
           \A k \in 1 .. Wal[t] : InLog(l, t, k)
    PROVE  Done(l, t)
  <1>1. \A s \in 1 .. t : s \in 1 .. t - 1 \/ s = t
    OBVIOUS
  <1> QED
    BY <1>1 DEF Done

(* What the source has committed.                                          *)
LEMMA WalFacts == Len(Wal) \in Nat /\ \A t \in 1 .. Len(Wal) : Wal[t] \in Nat \ {0}
  BY FenceAssumption, ElementOfSeq

-----------------------------------------------------------------------------
(* A step that leaves log and hands alone and starts no stream.            *)
LEMMA Bystander ==
    ASSUME IInv, UNCHANGED <<log, sent, held>>, NEW r \in Readers,
           \A s \in Readers : s # r => pc'[s] = pc[s],
           pc'[r] = "stream" => pc[r] = "stream",
           held[r] # <<>> => pc'[r] = "stream",
           \A s \in Readers : durable'[s] = durable[s] \/ durable'[s] = confirmed,
           confirmed' = confirmed \/ \E s \in Readers : confirmed' = durable[s]
    PROVE  HeldInv' /\ PublishedInv' /\ DurableInv'
  <1>1. \A s \in Readers : Produced(s)' = Produced(s)
    BY DEF Produced
  <1>2. \A s \in Readers : held[s] # <<>> => pc'[s] = "stream"
    BY DEF IInv, HeldInv
  <1>3. \A s \in Readers : pc'[s] = "stream" => pc[s] = "stream"
    OBVIOUS
  <1>4. HeldInv'
    BY <1>1, <1>2 DEF IInv, HeldInv
  <1>5. PublishedInv'
    BY <1>1, <1>3 DEF IInv, PublishedInv
  <1>6. DurableInv'
    BY DEF IInv, DurableInv
  <1> QED
    BY <1>4, <1>5, <1>6

(* What the end of a process leaves satisfies the invariant.               *)
LEMMA EndStep ==
    ASSUME IInv, NEW r \in Readers, Ends(r),
           exits' \in 0 .. MaxExits, UNCHANGED <<fenceDrops, streamDrops>>
    PROVE  IInv'
  <1> USE DEF Ends, Goto, Freed
  <1>1. Types'
    <2>1. held' \in [Readers -> Seq(Records)]
      BY DEF IInv, Types
    <2>2. lock' \in Readers \cup {Nobody} /\ active' \in Readers \cup {Nobody}
      BY DEF IInv, Types
    <2>3. pc' \in [Readers -> {"down", "find", "create", "dial", "stream", "reconnect"}]
      BY DEF IInv, Types
    <2> QED
      BY <2>1, <2>2, <2>3 DEF IInv, Types
  <1>2. LockInv'
    BY DEF IInv, Types, LockInv
  <1>3. /\ held'[r] = <<>> /\ pc'[r] = "down"
        /\ \A s \in Readers : s # r => held'[s] = held[s] /\ pc'[s] = pc[s]
    BY DEF IInv, Types
  <1>4. \A s \in Readers : held'[s] = held[s] => Produced(s)' = Produced(s)
    BY DEF Produced
  <1>5. HeldInv'
    BY <1>3, <1>4 DEF IInv, HeldInv
  <1>6. PublishedInv'
    BY <1>3, <1>4 DEF IInv, PublishedInv
  <1>7. DurableInv'
    BY DEF IInv, DurableInv
  <1> QED
    BY <1>1, <1>2, <1>5, <1>6, <1>7 DEF IInv

(* acquireFence: with the fence intact nobody else was up.                 *)
LEMMA AcquireStep ==
    ASSUME IInv, NEW r \in Readers, AcquireFence(r)
    PROVE  IInv'
  <1> USE DEF AcquireFence, Goto, stream, budgets
  <1>1. Types'
    BY DEF IInv, Types
  <1>2. LockInv'
    <2> SUFFICES ASSUME fenceDrops = 0, NEW s \in Readers, pc'[s] # "down"
                 PROVE  s = r
      BY DEF LockInv
    <2>1. s # r => pc[s] # "down"
      BY DEF IInv, Types
    <2>2. lock = Nobody /\ Nobody \notin Readers
      BY FenceAssumption
    <2> QED
      BY <2>1, <2>2 DEF IInv, LockInv
  <1>3. HeldInv' /\ PublishedInv' /\ DurableInv'
    <2>1. pc'[r] = "find" /\ \A s \in Readers : s # r => pc'[s] = pc[s]
      BY DEF IInv, Types
    <2>2. held[r] = <<>>
      BY DEF IInv, HeldInv
    <2> QED
      BY <2>1, <2>2, Bystander
  <1> QED
    BY <1>1, <1>2, <1>3 DEF IInv

(* findSlotLSN: the reader takes the slot's position for its own.          *)
LEMMA FindStep ==
    ASSUME IInv, NEW r \in Readers, FindSlot(r)
    PROVE  IInv'
  <1> USE DEF FindSlot, Goto, server, budgets
  <1>1. Types'
    BY DEF IInv, Types
  <1>2. LockInv'
    BY DEF IInv, Types, LockInv
  <1>3. HeldInv' /\ PublishedInv' /\ DurableInv'
    <2>1. pc'[r] = "create" /\ \A s \in Readers : s # r => pc'[s] = pc[s]
      BY DEF IInv, Types
    <2>2. held[r] = <<>>
      BY DEF IInv, HeldInv
    <2>3. \A s \in Readers : durable'[s] = durable[s] \/ durable'[s] = confirmed
      BY DEF IInv, Types
    <2> QED
      BY <2>1, <2>2, <2>3, Bystander
  <1> QED
    BY <1>1, <1>2, <1>3 DEF IInv

(* createReplicationSlot, or the exit when the slot is there already.      *)
LEMMA CreateStep ==
    ASSUME IInv, NEW r \in Readers, CreateReplicationSlot(r)
    PROVE  IInv'
  <1>1. CASE ~found[r] /\ slot
    <2>1. Ends(r) /\ UNCHANGED budgets
      BY <1>1 DEF CreateReplicationSlot
    <2>2. exits' \in 0 .. MaxExits /\ UNCHANGED <<fenceDrops, streamDrops>>
      BY <2>1 DEF budgets, IInv, Types
    <2> QED
      BY <2>1, <2>2, EndStep
  <1>2. CASE ~(~found[r] /\ slot)
    <2>1. /\ pc[r] = "create" /\ slot' = TRUE /\ pc' = [pc EXCEPT ![r] = "dial"]
          /\ UNCHANGED <<lock, active, confirmed, log, found, durable, sent, held,
                         exits, fenceDrops, streamDrops>>
      BY <1>2 DEF CreateReplicationSlot, Goto, stream, budgets
    <2>2. Types'
      BY <2>1 DEF IInv, Types
    <2>3. LockInv'
      BY <2>1 DEF IInv, Types, LockInv
    <2>4. pc'[r] = "dial" /\ \A s \in Readers : s # r => pc'[s] = pc[s]
      BY <2>1 DEF IInv, Types
    <2>5. held[r] = <<>>
      BY <2>1 DEF IInv, HeldInv
    <2>6. HeldInv' /\ PublishedInv' /\ DurableInv'
      BY <2>1, <2>4, <2>5, Bystander
    <2> QED
      BY <2>2, <2>3, <2>6 DEF IInv
  <1> QED
    BY <1>1, <1>2

(* dialReplication: the stream starts at a position that is in the topic.  *)
LEMMA DialStep ==
    ASSUME IInv, NEW r \in Readers, DialReplication(r)
    PROVE  IInv'
  <1> USE DEF DialReplication, Goto, budgets
  <1>1. sent'[r] \in {confirmed, durable[r]} /\ sent' \in [Readers -> 0 .. Len(Wal)]
    BY DEF IInv, Types
  <1>2. Types'
    BY <1>1 DEF IInv, Types
  <1>3. LockInv'
    BY DEF IInv, Types, LockInv
  <1>4. /\ pc'[r] = "stream" /\ pc[r] # "stream" /\ UNCHANGED <<log, held, durable, confirmed>>
        /\ \A s \in Readers : s # r => pc'[s] = pc[s] /\ sent'[s] = sent[s]
    BY DEF IInv, Types
  <1>5. held[r] = <<>>
    BY <1>4 DEF IInv, HeldInv
  <1>6. \A s \in Readers : s # r => Produced(s)' = Produced(s)
    BY <1>4 DEF Produced
  <1>7. HeldInv'
    BY <1>4, <1>5, <1>6 DEF IInv, HeldInv
  <1>8. Done(log', sent'[r])
    BY <1>1, <1>4 DEF IInv, DurableInv
  <1>9. PublishedInv'
    BY <1>4, <1>5, <1>6, <1>8 DEF IInv, PublishedInv
  <1>10. DurableInv'
    BY <1>4 DEF IInv, DurableInv
  <1> QED
    BY <1>2, <1>3, <1>7, <1>9, <1>10 DEF IInv

(* stream: the next transaction is in hand, none of it produced.           *)
LEMMA ReceiveStep ==
    ASSUME IInv, NEW r \in Readers, Receive(r)
    PROVE  IInv'
  <1> DEFINE t == sent[r] + 1
             events == [k \in 1 .. Wal[t] |-> [tx |-> t, seq |-> k]]
  <1>1. /\ pc[r] = "stream" /\ held[r] = <<>>
        /\ sent' = [sent EXCEPT ![r] = t] /\ held' = [held EXCEPT ![r] = events]
        /\ UNCHANGED <<lock, slot, active, confirmed, log, pc, found, durable,
                       exits, fenceDrops, streamDrops>>
    BY DEF Receive, T!Record, server, budgets
  <1>2. t \in 1 .. Len(Wal)
    BY WalFacts DEF Receive, IInv, Types
  <1>3. Wal[t] \in Nat \ {0}
    BY <1>2, WalFacts
  <1>4. events \in Seq(Records) /\ Len(events) = Wal[t]
    <2>1. events \in [1 .. Wal[t] -> Records]
      BY <1>2, <1>3 DEF Records
    <2> HIDE DEF events
    <2> QED
      BY <1>3, <2>1
  <1>5. /\ sent'[r] = t /\ held'[r] = events
        /\ \A s \in Readers : s # r => sent'[s] = sent[s] /\ held'[s] = held[s]
    BY <1>1 DEF IInv, Types
  <1>6. Types'
    <2>1. sent' \in [Readers -> 0 .. Len(Wal)]
      <3>1. sent \in [Readers -> 0 .. Len(Wal)]
        BY DEF IInv, Types
      <3>2. t \in 0 .. Len(Wal)
        BY <1>2, WalFacts
      <3> HIDE DEF t
      <3> QED
        BY <1>1, <3>1, <3>2
    <2>2. held' \in [Readers -> Seq(Records)]
      <3> HIDE DEF events
      <3> QED
        BY <1>1, <1>4 DEF IInv, Types
    <2> QED
      BY <1>1, <2>1, <2>2 DEF IInv, Types
  <1>7. LockInv'
    BY <1>1 DEF IInv, LockInv
  <1>8. /\ Produced(r)' = 0
        /\ \A s \in Readers : s # r => Produced(s)' = Produced(s)
    BY <1>3, <1>4, <1>5 DEF Produced
  <1>9. HeldInv'
    <2>1. pc'[r] = "stream" /\ sent'[r] >= 1 /\ Produced(r)' \in Nat
      BY <1>1, <1>2, <1>5, <1>8
    <2>2. \A i \in 1 .. Len(held'[r]) :
              held'[r][i] = [tx |-> sent'[r], seq |-> Produced(r)' + i]
      BY <1>3, <1>4, <1>5, <1>8
    <2> HIDE DEF events, t
    <2>3. \A s \in Readers : s # r => pc'[s] = pc[s]
      BY <1>1
    <2>4. \A s \in Readers : s # r /\ held'[s] # <<>> =>
              /\ pc'[s] = "stream" /\ sent'[s] >= 1 /\ Produced(s)' \in Nat
              /\ \A i \in 1 .. Len(held'[s]) :
                     held'[s][i] = [tx |-> sent'[s], seq |-> Produced(s)' + i]
      BY <1>5, <1>8, <2>3 DEF IInv, HeldInv
    <2> QED
      BY <2>1, <2>2, <2>4 DEF HeldInv
  <1>10. PublishedInv'
    <2>1. Done(log', sent'[r] - 1)
      <3>1. Done(log, sent[r])
        BY <1>1 DEF IInv, PublishedInv
      <3>2. sent'[r] - 1 = sent[r]
        BY <1>5 DEF IInv, Types
      <3> QED
        BY <1>1, <3>1, <3>2
    <2>2. \A k \in 1 .. Produced(r)' : InLog(log', sent'[r], k)
      BY <1>8
    <2>3. held'[r] # <<>>
      BY <1>3, <1>4, <1>5
    <2> QED
      BY <1>1, <1>5, <1>8, <2>1, <2>2, <2>3 DEF IInv, PublishedInv
  <1>11. DurableInv'
    BY <1>1 DEF IInv, DurableInv
  <1> QED
    BY <1>6, <1>7, <1>9, <1>10, <1>11 DEF IInv

(* What a reader produces next: all that comes before it is in the topic.  *)
LEMMA HeadFacts ==
    ASSUME IInv, NEW r \in Readers, held[r] # <<>>
    PROVE  /\ Head(held[r]) = [tx |-> sent[r], seq |-> Produced(r) + 1]
           /\ Head(held[r]) \in Records /\ Tail(held[r]) \in Seq(Records)
           /\ Len(Tail(held[r])) = Len(held[r]) - 1
           /\ sent[r] \in 1 .. Len(Wal) /\ Produced(r) + 1 \in 1 .. Wal[sent[r]]
           /\ Wal[sent[r]] \in Nat
  <1>1. held[r] \in Seq(Records) /\ Len(held[r]) \in Nat \ {0}
    <2>1. held[r] \in Seq(Records)
      BY DEF IInv, Types
    <2> QED
      BY <2>1, EmptySeq
  <1>2. sent[r] \in 1 .. Len(Wal) /\ Wal[sent[r]] \in Nat
    <2>1. sent[r] \in 0 .. Len(Wal)
      BY DEF IInv, Types
    <2>2. sent[r] >= 1
      BY DEF IInv, HeldInv
    <2> QED
      BY <2>1, <2>2, WalFacts
  <1>3. Produced(r) \in Nat /\ held[r][1] = [tx |-> sent[r], seq |-> Produced(r) + 1]
    BY <1>1 DEF IInv, HeldInv
  <1>4. Head(held[r]) = held[r][1] /\ Head(held[r]) \in Records
        /\ Tail(held[r]) \in Seq(Records) /\ Len(Tail(held[r])) = Len(held[r]) - 1
    BY <1>1
  <1>5. Produced(r) + 1 <= Wal[sent[r]]
    BY <1>1, <1>2 DEF Produced
  <1> QED
    BY <1>2, <1>3, <1>4, <1>5

(* publishTransactionEvent: the log grows by the head of what is held.     *)
LEMMA ProduceStep ==
    ASSUME IInv, NEW r \in Readers, Produce(r)
    PROVE  IInv'
  <1> DEFINE e == Head(held[r])
  <1>1. /\ held[r] # <<>> /\ log' = Append(log, e)
        /\ durable' = (IF e.seq = Wal[e.tx] THEN [durable EXCEPT ![r] = e.tx] ELSE durable)
        /\ held' = [held EXCEPT ![r] = Tail(held[r])]
        /\ UNCHANGED <<lock, slot, active, confirmed, pc, found, sent,
                       exits, fenceDrops, streamDrops>>
    BY DEF Produce, server, budgets
  <1>2. /\ e = [tx |-> sent[r], seq |-> Produced(r) + 1] /\ e \in Records
        /\ Tail(held[r]) \in Seq(Records) /\ Len(Tail(held[r])) = Len(held[r]) - 1
        /\ sent[r] \in 1 .. Len(Wal) /\ Produced(r) + 1 \in 1 .. Wal[sent[r]]
        /\ Wal[sent[r]] \in Nat
    BY <1>1, HeadFacts
  <1>3. e.tx = sent[r] /\ e.seq = Produced(r) + 1
    BY <1>2
  <1>4. log \in Seq(Records) /\ held[r] \in Seq(Records) /\ Len(held[r]) \in Nat \ {0}
    BY <1>1 DEF IInv, Types
  <1> HIDE DEF e
  <1>5. /\ log' \in Seq(Records)
        /\ \A t, k : InLog(log, t, k) => InLog(log', t, k)
        /\ InLog(log', e.tx, e.seq)
        /\ \A t : Done(log, t) => Done(log', t)
    BY <1>1, <1>2, <1>4, LogGrows
  <1>6. /\ held'[r] = Tail(held[r])
        /\ \A s \in Readers : s # r => held'[s] = held[s] /\ durable'[s] = durable[s]
    BY <1>1 DEF IInv, Types
  <1>7. Types'
    <2>1. durable' \in [Readers -> 0 .. Len(Wal)]
      BY <1>1, <1>2, <1>3 DEF IInv, Types
    <2>2. held' \in [Readers -> Seq(Records)]
      BY <1>1, <1>2 DEF IInv, Types
    <2> QED
      BY <1>1, <1>5, <2>1, <2>2 DEF IInv, Types
  <1>8. LockInv'
    BY <1>1 DEF IInv, LockInv
  <1>9. /\ Produced(r)' = Produced(r) + 1 /\ Produced(r) \in Nat
        /\ \A s \in Readers : s # r => Produced(s)' = Produced(s)
    <2>1. Produced(r) \in Nat
      BY <1>1 DEF IInv, HeldInv
    <2>2. sent' = sent
      BY <1>1
    <2>3. Wal[sent[r]] - (Len(held[r]) - 1) = Wal[sent[r]] - Len(held[r]) + 1
      BY <1>2, <1>4
    <2> QED
      BY <1>2, <1>6, <2>1, <2>2, <2>3 DEF Produced
  <1>10. HeldInv'
    <2>1. \A i \in 1 .. Len(held'[r]) :
              held'[r][i] = [tx |-> sent'[r], seq |-> Produced(r)' + i]
      <3> SUFFICES ASSUME NEW i \in 1 .. Len(held'[r])
                   PROVE  held'[r][i] = [tx |-> sent'[r], seq |-> Produced(r)' + i]
        OBVIOUS
      <3>1. i + 1 \in 1 .. Len(held[r]) /\ Tail(held[r])[i] = held[r][i + 1]
        BY <1>2, <1>4, <1>6
      <3>2. held[r][i + 1] = [tx |-> sent[r], seq |-> Produced(r) + (i + 1)]
        BY <1>1, <3>1 DEF IInv, HeldInv
      <3>3. Produced(r) + (i + 1) = Produced(r)' + i
        BY <1>2, <1>6, <1>9
      <3> QED
        BY <1>1, <1>6, <3>1, <3>2, <3>3
    <2>2. pc'[r] = "stream" /\ sent'[r] >= 1 /\ Produced(r)' \in Nat
      BY <1>1, <1>9 DEF IInv, HeldInv
    <2>3. \A s \in Readers : pc'[s] = pc[s] /\ sent'[s] = sent[s]
      BY <1>1
    <2>4. \A s \in Readers : s # r /\ held'[s] # <<>> =>
              /\ pc'[s] = "stream" /\ sent'[s] >= 1 /\ Produced(s)' \in Nat
              /\ \A i \in 1 .. Len(held'[s]) :
                     held'[s][i] = [tx |-> sent'[s], seq |-> Produced(s)' + i]
      BY <1>6, <1>9, <2>3 DEF IInv, HeldInv
    <2> QED
      BY <2>1, <2>2, <2>4 DEF HeldInv
  <1>11. \A k \in 1 .. Produced(r)' : InLog(log', sent[r], k)
    <2> SUFFICES ASSUME NEW k \in 1 .. Produced(r)' PROVE InLog(log', sent[r], k)
      OBVIOUS
    <2>1. k \in 1 .. Produced(r) \/ k = Produced(r) + 1
      BY <1>9
    <2>2. k \in 1 .. Produced(r) => InLog(log, sent[r], k)
      BY <1>1 DEF IInv, PublishedInv
    <2> QED
      BY <1>3, <1>5, <2>1, <2>2
  <1>12. Done(log, sent[r] - 1) /\ Done(log', sent[r] - 1)
    BY <1>1, <1>5 DEF IInv, PublishedInv
  <1>13. Produced(r)' = Wal[sent[r]] => Done(log', sent[r])
    BY <1>2, <1>11, <1>12, DoneNext
  <1>14. PublishedInv'
    <2>1. held'[r] = <<>> => Produced(r)' = Wal[sent[r]]
      <3> SUFFICES ASSUME held'[r] = <<>> PROVE Produced(r)' = Wal[sent[r]]
        OBVIOUS
      <3>1. Len(Tail(held[r])) = 0
        BY <1>6, EmptySeq
      <3>2. Len(held[r]) = 1
        BY <1>2, <1>4, <3>1
      <3>3. Produced(r) = Wal[sent[r]] - 1
        BY <3>2 DEF Produced
      <3> QED
        BY <1>2, <1>9, <3>3
    <2>2. \A s \in Readers : pc'[s] = pc[s] /\ sent'[s] = sent[s]
      BY <1>1
    <2>3. \A s \in Readers : s # r =>
              /\ held'[s] # <<>> => /\ Done(log', sent'[s] - 1)
                                    /\ \A k \in 1 .. Produced(s)' : InLog(log', sent'[s], k)
              /\ pc'[s] = "stream" /\ held'[s] = <<>> => Done(log', sent'[s])
      BY <1>5, <1>6, <1>9, <2>2 DEF IInv, PublishedInv
    <2>4. /\ held'[r] # <<>> => /\ Done(log', sent'[r] - 1)
                                /\ \A k \in 1 .. Produced(r)' : InLog(log', sent'[r], k)
          /\ pc'[r] = "stream" /\ held'[r] = <<>> => Done(log', sent'[r])
      BY <1>11, <1>12, <1>13, <2>1, <2>2
    <2> QED
      BY <2>3, <2>4 DEF PublishedInv
  <1>15. DurableInv'
    <2>1. Done(log', confirmed') /\ \A s \in Readers : Done(log', durable[s])
      BY <1>1, <1>5 DEF IInv, DurableInv
    <2>2. e.seq = Wal[e.tx] => Done(log', e.tx)
      BY <1>3, <1>9, <1>13
    <2>3. durable'[r] = durable[r] \/ (e.seq = Wal[e.tx] /\ durable'[r] = e.tx)
      BY <1>1 DEF IInv, Types
    <2> QED
      BY <1>6, <2>1, <2>2, <2>3 DEF DurableInv
  <1> QED
    BY <1>7, <1>8, <1>10, <1>14, <1>15 DEF IInv

(* sendStandby reports a durable position.                                 *)
LEMMA StandbyStep ==
    ASSUME IInv, NEW r \in Readers, SendStandby(r)
    PROVE  IInv'
  <1> USE DEF SendStandby, stream, budgets
  <1>1. Types'
    BY DEF IInv, Types
  <1>2. LockInv'
    BY DEF IInv, LockInv
  <1>3. held[r] # <<>> => pc'[r] = "stream"
    OBVIOUS
  <1>4. HeldInv' /\ PublishedInv' /\ DurableInv'
    BY <1>3, Bystander
  <1> QED
    BY <1>1, <1>2, <1>4 DEF IInv

(* ReceiveMessage fails: the reader leaves the stream with empty hands.    *)
LEMMA ReceiveErrorStep ==
    ASSUME IInv, NEW r \in Readers, ReceiveError(r)
    PROVE  IInv'
  <1> USE DEF ReceiveError, Goto, server, stream, budgets
  <1>1. Types'
    BY DEF IInv, Types
  <1>2. LockInv'
    BY DEF IInv, Types, LockInv
  <1>3. pc'[r] = "reconnect" /\ \A s \in Readers : s # r => pc'[s] = pc[s]
    BY DEF IInv, Types
  <1>4. HeldInv' /\ PublishedInv' /\ DurableInv'
    BY <1>3, Bystander
  <1> QED
    BY <1>1, <1>2, <1>4 DEF IInv

(* A connection fails: the lock or the slot is free.                       *)
LEMMA DropStep ==
    ASSUME IInv, NEW r \in Readers, FenceDrops(r) \/ StreamDrops(r)
    PROVE  IInv'
  <1> USE DEF FenceDrops, StreamDrops, stream
  <1>1. Types'
    <2>1. fenceDrops' \in 0 .. MaxFenceDrops /\ streamDrops' \in 0 .. MaxStreamDrops
      <3>1. /\ fenceDrops \in 0 .. MaxFenceDrops /\ MaxFenceDrops \in Nat
            /\ streamDrops \in 0 .. MaxStreamDrops /\ MaxStreamDrops \in Nat
        BY FenceAssumption DEF IInv, Types
      <3>2. /\ fenceDrops' = fenceDrops
               \/ (fenceDrops < MaxFenceDrops /\ fenceDrops' = fenceDrops + 1)
            /\ streamDrops' = streamDrops
               \/ (streamDrops < MaxStreamDrops /\ streamDrops' = streamDrops + 1)
        OBVIOUS
      <3> QED
        BY <3>1, <3>2
    <2>2. lock' \in Readers \cup {Nobody} /\ active' \in Readers \cup {Nobody}
      BY DEF IInv, Types
    <2>3. UNCHANGED <<slot, confirmed, log, pc, found, durable, sent, held, exits>>
      OBVIOUS
    <2> QED
      BY <2>1, <2>2, <2>3 DEF IInv, Types
  <1>2. LockInv'
    BY DEF IInv, Types, LockInv
  <1>3. held[r] # <<>> => pc'[r] = "stream"
    BY DEF IInv, HeldInv
  <1>4. HeldInv' /\ PublishedInv' /\ DurableInv'
    BY <1>3, Bystander
  <1> QED
    BY <1>1, <1>2, <1>4 DEF IInv

(* A refused dial and an exit end the process.                             *)
LEMMA StopStep ==
    ASSUME IInv, NEW r \in Readers, DialRefused(r) \/ Exit(r)
    PROVE  IInv'
  <1>1. Ends(r) /\ UNCHANGED <<fenceDrops, streamDrops>>
    BY DEF DialRefused, Exit, budgets
  <1>2. exits' \in 0 .. MaxExits
    <2>1. exits \in 0 .. MaxExits /\ MaxExits \in Nat
      BY FenceAssumption DEF IInv, Types
    <2>2. exits' = exits \/ (exits < MaxExits /\ exits' = exits + 1)
      BY DEF DialRefused, Exit, budgets
    <2> QED
      BY <2>1, <2>2
  <1> QED
    BY <1>1, <1>2, EndStep

-----------------------------------------------------------------------------
(* No reader is up, and nothing is published.                              *)
LEMMA InitInv == Init => IInv
  <1> SUFFICES ASSUME Init PROVE IInv
    OBVIOUS
  <1> USE DEF Init
  <1>1. Types
    <2>1. 0 \in 0 .. Len(Wal)
      BY WalFacts
    <2>2. 0 \in 0 .. MaxExits /\ 0 \in 0 .. MaxFenceDrops /\ 0 \in 0 .. MaxStreamDrops
      BY FenceAssumption
    <2>3. log \in Seq(Records) /\ held \in [Readers -> Seq(Records)]
      BY EmptySeq
    <2> QED
      BY <2>1, <2>2, <2>3 DEF Types
  <1>2. LockInv /\ HeldInv
    BY DEF LockInv, HeldInv
  <1>3. \A l : Done(l, 0)
    BY DEF Done
  <1>4. PublishedInv /\ DurableInv
    BY <1>3 DEF PublishedInv, DurableInv
  <1> QED
    BY <1>1, <1>2, <1>4 DEF IInv

LEMMA NextInv == IInv /\ [Next]_vars => IInv'
  <1> SUFFICES ASSUME IInv, [Next]_vars PROVE IInv'
    OBVIOUS
  <1>1. ASSUME NEW r \in Readers, Work(r) PROVE IInv'
    BY <1>1, AcquireStep, FindStep, CreateStep, DialStep, StopStep, ReceiveStep,
       ProduceStep, ReceiveErrorStep DEF Work
  <1>2. ASSUME NEW r \in Readers,
               SendStandby(r) \/ FenceDrops(r) \/ StreamDrops(r) \/ Exit(r)
        PROVE  IInv'
    BY <1>2, StandbyStep, DropStep, StopStep
  <1>3. CASE UNCHANGED vars
    <2>1. Types' /\ LockInv'
      BY <1>3 DEF vars, IInv, Types, LockInv
    <2>2. \A s \in Readers : Produced(s)' = Produced(s)
      BY <1>3 DEF vars, Produced
    <2>3. HeldInv' /\ PublishedInv'
      BY <1>3, <2>2 DEF vars, IInv, HeldInv, PublishedInv
    <2>4. DurableInv'
      BY <1>3 DEF vars, IInv, DurableInv
    <2> QED
      BY <2>1, <2>3, <2>4 DEF IInv
  <1> QED
    BY <1>1, <1>2, <1>3 DEF Next

LEMMA Invariance == Spec => []IInv
  BY InitInv, NextInv, PTL DEF Spec

-----------------------------------------------------------------------------
(* Every variable has its type, and what a reader holds was sent to it.    *)
THEOREM FenceTypes == Spec => []TypeOK
  <1>1. IInv => TypeOK
    <2> SUFFICES ASSUME IInv PROVE TypeOK
      OBVIOUS
    <2>1. \A r \in Readers : \A i \in DOMAIN held[r] : held[r][i].tx \in 1 .. sent[r]
      <3> SUFFICES ASSUME NEW r \in Readers, NEW i \in DOMAIN held[r]
                   PROVE  held[r][i].tx \in 1 .. sent[r]
        OBVIOUS
      <3>1. held[r] \in Seq(Records) /\ sent[r] \in Nat
        BY DEF IInv, Types
      <3>2. i \in 1 .. Len(held[r]) /\ held[r] # <<>>
        BY <3>1
      <3>3. held[r][i] = [tx |-> sent[r], seq |-> Produced(r) + i] /\ sent[r] >= 1
        BY <3>2 DEF IInv, HeldInv
      <3> QED
        BY <3>1, <3>3
    <2> QED
      BY <2>1 DEF IInv, Types, TypeOK
  <1> QED
    BY <1>1, Invariance, PTL

(* acquireFence admits one reader at a time as long as no fence connection *)
(* has failed.                                                             *)
THEOREM FenceAdmitsOne == Spec => []OneReader
  <1>1. IInv => OneReader
    BY DEF IInv, LockInv, OneReader
  <1> QED
    BY <1>1, Invariance, PTL

(* Whatever fences and streams fail, and however many readers publish side *)
(* by side: sendStandby confirms only what the topic holds in full.        *)
THEOREM FenceConfirmsAfterKafka == Spec => []ConfirmedOnlyAfterKafka
  <1>1. IInv => ConfirmedOnlyAfterKafka
    BY DEF IInv, DurableInv, Done, InLog, ConfirmedOnlyAfterKafka, T!CompleteUpTo,
           T!Complete, T!Published, T!Record
  <1> QED
    BY <1>1, Invariance, PTL

(* Racing readers repeat and interleave events, but the topic never has an *)
(* event before the first occurrences of all events that precede it.       *)
THEOREM FenceFirstOccurrences == Spec => []FirstOccurrencesInSourceOrder
  <1> DEFINE Before(l, i, t, k) == \E h \in 1 .. i - 1 : l[h] = [tx |-> t, seq |-> k]
             Ordered(l, i) == /\ \A k \in 1 .. l[i].seq - 1 : Before(l, i, l[i].tx, k)
                              /\ \A t \in 1 .. l[i].tx - 1 : \A k \in 1 .. Wal[t] :
                                     Before(l, i, t, k)
             Order(l) == \A i \in 1 .. Len(l) : Ordered(l, i)
  <1>1. FirstOccurrencesInSourceOrder <=> Order(log)
    BY DEF FirstOccurrencesInSourceOrder, T!FirstOccurrencesInSourceOrder, T!Record
  <1>2. FirstOccurrencesInSourceOrder' <=> Order(log')
    BY DEF FirstOccurrencesInSourceOrder, T!FirstOccurrencesInSourceOrder, T!Record
  <1>3. Init => FirstOccurrencesInSourceOrder
    <2>1. Init => Len(log) = 0
      BY EmptySeq DEF Init
    <2> QED
      BY <1>1, <2>1
  <1>4. ASSUME IInv, NEW r \in Readers, Produce(r), Order(log)
        PROVE  Order(log')
    <2> DEFINE e == Head(held[r])
               n == Len(log)
    <2>1. held[r] # <<>> /\ log' = Append(log, e) /\ log \in Seq(Records) /\ n \in Nat
      BY <1>4 DEF Produce, IInv, Types
    <2>2. /\ e = [tx |-> sent[r], seq |-> Produced(r) + 1] /\ e \in Records
          /\ sent[r] \in Nat /\ Produced(r) \in Nat
      <3>1. Produced(r) \in Nat
        BY <1>4, <2>1 DEF IInv, HeldInv
      <3>2. /\ e = [tx |-> sent[r], seq |-> Produced(r) + 1] /\ e \in Records
            /\ sent[r] \in 1 .. Len(Wal)
        BY <1>4, <2>1, HeadFacts
      <3> HIDE DEF e
      <3> QED
        BY <3>1, <3>2, WalFacts
    <2>3. /\ \A k \in 1 .. Produced(r) : InLog(log, sent[r], k)
          /\ Done(log, sent[r] - 1)
      BY <1>4, <2>1 DEF IInv, PublishedInv
    <2>4. /\ Len(log') = n + 1 /\ log'[n + 1] = e
          /\ \A i \in 1 .. n : log'[i] = log[i]
      <3> HIDE DEF e
      <3> QED
        BY <2>1, <2>2
    <2>5. \A i \in 1 .. n : Ordered(log', i)
      <3> SUFFICES ASSUME NEW i \in 1 .. n PROVE Ordered(log', i)
        OBVIOUS
      <3>1. Ordered(log, i)
        BY <1>4
      <3>2. \A h \in 1 .. i - 1 : log'[h] = log[h]
        BY <2>1, <2>4
      <3>3. log'[i] = log[i]
        BY <2>4
      <3> QED
        BY <3>1, <3>2, <3>3
    <2>6. \A t, k : InLog(log, t, k) => Before(log', n + 1, t, k)
      BY <2>1, <2>4 DEF InLog
    <2>7. Ordered(log', n + 1)
      <3>1. log'[n + 1].tx = sent[r] /\ log'[n + 1].seq - 1 = Produced(r)
        BY <2>2, <2>4
      <3>2. \A k \in 1 .. Produced(r) : Before(log', n + 1, sent[r], k)
        BY <2>3, <2>6
      <3>3. \A t \in 1 .. sent[r] - 1 : \A k \in 1 .. Wal[t] : Before(log', n + 1, t, k)
        BY <2>3, <2>6 DEF Done
      <3> HIDE DEF Before
      <3> QED
        BY <3>1, <3>2, <3>3
    <2> HIDE DEF Ordered
    <2> QED
      BY <2>1, <2>4, <2>5, <2>7
  <1>5. IInv /\ FirstOccurrencesInSourceOrder /\ [Next]_vars
          => FirstOccurrencesInSourceOrder'
    <2> SUFFICES ASSUME IInv, Order(log), [Next]_vars PROVE Order(log')
      BY <1>1, <1>2
    <2> HIDE DEF Order
    <2>1. CASE \E r \in Readers : Produce(r)
      BY <1>4, <2>1
    <2>2. CASE ~\E r \in Readers : Produce(r)
      <3>1. log' = log
        BY <2>2 DEF Next, Work, AcquireFence, FindSlot, CreateReplicationSlot, Ends,
           DialReplication, DialRefused, Receive, SendStandby, ReceiveError, FenceDrops,
           StreamDrops, Exit, vars
      <3> QED
        BY <3>1
    <2> QED
      BY <2>1, <2>2
  <1> QED
    BY <1>3, <1>5, Invariance, PTL DEF Spec

=============================================================================
