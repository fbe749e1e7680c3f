---------------------------- MODULE ReaderProofs ----------------------------
(***************************************************************************)
(* Proofs about Reader, for every value of its constants: the slot is      *)
(* confirmed only up to what Kafka holds, no publication result is ever    *)
(* out of source order, the slot never moves back, and the reader          *)
(* implements Topic.                                                       *)
(***************************************************************************)
EXTENDS Reader, SequenceTheorems, TLAPS

(***************************************************************************)
(* The topic's predicates with the state they speak about as arguments.    *)
(***************************************************************************)
InLog(l, t, k) == \E i \in 1 .. Len(l) : l[i] = [tx |-> t, seq |-> k]
Done(w, l, t)  == \A s \in 1 .. t : \A k \in 1 .. w[s] : InLog(l, s, k)
LastIs(l, t, k) == Len(l) # 0 /\ l[Len(l)] = [tx |-> t, seq |-> k]

(* The transaction up to which results have been handed to the reader, and *)
(* the one the publisher is reporting if that is later.                    *)
AckedUpTo == IF results # <<>> /\ results[1].ok THEN results[1].tx ELSE durable
ReportedUpTo == IF pub = "report" THEN held.tx ELSE AckedUpTo

InQueue == pc \in {"queue", "send"}

(***************************************************************************)
(* The inductive invariant.                                                *)
(***************************************************************************)

(* What the slot and the reader consider durable is in the topic.          *)
DurableInv == confirmed <= durable /\ Done(wal, log, durable)

(* So is what a result in the channel, or one being reported, stands for;  *)
(* and these follow durable in source order, one transaction apart.        *)
ResultInv ==
    /\ results # <<>> /\ results[1].ok =>
          durable <= results[1].tx /\ Done(wal, log, results[1].tx)
    /\ pub = "report" =>
          /\ Done(wal, log, held.tx)
          /\ AckedUpTo <= held.tx /\ held.tx <= AckedUpTo + 1
          /\ InQueue => seq = 1
    /\ pc # "down" /\ results # <<>> /\ ~results[1].ok => pub = "dead"

(* The decoder holds exactly what the connection has sent of the open      *)
(* transaction.                                                            *)
DecoderInv ==
    pc \notin {"down", "reconnect"} =>
        IF sender.msg = 0 THEN txn = None
        ELSE /\ txn = sender.msg - 1
             /\ sender.tx < Len(wal) /\ sender.msg <= wal[sender.tx + 1] + 1

(* While a transaction is queued, the pull state agrees with the loop; it  *)
(* is gone only after a failure that the publisher did not survive.        *)
QueueInv ==
    /\ InQueue =>
         IF pull = None THEN pub = "dead"
         ELSE /\ current.tx = sender.tx /\ current.tx >= 1 /\ sender.msg = 0
              /\ current.count = wal[current.tx]
              /\ seq <= current.count + 1
              /\ pc = "queue" => pull = seq - 1
              /\ pc = "send" => /\ item.tx = current.tx
                                /\ IF item.seq = 0 THEN seq = current.count + 1
                                   ELSE item.seq = seq /\ pull = seq /\ seq <= current.count
    /\ pc = "reconnect" /\ resume = "queue" => pub = "dead"

(* The publisher works on the event the loop handed over last.             *)
HeldInv ==
    pub \in {"produce", "appended", "failing"} =>
        /\ InQueue /\ pull # None
        /\ seq > 1 /\ held.tx = current.tx /\ held.seq = seq - 1

(* The events handed over so far are in the topic, the latest one last.    *)
PublishedInv ==
    InQueue /\ pull # None =>
        /\ pub \in {"idle", "appended"} =>
             /\ \A k \in 1 .. seq - 1 : InLog(log, current.tx, k)
             /\ seq > 1 => LastIs(log, current.tx, seq - 1)
        /\ pub = "produce" =>
             /\ \A k \in 1 .. seq - 2 : InLog(log, current.tx, k)
             /\ \/ LastIs(log, current.tx, seq - 1)
                \/ seq > 2 => LastIs(log, current.tx, seq - 2)

(* How far the stream may be ahead of what is reported, and behind it      *)
(* after a reconnect.                                                      *)
WindowInv ==
    pub # "dead" =>
        /\ pc \in {"drain", "receive"} =>
             sender.tx <= ReportedUpTo /\ ReportedUpTo <= sender.tx + 1
        /\ InQueue => current.tx <= ReportedUpTo + 1 /\ ReportedUpTo <= current.tx
        /\ pc = "receive" \/ (pc = "reconnect" /\ resume = "drain") =>
             ReportedUpTo <= durable + 1

IInv ==
    /\ TypeOK /\ DurableInv /\ ResultInv /\ DecoderInv /\ QueueInv
    /\ HeldInv /\ PublishedInv /\ WindowInv

-----------------------------------------------------------------------------
(* A log that grows keeps what it had and ends with the new record.        *)
LEMMA LogGrows ==
    ASSUME NEW l \in Seq(Events), NEW e \in Events
    PROVE  /\ \A t, k : InLog(l, t, k) => InLog(Append(l, e), t, k)
           /\ InLog(Append(l, e), e.tx, e.seq)
           /\ LastIs(Append(l, e), e.tx, e.seq)
           /\ \A w, t : Done(w, l, t) => Done(w, Append(l, e), t)
  <1>1. Len(Append(l, e)) = Len(l) + 1 /\ Append(l, e)[Len(l) + 1] = e
    OBVIOUS
  <1>2. \A i \in 1 .. Len(l) : Append(l, e)[i] = l[i]
    OBVIOUS
  <1>3. Len(l) \in Nat /\ e = [tx |-> e.tx, seq |-> e.seq]
    BY DEF Events
  <1>4. \A t, k : InLog(l, t, k) => InLog(Append(l, e), t, k)
    BY <1>1, <1>2, <1>3 DEF InLog
  <1>5. InLog(Append(l, e), e.tx, e.seq) /\ LastIs(Append(l, e), e.tx, e.seq)
    BY <1>1, <1>3 DEF InLog, LastIs
  <1>6. \A w, t : Done(w, l, t) => Done(w, Append(l, e), t)
    BY <1>4 DEF Done
  <1> QED
    BY <1>4, <1>5, <1>6

(* A commit at the source does not change what is done.                    *)
LEMMA WalGrows ==
    ASSUME NEW w \in Seq(Nat), NEW n \in Nat, NEW l, NEW t \in 0 .. Len(w)
    PROVE  Done(w, l, t) => Done(Append(w, n), l, t)
  <1>1. \A s \in 1 .. t : Append(w, n)[s] = w[s]
    OBVIOUS
  <1> QED
    BY <1>1 DEF Done

(* Done is closed downwards.                                               *)
LEMMA DoneBelow ==
    ASSUME NEW w, NEW l, NEW t \in Nat, NEW s \in Nat, s <= t, Done(w, l, t)
    PROVE  Done(w, l, s)
  BY DEF Done

(* Done extends by one transaction when that transaction is complete.      *)
LEMMA DoneNext ==
    ASSUME NEW w, NEW l, NEW t \in Nat \ {0},
           Done(w, l, t - 1), \A k \in 1 .. w[t] : InLog(l, t, k)
    PROVE  Done(w, l, t)
  BY DEF Done

(* The results channel holds at most one result.                           *)
LEMMA OneResult ==
    ASSUME NEW R, NEW q \in Seq(R), Len(q) <= 1
    PROVE  /\ q # <<>> => /\ Len(q) = 1 /\ Head(q) = q[1] /\ q[1] \in R
                          /\ Tail(q) = <<>>
           /\ Len(q) < 1 => q = <<>>
           /\ \A r \in R : q = <<>> => /\ Append(q, r) # <<>> /\ Append(q, r)[1] = r
                                       /\ Len(Append(q, r)) = 1
                                       /\ Append(q, r) \in Seq(R)
  <1>1. q # <<>> => Len(q) = 1 /\ Head(q) = q[1] /\ q[1] \in R
    <2> SUFFICES ASSUME q # <<>>
                 PROVE  Len(q) = 1 /\ Head(q) = q[1] /\ q[1] \in R
      OBVIOUS
    <2>1. Len(q) = 1
      BY EmptySeq, LenProperties, SMTT(30)
    <2>2. Head(q) = q[1]
      BY <2>1
    <2>3. q[1] \in R
      BY <2>1, ElementOfSeq
    <2> QED
      BY <2>1, <2>2, <2>3
  <1>2. q # <<>> => Tail(q) = <<>>
    OBVIOUS
  <1>3. Len(q) < 1 => q = <<>>
    OBVIOUS
  <1>4. \A r \in R : q = <<>> => /\ Append(q, r) # <<>> /\ Append(q, r)[1] = r
                                 /\ Len(Append(q, r)) = 1
                                 /\ Append(q, r) \in Seq(R)
    OBVIOUS
  <1> QED
    BY <1>1, <1>2, <1>3, <1>4

-----------------------------------------------------------------------------
(* The results channel in a state of the right type.                       *)
LEMMA ChannelFacts ==
    ASSUME ChannelOK
    PROVE  /\ results # <<>> => /\ Head(results) = results[1] /\ results[1] \in Results
                                /\ results[1].tx \in Nat /\ results[1].tx <= Len(wal)
                                /\ results[1].ok \in BOOLEAN
                                /\ Tail(results) = <<>>
           /\ Len(results) < 1 => results = <<>>
           /\ \A r \in Results : results = <<>> =>
                 /\ Append(results, r) \in Seq(Results) /\ Append(results, r) # <<>>
                 /\ Append(results, r)[1] = r /\ Len(Append(results, r)) = 1
           /\ <<>> \in Seq(Results) /\ Len(<<>>) = 0
  <1>1. results \in Seq(Results) /\ Len(results) <= 1
    BY DEF ChannelOK, ResultsCapacity
  <1>2. /\ results # <<>> => /\ Head(results) = results[1] /\ results[1] \in Results
                             /\ Tail(results) = <<>>
        /\ Len(results) < 1 => results = <<>>
        /\ \A r \in Results : results = <<>> =>
                 /\ Append(results, r) \in Seq(Results) /\ Append(results, r) # <<>>
                 /\ Append(results, r)[1] = r /\ Len(Append(results, r)) = 1
    BY <1>1, OneResult
  <1>3. <<>> \in Seq(Results) /\ Len(<<>>) = 0
    BY EmptySeq
  <1>4. \A r \in Results : r.tx \in Nat /\ r.ok \in BOOLEAN
    BY DEF Results
  <1> QED
    BY <1>2, <1>3, <1>4 DEF ChannelOK

(* TypeOK is inductive by itself.                                          *)
LEMMA TypeStep == TypeOK /\ [Next]_vars => TypeOK'
  <1> SUFFICES ASSUME TypeOK, [Next]_vars
               PROVE  TypeOK'
    OBVIOUS
  <1>a. PositionsOK /\ LoopOK /\ PublisherOK /\ ChannelOK /\ LogOK
    BY DEF TypeOK
  <1>b. Len(wal) \in Nat
    BY <1>a DEF PositionsOK
  <1> USE ReaderAssumption DEF None, ResultsCapacity, source, decoder, loop, worker, budgets
  <1>1. CASE \E n \in EventCounts : SourceCommit(n)
    <2> PICK n \in EventCounts : SourceCommit(n)
      BY <1>1
    <2>1. n \in Nat /\ wal' \in Seq(Nat) /\ Len(wal') = Len(wal) + 1
      BY <1>a DEF SourceCommit, PositionsOK
    <2>2. PositionsOK'
      BY <1>a, <1>b, <2>1 DEF SourceCommit, PositionsOK
    <2>3. LoopOK'
      BY <1>a, <1>b, <2>1 DEF SourceCommit, LoopOK, Events
    <2>4. PublisherOK'
      BY <1>a, <1>b, <2>1 DEF SourceCommit, PublisherOK, Events
    <2>5. ChannelOK'
      BY <1>a, <1>b, <2>1, ChannelFacts DEF SourceCommit, ChannelOK
    <2>6. LogOK'
      BY <1>a, <1>b, <2>1 DEF SourceCommit, LogOK
    <2> QED
      BY <2>2, <2>3, <2>4, <2>5, <2>6 DEF TypeOK
  <1>2. CASE ConnectionDrops
    <2>1. PositionsOK'
      BY <1>a, <1>b, <1>2 DEF ConnectionDrops, PositionsOK
    <2>2. LoopOK'
      BY <1>a, <1>b, <1>2 DEF ConnectionDrops, LoopOK
    <2>3. PublisherOK'
      BY <1>a, <1>b, <1>2 DEF ConnectionDrops, PublisherOK
    <2>4. ChannelOK'
      BY <1>a, <1>b, <1>2 DEF ConnectionDrops, ChannelOK
    <2>5. LogOK'
      BY <1>a, <1>b, <1>2 DEF ConnectionDrops, LogOK
    <2> QED
      BY <2>1, <2>2, <2>3, <2>4, <2>5 DEF TypeOK
  <1>3. CASE Crash
    <2>1. PositionsOK'
      BY <1>a, <1>b, <1>3 DEF Crash, PublisherGone, PositionsOK
    <2>2. LoopOK'
      BY <1>a, <1>b, <1>3 DEF Crash, PublisherGone, LoopOK
    <2>3. PublisherOK'
      BY <1>a, <1>b, <1>3 DEF Crash, PublisherGone, PublisherOK
    <2>4. ChannelOK'
      BY <1>a, <1>b, <1>3 DEF Crash, PublisherGone, ChannelOK
    <2>5. LogOK'
      BY <1>a, <1>b, <1>3 DEF Crash, PublisherGone, LogOK
    <2> QED
      BY <2>1, <2>2, <2>3, <2>4, <2>5 DEF TypeOK
  <1>4. CASE Shutdown
    <2>1. PositionsOK'
      BY <1>a, <1>b, <1>4 DEF Shutdown, PublisherGone, PositionsOK
    <2>2. LoopOK'
      BY <1>a, <1>b, <1>4 DEF Shutdown, PublisherGone, LoopOK
    <2>3. PublisherOK'
      BY <1>a, <1>b, <1>4 DEF Shutdown, PublisherGone, PublisherOK
    <2>4. ChannelOK'
      BY <1>a, <1>b, <1>4 DEF Shutdown, PublisherGone, ChannelOK
    <2>5. LogOK'
      BY <1>a, <1>b, <1>4 DEF Shutdown, PublisherGone, LogOK
    <2> QED
      BY <2>1, <2>2, <2>3, <2>4, <2>5 DEF TypeOK
  <1>5. CASE ReconnectFails
    <2>1. PositionsOK'
      BY <1>a, <1>b, <1>5 DEF ReconnectFails, PublisherGone, PositionsOK
    <2>2. LoopOK'
      BY <1>a, <1>b, <1>5 DEF ReconnectFails, PublisherGone, LoopOK
    <2>3. PublisherOK'
      BY <1>a, <1>b, <1>5 DEF ReconnectFails, PublisherGone, PublisherOK
    <2>4. ChannelOK'
      BY <1>a, <1>b, <1>5 DEF ReconnectFails, PublisherGone, ChannelOK
    <2>5. LogOK'
      BY <1>a, <1>b, <1>5 DEF ReconnectFails, PublisherGone, LogOK
    <2> QED
      BY <2>1, <2>2, <2>3, <2>4, <2>5 DEF TypeOK
  <1>6. CASE Run
    <2>1. PositionsOK'
      BY <1>a, <1>b, <1>6, ChannelFacts DEF Run, StartReplication, PositionsOK
    <2>2. LoopOK'
      BY <1>a, <1>b, <1>6 DEF Run, StartReplication, LoopOK
    <2>3. PublisherOK'
      BY <1>a, <1>b, <1>6 DEF Run, StartReplication, PublisherOK
    <2>4. ChannelOK'
      BY <1>a, <1>b, <1>6, ChannelFacts DEF Run, StartReplication, ChannelOK
    <2>5. LogOK'
      BY <1>a, <1>b, <1>6 DEF Run, StartReplication, LogOK
    <2> QED
      BY <2>1, <2>2, <2>3, <2>4, <2>5 DEF TypeOK
  <1>7. CASE DrainResult
    <2>1. PositionsOK'
      BY <1>a, <1>b, <1>7, ChannelFacts DEF DrainResult, PositionsOK
    <2>2. LoopOK'
      BY <1>a, <1>b, <1>7 DEF DrainResult, LoopOK
    <2>3. PublisherOK'
      BY <1>a, <1>b, <1>7 DEF DrainResult, PublisherOK
    <2>4. ChannelOK'
      BY <1>a, <1>b, <1>7, ChannelFacts DEF DrainResult, ChannelOK
    <2>5. LogOK'
      BY <1>a, <1>b, <1>7 DEF DrainResult, LogOK
    <2> QED
      BY <2>1, <2>2, <2>3, <2>4, <2>5 DEF TypeOK
  <1>8. CASE DrainDone
    <2>1. PositionsOK'
      BY <1>a, <1>b, <1>8 DEF DrainDone, StandbyThen, PublisherGone, PositionsOK
    <2>2. LoopOK'
      BY <1>a, <1>b, <1>8 DEF DrainDone, StandbyThen, PublisherGone, LoopOK
    <2>3. PublisherOK'
      BY <1>a, <1>b, <1>8 DEF DrainDone, StandbyThen, PublisherGone, PublisherOK
    <2>4. ChannelOK'
      BY <1>a, <1>b, <1>8 DEF DrainDone, StandbyThen, PublisherGone, ChannelOK
    <2>5. LogOK'
      BY <1>a, <1>b, <1>8 DEF DrainDone, StandbyThen, PublisherGone, LogOK
    <2> QED
      BY <2>1, <2>2, <2>3, <2>4, <2>5 DEF TypeOK
  <1>9. CASE StatusDue
    <2>1. PositionsOK'
      BY <1>a, <1>b, <1>9 DEF StatusDue, PositionsOK
    <2>2. LoopOK'
      BY <1>a, <1>b, <1>9 DEF StatusDue, LoopOK
    <2>3. PublisherOK'
      BY <1>a, <1>b, <1>9 DEF StatusDue, PublisherOK
    <2>4. ChannelOK'
      BY <1>a, <1>b, <1>9 DEF StatusDue, ChannelOK
    <2>5. LogOK'
      BY <1>a, <1>b, <1>9 DEF StatusDue, LogOK
    <2> QED
      BY <2>1, <2>2, <2>3, <2>4, <2>5 DEF TypeOK
  <1>10. CASE HandleBegin
    <2>1. PositionsOK'
      BY <1>a, <1>b, <1>10 DEF HandleBegin, DecodeError, PublisherGone, PositionsOK
    <2>2. LoopOK'
      BY <1>a, <1>b, <1>10 DEF HandleBegin, DecodeError, PublisherGone, LoopOK, PositionsOK
    <2>3. PublisherOK'
      BY <1>a, <1>b, <1>10 DEF HandleBegin, DecodeError, PublisherGone, PublisherOK
    <2>4. ChannelOK'
      BY <1>a, <1>b, <1>10 DEF HandleBegin, DecodeError, PublisherGone, ChannelOK
    <2>5. LogOK'
      BY <1>a, <1>b, <1>10 DEF HandleBegin, DecodeError, PublisherGone, LogOK
    <2> QED
      BY <2>1, <2>2, <2>3, <2>4, <2>5 DEF TypeOK
  <1>11. CASE HandleChange
    <2>a. sender' = [tx |-> sender.tx, msg |-> sender.msg + 1]
      BY <1>a, <1>11 DEF HandleChange, PositionsOK
    <2>b. /\ sender.tx \in Nat /\ sender.msg \in Nat
          /\ wal' = wal /\ confirmed' = confirmed /\ conn' = conn /\ durable' = durable
      BY <1>a, <1>11 DEF HandleChange, PositionsOK
    <2>c. /\ txn' \in Nat \cup {None} /\ pull' \in Nat \cup {None} /\ seq' \in Nat \ {0}
          /\ current' \in [tx : Nat, count : Nat] /\ current'.tx <= Len(wal)
          /\ pc' \in {"down", "drain", "queue"} /\ wal' = wal
      <3>1. CASE txn = None
        BY <1>a, <1>b, <1>11, <3>1 DEF HandleChange, DecodeError, PublisherGone, LoopOK, PositionsOK
      <3>2. CASE txn # None
        <4>1. txn \in Nat /\ sender.tx \in Nat /\ wal' = wal
          BY <1>a, <1>11, <3>2 DEF HandleChange, LoopOK, PositionsOK
        <4> QED
          BY <1>a, <1>b, <1>11, <3>2, <4>1, SMTT(30) DEF HandleChange, DecodeError, LoopOK
      <3> QED
        BY <3>1, <3>2
    <2>1. PositionsOK'
      BY <1>a, <1>b, <2>a, <2>b DEF PositionsOK
    <2>2. LoopOK'
      BY <1>a, <1>11, <2>c DEF HandleChange, LoopOK
    <2>3. PublisherOK'
      BY <1>a, <1>b, <1>11 DEF HandleChange, DecodeError, PublisherGone, PublisherOK
    <2>4. ChannelOK'
      BY <1>a, <1>b, <1>11 DEF HandleChange, DecodeError, PublisherGone, ChannelOK
    <2>5. LogOK'
      BY <1>a, <1>b, <1>11 DEF HandleChange, DecodeError, PublisherGone, LogOK
    <2> QED
      BY <2>1, <2>2, <2>3, <2>4, <2>5 DEF TypeOK
  <1>12. CASE HandleCommit
    <2>c. /\ txn' \in Nat \cup {None} /\ pull' \in Nat \cup {None} /\ seq' \in Nat \ {0}
          /\ current' \in [tx : Nat, count : Nat] /\ current'.tx <= Len(wal)
          /\ pc' \in {"down", "drain", "queue"} /\ wal' = wal
      <3>1. CASE txn = None
        BY <1>a, <1>b, <1>12, <3>1 DEF HandleCommit, DecodeError, PublisherGone, LoopOK, PositionsOK
      <3>2. CASE txn # None
        <4>1. txn \in Nat /\ sender.tx \in Nat /\ wal' = wal
          BY <1>a, <1>12, <3>2 DEF HandleCommit, LoopOK, PositionsOK
        <4> QED
          BY <1>a, <1>b, <1>12, <3>2, <4>1 DEF HandleCommit, DecodeError, LoopOK
      <3> QED
        BY <3>1, <3>2
    <2>1. PositionsOK'
      BY <1>a, <1>b, <1>12 DEF HandleCommit, DecodeError, PublisherGone, PositionsOK
    <2>2. LoopOK'
      BY <1>a, <1>12, <2>c DEF HandleCommit, LoopOK
    <2>3. PublisherOK'
      BY <1>a, <1>b, <1>12 DEF HandleCommit, DecodeError, PublisherGone, PublisherOK
    <2>4. ChannelOK'
      BY <1>a, <1>b, <1>12 DEF HandleCommit, DecodeError, PublisherGone, ChannelOK
    <2>5. LogOK'
      BY <1>a, <1>b, <1>12 DEF HandleCommit, DecodeError, PublisherGone, LogOK
    <2> QED
      BY <2>1, <2>2, <2>3, <2>4, <2>5 DEF TypeOK
  <1>13. CASE ReceiveError
    <2>1. PositionsOK'
      BY <1>a, <1>b, <1>13 DEF ReceiveError, PositionsOK
    <2>2. LoopOK'
      BY <1>a, <1>b, <1>13 DEF ReceiveError, LoopOK
    <2>3. PublisherOK'
      BY <1>a, <1>b, <1>13 DEF ReceiveError, PublisherOK
    <2>4. ChannelOK'
      BY <1>a, <1>b, <1>13 DEF ReceiveError, ChannelOK
    <2>5. LogOK'
      BY <1>a, <1>b, <1>13 DEF ReceiveError, LogOK
    <2> QED
      BY <2>1, <2>2, <2>3, <2>4, <2>5 DEF TypeOK
  <1>14. CASE PullEvent
    <2>1. PositionsOK'
      BY <1>a, <1>b, <1>14 DEF PullEvent, PublisherGone, PositionsOK
    <2>2. LoopOK'
      BY <1>a, <1>b, <1>14 DEF PullEvent, PublisherGone, LoopOK, Events
    <2>3. PublisherOK'
      BY <1>a, <1>b, <1>14 DEF PullEvent, PublisherGone, PublisherOK, Events
    <2>4. ChannelOK'
      BY <1>a, <1>b, <1>14 DEF PullEvent, PublisherGone, ChannelOK
    <2>5. LogOK'
      BY <1>a, <1>b, <1>14 DEF PullEvent, PublisherGone, LogOK
    <2> QED
      BY <2>1, <2>2, <2>3, <2>4, <2>5 DEF TypeOK
  <1>15. CASE QueueDescriptor
    <2>1. PositionsOK'
      BY <1>a, <1>b, <1>15 DEF QueueDescriptor, PositionsOK
    <2>2. LoopOK'
      BY <1>a, <1>b, <1>15 DEF QueueDescriptor, LoopOK, Events
    <2>3. PublisherOK'
      BY <1>a, <1>b, <1>15 DEF QueueDescriptor, PublisherOK, Events
    <2>4. ChannelOK'
      BY <1>a, <1>b, <1>15 DEF QueueDescriptor, ChannelOK
    <2>5. LogOK'
      BY <1>a, <1>b, <1>15 DEF QueueDescriptor, LogOK
    <2> QED
      BY <2>1, <2>2, <2>3, <2>4, <2>5 DEF TypeOK
  <1>16. CASE SendWork
    <2>c. /\ seq' \in Nat \ {0} /\ AfterSendWork \in {"drain", "queue"}
      BY <1>a, <1>16 DEF SendWork, AfterSendWork, IsDescriptor, LoopOK
    <2>1. PositionsOK'
      BY <1>a, <1>b, <1>16 DEF SendWork, AfterSendWork, IsDescriptor, PositionsOK
    <2>2. LoopOK'
      BY <1>a, <1>16, <2>c DEF SendWork, LoopOK
    <2>3. PublisherOK'
      BY <1>a, <1>b, <1>16 DEF SendWork, AfterSendWork, IsDescriptor, PublisherOK, Events, LoopOK
    <2>4. ChannelOK'
      BY <1>a, <1>b, <1>16 DEF SendWork, AfterSendWork, IsDescriptor, ChannelOK
    <2>5. LogOK'
      BY <1>a, <1>b, <1>16 DEF SendWork, AfterSendWork, IsDescriptor, LogOK
    <2> QED
      BY <2>1, <2>2, <2>3, <2>4, <2>5 DEF TypeOK
  <1>17. CASE SendWorkAcked
    <2>1. PositionsOK'
      BY <1>a, <1>b, <1>17, ChannelFacts DEF SendWorkAcked, StandbyThen, PublisherGone, PositionsOK
    <2>2. LoopOK'
      BY <1>a, <1>b, <1>17 DEF SendWorkAcked, StandbyThen, PublisherGone, LoopOK
    <2>3. PublisherOK'
      BY <1>a, <1>b, <1>17 DEF SendWorkAcked, StandbyThen, PublisherGone, PublisherOK
    <2>4. ChannelOK'
      BY <1>a, <1>b, <1>17, ChannelFacts DEF SendWorkAcked, StandbyThen, PublisherGone, ChannelOK
    <2>5. LogOK'
      BY <1>a, <1>b, <1>17 DEF SendWorkAcked, StandbyThen, PublisherGone, LogOK
    <2> QED
      BY <2>1, <2>2, <2>3, <2>4, <2>5 DEF TypeOK
  <1>18. CASE SendWorkFailed
    <2>c. /\ seq' \in Nat \ {0} /\ AfterSendWork \in {"drain", "queue"}
      BY <1>a, <1>18 DEF SendWorkFailed, AfterSendWork, IsDescriptor, LoopOK
    <2>1. PositionsOK'
      BY <1>a, <1>b, <1>18, ChannelFacts DEF SendWorkFailed, AfterSendWork, IsDescriptor, PositionsOK
    <2>2. LoopOK'
      BY <1>a, <1>18, <2>c DEF SendWorkFailed, LoopOK
    <2>3. PublisherOK'
      BY <1>a, <1>b, <1>18 DEF SendWorkFailed, AfterSendWork, IsDescriptor, PublisherOK
    <2>4. ChannelOK'
      BY <1>a, <1>b, <1>18, ChannelFacts DEF SendWorkFailed, AfterSendWork, IsDescriptor, ChannelOK
    <2>5. LogOK'
      BY <1>a, <1>b, <1>18 DEF SendWorkFailed, AfterSendWork, IsDescriptor, LogOK
    <2> QED
      BY <2>1, <2>2, <2>3, <2>4, <2>5 DEF TypeOK
  <1>19. CASE SendWorkStatus
    <2>1. PositionsOK'
      BY <1>a, <1>b, <1>19 DEF SendWorkStatus, StandbyThen, PublisherGone, PositionsOK
    <2>2. LoopOK'
      BY <1>a, <1>b, <1>19 DEF SendWorkStatus, StandbyThen, PublisherGone, LoopOK
    <2>3. PublisherOK'
      BY <1>a, <1>b, <1>19 DEF SendWorkStatus, StandbyThen, PublisherGone, PublisherOK
    <2>4. ChannelOK'
      BY <1>a, <1>b, <1>19 DEF SendWorkStatus, StandbyThen, PublisherGone, ChannelOK
    <2>5. LogOK'
      BY <1>a, <1>b, <1>19 DEF SendWorkStatus, StandbyThen, PublisherGone, LogOK
    <2> QED
      BY <2>1, <2>2, <2>3, <2>4, <2>5 DEF TypeOK
  <1>20. CASE Reconnect
    <2>1. PositionsOK'
      BY <1>a, <1>b, <1>20 DEF Reconnect, StartReplication, PublisherGone, PositionsOK
    <2>2. LoopOK'
      BY <1>a, <1>b, <1>20 DEF Reconnect, StartReplication, PublisherGone, LoopOK
    <2>3. PublisherOK'
      BY <1>a, <1>b, <1>20 DEF Reconnect, StartReplication, PublisherGone, PublisherOK
    <2>4. ChannelOK'
      BY <1>a, <1>b, <1>20 DEF Reconnect, StartReplication, PublisherGone, ChannelOK
    <2>5. LogOK'
      BY <1>a, <1>b, <1>20 DEF Reconnect, StartReplication, PublisherGone, LogOK
    <2> QED
      BY <2>1, <2>2, <2>3, <2>4, <2>5 DEF TypeOK
  <1>21. CASE KafkaAppend
    <2>1. PositionsOK'
      BY <1>a, <1>b, <1>21 DEF KafkaAppend, PositionsOK
    <2>2. LoopOK'
      BY <1>a, <1>b, <1>21 DEF KafkaAppend, LoopOK
    <2>3. PublisherOK'
      BY <1>a, <1>b, <1>21 DEF KafkaAppend, PublisherOK
    <2>4. ChannelOK'
      BY <1>a, <1>b, <1>21 DEF KafkaAppend, ChannelOK
    <2>5. LogOK'
      BY <1>a, <1>b, <1>21 DEF KafkaAppend, LogOK, PublisherOK
    <2> QED
      BY <2>1, <2>2, <2>3, <2>4, <2>5 DEF TypeOK
  <1>22. CASE PublishAcked
    <2>1. PositionsOK'
      BY <1>a, <1>b, <1>22 DEF PublishAcked, PositionsOK
    <2>2. LoopOK'
      BY <1>a, <1>b, <1>22 DEF PublishAcked, LoopOK
    <2>3. PublisherOK'
      BY <1>a, <1>b, <1>22 DEF PublishAcked, PublisherOK
    <2>4. ChannelOK'
      BY <1>a, <1>b, <1>22 DEF PublishAcked, ChannelOK
    <2>5. LogOK'
      BY <1>a, <1>b, <1>22 DEF PublishAcked, LogOK
    <2> QED
      BY <2>1, <2>2, <2>3, <2>4, <2>5 DEF TypeOK
  <1>23. CASE PublishFailed
    <2>1. PositionsOK'
      BY <1>a, <1>b, <1>23 DEF PublishFailed, PositionsOK
    <2>2. LoopOK'
      BY <1>a, <1>b, <1>23 DEF PublishFailed, LoopOK
    <2>3. PublisherOK'
      BY <1>a, <1>b, <1>23 DEF PublishFailed, PublisherOK
    <2>4. ChannelOK'
      BY <1>a, <1>b, <1>23 DEF PublishFailed, ChannelOK
    <2>5. LogOK'
      BY <1>a, <1>b, <1>23 DEF PublishFailed, LogOK
    <2> QED
      BY <2>1, <2>2, <2>3, <2>4, <2>5 DEF TypeOK
  <1>24. CASE ReportFailure
    <2>1. PositionsOK'
      BY <1>a, <1>b, <1>24, ChannelFacts DEF ReportFailure, PositionsOK
    <2>2. LoopOK'
      BY <1>a, <1>b, <1>24 DEF ReportFailure, LoopOK
    <2>3. PublisherOK'
      BY <1>a, <1>b, <1>24 DEF ReportFailure, PublisherOK
    <2>4. ChannelOK'
      BY <1>a, <1>b, <1>24, ChannelFacts DEF ReportFailure, ChannelOK, Results, PublisherOK, Events
    <2>5. LogOK'
      BY <1>a, <1>b, <1>24 DEF ReportFailure, LogOK
    <2> QED
      BY <2>1, <2>2, <2>3, <2>4, <2>5 DEF TypeOK
  <1>25. CASE ReportTransaction
    <2>1. PositionsOK'
      BY <1>a, <1>b, <1>25, ChannelFacts DEF ReportTransaction, PositionsOK
    <2>2. LoopOK'
      BY <1>a, <1>b, <1>25 DEF ReportTransaction, LoopOK
    <2>3. PublisherOK'
      BY <1>a, <1>b, <1>25 DEF ReportTransaction, PublisherOK
    <2>4. ChannelOK'
      BY <1>a, <1>b, <1>25, ChannelFacts DEF ReportTransaction, ChannelOK, Results, PublisherOK, Events
    <2>5. LogOK'
      BY <1>a, <1>b, <1>25 DEF ReportTransaction, LogOK
    <2> QED
      BY <2>1, <2>2, <2>3, <2>4, <2>5 DEF TypeOK
  <1>27. CASE OtherMessage
    <2>1. PositionsOK'
      BY <1>a, <1>b, <1>27 DEF OtherMessage, PositionsOK
    <2>2. LoopOK'
      BY <1>a, <1>b, <1>27 DEF OtherMessage, LoopOK
    <2>3. PublisherOK'
      BY <1>a, <1>b, <1>27 DEF OtherMessage, PublisherOK
    <2>4. ChannelOK'
      BY <1>a, <1>b, <1>27 DEF OtherMessage, ChannelOK
    <2>5. LogOK'
      BY <1>a, <1>b, <1>27 DEF OtherMessage, LogOK
    <2> QED
      BY <2>1, <2>2, <2>3, <2>4, <2>5 DEF TypeOK
  <1>26. CASE UNCHANGED vars
    BY <1>a, <1>26 DEF vars, TypeOK, PositionsOK, LoopOK, PublisherOK, ChannelOK, LogOK
  <1> QED
    BY <1>1, <1>2, <1>3, <1>4, <1>5, <1>6, <1>7, <1>8, <1>9, <1>10, <1>11,
       <1>12, <1>13, <1>14, <1>15, <1>16, <1>17, <1>18, <1>19, <1>20, <1>21, <1>22, <1>23, <1>24, <1>25, <1>26, <1>27
       DEF Next, Stream, Publisher, Environment

(* The numbers among the values of the variables.                          *)
Numbers ==
    /\ wal \in Seq(Nat) /\ Len(wal) \in Nat /\ log \in Seq(Events)
    /\ durable \in Nat /\ durable <= Len(wal) /\ confirmed \in Nat
    /\ sender.tx \in Nat /\ sender.msg \in Nat /\ sender.tx <= Len(wal)
    /\ current.tx \in Nat /\ current.count \in Nat /\ current.tx <= Len(wal)
    /\ seq \in Nat /\ seq # 0
    /\ item.tx \in Nat /\ item.seq \in Nat /\ item.tx <= Len(wal)
    /\ held.tx \in Nat /\ held.seq \in Nat /\ held.tx <= Len(wal)
    /\ txn \in Nat \cup {-1} /\ pull \in Nat \cup {-1}
    /\ results # <<>> => /\ results[1].tx \in Nat /\ results[1].tx <= Len(wal)
                         /\ results[1].ok \in BOOLEAN

(* The consequences of TypeOK in the form the arithmetic steps need.       *)
LEMMA TypedNumbers == TypeOK => Numbers
  <1> SUFFICES ASSUME TypeOK
               PROVE  Numbers
    OBVIOUS
  <1>1. /\ wal \in Seq(Nat) /\ Len(wal) \in Nat /\ log \in Seq(Events)
        /\ durable \in Nat /\ durable <= Len(wal) /\ confirmed \in Nat
        /\ sender.tx \in Nat /\ sender.msg \in Nat /\ sender.tx <= Len(wal)
    BY DEF TypeOK, PositionsOK, LogOK
  <1>2. /\ current.tx \in Nat /\ current.count \in Nat /\ current.tx <= Len(wal)
        /\ seq \in Nat /\ seq # 0
        /\ item.tx \in Nat /\ item.seq \in Nat /\ item.tx <= Len(wal)
        /\ txn \in Nat \cup {-1} /\ pull \in Nat \cup {-1}
    BY DEF TypeOK, LoopOK, Events, None
  <1>3. held.tx \in Nat /\ held.seq \in Nat /\ held.tx <= Len(wal)
    BY DEF TypeOK, PublisherOK, Events
  <1>4. results # <<>> => /\ results[1].tx \in Nat /\ results[1].tx <= Len(wal)
                          /\ results[1].ok \in BOOLEAN
    BY ChannelFacts DEF TypeOK
  <1> QED
    BY <1>1, <1>2, <1>3, <1>4 DEF Numbers

(* The invariant is preserved by every step.                               *)
LEMMA InvStep == IInv /\ [Next]_vars => IInv'
  <1> SUFFICES ASSUME IInv, [Next]_vars
               PROVE  IInv'
    OBVIOUS
  <1>t. TypeOK /\ TypeOK' /\ Numbers
    BY TypeStep, TypedNumbers DEF IInv
  <1>i. /\ DurableInv /\ ResultInv /\ DecoderInv /\ QueueInv
        /\ HeldInv /\ PublishedInv /\ WindowInv
    BY DEF IInv
  <1>c. /\ results # <<>> => Head(results) = results[1] /\ Tail(results) = <<>>
        /\ Len(results) < 1 => results = <<>>
        /\ \A r \in Results : results = <<>> =>
               Append(results, r) # <<>> /\ Append(results, r)[1] = r
    BY <1>t, ChannelFacts DEF TypeOK
  <1> USE <1>t, <1>i DEF Numbers, None, ResultsCapacity, InQueue,
          source, decoder, loop, worker, budgets
  <1>1. CASE \E n \in EventCounts : SourceCommit(n)
    <2> PICK n \in EventCounts : SourceCommit(n)
      BY <1>1
    <2>w. /\ n \in Nat /\ wal' = Append(wal, n) /\ Len(wal') = Len(wal) + 1
          /\ \A s \in 1 .. Len(wal) : wal'[s] = wal[s]
      BY ReaderAssumption DEF SourceCommit
    <2>d. \A t \in 0 .. Len(wal) : Done(wal, log, t) => Done(wal', log', t)
      BY <2>w, WalGrows DEF SourceCommit
    <2>1. DurableInv'
      BY <2>w, <2>d, SMTT(30) DEF SourceCommit, DurableInv
    <2>2. ResultInv'
      BY <2>w, <2>d DEF SourceCommit, ResultInv, AckedUpTo
    <2>3. DecoderInv'
      <3>0. sender.tx < Len(wal) => sender.tx + 1 \in 1 .. Len(wal)
        BY SMTT(30)
      <3>1. sender.tx < Len(wal) => wal'[sender.tx + 1] = wal[sender.tx + 1]
        BY <2>w, <3>0
      <3>2. pc' = pc /\ sender' = sender /\ txn' = txn
        BY DEF SourceCommit
      <3>3. sender.tx < Len(wal) => sender.tx < Len(wal')
        BY <2>w
      <3> QED
        BY <3>1, <3>2, <3>3, Zenon DEF DecoderInv
    <2>4. QueueInv'
      BY <2>w, <2>d DEF SourceCommit, QueueInv
    <2>5. HeldInv'
      BY <2>w, <2>d DEF SourceCommit, HeldInv
    <2>6. PublishedInv'
      BY <2>w, <2>d DEF SourceCommit, PublishedInv
    <2>7. WindowInv'
      BY <2>w, <2>d DEF SourceCommit, WindowInv, AckedUpTo, ReportedUpTo
    <2> QED
      BY <2>1, <2>2, <2>3, <2>4, <2>5, <2>6, <2>7 DEF IInv
  <1>2. CASE ConnectionDrops
    <2>1. DurableInv'
      BY <1>2 DEF ConnectionDrops, DurableInv
    <2>2. ResultInv'
      BY <1>2 DEF ConnectionDrops, ResultInv, AckedUpTo
    <2>3. DecoderInv'
      BY <1>2 DEF ConnectionDrops, DecoderInv
    <2>4. QueueInv'
      BY <1>2 DEF ConnectionDrops, QueueInv
    <2>5. HeldInv'
      BY <1>2 DEF ConnectionDrops, HeldInv
    <2>6. PublishedInv'
      BY <1>2 DEF ConnectionDrops, PublishedInv, QueueInv, HeldInv
    <2>7. WindowInv'
      BY <1>2 DEF ConnectionDrops, WindowInv, AckedUpTo, ReportedUpTo, ResultInv
    <2> QED
      BY <2>1, <2>2, <2>3, <2>4, <2>5, <2>6, <2>7 DEF IInv
  <1>3. CASE Crash
    <2>1. DurableInv'
      BY <1>3 DEF Crash, PublisherGone, DurableInv
    <2>2. ResultInv'
      BY <1>3 DEF Crash, PublisherGone, ResultInv, AckedUpTo
    <2>3. DecoderInv'
      BY <1>3 DEF Crash, PublisherGone, DecoderInv
    <2>4. QueueInv'
      BY <1>3 DEF Crash, PublisherGone, QueueInv
    <2>5. HeldInv'
      BY <1>3 DEF Crash, PublisherGone, HeldInv
    <2>6. PublishedInv'
      BY <1>3 DEF Crash, PublisherGone, PublishedInv, QueueInv, HeldInv
    <2>7. WindowInv'
      BY <1>3 DEF Crash, PublisherGone, WindowInv, AckedUpTo, ReportedUpTo, ResultInv
    <2> QED
      BY <2>1, <2>2, <2>3, <2>4, <2>5, <2>6, <2>7 DEF IInv
  <1>4. CASE Shutdown
    <2>1. DurableInv'
      BY <1>4 DEF Shutdown, PublisherGone, DurableInv
    <2>2. ResultInv'
      BY <1>4 DEF Shutdown, PublisherGone, ResultInv, AckedUpTo
    <2>3. DecoderInv'
      BY <1>4 DEF Shutdown, PublisherGone, DecoderInv
    <2>4. QueueInv'
      BY <1>4 DEF Shutdown, PublisherGone, QueueInv
    <2>5. HeldInv'
      BY <1>4 DEF Shutdown, PublisherGone, HeldInv
    <2>6. PublishedInv'
      BY <1>4 DEF Shutdown, PublisherGone, PublishedInv, QueueInv, HeldInv
    <2>7. WindowInv'
      BY <1>4 DEF Shutdown, PublisherGone, WindowInv, AckedUpTo, ReportedUpTo, ResultInv
    <2> QED
      BY <2>1, <2>2, <2>3, <2>4, <2>5, <2>6, <2>7 DEF IInv
  <1>5. CASE ReconnectFails
    <2>1. DurableInv'
      BY <1>5 DEF ReconnectFails, PublisherGone, DurableInv
    <2>2. ResultInv'
      BY <1>5 DEF ReconnectFails, PublisherGone, ResultInv, AckedUpTo
    <2>3. DecoderInv'
      BY <1>5 DEF ReconnectFails, PublisherGone, DecoderInv
    <2>4. QueueInv'
      BY <1>5 DEF ReconnectFails, PublisherGone, QueueInv
    <2>5. HeldInv'
      BY <1>5 DEF ReconnectFails, PublisherGone, HeldInv
    <2>6. PublishedInv'
      BY <1>5 DEF ReconnectFails, PublisherGone, PublishedInv, QueueInv, HeldInv
    <2>7. WindowInv'
      BY <1>5 DEF ReconnectFails, PublisherGone, WindowInv, AckedUpTo, ReportedUpTo, ResultInv
    <2> QED
      BY <2>1, <2>2, <2>3, <2>4, <2>5, <2>6, <2>7 DEF IInv
  <1>6. CASE Run
    <2>1. DurableInv'
      BY <1>6, DoneBelow DEF Run, StartReplication, DurableInv
    <2>2. ResultInv'
      BY <1>6 DEF Run, StartReplication, ResultInv, AckedUpTo
    <2>3. DecoderInv'
      BY <1>6 DEF Run, StartReplication, DecoderInv
    <2>4. QueueInv'
      BY <1>6 DEF Run, StartReplication, QueueInv
    <2>5. HeldInv'
      BY <1>6 DEF Run, StartReplication, HeldInv
    <2>6. PublishedInv'
      BY <1>6 DEF Run, StartReplication, PublishedInv, QueueInv, HeldInv
    <2>7. WindowInv'
      BY <1>6 DEF Run, StartReplication, WindowInv, AckedUpTo, ReportedUpTo, ResultInv
    <2> QED
      BY <2>1, <2>2, <2>3, <2>4, <2>5, <2>6, <2>7 DEF IInv
  <1>7. CASE DrainResult
    <2>a. results' = <<>> /\ AckedUpTo' = AckedUpTo
      <3>1. results # <<>> /\ Head(results) = results[1] /\ results' = <<>>
        BY <1>7, <1>c DEF DrainResult
      <3>2. AckedUpTo' = durable'
        BY <3>1 DEF AckedUpTo
      <3>3. CASE ResultIsError(results[1])
        <4>1. durable' = durable
          BY <1>7, <3>1, <3>3 DEF DrainResult
        <4>2. ~results[1].ok
          BY <3>1, <3>3 DEF ResultIsError, ResultInv
        <4> QED
          BY <3>1, <3>2, <4>1, <4>2 DEF AckedUpTo
      <3>4. CASE ~ResultIsError(results[1])
        <4>1. durable' = results[1].tx /\ results[1].ok
          BY <1>7, <3>1, <3>4 DEF DrainResult, ResultIsError
        <4> QED
          BY <3>1, <3>2, <4>1 DEF AckedUpTo
      <3> QED
        BY <3>1, <3>3, <3>4
    <2>1. DurableInv'
      BY <1>7, <1>c DEF DrainResult, DurableInv, ResultIsError, ResultInv
    <2>2. ResultInv'
      BY <1>7, <2>a DEF DrainResult, ResultInv
    <2>3. DecoderInv'
      BY <1>7, <1>c DEF DrainResult, DecoderInv, ResultIsError, ResultInv
    <2>4. QueueInv'
      BY <1>7, <1>c DEF DrainResult, QueueInv, ResultIsError, ResultInv
    <2>5. HeldInv'
      BY <1>7, <1>c DEF DrainResult, HeldInv, ResultIsError, ResultInv
    <2>6. PublishedInv'
      BY <1>7, <1>c DEF DrainResult, PublishedInv, ResultIsError, ResultInv, QueueInv, HeldInv
    <2>7. WindowInv'
      <3>1. ReportedUpTo' = ReportedUpTo
        BY <1>7, <2>a DEF DrainResult, ReportedUpTo
      <3> QED
        BY <1>7, <3>1 DEF DrainResult, WindowInv
    <2> QED
      BY <2>1, <2>2, <2>3, <2>4, <2>5, <2>6, <2>7 DEF IInv
  <1>8. CASE DrainDone
    <2>1. DurableInv'
      BY <1>8 DEF DrainDone, StandbyThen, PublisherGone, DurableInv
    <2>2. ResultInv'
      BY <1>8 DEF DrainDone, StandbyThen, PublisherGone, ResultInv, AckedUpTo
    <2>3. DecoderInv'
      BY <1>8 DEF DrainDone, StandbyThen, PublisherGone, DecoderInv
    <2>4. QueueInv'
      BY <1>8 DEF DrainDone, StandbyThen, PublisherGone, QueueInv
    <2>5. HeldInv'
      BY <1>8 DEF DrainDone, StandbyThen, PublisherGone, HeldInv
    <2>6. PublishedInv'
      BY <1>8 DEF DrainDone, StandbyThen, PublisherGone, PublishedInv, QueueInv, HeldInv
    <2>7. WindowInv'
      BY <1>8, SMTT(30) DEF DrainDone, StandbyThen, PublisherGone, WindowInv, AckedUpTo, ReportedUpTo, ResultInv
    <2> QED
      BY <2>1, <2>2, <2>3, <2>4, <2>5, <2>6, <2>7 DEF IInv
  <1>9. CASE StatusDue
    <2>1. DurableInv'
      BY <1>9 DEF StatusDue, DurableInv
    <2>2. ResultInv'
      BY <1>9 DEF StatusDue, ResultInv, AckedUpTo
    <2>3. DecoderInv'
      BY <1>9 DEF StatusDue, DecoderInv
    <2>4. QueueInv'
      BY <1>9 DEF StatusDue, QueueInv
    <2>5. HeldInv'
      BY <1>9 DEF StatusDue, HeldInv
    <2>6. PublishedInv'
      BY <1>9 DEF StatusDue, PublishedInv, QueueInv, HeldInv
    <2>7. WindowInv'
      BY <1>9 DEF StatusDue, WindowInv, AckedUpTo, ReportedUpTo, ResultInv
    <2> QED
      BY <2>1, <2>2, <2>3, <2>4, <2>5, <2>6, <2>7 DEF IInv
  <1>10. CASE HandleBegin
    <2>1. DurableInv'
      BY <1>10 DEF HandleBegin, DecodeError, PublisherGone, DurableInv
    <2>2. ResultInv'
      BY <1>10 DEF HandleBegin, DecodeError, PublisherGone, ResultInv, AckedUpTo
    <2>3. DecoderInv'
      BY <1>10, SMTT(30) DEF HandleBegin, DecodeError, PublisherGone, DecoderInv
    <2>4. QueueInv'
      BY <1>10 DEF HandleBegin, DecodeError, PublisherGone, QueueInv
    <2>5. HeldInv'
      BY <1>10 DEF HandleBegin, DecodeError, PublisherGone, HeldInv
    <2>6. PublishedInv'
      BY <1>10 DEF HandleBegin, DecodeError, PublisherGone, PublishedInv, QueueInv, HeldInv
    <2>7. WindowInv'
      BY <1>10 DEF HandleBegin, DecodeError, PublisherGone, WindowInv, AckedUpTo, ReportedUpTo, ResultInv
    <2> QED
      BY <2>1, <2>2, <2>3, <2>4, <2>5, <2>6, <2>7 DEF IInv
  <1>11. CASE HandleChange
    <2>a. /\ sender'.tx = sender.tx /\ sender'.msg = sender.msg + 1
          /\ sender.tx < Len(wal) /\ wal' = wal
      <3>1. sender \in [tx : Nat, msg : Nat]
        BY DEF TypeOK, PositionsOK
      <3> QED
        BY <1>11, <3>1 DEF HandleChange
    <2>n. sender.tx + 1 \in 1 .. Len(wal)
      BY <2>a, SMTT(30)
    <2>b. wal[sender.tx + 1] \in Nat
      BY <2>n, ElementOfSeq
    <2>c. sender.msg # 0 /\ sender.msg <= wal[sender.tx + 1]
      BY <1>11, <2>b DEF HandleChange
    <2>d. txn = sender.msg - 1 /\ txn # None
      BY <1>11, <2>c DEF HandleChange, DecoderInv
    <2>e. txn' = txn + 1
      BY <1>11, <2>d DEF HandleChange
    <2>1. DurableInv'
      BY <1>11 DEF HandleChange, DecodeError, PublisherGone, DurableInv
    <2>2. ResultInv'
      BY <1>11 DEF HandleChange, DecodeError, PublisherGone, ResultInv, AckedUpTo
    <2>3. DecoderInv'
      <3>1. sender'.msg # 0 /\ txn' = sender'.msg - 1 /\ sender'.tx < Len(wal')
        BY <2>a, <2>d, <2>e, SMTT(30)
      <3>2. sender'.msg <= wal'[sender'.tx + 1] + 1
        BY <2>a, <2>b, <2>c
      <3> QED
        BY <3>1, <3>2 DEF DecoderInv
    <2>4. QueueInv'
      BY <1>11 DEF HandleChange, DecodeError, PublisherGone, QueueInv
    <2>5. HeldInv'
      BY <1>11 DEF HandleChange, DecodeError, PublisherGone, HeldInv
    <2>6. PublishedInv'
      BY <1>11 DEF HandleChange, DecodeError, PublisherGone, PublishedInv, QueueInv, HeldInv
    <2>7. WindowInv'
      BY <1>11, SMTT(30) DEF HandleChange, DecodeError, PublisherGone, WindowInv, AckedUpTo, ReportedUpTo, ResultInv
    <2> QED
      BY <2>1, <2>2, <2>3, <2>4, <2>5, <2>6, <2>7 DEF IInv
  <1>12. CASE HandleCommit
    <2>l. sender.tx < Len(wal) /\ wal' = wal
      BY <1>12 DEF HandleCommit
    <2>m. sender.tx + 1 \in 1 .. Len(wal)
      BY <2>l, SMTT(30)
    <2>n. wal[sender.tx + 1] \in Nat
      BY <2>m, ElementOfSeq
    <2>a. /\ sender'.tx = sender.tx + 1 /\ sender'.msg = 0 /\ sender.msg # 0
          /\ txn = wal[sender.tx + 1] /\ txn # None
      BY <1>12, <2>n, SMTT(30) DEF HandleCommit, DecoderInv
    <2>b. /\ pc' = "queue" /\ pull' = 0 /\ seq' = 1 /\ UNCHANGED worker
          /\ current'.tx = sender.tx + 1 /\ current'.count = wal[sender.tx + 1]
      BY <1>12, <2>a, SMTT(30) DEF HandleCommit
    <2>1. DurableInv'
      BY <1>12 DEF HandleCommit, DecodeError, PublisherGone, DurableInv, DecoderInv, WindowInv
    <2>2. ResultInv'
      BY <1>12 DEF HandleCommit, DecodeError, PublisherGone, ResultInv, AckedUpTo, DecoderInv, WindowInv
    <2>3. DecoderInv'
      BY <1>12 DEF HandleCommit, DecodeError, PublisherGone, DecoderInv, WindowInv
    <2>4. QueueInv'
      BY <2>l, <2>m, <2>n, <2>a, <2>b DEF QueueInv
    <2>5. HeldInv'
      BY <1>12 DEF HandleCommit, DecodeError, PublisherGone, HeldInv, DecoderInv, WindowInv
    <2>6. PublishedInv'
      BY <1>12, SMTT(30) DEF HandleCommit, DecodeError, PublisherGone, PublishedInv, QueueInv, HeldInv, DecoderInv, WindowInv
    <2>7. WindowInv'
      <3>1. ReportedUpTo' = ReportedUpTo /\ pub' = pub /\ ReportedUpTo \in Nat
        BY <1>12, <2>b DEF HandleCommit, ReportedUpTo, AckedUpTo
      <3>2. pub # "dead" => sender.tx <= ReportedUpTo /\ ReportedUpTo <= sender.tx + 1
        BY <1>12 DEF HandleCommit, WindowInv
      <3> QED
        BY <2>b, <3>1, <3>2 DEF WindowInv
    <2> QED
      BY <2>1, <2>2, <2>3, <2>4, <2>5, <2>6, <2>7 DEF IInv
  <1>13. CASE ReceiveError
    <2>1. DurableInv'
      BY <1>13 DEF ReceiveError, DurableInv
    <2>2. ResultInv'
      BY <1>13 DEF ReceiveError, ResultInv, AckedUpTo
    <2>3. DecoderInv'
      BY <1>13 DEF ReceiveError, DecoderInv
    <2>4. QueueInv'
      BY <1>13 DEF ReceiveError, QueueInv
    <2>5. HeldInv'
      BY <1>13 DEF ReceiveError, HeldInv
    <2>6. PublishedInv'
      BY <1>13 DEF ReceiveError, PublishedInv, QueueInv, HeldInv
    <2>7. WindowInv'
      BY <1>13 DEF ReceiveError, WindowInv, AckedUpTo, ReportedUpTo, ResultInv
    <2> QED
      BY <2>1, <2>2, <2>3, <2>4, <2>5, <2>6, <2>7 DEF IInv
  <1>14. CASE PullEvent
    <2>1. DurableInv'
      BY <1>14 DEF PullEvent, PublisherGone, DurableInv, QueueInv
    <2>2. ResultInv'
      BY <1>14 DEF PullEvent, PublisherGone, ResultInv, AckedUpTo, QueueInv
    <2>3. DecoderInv'
      BY <1>14 DEF PullEvent, PublisherGone, DecoderInv, QueueInv
    <2>4. QueueInv'
      BY <1>14, SMTT(30) DEF PullEvent, PublisherGone, QueueInv
    <2>5. HeldInv'
      BY <1>14 DEF PullEvent, PublisherGone, HeldInv, QueueInv
    <2>6. PublishedInv'
      BY <1>14 DEF PullEvent, PublisherGone, PublishedInv, QueueInv, HeldInv
    <2>7. WindowInv'
      BY <1>14 DEF PullEvent, PublisherGone, WindowInv, AckedUpTo, ReportedUpTo, ResultInv, QueueInv
    <2> QED
      BY <2>1, <2>2, <2>3, <2>4, <2>5, <2>6, <2>7 DEF IInv
  <1>15. CASE QueueDescriptor
    <2>a. /\ item'.seq = 0 /\ item'.tx = current.tx /\ pc' = "send" /\ pc = "queue"
          /\ UNCHANGED <<current, seq, pull, pub, sender, wal, resume>>
      BY <1>15 DEF QueueDescriptor
    <2>b. pull # None => seq = current.count + 1
      BY <1>15 DEF QueueDescriptor, QueueInv
    <2>1. DurableInv'
      BY <1>15 DEF QueueDescriptor, DurableInv, QueueInv
    <2>2. ResultInv'
      BY <1>15 DEF QueueDescriptor, ResultInv, AckedUpTo, QueueInv
    <2>3. DecoderInv'
      BY <1>15 DEF QueueDescriptor, DecoderInv, QueueInv
    <2>4. QueueInv'
      BY <2>a, <2>b DEF QueueInv
    <2>5. HeldInv'
      BY <1>15 DEF QueueDescriptor, HeldInv, QueueInv
    <2>6. PublishedInv'
      BY <1>15 DEF QueueDescriptor, PublishedInv, QueueInv, HeldInv
    <2>7. WindowInv'
      BY <1>15 DEF QueueDescriptor, WindowInv, AckedUpTo, ReportedUpTo, ResultInv, QueueInv
    <2> QED
      BY <2>1, <2>2, <2>3, <2>4, <2>5, <2>6, <2>7 DEF IInv
  <1>16. CASE SendWork
    <2>a. pull # None
      BY <1>16 DEF SendWork, QueueInv
    <2>b. /\ current.tx <= AckedUpTo + 1 /\ AckedUpTo <= current.tx
          /\ AckedUpTo \in Nat /\ Done(wal, log, AckedUpTo)
      BY <1>16, <2>a DEF SendWork, WindowInv, ReportedUpTo, AckedUpTo, ResultInv, DurableInv
    <2>c. ASSUME item.seq = 0
          PROVE  Done(wal, log, current.tx)
      <3>1. Done(wal, log, current.tx - 1)
        BY <2>a, <2>b, DoneBelow, <1>16 DEF SendWork, QueueInv
      <3>2. \A k \in 1 .. wal[current.tx] : InLog(log, current.tx, k)
        BY <2>a, <2>c, <1>16, SMTT(30) DEF SendWork, QueueInv, PublishedInv
      <3> QED
        BY <2>a, <2>c, <3>1, <3>2, DoneNext, <1>16, SMTT(30) DEF SendWork, QueueInv
    <2>1. DurableInv'
      BY <1>16 DEF SendWork, AfterSendWork, IsDescriptor, DurableInv, QueueInv
    <2>2. ResultInv'
      <3>1. AckedUpTo' = AckedUpTo /\ held' = item
        BY <1>16 DEF SendWork, AckedUpTo
      <3>2. item.seq = 0 => item.tx = current.tx
        BY <2>a, <1>16 DEF SendWork, QueueInv
      <3> QED
        BY <1>16, <2>a, <2>b, <2>c, <3>1, <3>2
           DEF SendWork, AfterSendWork, IsDescriptor, ResultInv
    <2>3. DecoderInv'
      BY <1>16 DEF SendWork, AfterSendWork, IsDescriptor, DecoderInv, QueueInv
    <2>4. QueueInv'
      BY <1>16 DEF SendWork, AfterSendWork, IsDescriptor, QueueInv
    <2>5. HeldInv'
      BY <1>16 DEF SendWork, AfterSendWork, IsDescriptor, HeldInv, QueueInv
    <2>6. PublishedInv'
      BY <1>16 DEF SendWork, AfterSendWork, IsDescriptor, PublishedInv, QueueInv, HeldInv
    <2>7. WindowInv'
      BY <1>16 DEF SendWork, AfterSendWork, IsDescriptor, WindowInv, AckedUpTo, ReportedUpTo, ResultInv, QueueInv
    <2> QED
      BY <2>1, <2>2, <2>3, <2>4, <2>5, <2>6, <2>7 DEF IInv
  <1>17. CASE SendWorkAcked
    <2>1. DurableInv'
      BY <1>17, <1>c DEF SendWorkAcked, StandbyThen, PublisherGone, DurableInv, ResultIsError, ResultInv
    <2>2. ResultInv'
      BY <1>17, <1>c DEF SendWorkAcked, StandbyThen, PublisherGone, ResultInv, AckedUpTo, ResultIsError
    <2>3. DecoderInv'
      BY <1>17, <1>c DEF SendWorkAcked, StandbyThen, PublisherGone, DecoderInv, ResultIsError, ResultInv
    <2>4. QueueInv'
      BY <1>17, <1>c DEF SendWorkAcked, StandbyThen, PublisherGone, QueueInv, ResultIsError, ResultInv
    <2>5. HeldInv'
      BY <1>17, <1>c DEF SendWorkAcked, StandbyThen, PublisherGone, HeldInv, ResultIsError, ResultInv
    <2>6. PublishedInv'
      BY <1>17, <1>c DEF SendWorkAcked, StandbyThen, PublisherGone, PublishedInv, ResultIsError, ResultInv, QueueInv, HeldInv
    <2>7. WindowInv'
      BY <1>17, <1>c DEF SendWorkAcked, StandbyThen, PublisherGone, WindowInv, AckedUpTo, ReportedUpTo, ResultInv, ResultIsError
    <2> QED
      BY <2>1, <2>2, <2>3, <2>4, <2>5, <2>6, <2>7 DEF IInv
  <1>18. CASE SendWorkFailed
    <2>a. pub = "dead" /\ pub' = "dead" /\ pc' = "reconnect" /\ results' = <<>>
      BY <1>18, <1>c, SMTT(30) DEF SendWorkFailed, ResultIsError, ResultInv
    <2>1. DurableInv'
      BY <1>18, <1>c DEF SendWorkFailed, AfterSendWork, IsDescriptor, DurableInv, ResultIsError, ResultInv
    <2>2. ResultInv'
      BY <1>18, <1>c, SMTT(30) DEF SendWorkFailed, AfterSendWork, IsDescriptor, ResultInv, AckedUpTo, ResultIsError
    <2>3. DecoderInv'
      BY <1>18, <1>c DEF SendWorkFailed, AfterSendWork, IsDescriptor, DecoderInv, ResultIsError, ResultInv
    <2>4. QueueInv'
      BY <1>18, <1>c, SMTT(30) DEF SendWorkFailed, AfterSendWork, IsDescriptor, QueueInv, ResultIsError, ResultInv
    <2>5. HeldInv'
      BY <2>a DEF HeldInv
    <2>6. PublishedInv'
      BY <1>18, <1>c DEF SendWorkFailed, AfterSendWork, IsDescriptor, PublishedInv, ResultIsError, ResultInv, QueueInv, HeldInv
    <2>7. WindowInv'
      BY <1>18, <1>c DEF SendWorkFailed, AfterSendWork, IsDescriptor, WindowInv, AckedUpTo, ReportedUpTo, ResultInv, ResultIsError
    <2> QED
      BY <2>1, <2>2, <2>3, <2>4, <2>5, <2>6, <2>7 DEF IInv
  <1>19. CASE SendWorkStatus
    <2>1. DurableInv'
      BY <1>19 DEF SendWorkStatus, StandbyThen, PublisherGone, DurableInv
    <2>2. ResultInv'
      BY <1>19 DEF SendWorkStatus, StandbyThen, PublisherGone, ResultInv, AckedUpTo
    <2>3. DecoderInv'
      BY <1>19 DEF SendWorkStatus, StandbyThen, PublisherGone, DecoderInv
    <2>4. QueueInv'
      BY <1>19 DEF SendWorkStatus, StandbyThen, PublisherGone, QueueInv
    <2>5. HeldInv'
      BY <1>19 DEF SendWorkStatus, StandbyThen, PublisherGone, HeldInv
    <2>6. PublishedInv'
      BY <1>19 DEF SendWorkStatus, StandbyThen, PublisherGone, PublishedInv, QueueInv, HeldInv
    <2>7. WindowInv'
      BY <1>19 DEF SendWorkStatus, StandbyThen, PublisherGone, WindowInv, AckedUpTo, ReportedUpTo, ResultInv
    <2> QED
      BY <2>1, <2>2, <2>3, <2>4, <2>5, <2>6, <2>7 DEF IInv
  <1>20. CASE Reconnect
    <2>a. /\ sender'.tx = durable /\ sender'.msg = 0 /\ pull' = None /\ txn' = None
          /\ pc' = resume /\ resume \in {"drain", "queue", "down"}
          /\ pub' \in {pub, "dead"} /\ resume # "down" => pub' = pub
      BY <1>20 DEF Reconnect, StartReplication, PublisherGone, DurableInv, TypeOK, LoopOK
    <2>b. AckedUpTo' = AckedUpTo
      BY <1>20 DEF Reconnect, AckedUpTo
    <2>1. DurableInv'
      BY <1>20 DEF Reconnect, StartReplication, PublisherGone, DurableInv
    <2>2. ResultInv'
      BY <1>20, <2>a, <2>b DEF Reconnect, PublisherGone, ResultInv, QueueInv
    <2>3. DecoderInv'
      BY <1>20 DEF Reconnect, StartReplication, PublisherGone, DecoderInv
    <2>4. QueueInv'
      BY <1>20, <2>a DEF Reconnect, QueueInv
    <2>5. HeldInv'
      BY <1>20 DEF Reconnect, StartReplication, PublisherGone, HeldInv
    <2>6. PublishedInv'
      BY <1>20 DEF Reconnect, StartReplication, PublisherGone, PublishedInv, QueueInv, HeldInv
    <2>7. WindowInv'
      <3>1. pub' # "dead" => pub' = pub /\ ReportedUpTo' = ReportedUpTo /\ pc' # "queue"
        BY <1>20, <2>a, <2>b DEF Reconnect, PublisherGone, ReportedUpTo, QueueInv
      <3>2. ReportedUpTo \in Nat /\ durable <= ReportedUpTo
        BY DEF ReportedUpTo, AckedUpTo, ResultInv
      <3> QED
        BY <1>20, <2>a, <3>1, <3>2 DEF Reconnect, WindowInv
    <2> QED
      BY <2>1, <2>2, <2>3, <2>4, <2>5, <2>6, <2>7 DEF IInv
  <1>21. CASE KafkaAppend
    <2>a. held \in Events /\ held.tx = current.tx /\ held.seq = seq - 1
      BY <1>21 DEF KafkaAppend, HeldInv, TypeOK, PublisherOK
    <2>b. /\ \A t, k : InLog(log, t, k) => InLog(log', t, k)
          /\ InLog(log', current.tx, seq - 1) /\ LastIs(log', current.tx, seq - 1)
          /\ \A w, t : Done(w, log, t) => Done(w, log', t)
      BY <1>21, <2>a, LogGrows DEF KafkaAppend
    <2>1. DurableInv'
      BY <1>21, <2>b DEF KafkaAppend, DurableInv
    <2>2. ResultInv'
      BY <1>21, <2>b DEF KafkaAppend, ResultInv
    <2>3. DecoderInv'
      BY <1>21 DEF KafkaAppend, DecoderInv
    <2>4. QueueInv'
      BY <1>21 DEF KafkaAppend, QueueInv
    <2>5. HeldInv'
      BY <1>21 DEF KafkaAppend, HeldInv
    <2>6. PublishedInv'
      <3>1. seq > 1 /\ InQueue /\ pull # None /\ \A k \in 1 .. seq - 2 : InLog(log', current.tx, k)
        BY <1>21, <2>b DEF KafkaAppend, PublishedInv, HeldInv
      <3>2. \A k \in 1 .. seq - 1 : InLog(log', current.tx, k)
        BY <3>1, <2>b
      <3> QED
        BY <1>21, <3>1, <3>2, <2>b DEF KafkaAppend, PublishedInv
    <2>7. WindowInv'
      BY <1>21 DEF KafkaAppend, WindowInv, AckedUpTo, ReportedUpTo, ResultInv
    <2> QED
      BY <2>1, <2>2, <2>3, <2>4, <2>5, <2>6, <2>7 DEF IInv
  <1>22. CASE PublishAcked
    <2>1. DurableInv'
      BY <1>22 DEF PublishAcked, DurableInv
    <2>2. ResultInv'
      BY <1>22 DEF PublishAcked, ResultInv, AckedUpTo
    <2>3. DecoderInv'
      BY <1>22 DEF PublishAcked, DecoderInv
    <2>4. QueueInv'
      BY <1>22 DEF PublishAcked, QueueInv
    <2>5. HeldInv'
      BY <1>22 DEF PublishAcked, HeldInv
    <2>6. PublishedInv'
      BY <1>22 DEF PublishAcked, PublishedInv, QueueInv, HeldInv
    <2>7. WindowInv'
      BY <1>22 DEF PublishAcked, WindowInv, AckedUpTo, ReportedUpTo, ResultInv
    <2> QED
      BY <2>1, <2>2, <2>3, <2>4, <2>5, <2>6, <2>7 DEF IInv
  <1>23. CASE PublishFailed
    <2>1. DurableInv'
      BY <1>23 DEF PublishFailed, DurableInv
    <2>2. ResultInv'
      BY <1>23 DEF PublishFailed, ResultInv, AckedUpTo
    <2>3. DecoderInv'
      BY <1>23 DEF PublishFailed, DecoderInv
    <2>4. QueueInv'
      BY <1>23 DEF PublishFailed, QueueInv
    <2>5. HeldInv'
      BY <1>23 DEF PublishFailed, HeldInv
    <2>6. PublishedInv'
      BY <1>23, SMTT(30) DEF PublishFailed, PublishedInv, QueueInv, HeldInv
    <2>7. WindowInv'
      BY <1>23 DEF PublishFailed, WindowInv, AckedUpTo, ReportedUpTo, ResultInv
    <2> QED
      BY <2>1, <2>2, <2>3, <2>4, <2>5, <2>6, <2>7 DEF IInv
  <1>24. CASE ReportFailure
    <2>1. DurableInv'
      BY <1>24, <1>c DEF ReportFailure, DurableInv, Results
    <2>2. ResultInv'
      BY <1>24, <1>c DEF ReportFailure, ResultInv, AckedUpTo, Results
    <2>3. DecoderInv'
      BY <1>24, <1>c DEF ReportFailure, DecoderInv, Results
    <2>4. QueueInv'
      BY <1>24, <1>c DEF ReportFailure, QueueInv, Results
    <2>5. HeldInv'
      BY <1>24, <1>c DEF ReportFailure, HeldInv, Results
    <2>6. PublishedInv'
      BY <1>24, <1>c DEF ReportFailure, PublishedInv, Results, QueueInv, HeldInv
    <2>7. WindowInv'
      BY <1>24, <1>c DEF ReportFailure, WindowInv, AckedUpTo, ReportedUpTo, ResultInv, Results
    <2> QED
      BY <2>1, <2>2, <2>3, <2>4, <2>5, <2>6, <2>7 DEF IInv
  <1>25. CASE ReportTransaction
    <2>a. results = <<>> /\ results' # <<>> /\ results'[1].tx = held.tx /\ results'[1].ok = TRUE
      <3>1. results = <<>>
        BY <1>25, <1>c DEF ReportTransaction
      <3>2. [tx |-> held.tx, ok |-> TRUE] \in Results
        BY DEF Results
      <3>3. results' # <<>> /\ results'[1] = [tx |-> held.tx, ok |-> TRUE]
        BY <1>25, <1>c, <3>1, <3>2 DEF ReportTransaction
      <3> QED
        BY <3>1, <3>3
    <2>b. ReportedUpTo' = ReportedUpTo
      BY <1>25, <2>a DEF ReportTransaction, ReportedUpTo, AckedUpTo
    <2>1. DurableInv'
      BY <1>25, <1>c DEF ReportTransaction, DurableInv, Results
    <2>2. ResultInv'
      BY <1>25, <1>c DEF ReportTransaction, ResultInv, AckedUpTo, Results
    <2>3. DecoderInv'
      BY <1>25, <1>c DEF ReportTransaction, DecoderInv, Results
    <2>4. QueueInv'
      BY <1>25, <1>c DEF ReportTransaction, QueueInv, Results
    <2>5. HeldInv'
      BY <1>25, <1>c DEF ReportTransaction, HeldInv, Results
    <2>6. PublishedInv'
      BY <1>25 DEF ReportTransaction, PublishedInv, ResultInv
    <2>7. WindowInv'
      BY <1>25, <2>b DEF ReportTransaction, WindowInv
    <2> QED
      BY <2>1, <2>2, <2>3, <2>4, <2>5, <2>6, <2>7 DEF IInv
  <1>27. CASE OtherMessage
    <2>1. DurableInv'
      BY <1>27 DEF OtherMessage, DurableInv
    <2>2. ResultInv'
      BY <1>27 DEF OtherMessage, ResultInv, AckedUpTo
    <2>3. DecoderInv'
      BY <1>27 DEF OtherMessage, DecoderInv
    <2>4. QueueInv'
      BY <1>27 DEF OtherMessage, QueueInv
    <2>5. HeldInv'
      BY <1>27 DEF OtherMessage, HeldInv
    <2>6. PublishedInv'
      BY <1>27 DEF OtherMessage, PublishedInv
    <2>7. WindowInv'
      BY <1>27 DEF OtherMessage, WindowInv, AckedUpTo, ReportedUpTo, ResultInv
    <2> QED
      BY <2>1, <2>2, <2>3, <2>4, <2>5, <2>6, <2>7 DEF IInv
  <1>26. CASE UNCHANGED vars
    BY <1>26 DEF vars, IInv, DurableInv, ResultInv, DecoderInv, QueueInv, HeldInv, PublishedInv, WindowInv, AckedUpTo, ReportedUpTo
  <1> QED
    BY <1>1, <1>2, <1>3, <1>4, <1>5, <1>6, <1>7, <1>8, <1>9, <1>10, <1>11,
       <1>12, <1>13, <1>14, <1>15, <1>16, <1>17, <1>18, <1>19, <1>20, <1>21, <1>22, <1>23, <1>24, <1>25, <1>26, <1>27
       DEF Next, Stream, Publisher, Environment

(* The invariant holds before the first start of the reader.               *)
LEMMA InvInit == Init => IInv
  <1> SUFFICES ASSUME Init
               PROVE  IInv
    OBVIOUS
  <1> USE ReaderAssumption DEF Init
  <1>1. PositionsOK /\ ChannelOK /\ LogOK
    <2>1. <<>> \in Seq(Nat) /\ <<>> \in Seq(Results) /\ <<>> \in Seq(Events) /\ Len(<<>>) = 0
      BY EmptySeq
    <2> QED
      BY <2>1 DEF PositionsOK, ChannelOK, LogOK, ResultsCapacity
  <1>l. Len(wal) = 0
    BY EmptySeq
  <1>p. PublisherOK
    BY <1>l DEF PublisherOK, Events
  <1>2. LoopOK
    <2>0. advanced \in BOOLEAN
      BY Zenon
    <2>1. seq \in Nat \ {0} /\ txn = -1 /\ pull = -1
      BY DEF None
    <2>2. /\ current \in [tx : Nat, count : Nat] /\ current.tx <= Len(wal)
          /\ item \in Events /\ item.tx <= Len(wal)
      BY <1>l DEF Events
    <2> QED
      BY <2>0, <2>1, <2>2 DEF LoopOK, None
  <1>3. Done(wal, log, durable)
    BY DEF Done
  <1>4. DurableInv /\ ResultInv /\ DecoderInv /\ QueueInv /\ HeldInv /\ PublishedInv /\ WindowInv
    BY <1>3 DEF DurableInv, ResultInv, DecoderInv, QueueInv, HeldInv, PublishedInv,
                WindowInv, InQueue
  <1> QED
    BY <1>1, <1>2, <1>p, <1>4 DEF IInv, TypeOK

(* The invariant holds in every reachable state.                           *)
LEMMA Invariance == Spec => []IInv
  BY InvInit, InvStep, PTL DEF Spec

-----------------------------------------------------------------------------
(* Type correctness: the positions of the slot, the reader, the decoder    *)
(* and the channel stay within what the source has committed.              *)
THEOREM TypeCorrect == Spec => []TypeOK
  <1>1. IInv => TypeOK
    BY DEF IInv
  <1> QED
    BY <1>1, Invariance, PTL

(* The position sendStandby reports never passes what Kafka holds: the     *)
(* reader never lets PostgreSQL recycle WAL that is not in the topic.      *)
THEOREM ConfirmedAfterKafka == Spec => []ConfirmedOnlyAfterKafka
  <1>1. IInv => ConfirmedOnlyAfterKafka
    <2> SUFFICES ASSUME IInv
                 PROVE  ConfirmedOnlyAfterKafka
      OBVIOUS
    <2>1. confirmed \in Nat /\ durable \in Nat
      BY TypedNumbers DEF IInv, Numbers
    <2>2. Done(wal, log, confirmed)
      BY <2>1, DoneBelow DEF IInv, DurableInv
    <2> QED
      BY <2>2 DEF ConfirmedOnlyAfterKafka, T!CompleteUpTo, T!Complete, T!Published,
                  T!Record, Done, InLog
  <1> QED
    BY <1>1, Invariance, PTL

(* applyPublicationResult never sees a result below the durable LSN, so    *)
(* its "out of source order" error is unreachable.                         *)
THEOREM ResultsInSourceOrder == Spec => []NeverOutOfSourceOrder
  <1>1. IInv => NeverOutOfSourceOrder
    <2> SUFFICES ASSUME IInv, NEW i \in DOMAIN results, results[i].ok
                 PROVE  results[i].tx >= durable
      BY DEF NeverOutOfSourceOrder
    <2>1. results \in Seq(Results) /\ Len(results) <= 1
      BY DEF IInv, TypeOK, ChannelOK, ResultsCapacity
    <2>2. i = 1 /\ results # <<>>
      BY <2>1
    <2>3. results[1].tx \in Nat /\ durable \in Nat
      BY <2>2, TypedNumbers DEF IInv, Numbers
    <2> QED
      BY <2>2, <2>3 DEF IInv, ResultInv
  <1> QED
    BY <1>1, Invariance, PTL

(* The hand-off between the goroutines bounds how far the stream runs      *)
(* ahead: one transaction beyond the durable LSN, whatever MaxTx is.       *)
THEOREM OneAhead == Spec => []AtMostOneUnacknowledged
  <1>1. IInv => AtMostOneUnacknowledged
    <2> SUFFICES ASSUME IInv, pc = "receive", pub # "dead"
                 PROVE  sender.tx <= durable + 1
      BY DEF AtMostOneUnacknowledged
    <2>1. Numbers
      BY TypedNumbers DEF IInv
    <2>2. ReportedUpTo \in Nat
      BY <2>1 DEF Numbers, ReportedUpTo, AckedUpTo
    <2> QED
      BY <2>1, <2>2 DEF IInv, WindowInv, Numbers
  <1> QED
    BY <1>1, Invariance, PTL

(* No standby status moves the slot back, since every reported position is *)
(* a durable LSN at or above the confirmed one.                            *)
THEOREM SlotMonotone == Spec => SlotNeverRegresses
  <1>1. IInv /\ [Next]_vars => [confirmed' >= confirmed]_vars
    <2> SUFFICES ASSUME IInv, Next
                 PROVE  confirmed' >= confirmed
      BY DEF vars
    <2>1. /\ confirmed \in Nat /\ durable \in Nat /\ confirmed <= durable
          /\ results # <<>> /\ results[1].ok => durable <= results[1].tx
          /\ results # <<>> => results[1].tx \in Nat
      BY TypedNumbers DEF IInv, Numbers, DurableInv, ResultInv
    <2>2. results # <<>> => Head(results) = results[1]
      BY ChannelFacts DEF IInv, TypeOK
    <2>3. confirmed' \in {confirmed, durable} \/
          (results # <<>> /\ results[1].ok /\ confirmed' = results[1].tx)
      <3>1. CASE Run
        BY <3>1 DEF Run
      <3>2. CASE Publisher
        BY <3>2 DEF Publisher, KafkaAppend, PublishAcked, PublishFailed, ReportFailure,
                    ReportTransaction, source
      <3>3. CASE Environment
        BY <3>3 DEF Environment, SourceCommit, ConnectionDrops, Crash, Shutdown,
                    ReconnectFails, source
      <3>4. CASE DrainDone \/ SendWorkStatus
        BY <3>4 DEF DrainDone, SendWorkStatus, StandbyThen
      <3>5. CASE SendWorkAcked
        BY <3>5, <2>2 DEF SendWorkAcked, StandbyThen, ResultIsError
      <3>6. CASE \/ DrainResult \/ StatusDue \/ OtherMessage \/ ReceiveError \/ PullEvent
                 \/ QueueDescriptor \/ SendWork \/ SendWorkFailed
        BY <3>6 DEF DrainResult, StatusDue, OtherMessage, ReceiveError, PullEvent, QueueDescriptor,
                    SendWork, SendWorkFailed, source
      <3>7. CASE HandleBegin \/ HandleChange \/ HandleCommit \/ Reconnect
        BY <3>7 DEF HandleBegin, HandleChange, HandleCommit, Reconnect
      <3> QED
        BY <3>1, <3>2, <3>3, <3>4, <3>5, <3>6, <3>7 DEF Next, Stream
    <2> QED
      BY <2>1, <2>3
  <1> QED
    BY <1>1, Invariance, PTL DEF Spec, SlotNeverRegresses

-----------------------------------------------------------------------------
(* The event the publisher produces is an event of a committed transaction *)
(* and one that Topic allows next.                                         *)
LEMMA AppendFollows ==
    ASSUME IInv, KafkaAppend
    PROVE  /\ held.tx \in 1 .. Len(wal) /\ held.seq \in 1 .. wal[held.tx]
           /\ held = T!Record(held.tx, held.seq)
           /\ T!Follows(T!Record(held.tx, held.seq))
  <1>n. Numbers
    BY TypedNumbers DEF IInv
  <1>1. /\ InQueue /\ pull # None /\ seq > 1
        /\ held.tx = current.tx /\ held.seq = seq - 1 /\ pub = "produce"
    BY DEF KafkaAppend, IInv, HeldInv
  <1>2. /\ current.tx >= 1 /\ current.count = wal[current.tx] /\ seq <= current.count + 1
        /\ current.tx = sender.tx
    BY <1>1 DEF IInv, QueueInv
  <1>3. held.tx \in 1 .. Len(wal) /\ held.seq \in 1 .. wal[held.tx]
    BY <1>n, <1>1, <1>2 DEF Numbers
  <1>4. held = [tx |-> held.tx, seq |-> held.seq]
    BY DEF IInv, TypeOK, PublisherOK, Events
  <1>5. LastIs(log, held.tx, held.seq) \/ (seq > 2 => LastIs(log, held.tx, held.seq - 1))
    <2>1. LastIs(log, current.tx, seq - 1) \/ (seq > 2 => LastIs(log, current.tx, seq - 2))
      BY <1>1 DEF IInv, PublishedInv
    <2>2. seq - 2 = held.seq - 1
      BY <1>n, <1>1 DEF Numbers
    <2> QED
      BY <1>1, <2>1, <2>2
  <1>6. Done(wal, log, held.tx - 1)
    <2>1. AckedUpTo \in Nat /\ held.tx <= AckedUpTo + 1 /\ Done(wal, log, AckedUpTo)
      BY <1>n, <1>1 DEF IInv, WindowInv, ReportedUpTo, AckedUpTo, ResultInv, DurableInv, Numbers
    <2>2. held.tx - 1 \in Nat /\ held.tx - 1 <= AckedUpTo
      BY <1>3, <2>1
    <2> QED
      BY <2>1, <2>2, DoneBelow
  <1>7. held.seq = 1 \/ seq > 2
    BY <1>n, <1>1 DEF Numbers
  <1>8. T!CompleteUpTo(held.tx - 1)
    BY <1>6 DEF Done, InLog, T!CompleteUpTo, T!Complete, T!Published, T!Record
  <1>9. T!Follows(T!Record(held.tx, held.seq))
    <2>1. CASE LastIs(log, held.tx, held.seq)
      BY <2>1 DEF LastIs, T!Follows, T!Repeats, T!IsLast, T!Record
    <2>2. CASE held.seq = 1
      BY <2>2, <1>8 DEF T!Follows, T!Starts, T!Record
    <2>3. CASE seq > 2 /\ LastIs(log, held.tx, held.seq - 1)
      <3>1. held.seq > 1
        BY <1>n, <1>1, <2>3 DEF Numbers
      <3> QED
        BY <3>1, <2>3 DEF LastIs, T!Follows, T!Continues, T!IsLast, T!Record
    <2> QED
      BY <1>5, <1>7, <2>1, <2>2, <2>3
  <1> QED
    BY <1>3, <1>4, <1>9 DEF T!Record

(* Every step of the reader is a step of Topic or leaves it unchanged.     *)
LEMMA TopicStep == IInv /\ [Next]_vars => [T!Next]_<<wal, log>>
  <1> SUFFICES ASSUME IInv, [Next]_vars
               PROVE  T!Next \/ UNCHANGED <<wal, log>>
    OBVIOUS
  <1>1. CASE \E n \in EventCounts : SourceCommit(n)
    BY <1>1 DEF SourceCommit, T!Next, T!Commit
  <1>2. CASE KafkaAppend
    <2>1. wal' = wal /\ log' = Append(log, held)
      BY <1>2 DEF KafkaAppend, source
    <2>2. /\ held.tx \in 1 .. Len(wal) /\ held.seq \in 1 .. wal[held.tx]
          /\ held = T!Record(held.tx, held.seq)
          /\ T!Follows(T!Record(held.tx, held.seq))
      BY <1>2, AppendFollows
    <2>3. T!Publish
      BY <2>1, <2>2, Zenon DEF T!Publish
    <2> QED
      BY <2>3 DEF T!Next
  <1>3. CASE PublishAcked \/ PublishFailed \/ ReportFailure \/ ReportTransaction
    BY <1>3 DEF PublishAcked, PublishFailed, ReportFailure, ReportTransaction, source
  <1>4. CASE Run \/ ConnectionDrops \/ Crash \/ Shutdown \/ ReconnectFails \/ Reconnect
    BY <1>4 DEF Run, ConnectionDrops, Crash, Shutdown, ReconnectFails, Reconnect, source
  <1>5. CASE DrainResult \/ DrainDone \/ StatusDue \/ OtherMessage \/ ReceiveError
    BY <1>5 DEF DrainResult, DrainDone, StatusDue, OtherMessage, ReceiveError, source
  <1>6. CASE HandleBegin \/ HandleChange \/ HandleCommit
    BY <1>6 DEF HandleBegin, HandleChange, HandleCommit
  <1>7. CASE \/ PullEvent \/ QueueDescriptor \/ SendWork \/ SendWorkAcked
             \/ SendWorkFailed \/ SendWorkStatus
    BY <1>7 DEF PullEvent, QueueDescriptor, SendWork, SendWorkAcked, SendWorkFailed,
                SendWorkStatus, source
  <1>8. CASE UNCHANGED vars
    BY <1>8 DEF vars
  <1> QED
    BY <1>1, <1>2, <1>3, <1>4, <1>5, <1>6, <1>7, <1>8
       DEF Next, Stream, Publisher, Environment

(* The reader implements Topic: whatever fails, every record it appends    *)
(* continues, repeats or restarts as Topic allows.                         *)
THEOREM ReaderImplementsTopic == Spec => ImplementsTopic
  <1>1. Init => T!Init
    BY DEF Init, T!Init
  <1> QED
    BY <1>1, Invariance, TopicStep, PTL DEF Spec, ImplementsTopic, T!Spec

(* A step of Topic that the reader takes keeps the first occurrences in    *)
(* source order: a repeat has its predecessors before its earlier copy, a  *)
(* continuation before the record it continues, a start by definition.     *)
LEMMA FirstOccurrencesStep ==
    ASSUME wal \in Seq(Nat), log \in Seq(Events),
           \A i \in 1 .. Len(log) : log[i].tx <= Len(wal),
           FirstOccurrencesInSourceOrder, T!Next
    PROVE  FirstOccurrencesInSourceOrder'
  <1> DEFINE Seen(l, n, t, k) == \E h \in 1 .. n - 1 : l[h] = [tx |-> t, seq |-> k]
             Preceded(w, l, n) ==
                 /\ \A k \in 1 .. l[n].seq - 1 : Seen(l, n, l[n].tx, k)
                 /\ \A t \in 1 .. l[n].tx - 1 : \A k \in 1 .. w[t] : Seen(l, n, t, k)
  <1>a. FirstOccurrencesInSourceOrder <=> \A i \in 1 .. Len(log) : Preceded(wal, log, i)
    BY DEF FirstOccurrencesInSourceOrder, T!FirstOccurrencesInSourceOrder, T!Record
  <1>b. FirstOccurrencesInSourceOrder' <=> \A i \in 1 .. Len(log') : Preceded(wal', log', i)
    BY DEF FirstOccurrencesInSourceOrder, T!FirstOccurrencesInSourceOrder, T!Record
  <1>c. \A i \in 1 .. Len(log) : Preceded(wal, log, i)
    BY <1>a
  <1>d. \A i \in 1 .. Len(log) : log[i].tx \in Nat /\ log[i].seq \in Nat
    <2>1. \A i \in 1 .. Len(log) : log[i] \in Events
      BY ElementOfSeq
    <2> QED
      BY <2>1 DEF Events
  <1> SUFFICES ASSUME NEW i \in 1 .. Len(log')
               PROVE  Preceded(wal', log', i)
    BY <1>b
  <1>1. CASE T!Commit
    <2>1. PICK n \in EventCounts : wal' = Append(wal, n) /\ log' = log
      BY <1>1 DEF T!Commit
    <2>2. \A t \in 1 .. log[i].tx - 1 : wal'[t] = wal[t]
      <3>1. i \in 1 .. Len(log)
        BY <2>1
      <3>2. log[i].tx \in Nat /\ log[i].tx <= Len(wal) /\ n \in Nat
        BY <1>d, <3>1, ReaderAssumption
      <3>3. \A t \in 1 .. log[i].tx - 1 : t \in 1 .. Len(wal)
        BY <3>2
      <3>4. \A t \in 1 .. Len(wal) : wal'[t] = wal[t]
        BY <2>1, <3>2
      <3> QED
        BY <3>3, <3>4
    <2>3. Preceded(wal, log, i)
      BY <1>c, <2>1
    <2>4. log' = log /\ Preceded(wal', log, i)
      <3>1. \A k \in 1 .. log[i].seq - 1 : Seen(log, i, log[i].tx, k)
        BY <2>3
      <3>2. ASSUME NEW t \in 1 .. log[i].tx - 1, NEW k \in 1 .. wal'[t]
            PROVE  Seen(log, i, t, k)
        <4>1. k \in 1 .. wal[t]
          BY <2>2
        <4> HIDE DEF Seen
        <4> QED
          BY <2>3, <4>1
      <3> HIDE DEF Seen
      <3> QED
        BY <2>1, <3>1, <3>2
    <2> HIDE DEF Seen
    <2> QED
      BY <2>4
  <1>2. CASE T!Publish
    <2>0. PICK t \in 1 .. Len(wal) : \E k \in 1 .. wal[t] :
             /\ T!Follows(T!Record(t, k))
             /\ log' = Append(log, T!Record(t, k)) /\ wal' = wal
      BY <1>2 DEF T!Publish
    <2>1. PICK k \in 1 .. wal[t] :
             /\ T!Follows(T!Record(t, k))
             /\ log' = Append(log, T!Record(t, k)) /\ wal' = wal
      BY <2>0
    <2>2. t \in Nat /\ k \in Nat /\ Len(log) \in Nat /\ t >= 1 /\ k >= 1
      BY ElementOfSeq
    <2> DEFINE e == [tx |-> t, seq |-> k]
    <2>3. e \in Events /\ log' = Append(log, e) /\ e.tx = t /\ e.seq = k
      BY <2>1, <2>2 DEF T!Record, Events
    <2>4. /\ Len(log') = Len(log) + 1 /\ log'[Len(log) + 1] = e
          /\ \A h \in 1 .. Len(log) : log'[h] = log[h]
      BY <2>3
    <2> HIDE DEF e
    <2>5. CASE i \in 1 .. Len(log)
      <3>1. log'[i] = log[i] /\ \A h \in 1 .. i - 1 : log'[h] = log[h]
        BY <2>2, <2>4, <2>5
      <3>2. Preceded(wal, log, i)
        BY <1>c, <2>5
      <3>3. \A s, q : Seen(log, i, s, q) => Seen(log', i, s, q)
        BY <3>1
      <3> HIDE DEF Seen
      <3> QED
        BY <2>1, <3>1, <3>2, <3>3
    <2>6. CASE i = Len(log) + 1
      <3>1. log'[i] = e
        BY <2>4, <2>6
      <3>2. \A s, q : Seen(log', i, s, q) <=>
                \E h \in 1 .. Len(log) : log[h] = [tx |-> s, seq |-> q]
        BY <2>2, <2>4, <2>6, SMTT(30)
      <3> DEFINE Full == /\ \A q \in 1 .. k - 1 : Seen(log', i, t, q)
                         /\ \A s \in 1 .. t - 1 : \A q \in 1 .. wal[s] : Seen(log', i, s, q)
                 n == Len(log)
      <3>3. Full => Preceded(wal', log', i)
        BY <2>1, <2>3, <3>1
      <3>4. ASSUME NEW b \in Nat, n # 0, log[n] = [tx |-> t, seq |-> b], k <= b + 1
            PROVE  Full
        <4>1. n \in 1 .. Len(log) /\ log[n].tx = t /\ log[n].seq = b
          BY <2>2, <3>4
        <4>2. /\ \A q \in 1 .. b - 1 : Seen(log, n, t, q)
              /\ \A s \in 1 .. t - 1 : \A q \in 1 .. wal[s] : Seen(log, n, s, q)
          BY <1>c, <4>1
        <4>3. \A s, q : Seen(log, n, s, q) => Seen(log', i, s, q)
          <5>1. \A h \in 1 .. n - 1 : h \in 1 .. Len(log)
            BY <2>2
          <5> QED
            BY <5>1, <3>2
        <4>4. Seen(log', i, t, b)
          BY <3>2, <3>4, <4>1
        <4>5. \A q \in 1 .. k - 1 : q = b \/ q \in 1 .. b - 1
          BY <2>2, <3>4
        <4> QED
          BY <4>2, <4>3, <4>4, <4>5
      <3> HIDE DEF Full
      <3>5. CASE T!Continues(T!Record(t, k))
        <4>1. n # 0 /\ log[n] = [tx |-> t, seq |-> k - 1] /\ k > 1
          BY <3>5 DEF T!Continues, T!IsLast, T!Record
        <4>2. k - 1 \in Nat /\ k <= (k - 1) + 1
          BY <2>2, <4>1
        <4> QED
          BY <3>3, <3>4, <4>1, <4>2
      <3>6. CASE T!Repeats(T!Record(t, k))
        <4>1. n # 0 /\ log[n] = [tx |-> t, seq |-> k]
          BY <3>6 DEF T!Repeats, T!IsLast, T!Record
        <4>2. k <= k + 1
          BY <2>2
        <4> QED
          BY <2>2, <3>3, <3>4, <4>1, <4>2
      <3>7. CASE T!Starts(T!Record(t, k))
        <4>1. k = 1 /\ T!CompleteUpTo(t - 1)
          BY <3>7 DEF T!Starts, T!Record
        <4>2. \A s \in 1 .. t - 1 : \A q \in 1 .. wal[s] :
                  \E h \in 1 .. Len(log) : log[h] = [tx |-> s, seq |-> q]
          BY <4>1 DEF T!CompleteUpTo, T!Complete, T!Published, T!Record
        <4>3. \A s \in 1 .. t - 1 : \A q \in 1 .. wal[s] : Seen(log', i, s, q)
          BY <4>2, <3>2
        <4>4. \A q \in 1 .. k - 1 : Seen(log', i, t, q)
          BY <4>1
        <4>5. Full
          BY <4>3, <4>4 DEF Full
        <4> QED
          BY <3>3, <4>5
      <3> QED
        BY <2>1, <3>5, <3>6, <3>7 DEF T!Follows
    <2>7. i \in 1 .. Len(log) \/ i = Len(log) + 1
      BY <2>2, <2>4
    <2> QED
      BY <2>5, <2>6, <2>7
  <1> QED
    BY <1>1, <1>2 DEF T!Next

(* Records name committed transactions.                                    *)
LogBelow == \A i \in 1 .. Len(log) : log[i].tx <= Len(wal)

(* A consumer that drops repeated event IDs sees the source order without  *)
(* a gap, whatever the reader replays.                                     *)
THEOREM OrderOfFirstOccurrences == Spec => []FirstOccurrencesInSourceOrder
  <1> DEFINE Inv == LogBelow /\ FirstOccurrencesInSourceOrder
  <1>1. Init => Inv
    BY DEF Init, LogBelow, FirstOccurrencesInSourceOrder, T!FirstOccurrencesInSourceOrder
  <1>2. IInv /\ Inv /\ [Next]_vars => Inv'
    <2> SUFFICES ASSUME IInv, Inv, [Next]_vars
                 PROVE  Inv'
      OBVIOUS
    <2>1. wal \in Seq(Nat) /\ log \in Seq(Events) /\ Len(wal) \in Nat
      BY TypedNumbers DEF IInv, Numbers
    <2>2. CASE UNCHANGED <<wal, log>>
      BY <2>2 DEF LogBelow, FirstOccurrencesInSourceOrder, T!FirstOccurrencesInSourceOrder
    <2>3. CASE T!Next
      <3>1. FirstOccurrencesInSourceOrder'
        BY <2>1, <2>3, FirstOccurrencesStep DEF LogBelow
      <3>2. CASE T!Commit
        <4>1. PICK n \in EventCounts : wal' = Append(wal, n) /\ log' = log
          BY <3>2 DEF T!Commit
        <4>2. Len(wal') = Len(wal) + 1
          BY <2>1, <4>1, ReaderAssumption
        <4>3. \A i \in 1 .. Len(log) : log[i].tx \in Nat
          <5>1. \A i \in 1 .. Len(log) : log[i] \in Events
            BY <2>1, ElementOfSeq
          <5> QED
            BY <5>1 DEF Events
        <4>4. LogBelow'
          BY <2>1, <4>1, <4>2, <4>3 DEF LogBelow
        <4> QED
          BY <3>1, <4>4
      <3>3. CASE T!Publish
        <4>0. PICK t \in 1 .. Len(wal) : \E k \in 1 .. wal[t] :
                 log' = Append(log, [tx |-> t, seq |-> k]) /\ wal' = wal
          BY <3>3 DEF T!Publish, T!Record
        <4>1. PICK k \in 1 .. wal[t] :
                 log' = Append(log, [tx |-> t, seq |-> k]) /\ wal' = wal
          BY <4>0
        <4> DEFINE e == [tx |-> t, seq |-> k]
        <4>2. e \in Events /\ e.tx <= Len(wal)
          BY <2>1, <4>1, ElementOfSeq DEF Events
        <4>3. log' = Append(log, e)
          BY <4>1
        <4> HIDE DEF e
        <4>4. Len(log') = Len(log) + 1 /\ log'[Len(log) + 1] = e
              /\ \A h \in 1 .. Len(log) : log'[h] = log[h]
          BY <2>1, <4>2, <4>3
        <4>5. Len(log) \in Nat /\ wal' = wal
          BY <2>1, <4>1
        <4>6. \A i \in 1 .. Len(log') : i \in 1 .. Len(log) \/ i = Len(log) + 1
          BY <4>4, <4>5
        <4>7. LogBelow'
          BY <4>2, <4>4, <4>5, <4>6 DEF LogBelow
        <4> QED
          BY <3>1, <4>7
      <3> QED
        BY <2>3, <3>2, <3>3 DEF T!Next
    <2> QED
      BY <2>2, <2>3, TopicStep
  <1> QED
    BY <1>1, <1>2, Invariance, PTL DEF Spec
=============================================================================
