---------------------------- MODULE WriterProofs ----------------------------
(***************************************************************************)
(* Proofs about the writer beside the other users of its database: the     *)
(* administration of dead letters (DeadLetters) and its own initial        *)
(* snapshot (Snapshot), for any topics and bounds: no event is lost, a     *)
(* stale write is refused, and the snapshot is handed over to the stream.  *)
(***************************************************************************)
EXTENDS Snapshot, DeadLetters, DestinationProofs, FiniteSetTheorems

-----------------------------------------------------------------------------
(***************************************************************************)
(* The inductive invariant of DLSpec.                                      *)
(***************************************************************************)
TopicInv ==
    /\ source \in Histories
    /\ log \in Seq(Records) /\ \A i \in 1 .. Len(log) : IsId(source, log[i])
    /\ crashes \in Nat /\ hiccups \in Nat

(* The writer's group holds the records polled since the committed offset. *)
WriterInv ==
    /\ pc \in {"down", "poll", "apply", "replay", "retry", "commit"}
    /\ offset \in 0 .. Len(log) /\ pos \in 0 .. Len(log)
    /\ group \in Seq(Events) /\ next \in Nat \ {0}
    /\ pc # "down" =>
          /\ pos = offset + Len(group)
          /\ \A j \in 1 .. Len(group) : group[j] = Event(log[offset + j])
    /\ pc \in {"replay", "retry"} => poison \in 1 .. Len(group)

LedgersInv ==
    /\ db \in Databases /\ times \in [Ids -> Nat] /\ timeouts \in Nat
    /\ db.marks \cup db.dead \cup dropped \cup todo \subseteq Ids

(* Where cdcctl is.                                                        *)
Busy == {"apply", "restash", "close"}
CtlInv ==
    /\ ctl \in {"idle", "next"} \cup Busy
    /\ ctl = "idle" => todo = {}
    /\ ctl \in Busy => letter \in db.dead

(* The writer is through with event j of its group, with record i of the   *)
(* topic, with event r.                                                    *)
Passed(j) ==
    CASE pc = "commit" -> TRUE
      [] pc = "retry"  -> j # poison
      [] pc = "replay" -> j < next /\ j # poison
      [] OTHER         -> FALSE
Handled(i) == i <= offset \/ (i <= offset + Len(group) /\ Passed(i - offset))
Seen(r) == \E i \in 1 .. Len(log) : log[i] = r /\ Handled(i)

(* Kafka has delivered the event at most once.                             *)
Sole(r) ==
    /\ crashes = 0
    /\ \A i, j \in 1 .. Len(log) : log[i] = r /\ log[j] = r => i = j

(* Nobody knows an event that the writer is not through with; one that it  *)
(* is through with was applied, is quarantined, or was dropped.            *)
KeptInv(r) ==
    /\ ~Seen(r) => times[r] = 0 /\ r \notin db.marks \cup db.dead \cup dropped \cup todo
    /\ Seen(r) => times[r] > 0 \/ r \in db.dead \cup dropped

(* A dropped event is out of everybody's hands.                            *)
DroppedInv(r) == r \in dropped => r \notin db.marks \cup db.dead \cup todo

(* Between the rewind and the apply of a replay nobody else marks the      *)
(* event, so the apply takes effect before the letter is deleted.          *)
ReplayInv(r) ==
    letter = r => /\ ctl = "apply" => r \notin db.marks
                  /\ ctl = "close" => times[r] > 0

(* A letter has been applied no more often than replays were cut off.      *)
RepeatInv(r) ==
    /\ times[r] <= 1 + timeouts
    /\ r \in db.dead /\ ~(ctl = "close" /\ letter = r) => times[r] <= timeouts

EventInv(r) == KeptInv(r) /\ DroppedInv(r) /\ ReplayInv(r) /\ RepeatInv(r)

DLInv ==
    /\ TopicInv /\ WriterInv /\ LedgersInv /\ CtlInv
    /\ \A r \in Ids : Sole(r) => EventInv(r)

-----------------------------------------------------------------------------
(* An identity names an event.                                             *)
LEMMA KnownEvent ==
    ASSUME TopicInv
    PROVE  /\ \A r \in Ids : Event(r) \in Events /\ Event(r).id = r
           /\ \A i \in 1 .. Len(log) : log[i] \in Ids
  <1>1. source \in Histories /\ \A i \in 1 .. Len(log) : IsId(source, log[i])
    BY DEF TopicInv
  <1>2. \A r : r \in Ids <=> IsId(source, r)
    BY <1>1, IdsAre
  <1>3. ASSUME NEW r \in Ids
        PROVE  Event(r) \in Events /\ Event(r).id = r
    <2>1. Event(r) = EventOf(source, r)
      BY DEF Event, EventOf
    <2> QED
      BY <1>1, <1>2, <2>1, EventTyped
  <1> QED
    BY <1>1, <1>2, <1>3

(* What is delivered at most once has at most one place in the topic.      *)
LEMMA OnceIsSole == ASSUME TopicInv, NEW r, Once(r) PROVE Sole(r)
  <1> DEFINE S == {i \in 1 .. Len(log) : log[i] = r}
  <1>1. crashes = 0 /\ Cardinality(S) <= 1
    BY DEF Once
  <1>2. Len(log) \in Nat
    BY DEF TopicInv
  <1>3. IsFiniteSet(S)
    <2>1. IsFiniteSet(1 .. Len(log))
      BY <1>2, FS_Interval
    <2> QED
      BY <2>1, FS_Subset
  <1> SUFFICES ASSUME NEW i \in S, NEW j \in S, i # j PROVE FALSE
    BY <1>1 DEF Sole
  <1> HIDE DEF S
  <1>4. IsFiniteSet({i}) /\ Cardinality({i}) = 1
    BY FS_Singleton
  <1>5. Cardinality({i} \cup {j}) = 2
    BY <1>4, FS_AddElement
  <1>6. {i} \cup {j} \subseteq S
    OBVIOUS
  <1>7. Cardinality({i} \cup {j}) <= Cardinality(S) /\ Cardinality(S) \in Nat
    BY <1>3, <1>6, FS_Subset, FS_CardinalityType
  <1> QED
    BY <1>1, <1>5, <1>7

(* Counting the events of a set.                                           *)
LEMMA CountedIs ==
    ASSUME times \in [Ids -> Nat], source' = source, NEW A, Counted(A)
    PROVE  /\ times' \in [Ids' -> Nat] /\ Ids' = Ids
           /\ \A r \in Ids : times'[r] = IF r \in A THEN times[r] + 1 ELSE times[r]
           /\ A = {} => times' = times
  <1>1. Ids' = Ids
    BY DEF Ids
  <1> QED
    BY <1>1 DEF Counted

(* The writer gets through with the records N of the topic: the markers of *)
(* all of them are set, Q are quarantined and A are applied.               *)
LEMMA Effects ==
    ASSUME DLInv, NEW N \in SUBSET (1 .. Len(log)), NEW Q, NEW A, Counted(A),
           UNCHANGED <<source, log, crashes, ctl, todo, letter, timeouts, dropped>>,
           hiccups' \in Nat, WriterInv', db' \in Databases,
           \A i \in N : ~Handled(i),
           \A i \in 1 .. Len(log) : Handled(i)' <=> Handled(i) \/ i \in N,
           db'.marks = db.marks \cup {log[i] : i \in N}, db'.dead = db.dead \cup Q,
           Q \subseteq {log[i] : i \in N}, A \subseteq {log[i] : i \in N},
           \A i \in N : log[i] \notin db.marks => (log[i] \in Q <=> log[i] \notin A)
    PROVE  DLInv'
  <1>0. /\ TopicInv /\ LedgersInv /\ CtlInv /\ \A r \in Ids : Sole(r) => EventInv(r)
        /\ times \in [Ids -> Nat] /\ \A i \in 1 .. Len(log) : log[i] \in Ids
    BY KnownEvent DEF DLInv, LedgersInv
  <1>1. /\ times' \in [Ids' -> Nat] /\ Ids' = Ids
        /\ \A r \in Ids : times'[r] = IF r \in A THEN times[r] + 1 ELSE times[r]
    BY <1>0, CountedIs
  <1>2. TopicInv'
    BY <1>0 DEF TopicInv
  <1>3. LedgersInv'
    BY <1>0, <1>1 DEF LedgersInv
  <1>4. CtlInv'
    BY <1>0 DEF CtlInv
  <1>5. ASSUME NEW r \in Ids, Sole(r)
        PROVE  EventInv(r)'
    <2>0. KeptInv(r) /\ DroppedInv(r) /\ ReplayInv(r) /\ RepeatInv(r)
      BY <1>0, <1>5 DEF EventInv
    <2>1. times[r] \in Nat /\ times'[r] \in Nat /\ timeouts \in Nat
      BY <1>0, <1>1 DEF LedgersInv
    <2>2. CASE r \in {log[i] : i \in N}
      <3>1. PICK i \in N : log[i] = r
        BY <2>2
      <3>2. ~Seen(r)
        BY <1>5, <3>1 DEF Seen, Sole
      <3>3. Seen(r)'
        BY <3>1 DEF Seen
      <3>4. times[r] = 0 /\ r \notin db.marks \cup db.dead \cup dropped \cup todo
        BY <2>0, <3>2 DEF KeptInv
      <3>5. (r \in Q <=> r \notin A) /\ (ctl \in Busy => letter # r)
        BY <1>0, <3>1, <3>4 DEF CtlInv
      <3>6. KeptInv(r)' /\ DroppedInv(r)'
        BY <1>1, <3>3, <3>4, <3>5 DEF KeptInv, DroppedInv
      <3>7. ReplayInv(r)' /\ RepeatInv(r)'
        BY <1>1, <2>1, <3>4, <3>5 DEF ReplayInv, RepeatInv, Busy
      <3> QED
        BY <3>6, <3>7 DEF EventInv
    <2>3. CASE r \notin {log[i] : i \in N}
      <3>1. /\ r \in db'.marks <=> r \in db.marks
            /\ r \in db'.dead <=> r \in db.dead
            /\ times'[r] = times[r]
        BY <1>1, <2>3
      <3>2. Seen(r)' <=> Seen(r)
        BY <2>3 DEF Seen
      <3>3. KeptInv(r)' /\ DroppedInv(r)'
        BY <2>0, <3>1, <3>2 DEF KeptInv, DroppedInv
      <3>4. ReplayInv(r)' /\ RepeatInv(r)'
        BY <2>0, <3>1 DEF ReplayInv, RepeatInv
      <3> QED
        BY <3>3, <3>4 DEF EventInv
    <2> QED
      BY <2>2, <2>3
  <1>6. \A r \in Ids' : Sole(r)' => EventInv(r)'
    BY <1>1, <1>5 DEF Sole
  <1> QED
    BY <1>2, <1>3, <1>4, <1>6 DEF DLInv

(* A step of the writer that neither handles a record nor touches the      *)
(* markers and the letters.                                                *)
LEMMA NoEffect ==
    ASSUME DLInv, Counted({}),
           UNCHANGED <<source, log, crashes, ctl, todo, letter, timeouts, dropped>>,
           hiccups' \in Nat, WriterInv', db' \in Databases,
           \A i \in 1 .. Len(log) : Handled(i)' <=> Handled(i),
           db'.marks = db.marks, db'.dead = db.dead
    PROVE  DLInv'
  <1> DEFINE N == {}
  <1>1. /\ N \in SUBSET (1 .. Len(log)) /\ {log[i] : i \in N} = {}
        /\ \A i \in N : ~Handled(i)
        /\ \A i \in 1 .. Len(log) : Handled(i)' <=> Handled(i) \/ i \in N
        /\ \A i \in N : log[i] \notin db.marks => (log[i] \in {} <=> log[i] \notin {})
    OBVIOUS
  <1>2. db'.marks = db.marks \cup {log[i] : i \in N} /\ db'.dead = db.dead \cup {}
    BY <1>1
  <1> HIDE DEF N
  <1> QED
    BY <1>1, <1>2, Effects

-----------------------------------------------------------------------------
(***************************************************************************)
(* The writer's steps.                                                     *)
(***************************************************************************)
(* The group in hand is a part of the topic.                               *)
LEMMA InHand ==
    ASSUME DLInv
    PROVE  /\ Len(log) \in Nat /\ Len(group) \in Nat /\ offset \in Nat /\ pos \in Nat
           /\ pc # "down" => offset + Len(group) <= Len(log)
           /\ pc # "down" => \A j \in 1 .. Len(group) :
                 /\ offset + j \in 1 .. Len(log) /\ group[j] \in Events
                 /\ group[j].id = log[offset + j] /\ group[j].id \in Ids
  <1>1. /\ Len(log) \in Nat /\ Len(group) \in Nat /\ offset \in Nat /\ pos \in Nat
        /\ pos <= Len(log)
    BY DEF DLInv, TopicInv, WriterInv
  <1>2. ASSUME pc # "down"
        PROVE  /\ offset + Len(group) <= Len(log)
               /\ \A j \in 1 .. Len(group) :
                     /\ offset + j \in 1 .. Len(log) /\ group[j] \in Events
                     /\ group[j].id = log[offset + j] /\ group[j].id \in Ids
    <2>1. /\ pos = offset + Len(group)
          /\ \A j \in 1 .. Len(group) : group[j] = Event(log[offset + j])
      BY <1>2 DEF DLInv, WriterInv
    <2>2. \A j \in 1 .. Len(group) : offset + j \in 1 .. Len(log)
      BY <1>1, <2>1
    <2>3. /\ \A r \in Ids : Event(r) \in Events /\ Event(r).id = r
          /\ \A i \in 1 .. Len(log) : log[i] \in Ids
      BY KnownEvent DEF DLInv
    <2> QED
      BY <1>1, <2>1, <2>2, <2>3
  <1> QED
    BY <1>1, <1>2

(* Steps that commit no mutation.                                          *)
LEMMA AppliesNothing ==
    ASSUME ~(pc \in {"apply", "retry"} /\ pc' = "commit"), ~(pc = "replay" /\ next' > next)
    PROVE  WriterApplies = {}
  BY DEF WriterApplies

(* What WriterActs leaves alone.                                           *)
Beside == Counted(WriterApplies) /\ UNCHANGED <<ctlVars, dropped>>

(* run, and a poll that has nothing.                                       *)
LEMMA RunStep == ASSUME DLInv, Run \/ PollEmpty, Beside PROVE DLInv'
  <1>1. /\ Len(log) \in Nat /\ Len(group) \in Nat /\ offset \in Nat /\ pos \in Nat
        /\ WriterInv /\ LedgersInv /\ TopicInv
    BY InHand DEF DLInv
  <1>2. CASE Run
    <2> USE <1>2 DEF Run, DropBatch, topic, budgets
    <2>1. WriterApplies = {}
      BY AppliesNothing
    <2>2. WriterInv'
      BY <1>1 DEF WriterInv
    <2>3. \A i \in 1 .. Len(log) : Handled(i)' <=> Handled(i)
      BY <1>1 DEF Handled, Passed
    <2> QED
      BY <1>1, <2>1, <2>2, <2>3, NoEffect DEF Beside, ctlVars, LedgersInv, TopicInv
  <1>3. CASE PollEmpty
    <2> USE <1>3 DEF PollEmpty, vars
    <2>1. WriterApplies = {}
      BY AppliesNothing
    <2>2. WriterInv'
      BY <1>1 DEF WriterInv, Event
    <2>3. \A i \in 1 .. Len(log) : Handled(i)' <=> Handled(i)
      BY DEF Handled, Passed
    <2> QED
      BY <1>1, <2>1, <2>2, <2>3, NoEffect DEF Beside, ctlVars, LedgersInv, TopicInv
  <1> QED
    BY <1>2, <1>3

(* handleEvent.                                                            *)
LEMMA HandleStep == ASSUME DLInv, HandleEvent, Beside PROVE DLInv'
  <1> USE DEF HandleEvent, topic, batch, budgets
  <1>1. /\ Len(log) \in Nat /\ Len(group) \in Nat /\ offset \in Nat /\ pos \in Nat
        /\ WriterInv /\ LedgersInv /\ TopicInv /\ group \in Seq(Events) /\ pc = "poll"
    BY InHand DEF DLInv, WriterInv
  <1>2. WriterApplies = {}
    BY AppliesNothing
  <1> DEFINE e == Event(log[pos + 1])
  <1>3. e \in Events /\ pos + 1 \in 1 .. Len(log) /\ pos = offset + Len(group)
    <2>1. pos + 1 \in 1 .. Len(log)
      BY <1>1
    <2>2. log[pos + 1] \in Ids
      BY <1>1, <2>1, KnownEvent
    <2> QED
      BY <1>1, <2>1, <2>2, KnownEvent DEF WriterInv
  <1>4. \/ group' = Append(group, e) /\ pc' \in {"poll", "apply"}
        \/ group' = group /\ pc' = "down"
    OBVIOUS
  <1>5. CASE group' = Append(group, e) /\ pc' \in {"poll", "apply"}
    <2>1. /\ group' \in Seq(Events) /\ Len(group') = Len(group) + 1
          /\ group'[Len(group) + 1] = e /\ \A j \in 1 .. Len(group) : group'[j] = group[j]
      BY <1>1, <1>3, <1>5
    <2>2. \A j \in 1 .. Len(group') : group'[j] = Event(log[offset + j])
      <3>1. \A j \in 1 .. Len(group) : group[j] = Event(log[offset + j])
        BY <1>1 DEF WriterInv
      <3>2. group'[Len(group) + 1] = Event(log[offset + (Len(group) + 1)])
        <4>1. pos + 1 = offset + (Len(group) + 1)
          BY <1>1, <1>3
        <4> QED
          BY <2>1, <4>1
      <3> HIDE DEF e
      <3>3. \A j \in 1 .. Len(group') : j \in 1 .. Len(group) \/ j = Len(group) + 1
        BY <1>1, <2>1
      <3> QED
        BY <2>1, <3>1, <3>2, <3>3
    <2>3. \A j \in 1 .. Len(group') : group'[j] = Event(log[offset + j])'
      BY <2>2 DEF Event
    <2> HIDE DEF e
    <2>4. WriterInv'
      BY <1>1, <1>3, <1>5, <2>1, <2>3 DEF WriterInv
    <2>5. \A i \in 1 .. Len(log) : Handled(i)' <=> Handled(i)
      BY <1>1, <1>5 DEF Handled, Passed
    <2> QED
      BY <1>1, <1>2, <2>4, <2>5, NoEffect DEF Beside, ctlVars, LedgersInv, TopicInv
  <1>6. CASE group' = group /\ pc' = "down"
    <2>1. WriterInv'
      BY <1>1, <1>3, <1>6 DEF WriterInv
    <2>2. \A i \in 1 .. Len(log) : Handled(i)' <=> Handled(i)
      BY <1>1, <1>6 DEF Handled, Passed
    <2> QED
      BY <1>1, <1>2, <2>1, <2>2, NoEffect DEF Beside, ctlVars, LedgersInv, TopicInv
  <1> QED
    BY <1>4, <1>5, <1>6

(* commitKafkaOffsetAndAllowRebalance.                                     *)
LEMMA OffsetStep == ASSUME DLInv, CommitKafkaOffset, Beside PROVE DLInv'
  <1> USE DEF CommitKafkaOffset, DropBatch, budgets
  <1>1. /\ Len(log) \in Nat /\ Len(group) \in Nat /\ offset \in Nat /\ pos \in Nat
        /\ WriterInv /\ LedgersInv /\ TopicInv /\ pc = "commit" /\ pos = offset + Len(group)
    BY InHand DEF DLInv, WriterInv
  <1>2. WriterApplies = {}
    BY <1>1, AppliesNothing
  <1>3. WriterInv'
    BY <1>1 DEF WriterInv
  <1>4. \A i \in 1 .. Len(log) : Handled(i)' <=> Handled(i)
    BY <1>1 DEF Handled, Passed
  <1> QED
    BY <1>1, <1>2, <1>3, <1>4, NoEffect DEF Beside, ctlVars, LedgersInv, TopicInv

(* A rolled-back group starts its replay at the first event.               *)
LEMMA RollBackStep ==
    ASSUME DLInv, Beside, RollBackGroup \/ \E i \in DOMAIN group : RollBackInterrupted(i)
    PROVE  DLInv'
  <1>1. /\ Len(log) \in Nat /\ Len(group) \in Nat /\ offset \in Nat /\ pos \in Nat
        /\ WriterInv /\ LedgersInv /\ TopicInv /\ group \in Seq(Events)
    BY InHand DEF DLInv, WriterInv
  <1>2. /\ pc = "apply" /\ pc' = "replay" /\ next' = 1 /\ poison' \in 1 .. Len(group)
        /\ UNCHANGED <<source, log, offset, db, pos, group, crashes>>
        /\ hiccups' \in Nat
    <2>1. CASE RollBackGroup
      <3>1. BatchError(db, group) \in 1 .. Len(group)
        BY <1>1, <2>1, BlamesFaulty DEF RollBackGroup, LedgersInv
      <3> QED
        BY <1>1, <2>1, <3>1 DEF RollBackGroup, topic, budgets, TopicInv
    <2>2. ASSUME NEW i \in DOMAIN group, RollBackInterrupted(i)
          PROVE  <1>2!:
      <3>1. Blamed(db, group, i) \in 1 .. Len(group)
        <4>1. i \in Fresh(db, group)
          BY <1>1, <2>2 DEF RollBackInterrupted, Hiccup, Fresh
        <4> QED
          BY <1>1, <4>1, BlamedIs
      <3>2. hiccups' = hiccups + 1 /\ hiccups \in Nat
        BY <1>1, <2>2 DEF RollBackInterrupted, Hiccup, TopicInv
      <3> QED
        BY <2>2, <3>1, <3>2 DEF RollBackInterrupted, topic
    <2> QED
      BY <2>1, <2>2
  <1>3. WriterApplies = {}
    BY <1>2, AppliesNothing
  <1>4. WriterInv'
    <2>1. /\ pos = offset + Len(group)
          /\ \A j \in 1 .. Len(group) : group[j] = Event(log[offset + j])
      BY <1>1, <1>2 DEF WriterInv
    <2>2. /\ pos' = offset' + Len(group')
          /\ \A j \in 1 .. Len(group') : group'[j] = Event(log[offset + j])'
      BY <1>2, <2>1 DEF Event
    <2> QED
      BY <1>1, <1>2, <2>2 DEF WriterInv
  <1>5. \A i \in 1 .. Len(log) : Handled(i)' <=> Handled(i)
    BY <1>1, <1>2 DEF Handled, Passed
  <1> QED
    BY <1>1, <1>2, <1>3, <1>4, <1>5, NoEffect DEF Beside, ctlVars, LedgersInv, TopicInv

(* ApplyBatch handles the whole group: the events without a marker are     *)
(* applied.                                                                *)
LEMMA CommitStep == ASSUME DLInv, CommitGroup, Beside PROVE DLInv'
  <1> USE DEF CommitGroup, topic, batch, budgets
  <1>1. /\ Len(log) \in Nat /\ Len(group) \in Nat /\ offset \in Nat /\ pos \in Nat
        /\ WriterInv /\ LedgersInv /\ TopicInv /\ group \in Seq(Events)
        /\ offset + Len(group) <= Len(log)
    BY InHand DEF DLInv, WriterInv
  <1>2. \A j \in 1 .. Len(group) : offset + j \in 1 .. Len(log) /\ group[j].id = log[offset + j]
    BY InHand
  <1> DEFINE N == {i \in 1 .. Len(log) : i > offset /\ i <= offset + Len(group)}
             A == {group[j].id : j \in Fresh(db, group)}
             S == {group[j].id : j \in 1 .. Len(group)}
             Q == {}
  <1>3. WriterApplies = A
    BY DEF WriterApplies
  <1>4. db' \in Databases /\ db'.marks = db.marks \cup S /\ db'.dead = db.dead
    BY <1>1, BatchMarks DEF LedgersInv
  <1>5. {log[i] : i \in N} = S
    <2>1. ASSUME NEW i \in N
          PROVE  log[i] \in S
      <3>1. i - offset \in 1 .. Len(group) /\ offset + (i - offset) = i
        BY <1>1
      <3> QED
        BY <1>2, <3>1
    <2>2. ASSUME NEW j \in 1 .. Len(group)
          PROVE  \E i \in N : log[i] = group[j].id
      <3>1. offset + j \in N
        BY <1>1
      <3> QED
        BY <1>2, <3>1
    <2> QED
      BY <2>1, <2>2
  <1>6. A \subseteq S /\ \A r \in S : r \notin db.marks => r \in A
    BY DEF Fresh, IsMarked
  <1>7. WriterInv'
    BY <1>1 DEF WriterInv, Event
  <1>8. /\ \A i \in N : ~Handled(i)
        /\ \A i \in 1 .. Len(log) : Handled(i)' <=> Handled(i) \/ i \in N
    BY <1>1 DEF Handled, Passed
  <1>9. N \in SUBSET (1 .. Len(log))
    OBVIOUS
  <1>10. Counted(A)
    BY <1>3 DEF Beside
  <1> HIDE DEF N, A, S
  <1>11. \A i \in N : log[i] \notin db.marks => (log[i] \in Q <=> log[i] \notin A)
    BY <1>5, <1>6
  <1>12. /\ db'.marks = db.marks \cup {log[i] : i \in N} /\ db'.dead = db.dead \cup Q
         /\ Q \subseteq {log[i] : i \in N} /\ A \subseteq {log[i] : i \in N}
    BY <1>4, <1>5, <1>6
  <1>13. UNCHANGED <<source, log, crashes, ctl, todo, letter, timeouts, dropped>> /\ hiccups' \in Nat
    BY <1>1 DEF Beside, ctlVars, TopicInv
  <1> HIDE DEF Q, CommitGroup
  <1> QED
    BY <1>4, <1>7, <1>8, <1>9, <1>10, <1>11, <1>12, <1>13, Effects

(* One event of the group is handled in a transaction of its own.          *)
LEMMA AloneStep ==
    ASSUME DLInv, pc # "down", NEW j \in 1 .. Len(group), NEW Q \in SUBSET {group[j].id},
           NEW A \in SUBSET {group[j].id}, Counted(A), WriterInv',
           UNCHANGED <<source, log, crashes, ctl, todo, letter, timeouts, dropped>>,
           hiccups' \in Nat, db' \in Databases, ~Handled(offset + j),
           \A i \in 1 .. Len(log) : Handled(i)' <=> Handled(i) \/ i = offset + j,
           db'.marks = db.marks \cup {group[j].id}, db'.dead = db.dead \cup Q,
           group[j].id \notin db.marks => (Q = {group[j].id} <=> A = {})
    PROVE  DLInv'
  <1> DEFINE N == {offset + j}
  <1>1. offset + j \in 1 .. Len(log) /\ group[j].id = log[offset + j]
    BY InHand
  <1>2. /\ N \in SUBSET (1 .. Len(log)) /\ {log[i] : i \in N} = {group[j].id}
        /\ \A i \in N : ~Handled(i)
        /\ \A i \in 1 .. Len(log) : Handled(i)' <=> Handled(i) \/ i \in N
    BY <1>1
  <1>3. \A i \in N : log[i] \notin db.marks => (log[i] \in Q <=> log[i] \notin A)
    BY <1>1
  <1>4. /\ db'.marks = db.marks \cup {log[i] : i \in N}
        /\ Q \subseteq {log[i] : i \in N} /\ A \subseteq {log[i] : i \in N}
    BY <1>2
  <1> HIDE DEF N
  <1> QED
    BY <1>2, <1>3, <1>4, Effects

(* Apply, and RecordDeadLetter when it fails: the event is applied or      *)
(* quarantined, unless it has its marker.                                  *)
LEMMA ApplyOrQuarantineIs ==
    ASSUME db \in Databases, hiccups \in Nat, NEW e \in Events, ApplyOrQuarantine(e)
    PROVE  /\ db' \in Databases /\ hiccups' \in Nat
           /\ db'.marks = db.marks \cup {e.id}
           /\ AppliedAlone(e) \in SUBSET {e.id}
           /\ \E Q \in SUBSET {e.id} :
                 /\ db'.dead = db.dead \cup Q
                 /\ e.id \notin db.marks => (Q = {e.id} <=> AppliedAlone(e) = {})
  <1>1. CASE ApplyFails(db, e) /\ db' = RecordDeadLetter(db, e) /\ UNCHANGED hiccups
    BY <1>1, DeadLetterMarks DEF AppliedAlone
  <1>2. CASE Hiccup(e) /\ db' = RecordDeadLetter(db, e)
    <2>1. hiccups' # hiccups /\ hiccups' \in Nat
      BY <1>2 DEF Hiccup
    <2> QED
      BY <1>2, <2>1, DeadLetterMarks DEF AppliedAlone
  <1>3. CASE ~ApplyFails(db, e) /\ db' = Apply(db, e) /\ UNCHANGED hiccups
    <2>1. /\ db' \in Databases /\ db'.marks = db.marks \cup {e.id} /\ db'.dead = db.dead \cup {}
      BY <1>3, ApplyMarks
    <2>2. e.id \notin db.marks => AppliedAlone(e) = {e.id}
      BY <1>3 DEF AppliedAlone, IsMarked
    <2>3. AppliedAlone(e) \in SUBSET {e.id}
      BY DEF AppliedAlone
    <2>4. {} \in SUBSET {e.id} /\ (e.id \notin db.marks => ({} = {e.id} <=> AppliedAlone(e) = {}))
      BY <2>2
    <2> QED
      BY <1>3, <2>1, <2>3, <2>4
  <1> QED
    BY <1>1, <1>2, <1>3 DEF ApplyOrQuarantine

(* replayHealthyEvents.                                                    *)
LEMMA ReplayStep == ASSUME DLInv, ReplayHealthyEvent, Beside PROVE DLInv'
  <1> USE DEF ReplayHealthyEvent, topic
  <1>1. /\ Len(log) \in Nat /\ Len(group) \in Nat /\ offset \in Nat /\ pos \in Nat
        /\ WriterInv /\ LedgersInv /\ TopicInv /\ next \in Nat \ {0}
        /\ pc = "replay" /\ poison \in 1 .. Len(group) /\ db \in Databases /\ hiccups \in Nat
    BY InHand DEF DLInv, WriterInv, LedgersInv, TopicInv
  <1>2. WriterInv'
    BY <1>1 DEF WriterInv, Event
  <1>3. UNCHANGED <<source, log, crashes, ctl, todo, letter, timeouts, dropped>>
    BY DEF Beside, ctlVars
  <1>4. CASE next = poison
    <2>1. WriterApplies = {}
      BY <1>1, <1>4 DEF WriterApplies
    <2>2. \A i \in 1 .. Len(log) : Handled(i)' <=> Handled(i)
      BY <1>1, <1>4 DEF Handled, Passed
    <2> QED
      BY <1>1, <1>2, <1>3, <1>4, <2>1, <2>2, NoEffect DEF Beside
  <1>5. CASE next # poison
    <2> DEFINE e == group[next]
    <2>1. next \in 1 .. Len(group) /\ e \in Events /\ ApplyOrQuarantine(e)
      BY <1>1, <1>5, InHand
    <2>2. WriterApplies = AppliedAlone(e)
      BY <1>1, <1>5 DEF WriterApplies
    <2>3. /\ db' \in Databases /\ hiccups' \in Nat
          /\ db'.marks = db.marks \cup {e.id}
          /\ AppliedAlone(e) \in SUBSET {e.id}
          /\ \E Q \in SUBSET {e.id} :
                /\ db'.dead = db.dead \cup Q
                /\ e.id \notin db.marks => (Q = {e.id} <=> AppliedAlone(e) = {})
      BY <1>1, <2>1, ApplyOrQuarantineIs
    <2>4. PICK Q \in SUBSET {e.id} :
                /\ db'.dead = db.dead \cup Q
                /\ e.id \notin db.marks => (Q = {e.id} <=> AppliedAlone(e) = {})
      BY <2>3
    <2>5. /\ ~Handled(offset + next)
          /\ \A i \in 1 .. Len(log) : Handled(i)' <=> Handled(i) \/ i = offset + next
      BY <1>1, <1>5, <2>1 DEF Handled, Passed
    <2>6. Counted(AppliedAlone(e))
      BY <2>2 DEF Beside
    <2> HIDE DEF ReplayHealthyEvent
    <2> QED
      BY <1>1, <1>2, <1>3, <2>1, <2>3, <2>4, <2>5, <2>6, AloneStep
  <1> QED
    BY <1>4, <1>5

(* RepairSchema changes the columns only.                                  *)
LEMMA RepairedStep == ASSUME DLInv, RepairPoison, Beside PROVE DLInv'
  <1> USE DEF RepairPoison, topic, batch, budgets
  <1>1. /\ Len(log) \in Nat /\ Len(group) \in Nat /\ offset \in Nat /\ pos \in Nat
        /\ WriterInv /\ LedgersInv /\ TopicInv /\ next \in Nat
        /\ pc = "replay" /\ poison \in 1 .. Len(group) /\ db \in Databases
    BY InHand DEF DLInv, WriterInv, LedgersInv
  <1>2. group[poison] \in Events
    BY <1>1, InHand
  <1>3. db' \in Databases /\ db'.marks = db.marks /\ db'.dead = db.dead
    BY <1>1, <1>2, RepairAddsColumn
  <1>4. WriterApplies = {}
    BY <1>1, AppliesNothing
  <1>5. WriterInv'
    BY <1>1 DEF WriterInv, Event
  <1>6. \A i \in 1 .. Len(log) : Handled(i)' <=> Handled(i)
    BY <1>1 DEF Handled, Passed
  <1> QED
    BY <1>1, <1>3, <1>4, <1>5, <1>6, NoEffect DEF Beside, ctlVars, TopicInv

(* The poison event is retried, or quarantined.                            *)
LEMMA PoisonStep == ASSUME DLInv, RetryPoison \/ QuarantinePoison, Beside PROVE DLInv'
  <1>1. /\ Len(log) \in Nat /\ Len(group) \in Nat /\ offset \in Nat /\ pos \in Nat
        /\ WriterInv /\ LedgersInv /\ TopicInv /\ next \in Nat
        /\ pc \in {"replay", "retry"} /\ poison \in 1 .. Len(group)
        /\ db \in Databases /\ hiccups \in Nat
    BY InHand DEF DLInv, WriterInv, LedgersInv, TopicInv, RetryPoison, QuarantinePoison
  <1> DEFINE e == group[poison]
  <1>2. e \in Events
    BY <1>1, InHand
  <1>3. UNCHANGED <<source, log, crashes, ctl, todo, letter, timeouts, dropped>>
    BY DEF Beside, ctlVars, RetryPoison, QuarantinePoison, topic, budgets
  <1>4. pc' = "commit" /\ UNCHANGED <<offset, pos, group, poison, next>>
    BY DEF RetryPoison, QuarantinePoison, topic, batch
  <1>5. WriterInv'
    BY <1>1, <1>3, <1>4 DEF WriterInv, Event
  <1>6. /\ ~Handled(offset + poison)
        /\ \A i \in 1 .. Len(log) : Handled(i)' <=> Handled(i) \/ i = offset + poison
    BY <1>1, <1>4 DEF Handled, Passed, RetryPoison, QuarantinePoison
  <1>7. CASE RetryPoison
    <2>1. WriterApplies = AppliedAlone(e) /\ ApplyOrQuarantine(e)
      BY <1>7 DEF WriterApplies, RetryPoison
    <2>2. /\ db' \in Databases /\ hiccups' \in Nat
          /\ db'.marks = db.marks \cup {e.id}
          /\ AppliedAlone(e) \in SUBSET {e.id}
          /\ \E Q \in SUBSET {e.id} :
                /\ db'.dead = db.dead \cup Q
                /\ e.id \notin db.marks => (Q = {e.id} <=> AppliedAlone(e) = {})
      BY <1>1, <1>2, <2>1, ApplyOrQuarantineIs
    <2>3. PICK Q \in SUBSET {e.id} :
                /\ db'.dead = db.dead \cup Q
                /\ e.id \notin db.marks => (Q = {e.id} <=> AppliedAlone(e) = {})
      BY <2>2
    <2>4. Counted(AppliedAlone(e))
      BY <2>1 DEF Beside
    <2> QED
      BY <1>1, <1>3, <1>5, <1>6, <2>2, <2>3, <2>4, AloneStep
  <1>8. CASE QuarantinePoison
    <2>1. /\ db' \in Databases /\ db'.marks = db.marks \cup {e.id}
          /\ db'.dead = db.dead \cup {e.id} /\ hiccups' \in Nat
      BY <1>1, <1>2, <1>8, DeadLetterMarks DEF QuarantinePoison, budgets
    <2>2. WriterApplies = {}
      BY <1>1, <1>8, AppliesNothing DEF QuarantinePoison, batch
    <2>3. Counted({})
      BY <2>2 DEF Beside
    <2>4. {e.id} \in SUBSET {e.id} /\ {} \in SUBSET {e.id}
          /\ (e.id \notin db.marks => ({e.id} = {e.id} <=> {} = {}))
      OBVIOUS
    <2> QED
      BY <1>1, <1>3, <1>5, <1>6, <2>1, <2>3, <2>4, AloneStep
  <1> QED
    BY <1>7, <1>8

(* A new record is one that the writer is not through with.                *)
LEMMA PublishStep ==
    ASSUME DLInv, Beside, NEW t \in 1 .. Len(source), NEW k \in 1 .. Len(source[t]), Publish(t, k)
    PROVE  DLInv'
  <1> DEFINE r0 == T!Record(t, k)
  <1>1. /\ Len(log) \in Nat /\ Len(group) \in Nat /\ offset \in Nat /\ pos \in Nat
        /\ TopicInv /\ WriterInv /\ LedgersInv /\ CtlInv
        /\ log \in Seq(Records) /\ next \in Nat /\ offset <= Len(log)
        /\ pc # "down" => offset + Len(group) <= Len(log)
    <2>1. /\ Len(log) \in Nat /\ Len(group) \in Nat /\ offset \in Nat /\ pos \in Nat
          /\ pc # "down" => offset + Len(group) <= Len(log)
      BY InHand
    <2>2. TopicInv /\ WriterInv /\ LedgersInv /\ CtlInv
      BY DEF DLInv
    <2>3. log \in Seq(Records) /\ next \in Nat /\ offset \in 0 .. Len(log)
      BY <2>2 DEF TopicInv, WriterInv
    <2> QED
      BY <2>1, <2>2, <2>3
  <1>2. r0 \in Records /\ IsId(source, r0)
    <2>1. Len(source[t]) \in Nat
      BY <1>1, SourceTyped DEF TopicInv
    <2>2. t \in Nat /\ k \in Nat
      BY <2>1
    <2>3. r0 = [tx |-> t, seq |-> k]
      BY DEF T!Record
    <2> HIDE DEF r0
    <2> QED
      BY <2>2, <2>3 DEF Records, IsId
  <1>3. /\ log' = Append(log, r0)
        /\ UNCHANGED <<source, offset, db, pc, pos, group, poison, undefined, next,
                       crashes, hiccups>>
    BY DEF Publish, batch, budgets
  <1> HIDE DEF r0
  <1>4. /\ log' \in Seq(Records) /\ Len(log') = Len(log) + 1 /\ log'[Len(log) + 1] = r0
        /\ \A i \in 1 .. Len(log) : log'[i] = log[i]
    BY <1>1, <1>2, <1>3
  <1>5. \A i \in 1 .. Len(log') : i \in 1 .. Len(log) \/ i = Len(log) + 1
    BY <1>1, <1>4
  <1>6. TopicInv'
    BY <1>1, <1>2, <1>3, <1>4, <1>5 DEF TopicInv
  <1>7. WriterInv'
    <2>1. ASSUME pc # "down", NEW j \in 1 .. Len(group)
          PROVE  (group[j] = Event(log[offset + j]))'
      <3>1. group[j] = Event(log[offset + j]) /\ offset + j \in 1 .. Len(log)
        BY <2>1, InHand DEF DLInv, WriterInv
      <3>2. log'[offset + j] = log[offset + j]
        BY <1>4, <3>1
      <3> QED
        BY <1>3, <3>1, <3>2 DEF Event
    <2> QED
      BY <1>1, <1>3, <1>4, <2>1 DEF WriterInv
  <1>8. WriterApplies = {}
    BY <1>1, <1>3, AppliesNothing
  <1>9. times' = times /\ Ids' = Ids /\ UNCHANGED <<ctl, todo, letter, timeouts, dropped>>
    BY <1>1, <1>3, <1>8, CountedIs DEF Beside, LedgersInv, ctlVars
  <1>10. LedgersInv' /\ CtlInv'
    BY <1>1, <1>3, <1>9 DEF LedgersInv, CtlInv
  <1>11. /\ \A i \in 1 .. Len(log) : Handled(i)' <=> Handled(i)
         /\ \A i \in 1 .. Len(log') : i > Len(log) => ~Handled(i)'
    BY <1>1, <1>3, <1>4 DEF Handled, Passed
  <1>12. ASSUME NEW r \in Ids, Sole(r)'
         PROVE  EventInv(r)'
    <2>1. Sole(r)
      BY <1>1, <1>3, <1>4, <1>12 DEF Sole
    <2>2. Seen(r)' <=> Seen(r)
      <3>1. \A i \in 1 .. Len(log') : Handled(i)' => i \in 1 .. Len(log)
        BY <1>1, <1>4, <1>11
      <3>2. \A i \in 1 .. Len(log) : i \in 1 .. Len(log')
        BY <1>1, <1>4
      <3> QED
        BY <1>4, <1>11, <3>1, <3>2 DEF Seen
    <2>3. EventInv(r)
      BY <2>1 DEF DLInv
    <2> QED
      BY <1>3, <1>9, <2>2, <2>3
         DEF EventInv, KeptInv, DroppedInv, ReplayInv, RepeatInv
  <1> QED
    BY <1>6, <1>7, <1>9, <1>10, <1>12 DEF DLInv

(* After a crash nothing is claimed of single events.                      *)
LEMMA CrashStep == ASSUME DLInv, Crash, Beside PROVE DLInv'
  <1> USE DEF Crash, topic, batch
  <1>1. TopicInv /\ WriterInv /\ LedgersInv /\ CtlInv /\ crashes \in Nat /\ next \in Nat
    BY DEF DLInv, TopicInv, WriterInv
  <1>2. WriterApplies = {}
    BY <1>1, AppliesNothing
  <1>3. times' = times /\ Ids' = Ids /\ UNCHANGED <<ctl, todo, letter, timeouts, dropped>>
    BY <1>1, <1>2, CountedIs DEF Beside, LedgersInv, ctlVars
  <1>4. TopicInv' /\ LedgersInv' /\ CtlInv'
    BY <1>1, <1>3 DEF TopicInv, LedgersInv, CtlInv
  <1>5. WriterInv'
    BY <1>1 DEF WriterInv
  <1>6. \A r : ~Sole(r)'
    BY <1>1 DEF Sole
  <1> QED
    BY <1>4, <1>5, <1>6 DEF DLInv

(* The writer's steps keep the invariant.                                  *)
LEMMA WriterStep == ASSUME DLInv, WriterActs PROVE DLInv'
  <1>1. Beside
    BY DEF WriterActs, Beside
  <1>2. CASE Step
    BY <1>1, <1>2, RunStep, HandleStep, CommitStep, RollBackStep, ReplayStep, RepairedStep,
       PoisonStep, OffsetStep DEF Step
  <1>3. CASE Crash \/ PollEmpty \/ \E i \in DOMAIN group : RollBackInterrupted(i)
    BY <1>1, <1>3, CrashStep, RunStep, RollBackStep
  <1>4. CASE \E t \in 1 .. Len(source) : \E k \in 1 .. Len(source[t]) : Publish(t, k)
    BY <1>1, <1>4, PublishStep
  <1> QED
    BY <1>2, <1>3, <1>4 DEF WriterActs

-----------------------------------------------------------------------------
(***************************************************************************)
(* The steps of cdcctl and the operator.                                   *)
(***************************************************************************)
(* They leave the writer where it is.                                      *)
LEMMA WriterStands ==
    ASSUME DLInv, UNCHANGED writerVars, hiccups' \in Nat
    PROVE  /\ TopicInv' /\ WriterInv' /\ Ids' = Ids
           /\ \A r : (Sole(r)' <=> Sole(r)) /\ (Seen(r)' <=> Seen(r))
  <1> USE DEF writerVars, topic, batch
  <1>1. TopicInv' /\ Ids' = Ids
    BY DEF DLInv, TopicInv, Ids
  <1>2. WriterInv'
    BY DEF DLInv, WriterInv, Event
  <1>3. \A r : Sole(r)' <=> Sole(r)
    BY DEF Sole
  <1>4. \A i : Handled(i)' <=> Handled(i)
    BY DEF Handled, Passed
  <1>5. \A r : Seen(r)' <=> Seen(r)
    BY <1>4 DEF Seen
  <1> QED
    BY <1>1, <1>2, <1>3, <1>5

(* AlterTable, and the ends of a command.                                  *)
LEMMA CommandStep ==
    ASSUME DLInv,
           \/ EndReplay \/ CutOff \/ \E t \in Tables : AlterTable(t)
           \/ \E S \in {db.dead} \cup {{r} : r \in db.dead} : StartReplay(S)
    PROVE  DLInv'
  <1>0. /\ LedgersInv /\ CtlInv /\ TopicInv /\ db \in Databases /\ timeouts \in Nat
        /\ \A r \in Ids : Sole(r) => EventInv(r)
        /\ \A r \in Ids : times[r] \in Nat
    BY DEF DLInv, LedgersInv
  <1>1. UNCHANGED writerVars /\ hiccups' \in Nat /\ UNCHANGED <<dropped, times>>
    BY <1>0 DEF EndReplay, CutOff, AlterTable, StartReplay, vars, writerVars, topic, batch, TopicInv
  <1>2. /\ TopicInv' /\ WriterInv' /\ Ids' = Ids
        /\ \A r : (Sole(r)' <=> Sole(r)) /\ (Seen(r)' <=> Seen(r))
    BY <1>1, WriterStands
  <1>3. CASE EndReplay
    <2> USE <1>3 DEF EndReplay, vars
    <2>1. LedgersInv' /\ CtlInv'
      BY <1>0, <1>2 DEF LedgersInv, CtlInv, Busy
    <2>2. \A r \in Ids : EventInv(r) => EventInv(r)'
      BY <1>2 DEF EventInv, KeptInv, DroppedInv, ReplayInv, RepeatInv
    <2> QED
      BY <1>0, <1>2, <2>1, <2>2 DEF DLInv
  <1>4. CASE CutOff
    <2> USE <1>4 DEF CutOff, vars
    <2>1. LedgersInv' /\ CtlInv'
      BY <1>0, <1>2 DEF LedgersInv, CtlInv, Busy
    <2>2. ASSUME NEW r \in Ids, EventInv(r)
          PROVE  EventInv(r)'
      <3>1. KeptInv(r)' /\ DroppedInv(r)' /\ ReplayInv(r)'
        BY <1>2, <2>2 DEF EventInv, KeptInv, DroppedInv, ReplayInv
      <3>2. RepeatInv(r)'
        BY <1>0, <2>2 DEF EventInv, RepeatInv
      <3> QED
        BY <3>1, <3>2 DEF EventInv
    <2> QED
      BY <1>0, <1>2, <2>1, <2>2 DEF DLInv
  <1>5. ASSUME NEW t \in Tables, AlterTable(t)
        PROVE  DLInv'
    <2>1. /\ db' \in Databases /\ db'.marks = db.marks /\ db'.dead = db.dead
          /\ UNCHANGED <<ctl, todo, letter, timeouts>>
      BY <1>0, <1>5 DEF AlterTable, Databases, ctlVars
    <2>2. LedgersInv' /\ CtlInv'
      BY <1>0, <1>1, <1>2, <2>1 DEF LedgersInv, CtlInv
    <2>3. \A r \in Ids : EventInv(r) => EventInv(r)'
      BY <1>1, <1>2, <2>1 DEF EventInv, KeptInv, DroppedInv, ReplayInv, RepeatInv
    <2> QED
      BY <1>0, <1>2, <2>2, <2>3 DEF DLInv
  <1>6. ASSUME NEW S, StartReplay(S)
        PROVE  DLInv'
    <2> USE <1>6 DEF StartReplay, vars
    <2>1. S \subseteq db.dead
      OBVIOUS
    <2>2. LedgersInv' /\ CtlInv'
      BY <1>0, <1>2, <2>1 DEF LedgersInv, CtlInv, Busy
    <2>3. ASSUME NEW r \in Ids, EventInv(r)
          PROVE  EventInv(r)'
      <3>1. KeptInv(r)' /\ DroppedInv(r)'
        BY <1>2, <2>1, <2>3 DEF EventInv, KeptInv, DroppedInv
      <3>2. ReplayInv(r)' /\ RepeatInv(r)'
        BY <2>3 DEF EventInv, ReplayInv, RepeatInv
      <3> QED
        BY <3>1, <3>2 DEF EventInv
    <2> QED
      BY <1>0, <1>2, <2>2, <2>3 DEF DLInv
  <1> QED
    BY <1>3, <1>4, <1>5, <1>6

(* ReplayDeadLetter: the marker is rewound.                                *)
LEMMA RewindStep == ASSUME DLInv, NEW q \in todo, RewindMarker(q) PROVE DLInv'
  <1> USE DEF RewindMarker
  <1>0. /\ LedgersInv /\ CtlInv /\ TopicInv /\ db \in Databases /\ q \in Ids
        /\ \A r \in Ids : Sole(r) => EventInv(r)
    BY DEF DLInv, LedgersInv
  <1>1. UNCHANGED writerVars /\ hiccups' \in Nat /\ UNCHANGED <<dropped, times, timeouts>>
    BY <1>0 DEF TopicInv
  <1>2. /\ TopicInv' /\ WriterInv' /\ Ids' = Ids
        /\ \A r : (Sole(r)' <=> Sole(r)) /\ (Seen(r)' <=> Seen(r))
    BY <1>1, WriterStands
  <1>3. CASE q \in db.dead
    <2>1. /\ db' \in Databases /\ db'.marks = db.marks \ {q} /\ db'.dead = db.dead
          /\ ctl = "next" /\ ctl' = "apply" /\ todo' = todo \ {q} /\ letter' = q
      BY <1>0, <1>3 DEF Databases
    <2>2. LedgersInv' /\ CtlInv'
      BY <1>0, <1>1, <1>2, <1>3, <2>1 DEF LedgersInv, CtlInv, Busy
    <2>3. ASSUME NEW r \in Ids, EventInv(r)
          PROVE  EventInv(r)'
      <3>1. KeptInv(r)' /\ DroppedInv(r)'
        BY <1>1, <1>2, <1>3, <2>1, <2>3 DEF EventInv, KeptInv, DroppedInv
      <3>2. ReplayInv(r)' /\ RepeatInv(r)'
        BY <1>1, <2>1, <2>3 DEF EventInv, ReplayInv, RepeatInv
      <3> QED
        BY <3>1, <3>2 DEF EventInv
    <2> QED
      BY <1>0, <1>2, <2>2, <2>3 DEF DLInv
  <1>4. CASE q \notin db.dead
    <2>1. UNCHANGED <<db, ctl>> /\ ctl = "next" /\ todo' = todo \ {q} /\ letter' = q
      BY <1>4
    <2>2. LedgersInv' /\ CtlInv'
      BY <1>0, <1>1, <1>2, <2>1 DEF LedgersInv, CtlInv, Busy
    <2>3. ASSUME NEW r \in Ids, EventInv(r)
          PROVE  EventInv(r)'
      <3>1. KeptInv(r)' /\ DroppedInv(r)'
        BY <1>1, <1>2, <2>1, <2>3 DEF EventInv, KeptInv, DroppedInv
      <3>2. ReplayInv(r)' /\ RepeatInv(r)'
        BY <1>1, <2>1, <2>3 DEF EventInv, ReplayInv, RepeatInv
      <3> QED
        BY <3>1, <3>2 DEF EventInv
    <2> QED
      BY <1>0, <1>2, <2>2, <2>3 DEF DLInv
  <1> QED
    BY <1>3, <1>4

(* ReplayDeadLetter: an apply that succeeds takes effect, as nobody has    *)
(* marked the event since the rewind.                                      *)
LEMMA ReplayApplyStep == ASSUME DLInv, ReplayApply PROVE DLInv'
  <1> DEFINE e == Event(letter)
  <1>0. /\ LedgersInv /\ CtlInv /\ TopicInv /\ db \in Databases /\ hiccups \in Nat
        /\ times \in [Ids -> Nat] /\ timeouts \in Nat
        /\ \A r \in Ids : Sole(r) => EventInv(r)
    BY DEF DLInv, LedgersInv, TopicInv
  <1>1. ctl = "apply" /\ letter \in db.dead /\ letter \in Ids
    BY <1>0 DEF ReplayApply, CtlInv, Busy, LedgersInv
  <1>2. e \in Events /\ e.id = letter
    BY <1>0, <1>1, KnownEvent
  <1>3. /\ \/ /\ (ApplyFails(db, e) /\ UNCHANGED hiccups) \/ Hiccup(e)
              /\ ctl' = "restash" /\ UNCHANGED db
           \/ /\ ~ApplyFails(db, e) /\ UNCHANGED hiccups
              /\ ctl' = "close" /\ db' = Apply(db, e)
        /\ Counted(AppliedAlone(e))
        /\ UNCHANGED <<writerVars, todo, letter, timeouts, dropped>>
    BY DEF ReplayApply
  <1> HIDE DEF e
  <1>4. hiccups' \in Nat
    BY <1>0, <1>3 DEF Hiccup
  <1>5. /\ TopicInv' /\ WriterInv' /\ Ids' = Ids
        /\ \A r : (Sole(r)' <=> Sole(r)) /\ (Seen(r)' <=> Seen(r))
    BY <1>3, <1>4, WriterStands
  <1>6. /\ times' \in [Ids' -> Nat]
        /\ \A r \in Ids : times'[r] = IF r \in AppliedAlone(e) THEN times[r] + 1 ELSE times[r]
    BY <1>0, <1>3, CountedIs DEF writerVars, topic
  <1>7. CASE ctl' = "restash" /\ UNCHANGED db /\ (ApplyFails(db, e) \/ Hiccup(e))
    <2>1. AppliedAlone(e) = {}
      BY <1>0, <1>7 DEF AppliedAlone, Hiccup
    <2>2. \A r \in Ids : times'[r] = times[r]
      BY <1>6, <2>1
    <2>3. LedgersInv' /\ CtlInv'
      BY <1>0, <1>1, <1>3, <1>5, <1>6, <1>7 DEF LedgersInv, CtlInv, Busy
    <2>4. ASSUME NEW r \in Ids, EventInv(r)
          PROVE  EventInv(r)'
      BY <1>1, <1>3, <1>5, <1>7, <2>2, <2>4
         DEF EventInv, KeptInv, DroppedInv, ReplayInv, RepeatInv
    <2> QED
      BY <1>0, <1>5, <2>3, <2>4 DEF DLInv
  <1>8. CASE ~ApplyFails(db, e) /\ UNCHANGED hiccups /\ ctl' = "close" /\ db' = Apply(db, e)
    <2>1. db' \in Databases /\ db'.marks = db.marks \cup {letter} /\ db'.dead = db.dead
      BY <1>0, <1>2, <1>8, ApplyMarks
    <2>2. /\ AppliedAlone(e) \subseteq {letter}
          /\ letter \notin db.marks => AppliedAlone(e) = {letter}
      BY <1>2, <1>8 DEF AppliedAlone, IsMarked
    <2>3. LedgersInv' /\ CtlInv'
      BY <1>0, <1>1, <1>3, <1>5, <1>6, <1>8, <2>1 DEF LedgersInv, CtlInv, Busy
    <2>4. ASSUME NEW r \in Ids, EventInv(r)
          PROVE  EventInv(r)'
      <3>1. times[r] \in Nat /\ times'[r] \in Nat /\ ctl' = "close"
        BY <1>0, <1>5, <1>6, <1>8
      <3>2. CASE r = letter
        <4>1. times'[r] = times[r] + 1 /\ times[r] <= timeouts /\ r \in db.dead
          BY <1>1, <1>6, <2>2, <2>4, <3>2 DEF EventInv, ReplayInv, RepeatInv
        <4>2. Seen(r) /\ r \notin dropped
          BY <2>4, <4>1 DEF EventInv, KeptInv, DroppedInv
        <4>3. KeptInv(r)' /\ DroppedInv(r)'
          BY <1>3, <1>5, <3>1, <4>1, <4>2, <2>1 DEF KeptInv, DroppedInv
        <4>4. ReplayInv(r)' /\ RepeatInv(r)'
          BY <1>0, <1>3, <3>1, <3>2, <4>1 DEF ReplayInv, RepeatInv
        <4> QED
          BY <4>3, <4>4 DEF EventInv
      <3>3. CASE r # letter
        <4>1. times'[r] = times[r] /\ (r \in db'.marks <=> r \in db.marks)
          BY <1>6, <2>1, <2>2, <3>3
        <4>2. KeptInv(r)' /\ DroppedInv(r)'
          BY <1>3, <1>5, <2>1, <2>4, <4>1 DEF EventInv, KeptInv, DroppedInv
        <4>3. ReplayInv(r)' /\ RepeatInv(r)'
          BY <1>3, <2>1, <2>4, <3>3, <4>1 DEF EventInv, ReplayInv, RepeatInv
        <4> QED
          BY <4>2, <4>3 DEF EventInv
      <3> QED
        BY <3>2, <3>3
    <2> QED
      BY <1>0, <1>5, <2>3, <2>4 DEF DLInv
  <1> QED
    BY <1>3, <1>7, <1>8

(* ReplayDeadLetter: the letter is quarantined again, or deleted.          *)
LEMMA LetterStep == ASSUME DLInv, Restash \/ CloseLetter PROVE DLInv'
  <1>0. /\ LedgersInv /\ CtlInv /\ TopicInv /\ db \in Databases /\ hiccups \in Nat
        /\ \A r \in Ids : Sole(r) => EventInv(r)
    BY DEF DLInv, LedgersInv, TopicInv
  <1>1. /\ letter \in db.dead /\ letter \in Ids /\ ctl' = "next"
        /\ UNCHANGED <<writerVars, hiccups, todo, letter, timeouts, dropped, times>>
    BY <1>0 DEF Restash, CloseLetter, CtlInv, Busy, LedgersInv
  <1>2. /\ TopicInv' /\ WriterInv' /\ Ids' = Ids
        /\ \A r : (Sole(r)' <=> Sole(r)) /\ (Seen(r)' <=> Seen(r))
    BY <1>0, <1>1, WriterStands
  <1>3. CASE Restash
    <2>1. /\ db' \in Databases /\ db'.marks = db.marks \cup {letter}
          /\ db'.dead = db.dead \cup {letter} /\ ctl = "restash"
      BY <1>0, <1>1, <1>3, KnownEvent, DeadLetterMarks DEF Restash
    <2>2. LedgersInv' /\ CtlInv'
      BY <1>0, <1>1, <1>2, <2>1 DEF LedgersInv, CtlInv, Busy
    <2>3. ASSUME NEW r \in Ids, EventInv(r)
          PROVE  EventInv(r)'
      <3>1. KeptInv(r)' /\ DroppedInv(r)'
        BY <1>1, <1>2, <2>1, <2>3 DEF EventInv, KeptInv, DroppedInv
      <3>2. ReplayInv(r)' /\ RepeatInv(r)'
        BY <1>1, <2>1, <2>3 DEF EventInv, ReplayInv, RepeatInv
      <3> QED
        BY <3>1, <3>2 DEF EventInv
    <2> QED
      BY <1>0, <1>2, <2>2, <2>3 DEF DLInv
  <1>4. CASE CloseLetter
    <2>1. /\ db' \in Databases /\ db'.marks = db.marks
          /\ db'.dead = db.dead \ {letter} /\ ctl = "close"
      BY <1>0, <1>4 DEF CloseLetter, Databases
    <2>2. LedgersInv' /\ CtlInv'
      BY <1>0, <1>1, <1>2, <2>1 DEF LedgersInv, CtlInv, Busy
    <2>3. ASSUME NEW r \in Ids, EventInv(r)
          PROVE  EventInv(r)'
      <3>1. KeptInv(r)' /\ DroppedInv(r)'
        BY <1>1, <1>2, <2>1, <2>3 DEF EventInv, KeptInv, DroppedInv, ReplayInv
      <3>2. ReplayInv(r)' /\ RepeatInv(r)'
        BY <1>1, <2>1, <2>3 DEF EventInv, ReplayInv, RepeatInv
      <3> QED
        BY <3>1, <3>2 DEF EventInv
    <2> QED
      BY <1>0, <1>2, <2>2, <2>3 DEF DLInv
  <1> QED
    BY <1>3, <1>4

(* DropDeadLetter, while no command is under way.                          *)
LEMMA DropStep == ASSUME DLInv, NEW q \in db.dead, DropDeadLetter(q) PROVE DLInv'
  <1> USE DEF DropDeadLetter
  <1>0. /\ LedgersInv /\ CtlInv /\ TopicInv /\ db \in Databases /\ hiccups \in Nat /\ q \in Ids
        /\ \A r \in Ids : Sole(r) => EventInv(r)
    BY DEF DLInv, LedgersInv, TopicInv
  <1>1. /\ UNCHANGED <<writerVars, hiccups, ctl, todo, letter, timeouts, times>>
        /\ ctl = "idle" /\ todo = {} /\ dropped' = dropped \cup {q}
    BY <1>0 DEF ctlVars, CtlInv
  <1>2. /\ TopicInv' /\ WriterInv' /\ Ids' = Ids
        /\ \A r : (Sole(r)' <=> Sole(r)) /\ (Seen(r)' <=> Seen(r))
    BY <1>0, <1>1, WriterStands
  <1>3. db' \in Databases /\ db'.marks = db.marks \ {q} /\ db'.dead = db.dead \ {q}
    BY <1>0 DEF Databases
  <1>4. LedgersInv' /\ CtlInv'
    BY <1>0, <1>1, <1>2, <1>3 DEF LedgersInv, CtlInv, Busy
  <1>5. ASSUME NEW r \in Ids, EventInv(r)
        PROVE  EventInv(r)'
    <2>1. KeptInv(r)' /\ DroppedInv(r)'
      BY <1>1, <1>2, <1>3, <1>5 DEF EventInv, KeptInv, DroppedInv
    <2>2. ReplayInv(r)' /\ RepeatInv(r)'
      BY <1>1, <1>3, <1>5 DEF EventInv, ReplayInv, RepeatInv
    <2> QED
      BY <2>1, <2>2 DEF EventInv
  <1> QED
    BY <1>0, <1>2, <1>4, <1>5 DEF DLInv

-----------------------------------------------------------------------------
(* Before the writer's first start nothing is known.                       *)
LEMMA DLInitInv == DLInit => DLInv
  <1> SUFFICES ASSUME DLInit PROVE DLInv
    OBVIOUS
  <1> USE DEF DLInit, Init
  <1>1. TopicInv
    BY DEF TopicInv
  <1>2. WriterInv
    BY DEF WriterInv
  <1>3. LedgersInv
    <2>1. EmptyDatabase \in Databases
      BY DEF EmptyDatabase, Databases, Absent, Nil, Rows, Records
    <2> QED
      BY <2>1 DEF LedgersInv, EmptyDatabase
  <1>4. CtlInv
    BY DEF CtlInv, Busy
  <1>5. ASSUME NEW r \in Ids
        PROVE  EventInv(r)
    <2>1. ~Seen(r)
      BY DEF Seen
    <2> QED
      BY <2>1 DEF EventInv, KeptInv, DroppedInv, ReplayInv, RepeatInv, EmptyDatabase
  <1> QED
    BY <1>1, <1>2, <1>3, <1>4, <1>5 DEF DLInv

(* The invariant is inductive.                                             *)
LEMMA DLStepInv == DLInv /\ [DLNext]_dlVars => DLInv'
  <1> SUFFICES ASSUME DLInv, [DLNext]_dlVars PROVE DLInv'
    OBVIOUS
  <1>1. CASE UNCHANGED dlVars
    <2>1. UNCHANGED writerVars /\ hiccups' = hiccups /\ hiccups \in Nat
      BY <1>1 DEF dlVars, vars, writerVars, topic, batch, DLInv, TopicInv
    <2>2. /\ TopicInv' /\ WriterInv' /\ Ids' = Ids
          /\ \A r : (Sole(r)' <=> Sole(r)) /\ (Seen(r)' <=> Seen(r))
      BY <2>1, WriterStands
    <2>3. UNCHANGED <<db, times, timeouts, dropped, ctl, todo, letter>>
      BY <1>1 DEF dlVars, vars, ctlVars
    <2>4. LedgersInv' /\ CtlInv'
      BY <2>2, <2>3 DEF DLInv, LedgersInv, CtlInv
    <2>5. \A r \in Ids : EventInv(r) => EventInv(r)'
      BY <2>2, <2>3 DEF EventInv, KeptInv, DroppedInv, ReplayInv, RepeatInv
    <2> QED
      BY <2>2, <2>4, <2>5 DEF DLInv
  <1>2. CASE DLNext
    BY <1>2, WriterStep, CommandStep, RewindStep, ReplayApplyStep, LetterStep, DropStep
       DEF DLNext
  <1> QED
    BY <1>1, <1>2

(* The invariant holds of every reachable state.                           *)
THEOREM DeadLettersInvariance == DLSpec => []DLInv
  BY DLInitInv, DLStepInv, PTL DEF DLSpec

(* An event that Kafka delivers once satisfies the event's invariant.      *)
LEMMA EventFacts ==
    ASSUME DLInv, NEW r \in Ids, Once(r)
    PROVE  EventInv(r) /\ times[r] \in Nat
  BY OnceIsSole DEF DLInv, LedgersInv

(* "Offsets keep moving; nothing is lost", for any histories, topics,      *)
(* commands and places where cdcctl is cut off: what the consumer has      *)
(* passed was applied, is a dead letter, or was dropped by the operator.   *)
THEOREM DeadLettersLoseNothing == DLSpec => []NothingLost
  <1>1. ASSUME DLInv, NEW i \in 1 .. offset, Once(log[i])
        PROVE  log[i] \in AppliedIds \cup db.dead \cup dropped
    <2>1. i \in 1 .. Len(log) /\ Handled(i)
      BY <1>1, InHand DEF DLInv, WriterInv, Handled
    <2>2. log[i] \in Ids
      BY <1>1, <2>1, KnownEvent DEF DLInv
    <2>3. Seen(log[i])
      BY <2>1 DEF Seen
    <2>4. EventInv(log[i])
      BY <1>1, <2>2, EventFacts
    <2> QED
      BY <2>2, <2>3, <2>4 DEF EventInv, KeptInv, AppliedIds
  <1>2. DLInv => NothingLost
    BY <1>1 DEF NothingLost
  <1> QED
    BY <1>2, DeadLettersInvariance, PTL

(* DropDeadLetter is final: "neither the writer nor a later replay attempt *)
(* ever sees the event again", unless Kafka delivers it again.             *)
THEOREM DeadLettersStayDropped == DLSpec => []DroppedStaysDropped
  <1>1. ASSUME DLInv, NEW r \in dropped, Once(r)
        PROVE  r \notin db.marks \cup db.dead
    <2>1. r \in Ids
      BY <1>1 DEF DLInv, LedgersInv
    <2> QED
      BY <1>1, <2>1, EventFacts DEF EventInv, DroppedInv
  <1>2. DLInv => DroppedStaysDropped
    BY <1>1 DEF DroppedStaysDropped
  <1> QED
    BY <1>2, DeadLettersInvariance, PTL

(* ReplayDeadLetter "re-applies a quarantined event exactly once": an      *)
(* event that is delivered once is applied again only after a replay that  *)
(* was cut off, once for each.                                             *)
THEOREM DeadLettersRepeatOnlyAfterCutOff == DLSpec => []RepeatsOnlyAfterCutOff
  <1>1. DLInv => RepeatsOnlyAfterCutOff
    BY EventFacts DEF RepeatsOnlyAfterCutOff, EventInv, RepeatInv
  <1> QED
    BY <1>1, DeadLettersInvariance, PTL

-----------------------------------------------------------------------------
(***************************************************************************)
(* Stale writes.  If every change writes a whole row, and no two of a      *)
(* transaction the same row, the tables show for each row the change with  *)
(* the highest LSN of those applied, in whatever order and however often   *)
(* they were applied: so does the execution in source order.               *)
(***************************************************************************)
Writes(r, t, k) == source[r.tx][r.seq].table = t /\ source[r.tx][r.seq].key = k

(* Change r is the one of S that row k of table t should show.             *)
Latest(S, t, k, r) ==
    r \in S /\ Writes(r, t, k) /\ \A q \in S : Writes(q, t, k) => q.tx <= r.tx

CellOf(x, S, t, k) ==
    \/ x = M!NoRow /\ \A q \in S : ~Writes(q, t, k)
    \/ \E r \in S : Latest(S, t, k, r) /\ x = [val |-> r, big |-> r]

RowOf(row, S, t, k) ==
    \/ row = Absent /\ \A q \in S : ~Writes(q, t, k)
    \/ \E r \in S : Latest(S, t, k, r) /\ row = [lsn |-> r.tx, val |-> r, big |-> r]

RowsInv == \A t \in Tables, k \in Keys : RowOf(db.rows[t][k], AppliedIds, t, k)

(* What a row shows is determined.                                         *)
LEMMA CellUnique ==
    ASSUME source \in Histories, RowsUpsertedOnce, NEW S, \A q \in S : IsId(source, q),
           NEW t, NEW k, NEW x, NEW y, CellOf(x, S, t, k), CellOf(y, S, t, k)
    PROVE  x = y
  <1>1. ASSUME NEW r, NEW q, Latest(S, t, k, r), Latest(S, t, k, q)
        PROVE  r = q
    <2>1. IsId(source, r) /\ IsId(source, q) /\ r.tx <= q.tx /\ q.tx <= r.tx
      BY <1>1 DEF Latest
    <2>2. /\ r.tx = q.tx /\ r.tx \in 1 .. Len(source)
          /\ r.seq \in 1 .. Len(source[r.tx]) /\ q.seq \in 1 .. Len(source[r.tx])
          /\ r = [tx |-> r.tx, seq |-> r.seq] /\ q = [tx |-> q.tx, seq |-> q.seq]
      BY <2>1 DEF IsId, Records
    <2>3. source[r.tx] \in Transactions
      BY <2>2 DEF Transactions
    <2>4. r.seq = q.seq
      BY <1>1, <2>2, <2>3 DEF RowsUpsertedOnce, Latest, Writes
    <2> QED
      BY <2>2, <2>4
  <1>2. CASE \A q \in S : ~Writes(q, t, k)
    BY <1>2 DEF CellOf, Latest
  <1>3. CASE ~\A q \in S : ~Writes(q, t, k)
    <2>1. PICK r \in S : Latest(S, t, k, r) /\ x = [val |-> r, big |-> r]
      BY <1>3 DEF CellOf
    <2>2. PICK q \in S : Latest(S, t, k, q) /\ y = [val |-> q, big |-> q]
      BY <1>3 DEF CellOf
    <2> QED
      BY <1>1, <2>1, <2>2
  <1> QED
    BY <1>2, <1>3

(* A change is an upsert of one row.                                       *)
LEMMA ExecUpserts ==
    ASSUME source \in Histories, RowsUpsertedOnce, NEW r, IsId(source, r), NEW x \in Contents,
           NEW t \in Tables, NEW k \in Keys
    PROVE  /\ source[r.tx][r.seq].op = "upsert"
           /\ M!Exec(x, r, source[r.tx][r.seq])[t][k]
                = IF Writes(r, t, k) THEN [val |-> r, big |-> r] ELSE x[t][k]
  <1> DEFINE c == source[r.tx][r.seq]
  <1>1. c.table \in Tables /\ c.key \in Keys
    BY ChangeTyped
  <1>2. c.op = "upsert"
    <2>1. source[r.tx] \in Transactions /\ r.seq \in 1 .. Len(source[r.tx])
      BY DEF Transactions, IsId
    <2> QED
      BY <2>1 DEF RowsUpsertedOnce
  <1>3. Writes(r, t, k) <=> c.table = t /\ c.key = k
    BY DEF Writes
  <1> HIDE DEF c
  <1>4. M!Exec(x, r, c) = [x EXCEPT ![c.table][c.key] = [val |-> r, big |-> r]]
    BY <1>2 DEF M!Exec
  <1>5. [x EXCEPT ![c.table][c.key] = [val |-> r, big |-> r]][t][k]
          = IF c.table = t /\ c.key = k THEN [val |-> r, big |-> r] ELSE x[t][k]
    BY <1>1 DEF Contents
  <1> QED
    BY <1>2, <1>3, <1>4, <1>5 DEF c

(* The last change of a set decides.                                       *)
LEMMA LatestCell ==
    ASSUME NEW S, NEW r, \A q \in S : q.tx <= r.tx, r.tx \in Nat, NEW t, NEW k, NEW x,
           CellOf(x, S, t, k)
    PROVE  CellOf(IF Writes(r, t, k) THEN [val |-> r, big |-> r] ELSE x, S \cup {r}, t, k)
  <1>1. CASE Writes(r, t, k)
    <2>1. Latest(S \cup {r}, t, k, r)
      BY <1>1 DEF Latest
    <2> QED
      BY <1>1, <2>1 DEF CellOf
  <1>2. CASE ~Writes(r, t, k)
    <2>1. \A q : Latest(S, t, k, q) => Latest(S \cup {r}, t, k, q)
      BY <1>2 DEF Latest
    <2> QED
      BY <1>2, <2>1 DEF CellOf
  <1> QED
    BY <1>1, <1>2

(* The changes of S up to change j of transaction n.                       *)
UpTo(S, n, j) == {q \in S : q.tx < n \/ (q.tx = n /\ q.seq <= j)}

(* Executed in source order, every row shows its latest change.            *)
LEMMA WithinLatest ==
    ASSUME source \in Histories, RowsUpsertedOnce, NEW S, \A q \in S : IsId(source, q),
           NEW n \in 1 .. Len(source), NEW y \in Contents,
           \A t \in Tables, k \in Keys : CellOf(y[t][k], UpTo(S, n, 0), t, k)
    PROVE  \A t \in Tables, k \in Keys :
              CellOf(Within(S, n, y)[Len(source[n])][t][k], UpTo(S, n, Len(source[n])), t, k)
  <1> DEFINE m == Len(source[n])
             B == Within(S, n, y)
             I == {j \in 0 .. m : \A t \in Tables, k \in Keys : CellOf(B[j][t][k], UpTo(S, n, j), t, k)}
  <1>1. m \in Nat /\ n \in Nat
    BY SourceTyped
  <1>2. /\ B \in [0 .. m -> Contents] /\ B[0] = y
        /\ \A j \in 1 .. m : B[j] = Perform(S, n, j, B[j - 1])
    BY WithinEquation
  <1>3. \A q \in S : q.tx \in Nat /\ q.seq \in Nat /\ q = [tx |-> q.tx, seq |-> q.seq]
    BY DEF IsId, Records
  <1>4. \A j \in 1 .. m : IsId(source, [tx |-> n, seq |-> j])
    BY <1>1 DEF IsId, Records
  <1> HIDE DEF m, B
  <1>5. 0 \in I
    BY <1>1, <1>2
  <1>6. \A i \in 0 .. m - 1 : i \in I => i + 1 \in I
    <2> TAKE i \in 0 .. m - 1
    <2> HAVE i \in I
    <2> DEFINE r == [tx |-> n, seq |-> i + 1]
    <2>1. /\ i + 1 \in 1 .. m /\ i + 1 \in 0 .. m /\ (i + 1) - 1 = i /\ i \in 0 .. m
          /\ B[i] \in Contents /\ B[i + 1] = Perform(S, n, i + 1, B[i])
          /\ \A t \in Tables, k \in Keys : CellOf(B[i][t][k], UpTo(S, n, i), t, k)
      BY <1>1, <1>2
    <2>2. CASE r \in S
      <3>1. UpTo(S, n, i + 1) = UpTo(S, n, i) \cup {r}
        <4>1. \A q \in S : q.tx = n /\ q.seq <= i + 1 => q.seq <= i \/ q = r
          BY <1>3
        <4> QED
          BY <1>3, <2>2, <4>1 DEF UpTo
      <3>2. r.tx = n /\ r.seq = i + 1 /\ IsId(source, r) /\ \A q \in UpTo(S, n, i) : q.tx <= r.tx
        BY <1>1, <1>3, <1>4, <2>1 DEF UpTo
      <3>3. B[i + 1] = M!Exec(B[i], r, source[n][i + 1])
        BY <2>1, <2>2 DEF Perform
      <3> HIDE DEF r
      <3>4. ASSUME NEW t \in Tables, NEW k \in Keys
            PROVE  CellOf(B[i + 1][t][k], UpTo(S, n, i + 1), t, k)
        <4>1. B[i + 1][t][k] = IF Writes(r, t, k) THEN [val |-> r, big |-> r] ELSE B[i][t][k]
          BY <2>1, <3>2, <3>3, ExecUpserts
        <4>2. CellOf(IF Writes(r, t, k) THEN [val |-> r, big |-> r] ELSE B[i][t][k],
                     UpTo(S, n, i) \cup {r}, t, k)
          BY <1>1, <2>1, <3>2, LatestCell
        <4> QED
          BY <3>1, <4>1, <4>2
      <3> QED
        BY <2>1, <3>4
    <2>3. CASE r \notin S
      <3>1. UpTo(S, n, i + 1) = UpTo(S, n, i)
        <4>1. \A q \in S : q.tx = n /\ q.seq <= i + 1 => q.seq <= i
          BY <1>3, <2>3
        <4> QED
          BY <1>3, <4>1 DEF UpTo
      <3>2. B[i + 1] = B[i]
        BY <2>1, <2>3 DEF Perform
      <3> QED
        BY <2>1, <3>1, <3>2
    <2> QED
      BY <2>2, <2>3
  <1> HIDE DEF I
  <1>7. m \in 0 .. m /\ \A i \in 0 .. m : i \in I
    BY <1>1, <1>5, <1>6, Induction
  <1> QED
    BY <1>7 DEF I, m, B

LEMMA SourceOrderLatest ==
    ASSUME source \in Histories, RowsUpsertedOnce, NEW S, \A q \in S : IsId(source, q)
    PROVE  /\ M!RowsAfter(S) \in Contents
           /\ \A t \in Tables, k \in Keys : CellOf(M!RowsAfter(S)[t][k], S, t, k)
  <1> DEFINE n == Len(source)
             B == Between(S, M!Empty)
             I == {i \in 0 .. n : \A t \in Tables, k \in Keys : CellOf(B[i][t][k], UpTo(S, i + 1, 0), t, k)}
  <1>1. n \in Nat
    BY SourceTyped
  <1>2. M!Empty \in Contents /\ \A t \in Tables, k \in Keys : M!Empty[t][k] = M!NoRow
    <2>1. M!NoRow \in Cells
      BY DEF M!NoRow, M!Nil, Cells, Records
    <2> QED
      BY <2>1 DEF M!Empty, Contents
  <1>3. /\ B \in [0 .. n -> Contents] /\ B[0] = M!Empty
        /\ \A i \in 1 .. n : B[i] = Within(S, i, B[i - 1])[Len(source[i])]
    BY <1>2, BetweenEquation
  <1>4. M!RowsAfter(S) = B[n]
    BY RowsFromIs DEF M!RowsAfter
  <1>5. \A q \in S : q.tx \in 1 .. n /\ q.tx \in Nat /\ q.seq \in 1 .. Len(source[q.tx])
    BY DEF IsId, Records
  <1> HIDE DEF n, B
  <1>6. 0 \in I
    <2>1. UpTo(S, 0 + 1, 0) = {}
      <3>1. \A q \in S : ~(q.tx < 1) /\ ~(q.tx = 1 /\ q.seq <= 0)
        <4> TAKE q \in S
        <4>1. q.tx \in 1 .. n /\ q.seq \in 1 .. Len(source[q.tx])
          BY <1>5
        <4>2. q.tx >= 1 /\ q.seq >= 1
          BY <1>1, <4>1
        <4>3. q.seq \in Int /\ q.tx \in Int
          BY <1>1, <4>1
        <4> QED
          BY <4>2, <4>3
      <3> QED
        BY <3>1 DEF UpTo
    <2> QED
      BY <1>1, <1>2, <1>3, <2>1 DEF CellOf
  <1>7. \A i \in 0 .. n - 1 : i \in I => i + 1 \in I
    <2> TAKE i \in 0 .. n - 1
    <2> HAVE i \in I
    <2>1. /\ i + 1 \in 1 .. n /\ i + 1 \in 0 .. n /\ (i + 1) - 1 = i /\ i \in 0 .. n /\ B[i] \in Contents
          /\ B[i + 1] = Within(S, i + 1, B[i])[Len(source[i + 1])]
          /\ \A t \in Tables, k \in Keys : CellOf(B[i][t][k], UpTo(S, i + 1, 0), t, k)
      BY <1>1, <1>3
    <2>2. \A t \in Tables, k \in Keys :
             CellOf(B[i + 1][t][k], UpTo(S, i + 1, Len(source[i + 1])), t, k)
      BY <2>1, WithinLatest DEF n
    <2>3. UpTo(S, i + 1, Len(source[i + 1])) = UpTo(S, (i + 1) + 1, 0)
      <3>1. ASSUME NEW q \in S
            PROVE  (q.tx < i + 1 \/ (q.tx = i + 1 /\ q.seq <= Len(source[i + 1])))
                     <=> (q.tx < (i + 1) + 1 \/ (q.tx = (i + 1) + 1 /\ q.seq <= 0))
        <4>1. q.tx \in Nat /\ q.seq \in 1 .. Len(source[q.tx])
          BY <1>5
        <4>2. q.tx = i + 1 => q.seq <= Len(source[i + 1])
          BY <4>1
        <4>3. ~(q.seq <= 0)
          BY <4>1
        <4> QED
          BY <2>1, <4>1, <4>2, <4>3
      <3> QED
        BY <3>1 DEF UpTo
    <2> QED
      BY <2>1, <2>2, <2>3
  <1> HIDE DEF I
  <1>8. n \in 0 .. n /\ \A i \in 0 .. n : i \in I
    BY <1>1, <1>6, <1>7, Induction
  <1>9. UpTo(S, n + 1, 0) = S
    BY <1>1, <1>5 DEF UpTo
  <1> QED
    BY <1>3, <1>4, <1>8, <1>9 DEF I

(* Quarantine and repair leave the rows alone.                             *)
LEMMA RowsUntouched ==
    ASSUME NEW d \in Databases, NEW e
    PROVE  RecordDeadLetter(d, e).rows = d.rows /\ RepairSchema(d, e).rows = d.rows
  BY DEF RecordDeadLetter, RepairSchema, MarkApplied, Databases

(* The guard: the row keeps the newer of the two, whichever comes first.   *)
LEMMA GuardedUpsert ==
    ASSUME source \in Histories, RowsUpsertedOnce, NEW d \in Databases,
           NEW S, \A q \in S : IsId(source, q), NEW r, IsId(source, r),
           \A t \in Tables, k \in Keys : RowOf(d.rows[t][k], S, t, k)
    PROVE  \A t \in Tables, k \in Keys :
              RowOf(ApplyMutation(d, EventOf(source, r)).rows[t][k], S \cup {r}, t, k)
  <1> DEFINE e == EventOf(source, r)
             c == source[r.tx][r.seq]
             row == d.rows[c.table][c.key]
             new == [lsn |-> r.tx, val |-> r, big |-> r]
             y == [d EXCEPT !.rows[c.table][c.key] = new]
  <1>1. /\ e \in Events /\ e.id = r /\ e.op = c.op /\ e.table = c.table /\ e.key = c.key
        /\ c.table \in Tables /\ c.key \in Keys /\ r \in Records /\ r.tx \in Nat
    BY EventTyped, ChangeTyped DEF IsId, Records
  <1>2. c.op = "upsert"
    <2>1. source[r.tx] \in Transactions /\ r.seq \in 1 .. Len(source[r.tx])
      BY DEF Transactions, IsId
    <2> QED
      BY <2>1 DEF RowsUpsertedOnce
  <1>3. \A t, k : Writes(r, t, k) <=> t = c.table /\ k = c.key
    BY DEF Writes
  <1>4. \A q \in S : q.tx \in Nat
    BY DEF IsId, Records
  <1>5. new \in Rows
    BY <1>1 DEF Rows
  <1>6. ApplyMutation(d, e) = IF row # Absent /\ row.lsn > r.tx THEN d
                              ELSE y
    BY <1>1, <1>2 DEF ApplyMutation, Upsert, LSN
  <1> DEFINE x == ApplyMutation(d, e)
  <1> HIDE DEF e, x, c, new
  <1>7. \A u \in Tables, j \in Keys :
           y.rows[u][j] = IF u = c.table /\ j = c.key THEN new ELSE d.rows[u][j]
    <2> DEFINE m == [d.rows EXCEPT ![c.table][c.key] = new]
    <2>1. d.rows \in [Tables -> [Keys -> Rows]]
      BY DEF Databases
    <2>2. \A u \in Tables, j \in Keys :
             m[u][j] = IF u = c.table /\ j = c.key THEN new ELSE d.rows[u][j]
      BY <1>1, <2>1
    <2>3. y.rows = m
      BY DEF Databases
    <2> HIDE DEF m, y
    <2> QED
      BY <2>2, <2>3
  <1> HIDE DEF y
  <1>8. ASSUME NEW t \in Tables, NEW k \in Keys, ~Writes(r, t, k)
        PROVE  RowOf(x.rows[t][k], S \cup {r}, t, k)
    <2>1. x.rows[t][k] = d.rows[t][k]
      <3>1. y.rows[t][k] = d.rows[t][k]
        BY <1>3, <1>8, <1>7
      <3> QED
        BY <1>6, <3>1 DEF x
    <2>2. \A q : Latest(S, t, k, q) => Latest(S \cup {r}, t, k, q)
      BY <1>8 DEF Latest
    <2> QED
      BY <1>8, <2>1, <2>2 DEF RowOf
  <1>9. RowOf(x.rows[c.table][c.key], S \cup {r}, c.table, c.key)
    <2> DEFINE W(q) == Writes(q, c.table, c.key)
    <2>1. RowOf(row, S, c.table, c.key) /\ W(r)
      BY <1>1, <1>3
    <2>2. CASE row # Absent /\ row.lsn > r.tx
      <3>1. PICK q \in S : /\ Latest(S, c.table, c.key, q)
                           /\ row = [lsn |-> q.tx, val |-> q, big |-> q]
        BY <2>1, <2>2 DEF RowOf
      <3>2. q.tx > r.tx
        BY <2>2, <3>1
      <3>3. Latest(S \cup {r}, c.table, c.key, q)
        BY <1>1, <1>4, <3>1, <3>2 DEF Latest
      <3>4. x.rows[c.table][c.key] = row
        BY <1>6, <2>2 DEF x
      <3> QED
        BY <3>1, <3>3, <3>4 DEF RowOf
    <2>3. CASE ~(row # Absent /\ row.lsn > r.tx)
      <3>1. \A q \in S : W(q) => q.tx <= r.tx
        <4>1. CASE \A q \in S : ~W(q)
          BY <4>1
        <4>2. CASE ~\A q \in S : ~W(q)
          <5>1. PICK p \in S : /\ Latest(S, c.table, c.key, p)
                               /\ row = [lsn |-> p.tx, val |-> p, big |-> p]
            BY <2>1, <4>2 DEF RowOf
          <5>2. row.lsn = p.tx /\ row.val = p /\ p.tx \in Nat /\ p.tx > 0
            <6>1. IsId(source, p)
              BY <5>1
            <6> QED
              BY <5>1, <6>1 DEF IsId, Records
          <5>3. row # Absent
            BY <5>2 DEF Absent, Nil
          <5>4. p.tx <= r.tx
            BY <1>1, <2>3, <5>2, <5>3
          <5> QED
            BY <1>1, <1>4, <5>1, <5>4 DEF Latest
        <4> QED
          BY <4>1, <4>2
      <3>2. Latest(S \cup {r}, c.table, c.key, r)
        BY <1>1, <2>1, <3>1 DEF Latest
      <3>3. x.rows[c.table][c.key] = new
        <4> HIDE DEF new
        <4>1. y.rows[c.table][c.key] = new
          BY <1>1, <1>7
        <4> QED
          BY <1>6, <2>3, <4>1 DEF x
      <3> QED
        BY <3>2, <3>3 DEF RowOf, new
    <2> QED
      BY <2>2, <2>3
  <1> QED
    BY <1>3, <1>8, <1>9 DEF x, e

(* Apply: the event counts among those applied unless it has its marker.   *)
LEMMA AppliedRows ==
    ASSUME source \in Histories, RowsUpsertedOnce, NEW d \in Databases,
           NEW S, \A q \in S : IsId(source, q), NEW r, IsId(source, r),
           \A t \in Tables, k \in Keys : RowOf(d.rows[t][k], S, t, k)
    PROVE  \A t \in Tables, k \in Keys :
              RowOf(Apply(d, EventOf(source, r)).rows[t][k],
                    S \cup (IF IsMarked(d, EventOf(source, r)) THEN {} ELSE {r}), t, k)
  <1> DEFINE e == EventOf(source, r)
             c == MarkApplied(d, e)
  <1>1. e \in Events
    BY EventTyped
  <1> HIDE DEF e
  <1>2. e.id \in Records
    BY <1>1 DEF Events
  <1>3. c \in Databases /\ c.rows = d.rows
    BY <1>2 DEF MarkApplied, Databases
  <1> HIDE DEF c
  <1>4. CASE IsMarked(d, e)
    BY <1>4 DEF Apply, e
  <1>5. CASE ~IsMarked(d, e)
    <2>1. Apply(d, e) = ApplyMutation(c, e)
      BY <1>5 DEF Apply, c
    <2>2. \A t \in Tables, k \in Keys : RowOf(c.rows[t][k], S, t, k)
      BY <1>3
    <2>3. \A t \in Tables, k \in Keys : RowOf(ApplyMutation(c, e).rows[t][k], S \cup {r}, t, k)
      BY <1>3, <2>2, GuardedUpsert DEF e
    <2> QED
      BY <1>5, <2>1, <2>3 DEF e
  <1> QED
    BY <1>4, <1>5

(* ApplyBatch: the fresh events one after the other.                       *)
LEMMA BatchRows ==
    ASSUME source \in Histories, RowsUpsertedOnce, NEW d \in Databases, NEW events \in Seq(Events),
           \A i \in 1 .. Len(events) :
              IsId(source, events[i].id) /\ events[i] = EventOf(source, events[i].id),
           NEW S, \A q \in S : IsId(source, q),
           \A t \in Tables, k \in Keys : RowOf(d.rows[t][k], S, t, k)
    PROVE  \A t \in Tables, k \in Keys :
              RowOf(ApplyBatch(d, events).rows[t][k], S \cup {events[i].id : i \in Fresh(d, events)}, t, k)
  <1> DEFINE n == Len(events)
             B == BatchStates(d, events)
             F == [i \in 0 .. n |-> S \cup {events[j].id : j \in {h \in Fresh(d, events) : h <= i}}]
             I == {i \in 0 .. n : \A t \in Tables, k \in Keys : RowOf(B[i].rows[t][k], F[i], t, k)}
  <1>1. n \in Nat /\ Fresh(d, events) \subseteq 1 .. n
    BY DEF Fresh
  <1>2. /\ B \in [0 .. n -> Databases] /\ B[0] = Marked(d, events)
        /\ \A i \in 1 .. n : B[i] = Advance(d, events, i, B[i - 1])
    BY BatchStatesEquation
  <1>3. B[0].rows = d.rows
    BY <1>2 DEF Marked, Databases
  <1>4. F[0] = S /\ F[n] = S \cup {events[i].id : i \in Fresh(d, events)}
    BY <1>1
  <1>5. \A i \in 0 .. n : \A q \in F[i] : IsId(source, q)
    BY <1>1
  <1>6. \A i \in 0 .. n - 1 :
           F[i + 1] = IF i + 1 \in Fresh(d, events) THEN F[i] \cup {events[i + 1].id} ELSE F[i]
    <2> TAKE i \in 0 .. n - 1
    <2>1. \A h \in Fresh(d, events) : h <= i + 1 <=> h <= i \/ h = i + 1
      BY <1>1
    <2>2. i \in 0 .. n /\ i + 1 \in 0 .. n
      BY <1>1
    <2> HIDE DEF n
    <2> QED
      BY <2>1, <2>2
  <1> HIDE DEF n, B, F
  <1>7. 0 \in I
    BY <1>1, <1>3, <1>4
  <1>8. \A i \in 0 .. n - 1 : i \in I => i + 1 \in I
    <2> TAKE i \in 0 .. n - 1
    <2> HAVE i \in I
    <2> DEFINE r == events[i + 1].id
    <2>1. /\ i + 1 \in 1 .. n /\ i + 1 \in 0 .. n /\ (i + 1) - 1 = i /\ i \in 0 .. n
          /\ B[i] \in Databases /\ B[i + 1] = Advance(d, events, i + 1, B[i])
          /\ \A t \in Tables, k \in Keys : RowOf(B[i].rows[t][k], F[i], t, k)
      BY <1>1, <1>2
    <2>2. IsId(source, r) /\ events[i + 1] = EventOf(source, r) /\ \A q \in F[i] : IsId(source, q)
      BY <1>5, <2>1 DEF n
    <2> HIDE DEF r
    <2>3. CASE i + 1 \in Fresh(d, events)
      <3>1. F[i + 1] = F[i] \cup {r}
        BY <1>6, <2>3 DEF r
      <3>2. B[i + 1] = ApplyMutation(B[i], EventOf(source, r))
        BY <2>1, <2>2, <2>3 DEF Advance
      <3>3. \A t \in Tables, k \in Keys :
               RowOf(ApplyMutation(B[i], EventOf(source, r)).rows[t][k], F[i] \cup {r}, t, k)
        BY <2>1, <2>2, GuardedUpsert
      <3> QED
        BY <2>1, <3>1, <3>2, <3>3
    <2>4. CASE i + 1 \notin Fresh(d, events)
      <3>1. F[i + 1] = F[i]
        BY <1>6, <2>4
      <3>2. B[i + 1] = B[i]
        BY <2>1, <2>4 DEF Advance
      <3> QED
        BY <2>1, <3>1, <3>2
    <2> QED
      BY <2>3, <2>4
  <1> HIDE DEF I
  <1>9. \A i \in 0 .. n : i \in I
    BY <1>1, <1>7, <1>8, Induction
  <1>10. n \in I
    BY <1>1, <1>9
  <1>11. \A t \in Tables, k \in Keys : RowOf(B[n].rows[t][k], F[n], t, k)
    BY <1>10 DEF I
  <1> QED
    BY <1>4, <1>11 DEF ApplyBatch, B, n

-----------------------------------------------------------------------------
(* What a step applies, and what it leaves of the rows.                    *)
LEMMA RowsStep ==
    ASSUME DLInv, RowsUpsertedOnce, RowsInv, source' = source, NEW A, Counted(A),
           \A t \in Tables, k \in Keys : RowOf(db'.rows[t][k], AppliedIds \cup A, t, k),
           A \subseteq Ids
    PROVE  RowsInv'
  <1>1. times \in [Ids -> Nat]
    BY DEF DLInv, LedgersInv
  <1>2. /\ times' \in [Ids' -> Nat] /\ Ids' = Ids
        /\ \A r \in Ids : times'[r] = IF r \in A THEN times[r] + 1 ELSE times[r]
    BY <1>1, CountedIs
  <1>3. AppliedIds' = AppliedIds \cup A
    <2>1. \A r \in Ids : times[r] \in Nat /\ (times'[r] > 0 <=> times[r] > 0 \/ r \in A)
      BY <1>1, <1>2
    <2> QED
      BY <1>2, <2>1 DEF AppliedIds
  <1>4. ASSUME NEW t \in Tables, NEW k \in Keys
        PROVE  RowOf(db.rows[t][k], AppliedIds, t, k)'
    <2>1. RowOf(db'.rows[t][k], AppliedIds', t, k)
      BY <1>3
    <2> QED
      BY <2>1 DEF RowOf, Latest, Writes
  <1> QED
    BY <1>4 DEF RowsInv

LEMMA RowsStay ==
    ASSUME DLInv, RowsUpsertedOnce, RowsInv, source' = source, times' = times, db'.rows = db.rows
    PROVE  RowsInv'
  <1>1. AppliedIds' = AppliedIds
    BY DEF AppliedIds, Ids
  <1>2. ASSUME NEW t \in Tables, NEW k \in Keys
        PROVE  RowOf(db.rows[t][k], AppliedIds, t, k)'
    <2>1. RowOf(db'.rows[t][k], AppliedIds', t, k)
      BY <1>1 DEF RowsInv
    <2> QED
      BY <2>1 DEF RowOf, Latest, Writes
  <1> QED
    BY <1>2 DEF RowsInv

(* Apply, alone.                                                           *)
LEMMA AloneRows ==
    ASSUME DLInv, RowsUpsertedOnce, RowsInv, source' = source, NEW r \in Ids, NEW e, e = Event(r),
           Counted(AppliedAlone(e)),
           \/ (ApplyFails(db, e) \/ hiccups' # hiccups) /\ db'.rows = db.rows
           \/ ~ApplyFails(db, e) /\ UNCHANGED hiccups /\ db' = Apply(db, e)
    PROVE  RowsInv'
  <1>1. /\ source \in Histories /\ db \in Databases /\ IsId(source, r) /\ e.id = r
        /\ e = EventOf(source, r) /\ \A q \in AppliedIds : IsId(source, q)
    <2>1. source \in Histories /\ db \in Databases /\ TopicInv
      BY DEF DLInv, TopicInv, LedgersInv
    <2>2. \A q : q \in Ids <=> IsId(source, q)
      BY <2>1, IdsAre
    <2> QED
      BY <2>1, <2>2, KnownEvent DEF Event, EventOf, AppliedIds
  <1>2. \A t \in Tables, k \in Keys : RowOf(db.rows[t][k], AppliedIds, t, k)
    BY DEF RowsInv
  <1>3. AppliedAlone(e) \subseteq Ids
    BY <1>1 DEF AppliedAlone
  <1>4. CASE (ApplyFails(db, e) \/ hiccups' # hiccups) /\ db'.rows = db.rows
    <2>1. AppliedAlone(e) = {}
      BY <1>4 DEF AppliedAlone
    <2>2. AppliedIds \cup AppliedAlone(e) = AppliedIds
      BY <2>1
    <2>3. \A t \in Tables, k \in Keys : RowOf(db'.rows[t][k], AppliedIds \cup AppliedAlone(e), t, k)
      BY <1>2, <1>4, <2>2
    <2> QED
      BY <1>3, <2>3, RowsStep
  <1>5. CASE ~ApplyFails(db, e) /\ UNCHANGED hiccups /\ db' = Apply(db, e)
    <2>1. AppliedAlone(e) = IF IsMarked(db, e) THEN {} ELSE {r}
      BY <1>1, <1>5 DEF AppliedAlone
    <2>2. \A t \in Tables, k \in Keys :
             RowOf(Apply(db, e).rows[t][k], AppliedIds \cup (IF IsMarked(db, e) THEN {} ELSE {r}), t, k)
      BY <1>1, <1>2, AppliedRows
    <2>3. \A t \in Tables, k \in Keys : RowOf(db'.rows[t][k], AppliedIds \cup AppliedAlone(e), t, k)
      BY <1>5, <2>1, <2>2
    <2> QED
      BY <1>3, <2>3, RowsStep
  <1> QED
    BY <1>4, <1>5

LEMMA ApplyOrQuarantineRows ==
    ASSUME DLInv, RowsUpsertedOnce, RowsInv, source' = source, pc # "down",
           NEW j \in 1 .. Len(group), ApplyOrQuarantine(group[j]), Counted(AppliedAlone(group[j]))
    PROVE  RowsInv'
  <1> DEFINE e == group[j]
  <1>1. e \in Events /\ e.id \in Ids /\ offset + j \in 1 .. Len(log) /\ log[offset + j] \in Ids
    BY InHand
  <1>2. e = Event(log[offset + j])
    BY DEF DLInv, WriterInv
  <1>3. db \in Databases /\ hiccups \in Nat
    BY DEF DLInv, LedgersInv, TopicInv
  <1> HIDE DEF e
  <1>4. RecordDeadLetter(db, e).rows = db.rows
    BY <1>3, RowsUntouched
  <1>5. \/ (ApplyFails(db, e) \/ hiccups' # hiccups) /\ db'.rows = db.rows
        \/ ~ApplyFails(db, e) /\ UNCHANGED hiccups /\ db' = Apply(db, e)
    BY <1>3, <1>4 DEF ApplyOrQuarantine, Hiccup, e
  <1>6. Counted(AppliedAlone(e))
    BY DEF e
  <1> QED
    BY <1>1, <1>2, <1>5, <1>6, AloneRows

(* The steps of the writer.                                                *)
LEMMA WriterRows == ASSUME DLInv, RowsUpsertedOnce, RowsInv, WriterActs PROVE RowsInv'
  <1> USE DEF topic, batch, budgets
  <1>0. /\ source \in Histories /\ db \in Databases /\ times \in [Ids -> Nat] /\ next \in Nat
        /\ Counted(WriterApplies)
    BY DEF DLInv, TopicInv, LedgersInv, WriterInv, WriterActs
  <1>1. ASSUME source' = source, db'.rows = db.rows, WriterApplies = {}
        PROVE  RowsInv'
    <2>1. times' = times
      BY <1>0, <1>1, CountedIs
    <2> QED
      BY <1>1, <2>1, RowsStay
  <1>2. CASE CommitGroup
    <2> DEFINE A == {group[i].id : i \in Fresh(db, group)}
    <2>1. pc # "down" /\ WriterApplies = A /\ source' = source /\ db' = ApplyBatch(db, group)
      BY <1>2 DEF CommitGroup, WriterApplies
    <2>2. group \in Seq(Events) /\ \A j \in 1 .. Len(group) : group[j].id \in Ids
      BY <2>1, InHand DEF DLInv, WriterInv
    <2>3. \A q : q \in Ids <=> IsId(source, q)
      BY <1>0, IdsAre
    <2>4. \A j \in 1 .. Len(group) :
             IsId(source, group[j].id) /\ group[j] = EventOf(source, group[j].id)
      <3>1. \A j \in 1 .. Len(group) :
               group[j] = Event(log[offset + j]) /\ group[j].id = log[offset + j]
        BY <2>1, InHand DEF DLInv, WriterInv
      <3>2. \A r : Event(r) = EventOf(source, r)
        BY DEF Event, EventOf
      <3> QED
        BY <2>2, <2>3, <3>1, <3>2
    <2>5. \A q \in AppliedIds : IsId(source, q)
      BY <2>3 DEF AppliedIds
    <2>6. A \subseteq Ids
      BY <2>2 DEF Fresh
    <2>7. \A t \in Tables, k \in Keys : RowOf(db.rows[t][k], AppliedIds, t, k)
      BY DEF RowsInv
    <2>8. \A t \in Tables, k \in Keys : RowOf(db'.rows[t][k], AppliedIds \cup A, t, k)
      BY <1>0, <2>1, <2>2, <2>4, <2>5, <2>7, BatchRows
    <2>9. Counted(A)
      BY <1>0, <2>1
    <2> HIDE DEF A
    <2> QED
      BY <2>1, <2>6, <2>8, <2>9, RowsStep
  <1>3. CASE ReplayHealthyEvent
    <2>1. pc = "replay" /\ source' = source /\ next' = next + 1 /\ next \in 1 .. Len(group)
      BY <1>0, <1>3, InHand DEF ReplayHealthyEvent, DLInv, WriterInv
    <2>2. CASE next = poison
      BY <1>1, <1>3, <2>1, <2>2 DEF ReplayHealthyEvent, WriterApplies
    <2>3. CASE next # poison
      <3>1. WriterApplies = AppliedAlone(group[next]) /\ ApplyOrQuarantine(group[next])
        BY <1>0, <1>3, <2>1, <2>3 DEF ReplayHealthyEvent, WriterApplies
      <3> QED
        BY <1>0, <2>1, <3>1, ApplyOrQuarantineRows
    <2> QED
      BY <2>2, <2>3
  <1>4. CASE RetryPoison
    <2>1. /\ pc = "retry" /\ source' = source /\ poison \in 1 .. Len(group)
          /\ WriterApplies = AppliedAlone(group[poison]) /\ ApplyOrQuarantine(group[poison])
      BY <1>4 DEF RetryPoison, WriterApplies, DLInv, WriterInv
    <2> QED
      BY <1>0, <2>1, ApplyOrQuarantineRows
  <1>5. CASE RepairPoison \/ QuarantinePoison
    <2>1. \A e : RepairSchema(db, e).rows = db.rows /\ RecordDeadLetter(db, e).rows = db.rows
      BY <1>0, RowsUntouched
    <2> QED
      BY <1>0, <1>1, <1>5, <2>1, AppliesNothing DEF RepairPoison, QuarantinePoison
  <1>6. CASE \/ Run \/ HandleEvent \/ RollBackGroup \/ CommitKafkaOffset \/ Crash
             \/ \E i \in DOMAIN group : RollBackInterrupted(i)
    <2>1. source' = source /\ db' = db
      BY <1>6 DEF Run, HandleEvent, RollBackGroup, CommitKafkaOffset, Crash, RollBackInterrupted
    <2>2. WriterApplies = {}
      <3>1. CASE Crash
        BY <1>0, <3>1, AppliesNothing DEF Crash
      <3>2. CASE ~Crash
        BY <1>6, <3>2, AppliesNothing
           DEF Run, HandleEvent, RollBackGroup, CommitKafkaOffset, RollBackInterrupted
      <3> QED
        BY <3>1, <3>2
    <2> QED
      BY <1>1, <2>1, <2>2
  <1>7. CASE PollEmpty \/ \E t \in 1 .. Len(source) : \E k \in 1 .. Len(source[t]) : Publish(t, k)
    BY <1>0, <1>1, <1>7, AppliesNothing DEF PollEmpty, Publish, vars
  <1> QED
    BY <1>2, <1>3, <1>4, <1>5, <1>6, <1>7 DEF WriterActs, Step

LEMMA RowsNext == ASSUME RowsUpsertedOnce PROVE DLInv /\ RowsInv /\ [DLNext]_dlVars => RowsInv'
  <1> SUFFICES ASSUME DLInv, RowsInv, [DLNext]_dlVars PROVE RowsInv'
    OBVIOUS
  <1>0. db \in Databases
    BY DEF DLInv, LedgersInv
  <1>1. CASE WriterActs
    BY <1>1, WriterRows
  <1>2. CASE ReplayApply
    <2>1. letter \in Ids /\ hiccups \in Nat /\ source' = source
      BY <1>2 DEF ReplayApply, DLInv, CtlInv, LedgersInv, TopicInv, Busy, writerVars, topic
    <2>2. \/ (ApplyFails(db, Event(letter)) \/ hiccups' # hiccups) /\ db'.rows = db.rows
          \/ ~ApplyFails(db, Event(letter)) /\ UNCHANGED hiccups /\ db' = Apply(db, Event(letter))
      BY <1>2, <2>1 DEF ReplayApply, Hiccup
    <2>3. Counted(AppliedAlone(Event(letter)))
      BY <1>2 DEF ReplayApply
    <2> QED
      BY <2>1, <2>2, <2>3, AloneRows
  <1>3. CASE Restash
    <2>1. db'.rows = db.rows
      BY <1>0, <1>3, RowsUntouched DEF Restash
    <2> QED
      BY <1>3, <2>1, RowsStay DEF Restash, writerVars, topic
  <1>4. CASE CloseLetter \/ \E r \in db.dead : DropDeadLetter(r)
    <2>1. db'.rows = db.rows
      BY <1>0, <1>4 DEF CloseLetter, DropDeadLetter, Databases
    <2> QED
      BY <1>4, <2>1, RowsStay DEF CloseLetter, DropDeadLetter, writerVars, topic
  <1>5. CASE (\E r \in todo : RewindMarker(r)) \/ \E t \in Tables : AlterTable(t)
    <2>1. db'.rows = db.rows
      BY <1>0, <1>5 DEF RewindMarker, AlterTable, Databases
    <2> QED
      BY <1>5, <2>1, RowsStay DEF RewindMarker, AlterTable, writerVars, topic
  <1>6. CASE \/ EndReplay \/ CutOff \/ \E S \in {db.dead} \cup {{r} : r \in db.dead} : StartReplay(S)
             \/ UNCHANGED dlVars
    BY <1>6, RowsStay DEF EndReplay, CutOff, StartReplay, dlVars, vars, topic
  <1> QED
    BY <1>1, <1>2, <1>3, <1>4, <1>5, <1>6 DEF DLNext

LEMMA RowsInit == DLInit => RowsInv
  <1> SUFFICES ASSUME DLInit PROVE RowsInv
    OBVIOUS
  <1>1. AppliedIds = {}
    BY DEF DLInit, AppliedIds
  <1>2. \A t \in Tables, k \in Keys : db.rows[t][k] = Absent
    BY DEF DLInit, Init, EmptyDatabase
  <1> QED
    BY <1>1, <1>2 DEF RowsInv, RowOf

(* The tables show what the execution in source order leaves.              *)
LEMMA RowsAreCurrent == ASSUME RowsUpsertedOnce PROVE DLInv /\ RowsInv => StaleWritesRefused
  <1> SUFFICES ASSUME DLInv, RowsInv PROVE StaleWritesRefused
    OBVIOUS
  <1>1. source \in Histories /\ \A q \in AppliedIds : IsId(source, q)
    <2>1. source \in Histories
      BY DEF DLInv, TopicInv
    <2> QED
      BY <2>1, IdsAre DEF AppliedIds
  <1>2. /\ M!RowsAfter(AppliedIds) \in Contents
        /\ \A t \in Tables, k \in Keys : CellOf(M!RowsAfter(AppliedIds)[t][k], AppliedIds, t, k)
    BY <1>1, SourceOrderLatest
  <1>3. Absent.val = M!Nil /\ Absent.big = M!Nil /\ M!NoRow = [val |-> M!Nil, big |-> M!Nil]
    BY DEF Absent, Nil, M!Nil, M!NoRow
  <1>4. ASSUME NEW t \in Tables, NEW k \in Keys
        PROVE  [val |-> db.rows[t][k].val, big |-> db.rows[t][k].big] = M!RowsAfter(AppliedIds)[t][k]
    <2> DEFINE row == db.rows[t][k]
               x == [val |-> row.val, big |-> row.big]
               y == M!RowsAfter(AppliedIds)[t][k]
    <2>1. RowOf(row, AppliedIds, t, k)
      BY DEF RowsInv
    <2>2. CellOf(x, AppliedIds, t, k)
      <3> HIDE DEF row
      <3>1. CASE row = Absent /\ \A q \in AppliedIds : ~Writes(q, t, k)
        BY <1>3, <3>1 DEF CellOf
      <3>2. CASE \E r \in AppliedIds : /\ Latest(AppliedIds, t, k, r)
                                       /\ row = [lsn |-> r.tx, val |-> r, big |-> r]
        <4>1. PICK r \in AppliedIds : /\ Latest(AppliedIds, t, k, r)
                                      /\ row = [lsn |-> r.tx, val |-> r, big |-> r]
          BY <3>2
        <4>2. x = [val |-> r, big |-> r]
          BY <4>1
        <4> QED
          BY <4>1, <4>2 DEF CellOf
      <3> QED
        BY <2>1, <3>1, <3>2 DEF RowOf
    <2>3. CellOf(y, AppliedIds, t, k)
      BY <1>2
    <2> HIDE DEF x, y
    <2>4. x = y
      BY <1>1, <2>2, <2>3, CellUnique
    <2> QED
      BY <2>4 DEF x, y
  <1> QED
    BY <1>2, <1>4 DEF StaleWritesRefused, Visible, Contents

(* Whatever is replayed, redelivered or applied late, the tables show what *)
(* the applied inserts and updates leave when they are executed in source  *)
(* order (applyMutation's LSN guard), if a transaction writes each row at  *)
(* most once.                                                              *)
THEOREM DeadLettersRefuseStaleWrites ==
    ASSUME RowsUpsertedOnce PROVE DLSpec => []StaleWritesRefused
  <1>1. DLSpec => [](DLInv /\ RowsInv)
    BY DLInitInv, DLStepInv, RowsInit, RowsNext, PTL DEF DLSpec
  <1> QED
    BY <1>1, RowsAreCurrent, PTL

-----------------------------------------------------------------------------
(***************************************************************************)
(* The hand-over of the initial snapshot to the stream.  What the boot may *)
(* let through depends on snapshot_done alone, so the proof looks into no  *)
(* step of the writer's loop: the loop runs only behind "ready".           *)
(***************************************************************************)
SnapInv ==
    /\ boot \in {"verify", "ready"} => done
    /\ ~done => "marks" \in DOMAIN db /\ db.marks = {}

LEMMA SnapInitInv == SnapInit => SnapInv
  BY DEF SnapInit, Init, EmptyDatabase, SnapInv

(* The steps of the source, the slot, the reader and the boot itself.      *)
LEMMA BootStepsKeep ==
    ASSUME SnapInv,
           SourceCommit \/ CreateSlot \/ DropSlot \/ AdvanceRestart \/ Boot \/ BootCrash
           \/ \E t \in 1 .. Len(source) : \E k \in 1 .. Len(source[t]) :
                 ReaderPublishes(t, k)
    PROVE  SnapInv'
  <1>1. CASE SourceCommit \/ CreateSlot \/ DropSlot \/ AdvanceRestart
    BY <1>1 DEF SnapInv, SourceCommit, CreateSlot, DropSlot, AdvanceRestart,
                vars, bootVars
  <1>2. CASE \E t \in 1 .. Len(source) : \E k \in 1 .. Len(source[t]) :
                ReaderPublishes(t, k)
    BY <1>2 DEF SnapInv, ReaderPublishes, bootVars
  <1>3. CASE Completed \/ WaitForSlot \/ ReadRestartLSN \/ BeginSnapshot
    BY <1>3 DEF SnapInv, Completed, WaitForSlot, ReadRestartLSN, BeginSnapshot,
                BootStep, vars
  <1>4. CASE MarkCompleted \/ VerifyNotCorrupt
    BY <1>4 DEF SnapInv, MarkCompleted, VerifyNotCorrupt, BootStep, vars
  <1>5. CASE CommitSnapshot
    <2>1. ~done => "marks" \in DOMAIN db' /\ db'.marks = db.marks
      BY <1>5 DEF SnapInv, CommitSnapshot, CopyTables
    <2> QED
      BY <1>5, <2>1 DEF SnapInv, CommitSnapshot
  <1>6. CASE BootCrash
    BY <1>6 DEF SnapInv, BootCrash
  <1> QED
    BY <1>1, <1>2, <1>3, <1>4, <1>5, <1>6 DEF Boot

(* Whatever the loop does, it does after the snapshot was recorded.        *)
LEMMA LoopKeeps ==
    ASSUME SnapInv, Consume(Step) \/ Consume(PollEmpty) \/ Consume(Crash)
    PROVE  SnapInv'
  <1>1. boot = "ready" /\ done' = done
    BY DEF Consume
  <1> QED
    BY <1>1 DEF SnapInv

(* No event is applied before snapshot_done is recorded, however the boot  *)
(* is interrupted and whatever the slot, the source and the reader do      *)
(* meanwhile: a snapshot that is taken again meets no row of the stream.   *)
THEOREM SnapshotFirst == SnapSpec => []SnapshotPrecedesStream
  <1>1. SnapInv /\ [SnapNext]_snapVars => SnapInv'
    <2>1. SnapInv /\ SnapNext => SnapInv'
      BY BootStepsKeep, LoopKeeps DEF SnapNext
    <2>2. SnapInv /\ UNCHANGED snapVars => SnapInv'
      BY DEF SnapInv, snapVars, vars, bootVars
    <2> QED
      BY <2>1, <2>2
  <1>2. SnapInv => SnapshotPrecedesStream
    BY DEF SnapInv, SnapshotPrecedesStream
  <1> QED
    BY <1>1, <1>2, SnapInitInv, PTL DEF SnapSpec

-----------------------------------------------------------------------------
(***************************************************************************)
(* The hand-over.  A snapshot shows each row as it was at some transaction *)
(* that the stream reaches only later.  Until then the stream may leave    *)
(* the row behind the source's, ahead of it, or mixed from both, but every *)
(* column that differs is one the source still overwrites.                 *)
(***************************************************************************)
(* What a change does to a row it touches, at the destination and at the   *)
(* source.                                                                 *)
RowAfter(row, op, r) ==
    IF op = "truncate" THEN Absent
    ELSE IF row.lsn > r.tx THEN row
    ELSE IF op = "delete" THEN Absent
    ELSE IF op = "upsert" THEN [lsn |-> r.tx, val |-> r, big |-> r]
    ELSE [lsn |-> r.tx, val |-> r, big |-> IF row = Absent THEN ColumnDefault ELSE row.big]

CellAfter(x, op, r) ==
    IF op \in {"truncate", "delete"} THEN M!NoRow
    ELSE IF op = "upsert" THEN [val |-> r, big |-> r]
    ELSE [val |-> r, big |-> IF x = M!NoRow THEN M!Default ELSE x.big]

Touches(r, t, k) ==
    /\ source[r.tx][r.seq].table = t
    /\ source[r.tx][r.seq].op = "truncate" \/ source[r.tx][r.seq].key = k

(* A row that is there has a value.                                        *)
SolidRow(row) == row = Absent \/ row.val # Nil
SolidCell(x) == x = M!NoRow \/ x.val # Nil

(* Within transaction n, with the source's cell at x: the row shows the    *)
(* cell, but for a column that will be overwritten or go with its row; or  *)
(* it shows the cell of a later transaction u that a snapshot saw.  H[u]   *)
(* is the source's cell after transaction u, v the last one seen.          *)
Meets(row, x, n, v, H) ==
    \/ /\ row.lsn <= n /\ row.val = x.val
       /\ \/ row.big = x.big
          \/ \E u \in n .. v : row.big = H[u].big \/ H[u] = M!NoRow
    \/ \E u \in n .. v : row.lsn <= u + 1 /\ Cell(row) = H[u]

LEMMA AbsentFacts ==
    /\ Absent \in Rows /\ Absent.lsn = 0 /\ Absent.val = Nil /\ Absent.big = Nil
    /\ Cell(Absent) = M!NoRow /\ M!NoRow.val = Nil /\ M!NoRow.big = Nil /\ M!NoRow \in Cells
    /\ Nil \in Records /\ M!Default = ColumnDefault /\ ColumnDefault \in Records
  BY DEF Absent, Nil, Rows, Records, Cell, M!NoRow, M!Nil, M!Default, ColumnDefault, Cells

LEMMA CellFacts ==
    ASSUME NEW row \in Rows
    PROVE  /\ row.lsn \in Nat /\ row.val \in Records /\ row.big \in Records
           /\ Cell(row) \in Cells /\ Cell(row).val = row.val /\ Cell(row).big = row.big
  BY DEF Rows, Cells, Cell

(* A change of transaction n keeps them so.                                *)
LEMMA MeetsOn ==
    ASSUME NEW row \in Rows, NEW x \in Cells, NEW r \in Records, r.tx > 0,
           NEW v \in Nat, NEW H, SolidRow(row), SolidCell(x), Meets(row, x, r.tx, v, H),
           NEW op \in {"upsert", "preserve", "delete", "truncate"}
    PROVE  /\ RowAfter(row, op, r) \in Rows /\ SolidRow(RowAfter(row, op, r))
           /\ Meets(RowAfter(row, op, r), CellAfter(x, op, r), r.tx, v, H)
  <1> DEFINE n == r.tx
             y == RowAfter(row, op, r)
             z == CellAfter(x, op, r)
  <1>1. n \in Nat /\ r # Nil /\ row.lsn \in Nat /\ row.big \in Records
    BY CellFacts DEF Records, Nil
  <1>2. CASE op = "truncate" \/ (op = "delete" /\ ~ (row.lsn > n))
    <2>1. y = Absent /\ z = M!NoRow
      BY <1>2 DEF RowAfter, CellAfter
    <2> HIDE DEF y, z
    <2> QED
      BY <1>1, <2>1, AbsentFacts DEF Meets, SolidRow, y, z
  <1>3. CASE op = "upsert" /\ ~ (row.lsn > n)
    <2>1. y = [lsn |-> n, val |-> r, big |-> r] /\ z = [val |-> r, big |-> r]
      BY <1>3 DEF RowAfter, CellAfter
    <2>2. y \in Rows /\ y.lsn = n /\ y.val = r /\ y.big = r /\ z.val = r /\ z.big = r
      BY <1>1, <2>1 DEF Rows
    <2> HIDE DEF y, z
    <2> QED
      BY <1>1, <2>2 DEF Meets, SolidRow, y, z
  <1>4. CASE op # "truncate" /\ row.lsn > n
    <2>1. y = row
      BY <1>4 DEF RowAfter
    <2>2. PICK u \in n .. v : row.lsn <= u + 1 /\ Cell(row) = H[u]
      BY <1>1, <1>4 DEF Meets
    <2> HIDE DEF y, z
    <2> QED
      BY <2>1, <2>2 DEF Meets, SolidRow, y, z
  <1>5. CASE op = "preserve" /\ ~ (row.lsn > n)
    <2> DEFINE b == IF row = Absent THEN ColumnDefault ELSE row.big
               c == IF x = M!NoRow THEN M!Default ELSE x.big
    <2>1. y = [lsn |-> n, val |-> r, big |-> b] /\ z = [val |-> r, big |-> c]
      BY <1>5 DEF RowAfter, CellAfter
    <2>2. b \in Records
      BY <1>1, AbsentFacts
    <2> HIDE DEF b, c
    <2>3. y \in Rows /\ y.lsn = n /\ y.val = r /\ y.big = b /\ z.val = r /\ z.big = c
      BY <1>1, <2>1, <2>2 DEF Rows
    <2>4. b = c \/ \E u \in n .. v : b = H[u].big \/ H[u] = M!NoRow
      <3>1. CASE /\ row.val = x.val
                 /\ \/ row.big = x.big
                    \/ \E u \in n .. v : row.big = H[u].big \/ H[u] = M!NoRow
        <4>1. row = Absent <=> x = M!NoRow
          BY <3>1, AbsentFacts DEF SolidRow, SolidCell
        <4>2. CASE row = Absent
          BY <4>1, <4>2, AbsentFacts DEF b, c
        <4>3. CASE row # Absent
          BY <3>1, <4>1, <4>3 DEF b, c
        <4> QED
          BY <4>2, <4>3
      <3>2. CASE \E u \in n .. v : row.lsn <= u + 1 /\ Cell(row) = H[u]
        <4>1. PICK u \in n .. v : Cell(row) = H[u]
          BY <3>2
        <4>2. CASE row = Absent
          BY <4>1, <4>2, AbsentFacts
        <4>3. CASE row # Absent
          BY <4>1, <4>3, CellFacts DEF b
        <4> QED
          BY <4>2, <4>3
      <3> QED
        BY <3>1, <3>2 DEF Meets
    <2> HIDE DEF y, z
    <2> QED
      BY <1>1, <2>3, <2>4 DEF Meets, SolidRow, y, z
  <1> QED
    BY <1>2, <1>3, <1>4, <1>5

(* A change keeps the source's rows solid.                                 *)
LEMMA SolidOn ==
    ASSUME NEW x, SolidCell(x), NEW r \in Records, r.tx > 0, NEW op
    PROVE  SolidCell(CellAfter(x, op, r))
  BY DEF SolidCell, CellAfter, Nil, Records

(* The end of transaction n.                                               *)
LEMMA MeetsNext ==
    ASSUME NEW row \in Rows, NEW n \in Nat, NEW v \in Nat, NEW H, SolidRow(row), SolidCell(H[n]),
           H[n] \in Cells, Meets(row, H[n], n, v, H)
    PROVE  Meets(row, H[n], n + 1, v, H)
  <1>1. \A u \in n .. v : u = n \/ u \in n + 1 .. v
    OBVIOUS
  <1>2. row.lsn \in Nat
    BY CellFacts
  <1>3. CASE /\ row.lsn <= n /\ row.val = H[n].val
             /\ \/ row.big = H[n].big
                \/ \E u \in n .. v : row.big = H[u].big \/ H[u] = M!NoRow
    <2>1. row.lsn <= n + 1
      BY <1>2, <1>3
    <2>2. H[n] = M!NoRow => row.big = H[n].big
      BY <1>3, AbsentFacts DEF SolidRow
    <2> QED
      BY <1>1, <1>3, <2>1, <2>2 DEF Meets
  <1>4. CASE \E u \in n .. v : row.lsn <= u + 1 /\ Cell(row) = H[u]
    <2>1. PICK u \in n .. v : row.lsn <= u + 1 /\ Cell(row) = H[u]
      BY <1>4
    <2>2. CASE u = n
      <3>1. row.lsn <= n + 1 /\ row.val = H[n].val /\ row.big = H[n].big
        BY <2>1, <2>2, CellFacts
      <3> QED
        BY <3>1 DEF Meets
    <2>3. CASE u \in n + 1 .. v
      BY <2>1, <2>3 DEF Meets
    <2> QED
      BY <1>1, <2>2, <2>3
  <1> QED
    BY <1>3, <1>4 DEF Meets

(* A later view.                                                           *)
LEMMA MeetsLater ==
    ASSUME NEW row, NEW x, NEW n \in Nat, NEW v \in Nat, NEW w \in Nat, v <= w, NEW H,
           Meets(row, x, n, v, H)
    PROVE  Meets(row, x, n, w, H)
  <1>1. \A u \in n .. v : u \in n .. w
    OBVIOUS
  <1> QED
    BY <1>1 DEF Meets

(* Nothing is left to overwrite.                                           *)
LEMMA MeetsAtLast ==
    ASSUME NEW row \in Rows, NEW x \in Cells, NEW n \in Nat, NEW v \in Nat, v < n, NEW H,
           Meets(row, x, n, v, H)
    PROVE  Cell(row) = x
  <1>1. n .. v = {}
    OBVIOUS
  <1>2. row.val = x.val /\ row.big = x.big
    BY <1>1 DEF Meets
  <1> QED
    BY <1>2 DEF Cell, Cells, Rows

-----------------------------------------------------------------------------
(* A change of the source, row by row.                                     *)
LEMMA ExecCell ==
    ASSUME source \in Histories, NEW r, IsId(source, r), NEW x \in Contents,
           NEW t \in Tables, NEW k \in Keys
    PROVE  M!Exec(x, r, source[r.tx][r.seq])[t][k]
             = IF Touches(r, t, k) THEN CellAfter(x[t][k], source[r.tx][r.seq].op, r) ELSE x[t][k]
  <1> DEFINE c == source[r.tx][r.seq]
  <1>1. /\ c.table \in Tables /\ c.key \in Keys
        /\ c.op \in {"upsert", "preserve", "delete", "truncate"}
    BY ChangeTyped
  <1>2. Touches(r, t, k) <=> c.table = t /\ (c.op = "truncate" \/ c.key = k)
    BY DEF Touches
  <1> HIDE DEF c
  <1>3. CASE c.op = "truncate"
    <2>1. M!Exec(x, r, c) = [x EXCEPT ![c.table] = [j \in Keys |-> M!NoRow]]
      BY <1>3 DEF M!Exec
    <2>2. [x EXCEPT ![c.table] = [j \in Keys |-> M!NoRow]][t][k]
            = IF c.table = t THEN M!NoRow ELSE x[t][k]
      BY <1>1 DEF Contents
    <2> QED
      BY <1>2, <1>3, <2>1, <2>2 DEF CellAfter, c
  <1>4. ASSUME NEW y, M!Exec(x, r, c) = [x EXCEPT ![c.table][c.key] = y], c.op # "truncate",
               c.table = t /\ c.key = k => y = CellAfter(x[t][k], c.op, r)
        PROVE  M!Exec(x, r, c)[t][k] = IF Touches(r, t, k) THEN CellAfter(x[t][k], c.op, r) ELSE x[t][k]
    <2>1. [x EXCEPT ![c.table][c.key] = y][t][k] = IF c.table = t /\ c.key = k THEN y ELSE x[t][k]
      BY <1>1 DEF Contents
    <2> QED
      BY <1>2, <1>4, <2>1
  <1>5. CASE c.op = "delete"
    <2>1. M!Exec(x, r, c) = [x EXCEPT ![c.table][c.key] = M!NoRow]
      BY <1>5 DEF M!Exec
    <2>2. CellAfter(x[t][k], c.op, r) = M!NoRow
      BY <1>5 DEF CellAfter
    <2> QED
      BY <1>4, <1>5, <2>1, <2>2 DEF c
  <1>6. CASE c.op = "upsert"
    <2>1. M!Exec(x, r, c) = [x EXCEPT ![c.table][c.key] = [val |-> r, big |-> r]]
      BY <1>6 DEF M!Exec
    <2>2. CellAfter(x[t][k], c.op, r) = [val |-> r, big |-> r]
      BY <1>6 DEF CellAfter
    <2> QED
      BY <1>4, <1>6, <2>1, <2>2 DEF c
  <1>7. CASE c.op = "preserve"
    <2> DEFINE y == [val |-> r, big |-> IF x[c.table][c.key] = M!NoRow THEN M!Default
                                        ELSE x[c.table][c.key].big]
    <2>1. M!Exec(x, r, c) = [x EXCEPT ![c.table][c.key] = y]
      BY <1>7 DEF M!Exec
    <2>2. c.table = t /\ c.key = k => y = CellAfter(x[t][k], c.op, r)
      BY <1>7 DEF CellAfter
    <2> HIDE DEF y
    <2> QED
      BY <1>4, <1>7, <2>1, <2>2 DEF c
  <1> QED
    BY <1>1, <1>3, <1>5, <1>6, <1>7

(* A mutation of the destination, row by row.                              *)
LEMMA MutationRow ==
    ASSUME source \in Histories, NEW r, IsId(source, r), NEW d \in Databases,
           ~StaleTruncate(d, EventOf(source, r))
    PROVE  /\ \A t \in Tables, k \in Keys :
                 ApplyMutation(d, EventOf(source, r)).rows[t][k]
                   = IF Touches(r, t, k) THEN RowAfter(d.rows[t][k], source[r.tx][r.seq].op, r)
                     ELSE d.rows[t][k]
           /\ \A t \in Tables :
                 ApplyMutation(d, EventOf(source, r)).water[t]
                   = IF source[r.tx][r.seq].op = "truncate" /\ source[r.tx][r.seq].table = t
                     THEN r.tx ELSE d.water[t]
  <1> DEFINE c == source[r.tx][r.seq]
             e == EventOf(source, r)
             a == c.table
             b == c.key
             row == d.rows[a][b]
             x == ApplyMutation(d, e)
  <1>1. /\ a \in Tables /\ b \in Keys
        /\ c.op \in {"upsert", "preserve", "delete", "truncate"}
        /\ e.id = r /\ e.op = c.op /\ e.table = a /\ e.key = b /\ LSN(e) = r.tx
    BY ChangeTyped, EventTyped DEF LSN
  <1>2. \A t, k : Touches(r, t, k) <=> a = t /\ (c.op = "truncate" \/ b = k)
    BY DEF Touches
  <1>3. d.rows \in [Tables -> [Keys -> Rows]] /\ d.water \in [Tables -> Nat]
    BY DEF Databases
  <1>4. row \in Rows /\ row.lsn \in Nat /\ r.tx \in Nat /\ r \in Records
    BY <1>1, <1>3, CellFacts DEF IsId, Records
  <1> HIDE DEF e, x, c, a, b
  <1>5. CASE c.op = "truncate"
    <2> DEFINE m == [d.rows EXCEPT ![a] = [j \in Keys |-> Absent]]
               w == [d.water EXCEPT ![a] = r.tx]
    <2>1. x = [d EXCEPT !.rows[a] = [j \in Keys |-> Absent], !.water[a] = r.tx]
      <3>1. x = Truncate(d, e)
        BY <1>1, <1>5 DEF ApplyMutation, x
      <3>2. ~TruncateIsStale(LSN(e), d.water[e.table])
        BY <1>1, <1>5 DEF StaleTruncate, e
      <3> QED
        BY <1>1, <3>1, <3>2 DEF Truncate
    <2>2. x.rows = m /\ x.water = w
      BY <2>1 DEF Databases
    <2>3. \A t \in Tables, k \in Keys : m[t][k] = IF a = t THEN Absent ELSE d.rows[t][k]
      BY <1>1, <1>3
    <2>4. \A t \in Tables : w[t] = IF a = t THEN r.tx ELSE d.water[t]
      BY <1>1, <1>3
    <2>5. \A y : RowAfter(y, c.op, r) = Absent
      BY <1>5 DEF RowAfter
    <2> HIDE DEF m, w
    <2>6. \A t \in Tables, k \in Keys :
             x.rows[t][k] = IF Touches(r, t, k) THEN RowAfter(d.rows[t][k], c.op, r) ELSE d.rows[t][k]
      BY <1>2, <1>5, <2>2, <2>3, <2>5
    <2>7. \A t \in Tables :
             x.water[t] = IF c.op = "truncate" /\ a = t THEN r.tx ELSE d.water[t]
      BY <1>5, <2>2, <2>4
    <2> QED
      BY <2>6, <2>7 DEF x, e, c, a
  <1>6. ASSUME c.op # "truncate", NEW new \in Rows, new = RowAfter(row, c.op, r),
               x = [d EXCEPT !.rows[a][b] = new] \/ (x = d /\ new = row)
        PROVE  /\ \A t \in Tables, k \in Keys :
                     x.rows[t][k] = IF Touches(r, t, k) THEN RowAfter(d.rows[t][k], c.op, r)
                                    ELSE d.rows[t][k]
               /\ x.water = d.water
    <2> DEFINE m == [d.rows EXCEPT ![a][b] = new]
    <2>1. \A t \in Tables, k \in Keys : m[t][k] = IF a = t /\ b = k THEN new ELSE d.rows[t][k]
      BY <1>1, <1>3
    <2> HIDE DEF m
    <2>2. x.water = d.water /\ \A t \in Tables, k \in Keys :
             x.rows[t][k] = IF a = t /\ b = k THEN new ELSE d.rows[t][k]
      <3>1. CASE x = [d EXCEPT !.rows[a][b] = new]
        <4>1. x.rows = m /\ x.water = d.water
          BY <3>1 DEF Databases, m
        <4> QED
          BY <2>1, <4>1
      <3>2. CASE x = d /\ new = row
        BY <3>2
      <3> QED
        BY <1>6, <3>1, <3>2
    <2>3. \A t, k : a = t /\ b = k => RowAfter(d.rows[t][k], c.op, r) = new
      BY <1>6
    <2> QED
      BY <1>2, <1>6, <2>2, <2>3
  <1>7. CASE c.op # "truncate"
    <2> DEFINE new == RowAfter(row, c.op, r)
    <2>1. new \in Rows
      <3> HIDE DEF row
      <3>1. /\ Absent \in Rows /\ ColumnDefault \in Records /\ row.big \in Records
        BY <1>4, AbsentFacts, CellFacts
      <3> DEFINE g == IF row = Absent THEN ColumnDefault ELSE row.big
      <3>2. g \in Records
        BY <3>1
      <3>3. new \in {Absent, row, [lsn |-> r.tx, val |-> r, big |-> r],
                     [lsn |-> r.tx, val |-> r, big |-> g]}
        BY DEF RowAfter
      <3> HIDE DEF new, g
      <3> QED
        BY <1>4, <3>1, <3>2, <3>3 DEF Rows
    <2>2. x = [d EXCEPT !.rows[a][b] = new] \/ (x = d /\ new = row)
      <3>1. CASE c.op = "upsert"
        <4>1. x = Upsert(d, e)
          BY <1>1, <3>1 DEF ApplyMutation, x
        <4>2. row.lsn > r.tx => row # Absent
          BY <1>4, AbsentFacts
        <4> QED
          BY <1>1, <1>4, <3>1, <4>1, <4>2 DEF Upsert, RowAfter
      <3>2. CASE c.op = "delete"
        <4>1. x = Delete(d, e)
          BY <1>1, <3>2 DEF ApplyMutation, x
        <4>2. row.lsn <= r.tx <=> ~ (row.lsn > r.tx)
          BY <1>4
        <4> QED
          BY <1>1, <3>2, <4>1, <4>2 DEF Delete, RowAfter
      <3>3. CASE c.op = "preserve"
        <4>1. x = UpdatePreserving(d, e)
          BY <1>1, <3>3 DEF ApplyMutation, x
        <4>2. (row.lsn <= r.tx <=> ~ (row.lsn > r.tx)) /\ (row = Absent => row.lsn <= r.tx)
          BY <1>4, AbsentFacts
        <4>3. new = IF row = Absent THEN [lsn |-> r.tx, val |-> r, big |-> ColumnDefault]
                    ELSE IF row.lsn <= r.tx THEN [lsn |-> r.tx, val |-> r, big |-> row.big]
                    ELSE row
          BY <3>3, <4>2 DEF RowAfter
        <4> HIDE DEF new
        <4> QED
          BY <1>1, <4>1, <4>3 DEF UpdatePreserving
      <3> QED
        BY <1>1, <1>7, <3>1, <3>2, <3>3
    <2> HIDE DEF new
    <2>3. /\ \A t \in Tables, k \in Keys :
                x.rows[t][k] = IF Touches(r, t, k) THEN RowAfter(d.rows[t][k], c.op, r)
                               ELSE d.rows[t][k]
          /\ x.water = d.water
      BY <1>6, <1>7, <2>1, <2>2 DEF new
    <2> QED
      BY <1>7, <2>3 DEF x, e, c
  <1> QED
    BY <1>5, <1>7

-----------------------------------------------------------------------------
Solid(x) == \A t \in Tables, k \in Keys : SolidCell(x[t][k])

LEMMA SolidExec ==
    ASSUME source \in Histories, NEW r, IsId(source, r), NEW x \in Contents, Solid(x)
    PROVE  Solid(M!Exec(x, r, source[r.tx][r.seq]))
  <1>1. r \in Records /\ r.tx > 0
    BY DEF IsId
  <1>2. ASSUME NEW t \in Tables, NEW k \in Keys
        PROVE  SolidCell(M!Exec(x, r, source[r.tx][r.seq])[t][k])
    <2>1. SolidCell(x[t][k])
      BY DEF Solid
    <2>2. SolidCell(CellAfter(x[t][k], source[r.tx][r.seq].op, r))
      BY <1>1, <2>1, SolidOn
    <2> QED
      BY <2>1, <2>2, ExecCell
  <1> QED
    BY <1>2 DEF Solid

(* The source's rows are solid whatever changes are executed.              *)
LEMMA SolidWithin ==
    ASSUME source \in Histories, NEW S, NEW n \in 1 .. Len(source), NEW y \in Contents, Solid(y)
    PROVE  Solid(Within(S, n, y)[Len(source[n])])
  <1> DEFINE m == Len(source[n])
             B == Within(S, n, y)
             I == {j \in 0 .. m : Solid(B[j])}
  <1>1. m \in Nat /\ n \in Nat
    BY SourceTyped
  <1>2. /\ B \in [0 .. m -> Contents] /\ B[0] = y
        /\ \A j \in 1 .. m : B[j] = Perform(S, n, j, B[j - 1])
    BY WithinEquation
  <1>3. \A j \in 1 .. m : IsId(source, [tx |-> n, seq |-> j])
    BY <1>1 DEF IsId, Records
  <1> HIDE DEF m, B
  <1>4. 0 \in I
    BY <1>1, <1>2
  <1>5. \A i \in 0 .. m - 1 : i \in I => i + 1 \in I
    <2> TAKE i \in 0 .. m - 1
    <2> HAVE i \in I
    <2> DEFINE r == [tx |-> n, seq |-> i + 1]
    <2>1. /\ i + 1 \in 1 .. m /\ i + 1 \in 0 .. m /\ (i + 1) - 1 = i /\ i \in 0 .. m
          /\ B[i] \in Contents /\ B[i + 1] = Perform(S, n, i + 1, B[i]) /\ Solid(B[i])
      BY <1>1, <1>2
    <2>2. IsId(source, r) /\ r.tx = n /\ r.seq = i + 1
      BY <1>3, <2>1
    <2>3. B[i + 1] = M!Exec(B[i], r, source[n][i + 1]) \/ B[i + 1] = B[i]
      BY <2>1 DEF Perform
    <2> HIDE DEF r
    <2>4. Solid(M!Exec(B[i], r, source[n][i + 1]))
      BY <2>1, <2>2, SolidExec
    <2> QED
      BY <2>1, <2>3, <2>4
  <1> HIDE DEF I
  <1>6. \A i \in 0 .. m : i \in I
    BY <1>1, <1>4, <1>5, Induction
  <1>7. m \in I
    BY <1>1, <1>6
  <1> QED
    BY <1>7 DEF I, m, B

LEMMA SolidFold ==
    ASSUME source \in Histories, NEW S, NEW a \in Contents, Solid(a)
    PROVE  M!RowsFrom(a, S) \in Contents /\ Solid(M!RowsFrom(a, S))
  <1> DEFINE n == Len(source)
             B == Between(S, a)
             I == {i \in 0 .. n : Solid(B[i])}
  <1>1. n \in Nat
    BY SourceTyped
  <1>2. /\ B \in [0 .. n -> Contents] /\ B[0] = a
        /\ \A i \in 1 .. n : B[i] = Within(S, i, B[i - 1])[Len(source[i])]
    BY BetweenEquation
  <1>3. M!RowsFrom(a, S) = B[n]
    BY RowsFromIs
  <1> HIDE DEF B
  <1>4. 0 \in I
    BY <1>1, <1>2
  <1>5. \A i \in 0 .. n - 1 : i \in I => i + 1 \in I
    <2> TAKE i \in 0 .. n - 1
    <2> HAVE i \in I
    <2>1. /\ i + 1 \in 1 .. n /\ i + 1 \in 0 .. n /\ (i + 1) - 1 = i /\ i \in 0 .. n /\ B[i] \in Contents
          /\ B[i + 1] = Within(S, i + 1, B[i])[Len(source[i + 1])] /\ Solid(B[i])
      BY <1>1, <1>2
    <2>2. Solid(B[i + 1])
      BY <2>1, SolidWithin
    <2> QED
      BY <2>1, <2>2
  <1> HIDE DEF I, n
  <1>6. \A i \in 0 .. n : i \in I
    BY <1>1, <1>4, <1>5, Induction
  <1>7. n \in I /\ n \in 0 .. n
    BY <1>1, <1>6
  <1> QED
    BY <1>2, <1>3, <1>7 DEF I

(* The changes up to change j of transaction n.                            *)
Until(n, j) == {q \in Ids : q.tx < n \/ (q.tx = n /\ q.seq <= j)}

(* One change more.                                                        *)
LEMMA UntilNext ==
    ASSUME source \in Histories, NEW n \in 1 .. Len(source), NEW j \in 1 .. Len(source[n]),
           NEW a \in Contents
    PROVE  /\ IsId(source, [tx |-> n, seq |-> j])
           /\ M!RowsFrom(a, Until(n, j))
                = M!Exec(M!RowsFrom(a, Until(n, j - 1)), [tx |-> n, seq |-> j], source[n][j])
  <1> DEFINE r == [tx |-> n, seq |-> j]
             S == Until(n, j - 1)
  <1>1. n \in Nat /\ j \in Nat /\ r.tx = n /\ r.seq = j
    BY SourceTyped
  <1>2. IsId(source, r)
    BY <1>1 DEF IsId, Records
  <1>3. \A q : q \in Ids <=> IsId(source, q)
    BY IdsAre
  <1>4. \A q \in Ids : /\ q.tx \in Nat /\ q.seq \in Nat /\ q = [tx |-> q.tx, seq |-> q.seq]
    BY <1>3 DEF IsId, Records
  <1>5. ASSUME NEW q \in S
        PROVE  IsId(source, q) /\ Precedes(q, r) /\ q # r
    <2>1. q \in Ids /\ (q.tx < n \/ (q.tx = n /\ q.seq <= j - 1))
      BY DEF Until
    <2>2. Precedes(q, r)
      BY <1>1, <1>4, <2>1 DEF Precedes
    <2>3. q # r
      BY <1>1, <1>4, <2>1
    <2> QED
      BY <1>3, <2>1, <2>2, <2>3
  <1>6. Until(n, j) = S \cup {r}
    <2>1. ASSUME NEW q \in Ids
          PROVE  q.tx < n \/ (q.tx = n /\ q.seq <= j)
                   <=> (q.tx < n \/ (q.tx = n /\ q.seq <= j - 1)) \/ q = r
      BY <1>1, <1>4
    <2>2. r \in Ids
      BY <1>2, <1>3
    <2> QED
      BY <2>1, <2>2 DEF Until
  <1>7. M!RowsFrom(a, S \cup {r}) = M!Exec(M!RowsFrom(a, S), r, source[r.tx][r.seq])
    BY <1>2, <1>5, FoldOfOneMore
  <1> QED
    BY <1>1, <1>2, <1>6, <1>7

(* A TRUNCATE is not stale if no later or equal one was applied.           *)
TruncatedBefore(d, n, i) ==
    \A t \in Tables : \/ d.water[t] < n
                      \/ /\ d.water[t] = n
                         /\ \E h \in 1 .. i : source[n][h].op = "truncate" /\ source[n][h].table = t

LEMMA FreshTruncate ==
    ASSUME source \in Histories, TruncatesOnce, NEW d \in Databases, NEW n \in 1 .. Len(source),
           NEW i \in 0 .. Len(source[n]) - 1, TruncatedBefore(d, n, i)
    PROVE  ~StaleTruncate(d, EventOf(source, [tx |-> n, seq |-> i + 1]))
  <1> DEFINE r == [tx |-> n, seq |-> i + 1]
             e == EventOf(source, r)
  <1>1. Len(source[n]) \in Nat /\ n \in Nat /\ i + 1 \in 1 .. Len(source[n]) /\ r.tx = n /\ r.seq = i + 1
    BY SourceTyped
  <1>2. IsId(source, r)
    BY <1>1 DEF IsId, Records
  <1>3. /\ e.id = r /\ e.op = source[n][i + 1].op /\ e.table = source[n][i + 1].table
        /\ e.table \in Tables /\ LSN(e) = n
    BY <1>1, <1>2, ChangeTyped, EventTyped DEF LSN
  <1> HIDE DEF e, r
  <1> SUFFICES ASSUME e.op = "truncate", LSN(e) <= d.water[e.table] PROVE FALSE
    BY DEF StaleTruncate, TruncateIsStale, e, r
  <1>4. d.water[e.table] \in Nat
    BY <1>3 DEF Databases
  <1>5. ~ (d.water[e.table] < n)
    BY <1>1, <1>3, <1>4
  <1>6. PICK h \in 1 .. i : source[n][h].op = "truncate" /\ source[n][h].table = e.table
    BY <1>3, <1>5 DEF TruncatedBefore
  <1>7. source[n] \in Transactions /\ h \in 1 .. Len(source[n]) /\ h # i + 1
    BY <1>1 DEF Transactions
  <1> QED
    BY <1>1, <1>3, <1>6, <1>7 DEF TruncatesOnce

(* A whole transaction: the tables of the source before and after it are   *)
(* met by those of the destination.                                        *)
AllMeet(d, x, n, v, H) ==
    \A t \in Tables, k \in Keys :
        SolidRow(d.rows[t][k]) /\ Meets(d.rows[t][k], x[t][k], n, v, H[t][k])

LEMMA BatchMeets ==
    ASSUME source \in Histories, TruncatesOnce, NEW d \in Databases, NEW events \in Seq(Events),
           NEW n \in 1 .. Len(source), Len(events) = Len(source[n]),
           \A i \in 1 .. Len(events) : events[i] = EventOf(source, [tx |-> n, seq |-> i]),
           Fresh(d, events) = 1 .. Len(events),
           NEW a \in Contents, Solid(a), NEW v \in Nat, NEW H,
           \A t \in Tables : d.water[t] < n,
           AllMeet(d, M!RowsFrom(a, Until(n, 0)), n, v, H)
    PROVE  /\ AllMeet(ApplyBatch(d, events), M!RowsFrom(a, Until(n, Len(source[n]))), n, v, H)
           /\ \A t \in Tables : ApplyBatch(d, events).water[t] <= n
  <1> DEFINE m == Len(events)
             B == BatchStates(d, events)
             X == [i \in 0 .. m |-> M!RowsFrom(a, Until(n, i))]
             I == {i \in 0 .. m : AllMeet(B[i], X[i], n, v, H) /\ TruncatedBefore(B[i], n, i)}
  <1>1. m \in Nat /\ n \in Nat /\ m = Len(source[n])
    BY SourceTyped
  <1>2. /\ B \in [0 .. m -> Databases] /\ B[0] = Marked(d, events)
        /\ \A i \in 1 .. m : B[i] = Advance(d, events, i, B[i - 1])
    BY BatchStatesEquation
  <1>3. B[0].rows = d.rows /\ B[0].water = d.water
    BY <1>2 DEF Marked, Databases
  <1>4. \A i \in 0 .. m : X[i] = M!RowsFrom(a, Until(n, i)) /\ X[i] \in Contents /\ Solid(X[i])
    BY SolidFold
  <1>5. ASSUME NEW i \in 0 .. m - 1
        PROVE  /\ IsId(source, [tx |-> n, seq |-> i + 1])
               /\ X[i + 1] = M!Exec(X[i], [tx |-> n, seq |-> i + 1], source[n][i + 1])
    <2>1. i \in 0 .. m /\ i + 1 \in 0 .. m /\ i + 1 \in 1 .. Len(source[n]) /\ (i + 1) - 1 = i
      BY <1>1
    <2> HIDE DEF X
    <2> QED
      BY <1>4, <2>1, UntilNext
  <1> HIDE DEF m, B, X
  <1>6. 0 \in I
    <2>1. 0 \in 0 .. m
      BY <1>1
    <2> QED
      BY <1>3, <1>4, <2>1 DEF AllMeet, TruncatedBefore
  <1>7. \A i \in 0 .. m - 1 : i \in I => i + 1 \in I
    <2> TAKE i \in 0 .. m - 1
    <2> HAVE i \in I
    <2> DEFINE r == [tx |-> n, seq |-> i + 1]
               c == source[n][i + 1]
    <2>1. /\ i + 1 \in 1 .. m /\ i + 1 \in 0 .. m /\ (i + 1) - 1 = i /\ i \in 0 .. m
          /\ B[i] \in Databases /\ B[i + 1] \in Databases
          /\ B[i + 1] = Advance(d, events, i + 1, B[i])
          /\ AllMeet(B[i], X[i], n, v, H) /\ TruncatedBefore(B[i], n, i)
      <3>1. i + 1 \in 1 .. m /\ i + 1 \in 0 .. m /\ (i + 1) - 1 = i /\ i \in 0 .. m
        BY <1>1
      <3>2. AllMeet(B[i], X[i], n, v, H) /\ TruncatedBefore(B[i], n, i)
        OBVIOUS
      <3> HIDE DEF I
      <3> QED
        BY <1>2, <3>1, <3>2
    <2>2. IsId(source, r) /\ r.tx = n /\ r.seq = i + 1 /\ r \in Records /\ r.tx > 0
      BY <1>5 DEF IsId
    <2>3. X[i + 1] = M!Exec(X[i], r, c) /\ X[i] \in Contents /\ Solid(X[i])
      BY <1>4, <1>5, <2>1
    <2>4. B[i + 1] = ApplyMutation(B[i], EventOf(source, r))
      BY <2>1 DEF Advance, m
    <2>5. ~StaleTruncate(B[i], EventOf(source, r))
      BY <1>1, <2>1, FreshTruncate
    <2> HIDE DEF r, c
    <2>6. c = source[r.tx][r.seq] /\ c.op \in {"upsert", "preserve", "delete", "truncate"}
      BY <2>2, ChangeTyped DEF c
    <2>7. /\ \A t \in Tables, k \in Keys :
                B[i + 1].rows[t][k] = IF Touches(r, t, k) THEN RowAfter(B[i].rows[t][k], c.op, r)
                                      ELSE B[i].rows[t][k]
          /\ \A t \in Tables :
                B[i + 1].water[t] = IF c.op = "truncate" /\ c.table = t THEN r.tx ELSE B[i].water[t]
      BY <2>1, <2>2, <2>4, <2>5, <2>6, MutationRow
    <2>8. ASSUME NEW t \in Tables, NEW k \in Keys
          PROVE  /\ SolidRow(B[i + 1].rows[t][k])
                 /\ Meets(B[i + 1].rows[t][k], X[i + 1][t][k], n, v, H[t][k])
      <3> DEFINE row == B[i].rows[t][k]
                 x == X[i][t][k]
      <3>1. row \in Rows /\ x \in Cells /\ SolidRow(row) /\ SolidCell(x) /\ Meets(row, x, n, v, H[t][k])
        BY <2>1, <2>3 DEF Databases, Contents, Solid, AllMeet
      <3>2. X[i + 1][t][k] = IF Touches(r, t, k) THEN CellAfter(x, c.op, r) ELSE x
        BY <2>2, <2>3, <2>6, ExecCell
      <3>3. B[i + 1].rows[t][k] = IF Touches(r, t, k) THEN RowAfter(row, c.op, r) ELSE row
        BY <2>7
      <3> HIDE DEF row, x
      <3>4. /\ SolidRow(RowAfter(row, c.op, r))
            /\ Meets(RowAfter(row, c.op, r), CellAfter(x, c.op, r), n, v, H[t][k])
        BY <2>2, <2>6, <3>1, MeetsOn
      <3> QED
        BY <3>1, <3>2, <3>3, <3>4
    <2>9. ASSUME NEW t \in Tables
          PROVE  \/ B[i + 1].water[t] < n
                 \/ /\ B[i + 1].water[t] = n
                    /\ \E h \in 1 .. i + 1 : source[n][h].op = "truncate" /\ source[n][h].table = t
      <3>1. CASE c.op = "truncate" /\ c.table = t
        <4>1. B[i + 1].water[t] = n /\ i + 1 \in 1 .. i + 1
          BY <2>1, <2>2, <2>7, <3>1
        <4> QED
          BY <3>1, <4>1 DEF c
      <3>2. CASE ~ (c.op = "truncate" /\ c.table = t)
        <4>1. B[i + 1].water[t] = B[i].water[t] /\ \A h \in 1 .. i : h \in 1 .. i + 1
          BY <2>1, <2>7, <3>2
        <4> QED
          BY <2>1, <4>1 DEF TruncatedBefore
      <3> QED
        BY <3>1, <3>2
    <2> QED
      BY <2>1, <2>8, <2>9 DEF AllMeet, TruncatedBefore
  <1> HIDE DEF I
  <1>8. \A i \in 0 .. m : i \in I
    BY <1>1, <1>6, <1>7, Induction
  <1>9. m \in 0 .. m /\ AllMeet(B[m], X[m], n, v, H) /\ TruncatedBefore(B[m], n, m)
    BY <1>1, <1>8 DEF I
  <1>10. ApplyBatch(d, events) = B[m] /\ X[m] = M!RowsFrom(a, Until(n, m)) /\ B[m] \in Databases
    BY <1>1, <1>2, <1>4 DEF ApplyBatch, B, m
  <1>11. \A t \in Tables : B[m].water[t] \in Nat
    BY <1>10 DEF Databases
  <1>12. \A t \in Tables : B[m].water[t] <= n
    BY <1>1, <1>9, <1>11 DEF TruncatedBefore
  <1> QED
    BY <1>1, <1>9, <1>10, <1>12

-----------------------------------------------------------------------------
(***************************************************************************)
(* The inductive invariant of SnapSpec.                                    *)
(***************************************************************************)
SlotInv ==
    /\ source \in Histories
    /\ log \in Seq(Records)
    /\ \A i \in 1 .. Len(log) : IsId(source, log[i]) /\ log[i].tx <= committed
    /\ committed \in 0 .. Len(source) /\ view \in 0 .. committed /\ from \in 1 .. committed + 1
    /\ restart \in 0 .. committed + 1 /\ stamp \in 0 .. committed + 1

BootInv ==
    /\ boot \in {"wait", "read", "begin", "copy", "mark"} => ~done
    /\ boot \in {"verify", "ready"} => done
    /\ boot = "copy" => stamp <= view + 1
    /\ boot # "ready" => pc = "down"
    /\ ~done => db.marks = {}

(* The group in hand is the beginning of a transaction; complete, when it  *)
(* is applied.                                                             *)
LoopInv ==
    /\ pc \in {"down", "poll", "apply", "commit"} /\ db \in Databases
    /\ offset \in 0 .. Len(log) /\ pos \in 0 .. Len(log) /\ group \in Seq(Events)
    /\ \A i \in 1 .. offset : log[i] \in db.marks
    /\ pc # "down" =>
          /\ pos = offset + Len(group)
          /\ \A j \in 1 .. Len(group) :
                /\ group[j] = Event(log[offset + j])
                /\ log[offset + j] = [tx |-> log[offset + 1].tx, seq |-> j]
    /\ pc \in {"apply", "commit"} =>
          Len(group) > 0 /\ Len(group) = Len(source[log[offset + 1].tx])
    /\ pc = "commit" => \A j \in 1 .. Len(group) : log[offset + j] \in db.marks

(* The transactions come in order.                                         *)
InOrderInv ==
    \A i \in 1 .. Len(log) : \A q \in Ids :
        q.tx < log[i].tx => \E h \in 1 .. i - 1 : log[h] = q

(* The source's cell after each transaction.                               *)
CellHistory == [t \in Tables |-> [k \in Keys |-> [u \in 0 .. Len(source) |-> SourceAt(u)[t][k]]]]

(* The destination has applied p transactions.  Before the snapshot is     *)
(* copied, rows that the source had before the stream are missing.         *)
HandedOver(p) ==
    /\ db.marks = {r \in Ids : r.tx <= p}
    /\ \A t \in Tables : db.water[t] <= p
    /\ \A t \in Tables, k \in Keys :
          /\ SolidRow(db.rows[t][k])
          /\ \/ Meets(db.rows[t][k], SourceAt(p)[t][k], p + 1, view, CellHistory[t][k])
             \/ ~done /\ boot # "mark" /\ db.rows[t][k] = Absent

GapFree == InOrderInv /\ \E p \in 0 .. committed : HandedOver(p)

HandoverInv == SlotInv /\ BootInv /\ LoopInv /\ (NoGap => GapFree)

-----------------------------------------------------------------------------
(* The tables that the source starts with.                                 *)
LEMMA PreloadTyped == Preloaded \in Contents /\ Solid(Preloaded)
  <1>1. PreloadId \in Records /\ PreloadId # Nil
    BY DEF PreloadId, Records, Nil
  <1>2. [val |-> PreloadId, big |-> PreloadId] \in Cells
    BY <1>1 DEF Cells
  <1>3. \A t \in Tables, k \in Keys :
           Preloaded[t][k] = IF <<t, k>> \in preload THEN [val |-> PreloadId, big |-> PreloadId]
                             ELSE M!NoRow
    BY DEF Preloaded
  <1>4. Preloaded \in Contents
    BY <1>2, AbsentFacts DEF Preloaded, Contents
  <1>5. ASSUME NEW t \in Tables, NEW k \in Keys
        PROVE  SolidCell(Preloaded[t][k])
    <2>1. CASE <<t, k>> \in preload
      <3> DEFINE x == [val |-> PreloadId, big |-> PreloadId]
      <3>1. x.val = PreloadId /\ Preloaded[t][k] = x
        BY <1>3, <2>1
      <3> HIDE DEF x
      <3> QED
        BY <1>1, <3>1 DEF SolidCell
    <2>2. CASE <<t, k>> \notin preload
      <3>1. Preloaded[t][k] = M!NoRow
        BY <1>3, <2>2
      <3> QED
        BY <3>1 DEF SolidCell
    <2> QED
      BY <2>1, <2>2
  <1> QED
    BY <1>4, <1>5 DEF Solid

(* The tables of the source after each transaction.                        *)
LEMMA SourceTables ==
    ASSUME source \in Histories
    PROVE  /\ \A u \in 0 .. Len(source) : SourceAt(u) \in Contents /\ Solid(SourceAt(u))
           /\ \A n \in 1 .. Len(source) :
                 /\ SourceAt(n - 1) = M!RowsFrom(Preloaded, Until(n, 0))
                 /\ SourceAt(n) = M!RowsFrom(Preloaded, Until(n, Len(source[n])))
  <1>1. \A u : SourceAt(u) \in Contents /\ Solid(SourceAt(u))
    BY PreloadTyped, SolidFold DEF SourceAt
  <1>2. ASSUME NEW n \in 1 .. Len(source)
        PROVE  /\ M!Prefix(n - 1) = Until(n, 0)
               /\ M!Prefix(n) = Until(n, Len(source[n]))
    <2>1. Len(source) \in Nat /\ n \in 0 .. Len(source) /\ n - 1 \in 0 .. Len(source) /\ n \in Nat
      BY SourceTyped
    <2>2. \A q : q \in Ids <=> IsId(source, q)
      BY IdsAre
    <2>3. \A q \in Ids : q.tx \in Nat /\ q.seq \in Nat /\ q.seq > 0 /\ q.seq <= Len(source[q.tx])
      <3> TAKE q \in Ids
      <3>1. q \in Records /\ q.tx \in 1 .. Len(source) /\ q.seq \in 1 .. Len(source[q.tx])
        BY <2>2 DEF IsId
      <3>2. q.tx \in Nat /\ q.seq \in Nat /\ Len(source[q.tx]) \in Nat
        BY <3>1, SourceTyped DEF Records
      <3> QED
        BY <3>1, <3>2
    <2>4. \A q \in Ids : (q.tx <= n - 1 <=> q.tx < n \/ (q.tx = n /\ q.seq <= 0))
      BY <2>1, <2>3
    <2>5. \A q \in Ids : (q.tx <= n <=> q.tx < n \/ (q.tx = n /\ q.seq <= Len(source[n])))
      BY <2>1, <2>3
    <2>6. /\ \A r : r \in M!Prefix(n - 1) <=> IsId(source, r) /\ r.tx <= n - 1
          /\ \A r : r \in M!Prefix(n) <=> IsId(source, r) /\ r.tx <= n
      BY <2>1, PrefixIs
    <2>7. \A r : r \in M!Prefix(n - 1) <=> r \in Until(n, 0)
      BY <2>2, <2>4, <2>6 DEF Until
    <2>8. \A r : r \in M!Prefix(n) <=> r \in Until(n, Len(source[n]))
      BY <2>2, <2>5, <2>6 DEF Until
    <2>9. M!Prefix(n - 1) = Until(n, 0)
      BY <2>7
    <2>10. M!Prefix(n) = Until(n, Len(source[n]))
      BY <2>8
    <2> QED
      BY <2>9, <2>10
  <1> QED
    BY <1>1, <1>2 DEF SourceAt

(* They do not change.                                                     *)
LEMMA SourceStands ==
    ASSUME source' = source, preload' = preload
    PROVE  Ids' = Ids /\ CellHistory' = CellHistory /\ \A u : SourceAt(u)' = SourceAt(u)
  <1>1. Ids' = Ids
    BY DEF Ids
  <1>2. Preloaded' = Preloaded
    BY DEF Preloaded
  <1>3. \A u : SourceAt(u)' = SourceAt(u)
    BY <1>2 DEF SourceAt, M!RowsFrom, M!Prefix
  <1>4. CellHistory' = CellHistory
    BY <1>3 DEF CellHistory
  <1> QED
    BY <1>1, <1>3, <1>4

(* A step that leaves the destination alone.                               *)
LEMMA HandedOverStays ==
    ASSUME NEW p \in Nat, HandedOver(p), source' = source, preload' = preload, db' = db,
           view \in Nat, view' \in Nat, view <= view',
           ~done /\ boot # "mark" => ~done' /\ boot' # "mark"
    PROVE  HandedOver(p)'
  <1>1. Ids' = Ids /\ CellHistory' = CellHistory /\ SourceAt(p)' = SourceAt(p)
    BY SourceStands
  <1>2. p + 1 \in Nat
    OBVIOUS
  <1>3. ASSUME NEW t \in Tables, NEW k \in Keys,
               Meets(db.rows[t][k], SourceAt(p)[t][k], p + 1, view, CellHistory[t][k])
        PROVE  Meets(db.rows[t][k], SourceAt(p)[t][k], p + 1, view', CellHistory[t][k])
    BY <1>2, <1>3, MeetsLater
  <1>4. ASSUME NEW t \in Tables, NEW k \in Keys
        PROVE  /\ SolidRow(db.rows[t][k])
               /\ \/ Meets(db.rows[t][k], SourceAt(p)[t][k], p + 1, view', CellHistory[t][k])
                  \/ ~done' /\ boot' # "mark" /\ db.rows[t][k] = Absent
    BY <1>3 DEF HandedOver
  <1>5. \A t \in Tables, k \in Keys :
           /\ SolidRow(db.rows[t][k])'
           /\ \/ Meets(db.rows[t][k], SourceAt(p)[t][k], p + 1, view, CellHistory[t][k])'
              \/ (~done /\ boot # "mark" /\ db.rows[t][k] = Absent)'
    BY <1>1, <1>4 DEF SolidRow, Meets
  <1>6. db'.marks = {r \in Ids' : r.tx <= p} /\ \A t \in Tables : db'.water[t] <= p
    BY <1>1 DEF HandedOver
  <1> QED
    BY <1>5, <1>6 DEF HandedOver

-----------------------------------------------------------------------------
(***************************************************************************)
(* The steps that leave the destination alone.                             *)
(***************************************************************************)
LEMMA CompleteIs ==
    ASSUME source \in Histories, NEW t \in 1 .. Len(source)
    PROVE  T!Complete(t) <=> \A k \in 1 .. Len(source[t]) :
                                \E i \in 1 .. Len(log) : log[i] = [tx |-> t, seq |-> k]
  BY DEF T!Complete, T!Published, T!Record

LEMMA HandoverStays ==
    ASSUME HandoverInv, source' = source, preload' = preload, db' = db, log' = log,
           SlotInv', BootInv', LoopInv', from <= from', view <= view', committed <= committed',
           ~done /\ boot # "mark" => ~done' /\ boot' # "mark"
    PROVE  HandoverInv'
  <1>1. SlotInv /\ (NoGap => GapFree)
    BY DEF HandoverInv
  <1>2. /\ from \in Nat /\ from' \in Nat /\ view \in Nat /\ view' \in Nat
        /\ committed \in Nat /\ committed' \in Nat
    <2>1. Len(source) \in Nat
      BY <1>1, SourceTyped DEF SlotInv
    <2> QED
      BY <1>1, <2>1 DEF SlotInv
  <1> SUFFICES ASSUME NoGap'
               PROVE  GapFree'
    BY DEF HandoverInv
  <1>3. NoGap
    <2>1. \A t : T!Complete(t)' <=> T!Complete(t)
      BY DEF T!Complete, T!Published
    <2>2. \A a, b \in Nat : a <= b => \A t \in 1 .. a - 1 : t \in 1 .. b - 1
      OBVIOUS
    <2>3. \A t \in 1 .. from - 1 : t \in 1 .. from' - 1
      BY <1>2, <2>2
    <2> QED
      BY <2>1, <2>3 DEF NoGap
  <1>4. InOrderInv'
    <2>1. Ids' = Ids
      BY SourceStands
    <2> QED
      BY <1>1, <1>3, <2>1 DEF GapFree, InOrderInv
  <1>5. PICK p \in 0 .. committed : HandedOver(p)
    BY <1>1, <1>3 DEF GapFree
  <1>6. p \in Nat /\ p \in 0 .. committed'
    BY <1>2
  <1>7. HandedOver(p)'
    BY <1>2, <1>5, <1>6, HandedOverStays
  <1> QED
    BY <1>4, <1>6, <1>7 DEF GapFree

LEMMA LoopStays ==
    ASSUME LoopInv, UNCHANGED <<source, log, offset, db, pc, pos, group>>
    PROVE  LoopInv'
  BY DEF LoopInv, Event

(* The source and its slot.                                                *)
LEMMA SlotStays ==
    ASSUME HandoverInv, SourceCommit \/ CreateSlot \/ DropSlot \/ AdvanceRestart
    PROVE  HandoverInv'
  <1>1. SlotInv /\ BootInv /\ LoopInv /\ Len(source) \in Nat
    BY SourceTyped DEF HandoverInv, SlotInv
  <1>2. /\ UNCHANGED <<source, log, offset, db, pc, pos, group, preload, boot, stamp, view, done>>
        /\ committed' \in committed .. Len(source) /\ from' \in from .. committed' + 1
        /\ restart' \in 0 .. committed' + 1
    <2>1. /\ committed \in 0 .. Len(source) /\ from \in 1 .. committed + 1
          /\ restart \in 0 .. committed + 1
      BY <1>1 DEF SlotInv
    <2>2. CASE SourceCommit
      BY <1>1, <2>1, <2>2 DEF SourceCommit, vars, bootVars
    <2>3. CASE CreateSlot
      BY <1>1, <2>1, <2>3 DEF CreateSlot, vars, bootVars
    <2>4. CASE DropSlot
      BY <1>1, <2>1, <2>4 DEF DropSlot, vars, bootVars
    <2>5. CASE AdvanceRestart
      BY <1>1, <2>1, <2>5 DEF AdvanceRestart, vars, bootVars
    <2> QED
      BY <2>2, <2>3, <2>4, <2>5
  <1>3. SlotInv'
    <2>1. committed \in Nat /\ committed' \in Nat /\ committed <= committed'
      BY <1>1, <1>2 DEF SlotInv
    <2>2. \A i \in 1 .. Len(log) : log[i].tx \in Nat
      BY <1>1 DEF SlotInv, IsId, Records
    <2>3. \A i \in 1 .. Len(log') : IsId(source, log[i])' /\ log'[i].tx <= committed'
      BY <1>1, <1>2, <2>1, <2>2 DEF SlotInv, IsId
    <2>4. /\ committed' \in 0 .. Len(source) /\ view' \in 0 .. committed'
          /\ from' \in 1 .. committed' + 1 /\ restart' \in 0 .. committed' + 1
          /\ stamp' \in 0 .. committed' + 1
      <3>1. /\ view \in 0 .. committed /\ stamp \in 0 .. committed + 1
            /\ from \in 1 .. committed + 1 /\ view' = view /\ stamp' = stamp
        BY <1>1, <1>2 DEF SlotInv
      <3>2. committed' \in 0 .. Len(source) /\ view' \in 0 .. committed'
        BY <1>1, <1>2, <2>1, <3>1
      <3>3. \A a, b \in Nat : a <= b => \A c \in 0 .. a + 1 : c \in 0 .. b + 1
        OBVIOUS
      <3>4. \A a, b \in Nat : a > 0 => \A c \in a .. b + 1 : c \in 1 .. b + 1
        OBVIOUS
      <3>5. from \in Nat /\ from > 0
        BY <2>1, <3>1
      <3> QED
        BY <1>2, <2>1, <3>1, <3>2, <3>3, <3>4, <3>5
    <2> QED
      BY <1>1, <1>2, <2>3, <2>4 DEF SlotInv
  <1>4. BootInv' /\ LoopInv'
    BY <1>1, <1>2, LoopStays DEF BootInv
  <1>5. from <= from' /\ view <= view' /\ committed <= committed'
    BY <1>1, <1>2 DEF SlotInv
  <1> QED
    BY <1>2, <1>3, <1>4, <1>5, HandoverStays

(* bootSnapshot, but for the copy.                                         *)
LEMMA BootStays ==
    ASSUME HandoverInv,
           \/ Completed \/ WaitForSlot \/ ReadRestartLSN \/ BeginSnapshot
           \/ MarkCompleted \/ VerifyNotCorrupt \/ BootCrash
    PROVE  HandoverInv'
  <1>1. SlotInv /\ BootInv /\ LoopInv /\ Len(source) \in Nat
    BY SourceTyped DEF HandoverInv, SlotInv
  <1> USE DEF Completed, WaitForSlot, ReadRestartLSN, BeginSnapshot, MarkCompleted,
              VerifyNotCorrupt, BootCrash
  <1>2. UNCHANGED <<source, log, offset, db, pc, pos, group, preload, committed, restart, from>>
    BY DEF BootStep, vars, sourceVars, loopVars
  <1>3. /\ view' \in {view, committed} /\ stamp' \in {stamp, restart}
        /\ ~done /\ boot # "mark" => ~done' /\ boot' # "mark"
    BY DEF BootStep
  <1>4. BootInv'
    BY <1>1, <1>2 DEF BootInv, BootStep, SlotInv
  <1>5. SlotInv' /\ view <= view'
    BY <1>1, <1>2, <1>3 DEF SlotInv
  <1>6. LoopInv'
    BY <1>1, <1>2, LoopStays
  <1>7. from <= from' /\ committed <= committed'
    BY <1>1, <1>2 DEF SlotInv
  <1> QED
    BY <1>2, <1>3, <1>4, <1>5, <1>6, <1>7, HandoverStays

(* The loop, but for the batch.                                            *)
LEMMA LoopQuiet ==
    ASSUME HandoverInv, boot = "ready", boot' = IF pc' = "down" THEN "off" ELSE "ready",
           UNCHANGED <<source, log, db>>, UNCHANGED <<sourceVars, stamp, view, done>>, LoopInv'
    PROVE  HandoverInv'
  <1>1. SlotInv /\ BootInv /\ done
    BY DEF HandoverInv, BootInv
  <1>2. SlotInv'
    BY <1>1 DEF SlotInv, sourceVars
  <1>3. BootInv'
    BY <1>1 DEF BootInv
  <1>4. from <= from' /\ view <= view' /\ committed <= committed' /\ preload' = preload
    BY <1>1 DEF SlotInv, sourceVars
  <1> QED
    BY <1>1, <1>2, <1>3, <1>4, HandoverStays

LEMMA LoopStepsStay ==
    ASSUME HandoverInv,
           Consume(Run) \/ Consume(HandleEvent) \/ Consume(CommitKafkaOffset)
             \/ Consume(Crash) \/ Consume(PollEmpty)
    PROVE  HandoverInv'
  <1>1. SlotInv /\ BootInv /\ LoopInv /\ Len(source) \in Nat
    BY SourceTyped DEF HandoverInv, SlotInv
  <1>2. /\ boot = "ready" /\ boot' = IF pc' = "down" THEN "off" ELSE "ready"
        /\ UNCHANGED <<sourceVars, stamp, view, done>>
    BY DEF Consume
  <1>3. /\ log \in Seq(Records) /\ Len(log) \in Nat /\ offset \in Nat /\ pos \in Nat
        /\ group \in Seq(Events) /\ Len(group) \in Nat
    BY <1>1 DEF SlotInv, LoopInv
  <1>4. CASE Consume(Run)
    <2> USE <1>4 DEF Consume, Run, topic
    <2>1. LoopInv'
      BY <1>1, <1>3 DEF LoopInv
    <2> QED
      BY <1>2, <2>1, LoopQuiet
  <1>5. CASE Consume(Crash) \/ Consume(PollEmpty)
    <2>1. UNCHANGED <<source, log, offset, db, pos, group>> /\ pc' \in {"down", pc}
      BY <1>5 DEF Consume, Crash, PollEmpty, topic, vars
    <2>2. LoopInv'
      BY <1>1, <2>1 DEF LoopInv, Event
    <2> QED
      BY <1>2, <2>1, <2>2, LoopQuiet
  <1>6. CASE Consume(CommitKafkaOffset)
    <2> USE <1>6 DEF Consume, CommitKafkaOffset
    <2>1. pos = offset + Len(group) /\ \A j \in 1 .. Len(group) : log[offset + j] \in db.marks
      BY <1>1 DEF LoopInv
    <2>2. ASSUME NEW i \in 1 .. pos
          PROVE  log[i] \in db.marks
      <3>1. CASE i <= offset
        BY <1>1, <1>3, <3>1 DEF LoopInv
      <3>2. CASE i > offset
        <4>1. i - offset \in 1 .. Len(group) /\ offset + (i - offset) = i
          BY <1>3, <2>1, <3>2
        <4> QED
          BY <2>1, <4>1
      <3> QED
        BY <1>3, <3>1, <3>2
    <2>3. LoopInv'
      BY <1>1, <1>3, <2>1, <2>2 DEF LoopInv
    <2> QED
      BY <1>2, <2>3, LoopQuiet
  <1>7. CASE Consume(HandleEvent)
    <2> DEFINE e == Event(log[pos + 1])
               g == Append(group, e)
               n == Len(group)
    <2> USE <1>7 DEF Consume, HandleEvent, topic
    <2>1. /\ pc = "poll" /\ pos = offset + n /\ pos + 1 \in 1 .. Len(log)
          /\ pos + 1 = offset + (n + 1) /\ UNCHANGED <<source, log, offset, db>> /\ pos' = pos + 1
      BY <1>1, <1>3 DEF LoopInv
    <2>2. IsId(source, log[pos + 1]) /\ log[pos + 1] \in Records
      BY <1>1, <2>1 DEF SlotInv, IsId
    <2>3. e \in Events /\ e.id = log[pos + 1]
      <3>1. e = EventOf(source, log[pos + 1])
        BY DEF Event, EventOf
      <3> QED
        BY <1>1, <2>2, <3>1, EventTyped DEF SlotInv
    <2>4. \A j \in 1 .. n : /\ group[j] = Event(log[offset + j])
                            /\ log[offset + j] = [tx |-> log[offset + 1].tx, seq |-> j]
      BY <1>1, <2>1 DEF LoopInv
    <2>5. CASE ~InOrder(e)
      <3>1. pc' = "down" /\ group' = group
        BY <2>5
      <3>2. LoopInv'
        BY <1>1, <1>3, <2>1, <3>1 DEF LoopInv
      <3> QED
        BY <1>2, <2>1, <3>2, LoopQuiet
    <2>6. CASE InOrder(e)
      <3>1. group' = g /\ pc' = IF n + 1 = Count(e.id) THEN "apply" ELSE "poll"
        BY <2>6
      <3>2. g \in Seq(Events) /\ Len(g) = n + 1 /\ g[n + 1] = e /\ \A j \in 1 .. n : g[j] = group[j]
        BY <1>3, <2>3
      <3>3. log[pos + 1] = [tx |-> log[offset + 1].tx, seq |-> n + 1]
        <4>1. log[pos + 1] = [tx |-> log[pos + 1].tx, seq |-> log[pos + 1].seq]
          BY <2>2 DEF Records
        <4>2. CASE group = <<>>
          <5>1. n = 0 /\ log[pos + 1].seq = 1 /\ pos = offset
            BY <1>3, <2>1, <2>3, <2>6, <4>2 DEF InOrder
          <5> QED
            BY <4>1, <5>1
        <4>3. CASE group # <<>>
          <5>1. 1 \in 1 .. n
            BY <1>3, <4>3
          <5>2. group[1].id = log[offset + 1]
            <6>1. group[1] = Event(log[offset + 1])
              BY <2>4, <5>1
            <6> QED
              BY <6>1 DEF Event
          <5>3. log[pos + 1].tx = log[offset + 1].tx /\ log[pos + 1].seq = n + 1
            BY <2>3, <2>6, <4>3, <5>2 DEF InOrder
          <5> QED
            BY <4>1, <5>3
        <4> QED
          BY <4>2, <4>3
      <3>4. \A j \in 1 .. n + 1 : /\ g[j] = Event(log[offset + j])
                                  /\ log[offset + j] = [tx |-> log[offset + 1].tx, seq |-> j]
        <4>1. \A j \in 1 .. n + 1 : j \in 1 .. n \/ j = n + 1
          BY <1>3
        <4>2. g[n + 1] = Event(log[offset + (n + 1)])
          BY <2>1, <3>2
        <4>3. log[offset + (n + 1)] = [tx |-> log[offset + 1].tx, seq |-> n + 1]
          BY <2>1, <3>3
        <4> HIDE DEF g, e, n
        <4> QED
          BY <2>4, <3>2, <4>1, <4>2, <4>3
      <3>5. n + 1 = Count(e.id) => n + 1 = Len(source[log[offset + 1].tx])
        BY <2>3, <3>3 DEF Count
      <3>6. \A j : Event(log[offset + j])' = Event(log[offset + j])
        BY <2>1 DEF Event
      <3> HIDE DEF e, g, n
      <3>7. LoopInv'
        <4>1. pc' \in {"poll", "apply"} /\ (pc' = "apply" => n + 1 = Len(source[log[offset + 1].tx]))
          BY <3>1, <3>5
        <4>2. /\ db' \in Databases /\ offset' \in 0 .. Len(log') /\ pos' \in 0 .. Len(log')
              /\ group' \in Seq(Events) /\ \A i \in 1 .. offset' : log'[i] \in db'.marks
          BY <1>1, <1>3, <2>1, <3>1, <3>2 DEF LoopInv
        <4>3. Len(group') = n + 1 /\ n + 1 > 0 /\ pos' = offset' + Len(group')
          BY <1>3, <2>1, <3>1, <3>2 DEF n
        <4> QED
          BY <2>1, <3>1, <3>4, <3>6, <4>1, <4>2, <4>3 DEF LoopInv
      <3> QED
        BY <1>2, <2>1, <3>7, LoopQuiet
    <2> QED
      BY <2>5, <2>6
  <1> QED
    BY <1>4, <1>5, <1>6, <1>7

-----------------------------------------------------------------------------
(* The reader publishes: what comes before is in the topic.                *)
LEMMA PublishStays ==
    ASSUME HandoverInv, NEW t \in 1 .. Len(source), NEW k \in 1 .. Len(source[t]),
           ReaderPublishes(t, k)
    PROVE  HandoverInv'
  <1> DEFINE r == [tx |-> t, seq |-> k]
             n == Len(log)
  <1>1. SlotInv /\ BootInv /\ LoopInv /\ Len(source) \in Nat /\ source \in Histories
    BY SourceTyped DEF HandoverInv, SlotInv
  <1>2. /\ t \in from .. committed /\ log' = Append(log, r)
        /\ UNCHANGED <<source, offset, db, pc, pos, group>> /\ UNCHANGED <<sourceVars, bootVars>>
        /\ \/ k > 1 /\ n # 0 /\ log[n] = [tx |-> t, seq |-> k - 1]
           \/ PublishedFrom(t - 1)
    BY DEF ReaderPublishes, T!Record, T!Continues, T!IsLast
  <1>3. /\ n \in Nat /\ Len(source[t]) \in Nat /\ t \in Nat /\ k \in Nat
        /\ log \in Seq(Records) /\ r \in Records /\ r.tx = t /\ r.seq = k
        /\ from \in Nat /\ committed \in Nat /\ from > 0
    BY <1>1, SourceTyped DEF SlotInv, Records
  <1>4. IsId(source, r)
    BY <1>3 DEF IsId
  <1> HIDE DEF r
  <1>5. /\ log' \in Seq(Records) /\ Len(log') = n + 1 /\ log'[n + 1] = r
        /\ \A i \in 1 .. n : log'[i] = log[i]
    BY <1>2, <1>3
  <1> HIDE DEF n
  <1>6. \A i \in 1 .. n + 1 : i \in 1 .. n \/ i = n + 1
    BY <1>3
  <1>7. SlotInv'
    <2>1. \A i \in 1 .. n + 1 : IsId(source, log'[i]) /\ log'[i].tx <= committed
      BY <1>1, <1>2, <1>3, <1>4, <1>5, <1>6 DEF SlotInv, n
    <2> QED
      BY <1>1, <1>2, <1>5, <2>1 DEF SlotInv, sourceVars, bootVars, IsId
  <1>8. BootInv'
    BY <1>1, <1>2 DEF BootInv, bootVars
  <1>9. LoopInv'
    <2>1. /\ offset \in 0 .. n /\ pos \in 0 .. n /\ group \in Seq(Events) /\ Len(group) \in Nat
          /\ pc # "down" => pos = offset + Len(group)
      BY <1>1 DEF LoopInv, n
    <2>2. \A i \in 1 .. offset : i \in 1 .. n
      BY <1>3, <2>1
    <2>3. pc # "down" => \A j \in 1 .. Len(group) : offset + j \in 1 .. n /\ offset + 1 \in 1 .. n
      BY <1>3, <2>1
    <2>4. offset \in 0 .. n + 1 /\ pos \in 0 .. n + 1
      BY <1>3, <2>1
    <2>5. \A j : Event(log[offset + j])' = Event(log'[offset + j])
      BY <1>2 DEF Event
    <2>6. pc # "down" => \A j \in 1 .. Len(group) :
                /\ group[j] = Event(log'[offset + j])
                /\ log'[offset + j] = [tx |-> log'[offset + 1].tx, seq |-> j]
                /\ log'[offset + j] = log[offset + j] /\ log'[offset + 1] = log[offset + 1]
      BY <1>1, <1>5, <2>3 DEF LoopInv
    <2>7. pc \in {"apply", "commit"} => Len(group) > 0 /\ Len(group) = Len(source[log'[offset + 1].tx])
      <3> HAVE pc \in {"apply", "commit"}
      <3>1. Len(group) > 0 /\ Len(group) = Len(source[log[offset + 1].tx])
        BY <1>1 DEF LoopInv
      <3>2. 1 \in 1 .. Len(group)
        BY <2>1, <3>1
      <3> QED
        BY <2>6, <3>1, <3>2
    <2>8. pc = "commit" => \A j \in 1 .. Len(group) : log'[offset + j] \in db.marks
      BY <1>1, <2>6 DEF LoopInv
    <2>9. \A i \in 1 .. offset : log'[i] \in db.marks
      BY <1>1, <1>5, <2>2 DEF LoopInv
    <2>10. /\ pc' = pc /\ db' = db /\ offset' = offset /\ pos' = pos /\ group' = group
           /\ source' = source /\ Len(log') = n + 1
           /\ pc \in {"down", "poll", "apply", "commit"} /\ db \in Databases
      BY <1>1, <1>2, <1>5 DEF LoopInv
    <2>11. pc # "down" => \A j \in 1 .. Len(group) :
                /\ group'[j] = Event(log[offset + j])'
                /\ log'[offset' + j] = [tx |-> log'[offset' + 1].tx, seq |-> j]
      BY <2>5, <2>6, <2>10
    <2> QED
      BY <2>1, <2>4, <2>7, <2>8, <2>9, <2>10, <2>11 DEF LoopInv
  <1> SUFFICES ASSUME NoGap'
               PROVE  GapFree'
    BY <1>7, <1>8, <1>9 DEF HandoverInv
  <1>10. from' = from /\ preload' = preload /\ committed' = committed
    BY <1>2 DEF sourceVars
  <1>11. NoGap
    <2> SUFFICES ASSUME NEW s \in 1 .. from - 1, NEW j \in 1 .. Len(source[s])
                 PROVE  \E i \in 1 .. n : log[i] = [tx |-> s, seq |-> j]
      <3>1. \A s \in 1 .. from - 1 : s \in 1 .. Len(source)
        BY <1>1, <1>3 DEF SlotInv
      <3> QED
        BY <1>1, <3>1, CompleteIs DEF NoGap, n
    <2>1. T!Complete(s)'
      BY <1>10 DEF NoGap
    <2>2. s \in 1 .. Len(source)
      BY <1>1, <1>3 DEF SlotInv
    <2>3. PICK i \in 1 .. n + 1 : log'[i] = [tx |-> s, seq |-> j]
      BY <1>2, <1>5, <2>1, <2>2 DEF T!Complete, T!Published, T!Record
    <2>4. s < t
      BY <1>2, <1>3
    <2>5. i # n + 1
      BY <1>3, <1>5, <2>3, <2>4
    <2> QED
      BY <1>5, <1>6, <2>3, <2>5
  <1>12. GapFree /\ InOrderInv
    BY <1>11 DEF HandoverInv, GapFree
  <1>13. \A q \in Ids : q.tx < t => \E h \in 1 .. n : log[h] = q
    <2> TAKE q \in Ids
    <2> HAVE q.tx < t
    <2>1. CASE k > 1 /\ n # 0 /\ log[n] = [tx |-> t, seq |-> k - 1]
      <3>1. n \in 1 .. n /\ log[n].tx = t
        BY <1>3, <2>1
      <3>2. PICK h \in 1 .. n - 1 : log[h] = q
        BY <1>12, <3>1 DEF InOrderInv, n
      <3>3. h \in 1 .. n
        BY <1>3
      <3> QED
        BY <3>2, <3>3
    <2>2. CASE PublishedFrom(t - 1)
      <3>1. IsId(source, q)
        BY <1>1, IdsAre
      <3>2. /\ q.tx \in 1 .. Len(source) /\ q.seq \in 1 .. Len(source[q.tx])
            /\ q = [tx |-> q.tx, seq |-> q.seq] /\ q.tx \in Nat
        BY <3>1 DEF IsId, Records
      <3>3. q.tx \in 1 .. from - 1 \/ q.tx \in from .. t - 1
        BY <1>3, <3>2
      <3>4. T!Complete(q.tx)
        BY <1>11, <2>2, <3>3 DEF NoGap, PublishedFrom
      <3> QED
        BY <1>1, <3>2, <3>4, CompleteIs DEF n
    <2> QED
      BY <1>2, <2>1, <2>2
  <1>14. InOrderInv'
    <2>1. Ids' = Ids
      BY <1>2, <1>10, SourceStands
    <2>2. ASSUME NEW i \in 1 .. n + 1, NEW q \in Ids, q.tx < log'[i].tx
          PROVE  \E h \in 1 .. i - 1 : log'[h] = q
      <3>1. CASE i \in 1 .. n
        <4>1. PICK h \in 1 .. i - 1 : log[h] = q
          BY <1>5, <1>12, <2>2, <3>1 DEF InOrderInv, n
        <4>2. h \in 1 .. n
          BY <1>3, <3>1
        <4> QED
          BY <1>5, <4>1, <4>2
      <3>2. CASE i = n + 1
        <4>1. PICK h \in 1 .. n : log[h] = q
          BY <1>3, <1>5, <1>13, <2>2, <3>2
        <4>2. h \in 1 .. i - 1
          BY <1>3, <3>2
        <4> QED
          BY <1>5, <4>1, <4>2
      <3> QED
        BY <1>6, <3>1, <3>2
    <2> QED
      BY <1>5, <2>1, <2>2 DEF InOrderInv
  <1>15. PICK p \in 0 .. committed : HandedOver(p)
    BY <1>12 DEF GapFree
  <1>16. p \in Nat /\ view \in Nat /\ view' = view /\ done' = done /\ boot' = boot
    BY <1>1, <1>2, <1>3 DEF SlotInv, bootVars
  <1>17. HandedOver(p)'
    BY <1>2, <1>10, <1>15, <1>16, HandedOverStays
  <1> QED
    BY <1>10, <1>14, <1>17 DEF GapFree

-----------------------------------------------------------------------------
(* A row of the snapshot.                                                  *)
LEMMA CopiedRow ==
    ASSUME NEW old \in Rows, NEW H, NEW v \in Nat, NEW s \in Nat, s <= v + 1,
           H[0] \in Cells, H[v] \in Cells, SolidCell(H[v]), SolidRow(old),
           Meets(old, H[0], 1, v, H) \/ old = Absent
    PROVE  LET new == IF H[v] = M!NoRow THEN old ELSE UpsertSnapshotRow(old, H[v], s)
           IN  new \in Rows /\ SolidRow(new) /\ Meets(new, H[0], 1, v, H)
  <1> DEFINE x == H[v]
             new == IF x = M!NoRow THEN old ELSE UpsertSnapshotRow(old, x, s)
  <1>1. /\ x = [val |-> x.val, big |-> x.big] /\ x.val \in Records /\ x.big \in Records
        /\ old.lsn \in Nat
    BY CellFacts DEF Cells
  <1>2. v = 0 \/ v \in 1 .. v
    OBVIOUS
  <1>3. ASSUME NEW y \in Rows, y.lsn <= v + 1, Cell(y) = x
        PROVE  Meets(y, H[0], 1, v, H)
    <2>1. y.val = x.val /\ y.big = x.big /\ y.lsn \in Nat
      BY <1>3, CellFacts
    <2>2. CASE v = 0
      BY <1>3, <2>1, <2>2 DEF Meets
    <2>3. CASE v \in 1 .. v
      BY <1>3, <2>3 DEF Meets
    <2> QED
      BY <1>2, <2>2, <2>3
  <1>4. CASE x # M!NoRow /\ ~ (old.lsn > s)
    <2> DEFINE y == [lsn |-> s, val |-> x.val, big |-> x.big]
    <2>1. new = y
      BY <1>4 DEF UpsertSnapshotRow
    <2>2. y \in Rows /\ y.lsn = s /\ y.val = x.val /\ y.big = x.big
      BY <1>1 DEF Rows
    <2> HIDE DEF y, new
    <2>3. Cell(y) = x
      BY <1>1, <2>2 DEF Cell
    <2>4. y.val # Nil
      BY <1>4, <2>2 DEF SolidCell
    <2>5. Meets(y, H[0], 1, v, H)
      BY <1>3, <2>2, <2>3
    <2> QED
      BY <2>1, <2>2, <2>4, <2>5 DEF SolidRow, new
  <1>5. CASE ~ (x # M!NoRow /\ ~ (old.lsn > s))
    <2>1. new = old
      BY <1>5 DEF UpsertSnapshotRow
    <2>2. CASE old = Absent
      <3>1. x = M!NoRow
        BY <1>5, <2>2, AbsentFacts
      <3>2. Meets(old, H[0], 1, v, H)
        <4>1. old.lsn <= v + 1
          BY <2>2, AbsentFacts
        <4> HIDE DEF x
        <4> QED
          BY <1>3, <2>2, <3>1, <4>1, AbsentFacts
      <3> QED
        BY <2>1, <3>2
    <2>3. CASE old # Absent
      BY <2>1, <2>3
    <2> QED
      BY <2>2, <2>3
  <1> QED
    BY <1>4, <1>5

(* The copy is taken while the stream has not begun.                       *)
LEMMA CopyStays == ASSUME HandoverInv, CommitSnapshot PROVE HandoverInv'
  <1> DEFINE V == SourceAt(view)
             H == CellHistory
             m == [t \in Tables |-> [k \in Keys |->
                     IF V[t][k] = M!NoRow THEN db.rows[t][k]
                     ELSE UpsertSnapshotRow(db.rows[t][k], V[t][k], stamp)]]
  <1>1. SlotInv /\ BootInv /\ LoopInv /\ Len(source) \in Nat /\ source \in Histories
    BY SourceTyped DEF HandoverInv, SlotInv
  <1>2. /\ boot = "copy" /\ boot' = "mark" /\ db' = [db EXCEPT !.rows = m]
        /\ UNCHANGED <<source, log, offset, pc, pos, group>>
        /\ UNCHANGED <<sourceVars, stamp, view, done>>
    BY DEF CommitSnapshot, CopyTables, loopVars
  <1>3. /\ ~done /\ pc = "down" /\ db.marks = {} /\ db \in Databases /\ stamp <= view + 1
        /\ view \in Nat /\ stamp \in Nat /\ view \in 0 .. Len(source) /\ committed \in Nat
        /\ preload' = preload
    BY <1>1, <1>2 DEF BootInv, LoopInv, SlotInv, sourceVars
  <1>4. \A u \in 0 .. Len(source) : SourceAt(u) \in Contents /\ Solid(SourceAt(u))
    BY <1>1, SourceTables
  <1>5. \A t \in Tables, k \in Keys, u \in 0 .. Len(source) : H[t][k][u] = SourceAt(u)[t][k]
    BY DEF CellHistory
  <1> HIDE DEF H
  <1>6. ASSUME NEW t \in Tables, NEW k \in Keys
        PROVE  /\ m[t][k] = IF H[t][k][view] = M!NoRow THEN db.rows[t][k]
                            ELSE UpsertSnapshotRow(db.rows[t][k], H[t][k][view], stamp)
               /\ db.rows[t][k] \in Rows /\ 0 \in 0 .. Len(source)
               /\ H[t][k][0] \in Cells /\ H[t][k][view] \in Cells /\ SolidCell(H[t][k][view])
               /\ H[t][k][0] = SourceAt(0)[t][k]
    <2>1. 0 \in 0 .. Len(source)
      BY <1>1
    <2>2. H[t][k][view] = V[t][k] /\ H[t][k][0] = SourceAt(0)[t][k]
      BY <1>3, <1>5, <2>1
    <2>3. V[t][k] \in Cells /\ SolidCell(V[t][k]) /\ SourceAt(0)[t][k] \in Cells
      BY <1>3, <1>4, <2>1 DEF Contents, Solid
    <2>4. db.rows[t][k] \in Rows
      BY <1>3 DEF Databases
    <2> QED
      BY <2>1, <2>2, <2>3, <2>4
  <1>7. \A t \in Tables, k \in Keys : m[t][k] \in Rows
    <2> TAKE t \in Tables, k \in Keys
    <2> DEFINE x == H[t][k][view]
               old == db.rows[t][k]
    <2>1. /\ m[t][k] = IF x = M!NoRow THEN old ELSE UpsertSnapshotRow(old, x, stamp)
          /\ old \in Rows /\ x.val \in Records /\ x.big \in Records
      BY <1>6 DEF Cells
    <2> HIDE DEF x, old, m
    <2> QED
      BY <1>3, <2>1 DEF UpsertSnapshotRow, Rows
  <1>8. m \in [Tables -> [Keys -> Rows]]
    BY <1>7
  <1> HIDE DEF m
  <1>9. /\ db' \in Databases /\ db'.rows = m /\ db'.marks = db.marks /\ db'.water = db.water
    BY <1>2, <1>3, <1>8 DEF Databases
  <1>10. SlotInv'
    BY <1>1, <1>2 DEF SlotInv, sourceVars
  <1>11. BootInv'
    BY <1>1, <1>2, <1>3, <1>9 DEF BootInv
  <1>12. LoopInv'
    BY <1>1, <1>2, <1>3, <1>9 DEF LoopInv
  <1> SUFFICES ASSUME NoGap'
               PROVE  GapFree'
    BY <1>10, <1>11, <1>12 DEF HandoverInv
  <1>13. GapFree /\ InOrderInv
    <2>1. NoGap
      BY <1>2 DEF NoGap, T!Complete, T!Published, sourceVars
    <2> QED
      BY <2>1 DEF HandoverInv, GapFree
  <1>14. Ids' = Ids /\ H' = H /\ SourceAt(0)' = SourceAt(0)
    BY <1>2, <1>3, SourceStands DEF H
  <1>15. InOrderInv'
    BY <1>2, <1>13, <1>14 DEF InOrderInv
  <1>16. PICK p \in 0 .. committed : HandedOver(p)
    BY <1>13 DEF GapFree
  <1>17. p = 0
    <2> SUFFICES ASSUME p # 0 PROVE FALSE
      OBVIOUS
    <2>1. 1 \in 1 .. Len(source) /\ 1 <= p
      BY <1>1, <1>3, <1>16 DEF SlotInv
    <2>2. IsId(source, [tx |-> 1, seq |-> 1])
      BY <1>1, <2>1, SourceTyped DEF IsId, Records
    <2>3. [tx |-> 1, seq |-> 1] \in Ids
      BY <1>1, <2>2, IdsAre
    <2> QED
      BY <1>3, <1>16, <2>1, <2>3 DEF HandedOver
  <1>18. ASSUME NEW t \in Tables, NEW k \in Keys
         PROVE  SolidRow(m[t][k]) /\ Meets(m[t][k], SourceAt(0)[t][k], 1, view, H[t][k])
    <2>1. /\ SolidRow(db.rows[t][k])
          /\ Meets(db.rows[t][k], H[t][k][0], 1, view, H[t][k]) \/ db.rows[t][k] = Absent
      BY <1>6, <1>16, <1>17 DEF HandedOver, H
    <2> QED
      BY <1>3, <1>6, <2>1, CopiedRow
  <1>19. HandedOver(0)'
    <2>1. \A t \in Tables, k \in Keys :
             /\ SolidRow(db.rows[t][k])'
             /\ Meets(db.rows[t][k], SourceAt(0)[t][k], 0 + 1, view, CellHistory[t][k])'
      BY <1>2, <1>9, <1>14, <1>18 DEF SolidRow, Meets, H
    <2>2. db'.marks = {r \in Ids' : r.tx <= 0} /\ \A t \in Tables : db'.water[t] <= 0
      BY <1>9, <1>14, <1>16, <1>17 DEF HandedOver
    <2> QED
      BY <2>1, <2>2 DEF HandedOver
  <1>20. 0 \in 0 .. committed'
    BY <1>2, <1>3 DEF sourceVars
  <1> QED
    BY <1>15, <1>19, <1>20 DEF GapFree

-----------------------------------------------------------------------------
(* A batch that the destination knows changes nothing.                     *)
LEMMA BatchIdle ==
    ASSUME NEW d \in Databases, NEW events \in Seq(Events), Fresh(d, events) = {}
    PROVE  ApplyBatch(d, events) = d
  <1> DEFINE n == Len(events)
             B == BatchStates(d, events)
             I == {i \in 0 .. n : B[i] = d}
  <1>1. n \in Nat
    OBVIOUS
  <1>2. B[0] = Marked(d, events) /\ \A i \in 1 .. n : B[i] = Advance(d, events, i, B[i - 1])
    BY BatchStatesEquation
  <1>3. Marked(d, events) = d
    <2>1. \A i \in 1 .. n : events[i].id \in d.marks
      BY DEF Fresh, IsMarked
    <2>2. d.marks \cup {events[i].id : i \in 1 .. n} = d.marks
      BY <2>1
    <2> QED
      BY <2>2 DEF Marked, Databases
  <1>4. \A i \in 1 .. n : B[i] = B[i - 1]
    BY <1>2 DEF Advance
  <1> HIDE DEF B, n
  <1>5. 0 \in I
    BY <1>1, <1>2, <1>3
  <1>6. \A i \in 0 .. n - 1 : i \in I => i + 1 \in I
    <2> TAKE i \in 0 .. n - 1
    <2>1. i + 1 \in 1 .. n /\ i + 1 \in 0 .. n /\ (i + 1) - 1 = i
      BY <1>1
    <2> QED
      BY <1>4, <2>1
  <1> HIDE DEF I
  <1>7. \A i \in 0 .. n : i \in I
    BY <1>1, <1>5, <1>6, Induction
  <1>8. n \in I
    BY <1>1, <1>7
  <1> QED
    BY <1>8 DEF I, ApplyBatch, B, n

(* The group that is applied is one whole transaction.                     *)
LEMMA WholeGroup ==
    ASSUME HandoverInv, pc = "apply"
    PROVE  /\ offset + 1 \in 1 .. Len(log) /\ log[offset + 1].tx \in 1 .. Len(source)
           /\ log[offset + 1].tx <= committed
           /\ Len(group) = Len(source[log[offset + 1].tx])
           /\ \A j \in 1 .. Len(group) :
                 /\ group[j] = EventOf(source, [tx |-> log[offset + 1].tx, seq |-> j])
                 /\ group[j].id = [tx |-> log[offset + 1].tx, seq |-> j]
                 /\ IsId(source, [tx |-> log[offset + 1].tx, seq |-> j])
                 /\ log[offset + j] = [tx |-> log[offset + 1].tx, seq |-> j]
  <1> DEFINE n == log[offset + 1].tx
  <1>1. SlotInv /\ LoopInv /\ source \in Histories
    BY DEF HandoverInv, SlotInv
  <1>2. /\ offset \in 0 .. Len(log) /\ pos \in 0 .. Len(log) /\ pos = offset + Len(group)
        /\ Len(group) > 0 /\ Len(group) \in Nat /\ Len(log) \in Nat /\ Len(group) = Len(source[n])
        /\ \A j \in 1 .. Len(group) :
              group[j] = Event(log[offset + j]) /\ log[offset + j] = [tx |-> n, seq |-> j]
    BY <1>1 DEF LoopInv, SlotInv
  <1>3. \A j \in 1 .. Len(group) : offset + j \in 1 .. Len(log)
    BY <1>2
  <1>4. 1 \in 1 .. Len(group)
    BY <1>2
  <1>5. offset + 1 \in 1 .. Len(log)
    BY <1>3, <1>4
  <1>6. n \in 1 .. Len(source) /\ n <= committed
    BY <1>1, <1>5 DEF SlotInv, IsId
  <1>7. \A j \in 1 .. Len(group) : IsId(source, [tx |-> n, seq |-> j])
    BY <1>1, <1>2, <1>3 DEF SlotInv
  <1>8. \A j \in 1 .. Len(group) :
           group[j] = EventOf(source, [tx |-> n, seq |-> j]) /\ group[j].id = [tx |-> n, seq |-> j]
    <2>1. \A r : Event(r) = EventOf(source, r) /\ Event(r).id = r
      BY DEF Event, EventOf
    <2> QED
      BY <1>2, <2>1
  <1> QED
    BY <1>2, <1>5, <1>6, <1>7, <1>8

(* The next transaction.                                                   *)
LEMMA BatchHandsOver ==
    ASSUME HandoverInv, TruncatesOnce, pc = "apply", done, InOrderInv,
           NEW p \in 0 .. committed, HandedOver(p), p < log[offset + 1].tx,
           db' = ApplyBatch(db, group), UNCHANGED <<source, preload, view>>
    PROVE  p + 1 \in 0 .. committed /\ HandedOver(p + 1)'
  <1> DEFINE m == log[offset + 1].tx
             n == p + 1
             S == {group[i].id : i \in 1 .. Len(group)}
  <1>1. /\ source \in Histories /\ Len(source) \in Nat /\ db \in Databases /\ group \in Seq(Events)
        /\ view \in Nat /\ committed \in Nat /\ offset \in Nat
        /\ \A i \in 1 .. offset : log[i] \in db.marks
    BY SourceTyped DEF HandoverInv, SlotInv, LoopInv
  <1>2. /\ offset + 1 \in 1 .. Len(log) /\ m \in 1 .. Len(source) /\ m <= committed
        /\ Len(group) = Len(source[m]) /\ Len(source[m]) \in Nat
        /\ \A j \in 1 .. Len(group) : /\ group[j] = EventOf(source, [tx |-> m, seq |-> j])
                                      /\ group[j].id = [tx |-> m, seq |-> j]
    BY <1>1, WholeGroup, SourceTyped
  <1>3. /\ \A r : r \in Ids <=> IsId(source, r)
        /\ \A r \in Ids : r.tx \in Nat /\ r.seq \in Nat /\ r = [tx |-> r.tx, seq |-> r.seq]
    <2>1. \A r : r \in Ids <=> IsId(source, r)
      BY <1>1, IdsAre
    <2> QED
      BY <2>1 DEF IsId, Records
  <1>4. /\ db.marks = {r \in Ids : r.tx <= p} /\ \A t \in Tables : db.water[t] <= p
        /\ \A t \in Tables, k \in Keys :
              /\ SolidRow(db.rows[t][k])
              /\ Meets(db.rows[t][k], SourceAt(p)[t][k], p + 1, view, CellHistory[t][k])
    BY DEF HandedOver
  <1>5. /\ n \in 1 .. Len(source) /\ n <= committed /\ n \in Nat /\ n - 1 = p
        /\ Len(group) = Len(source[n]) /\ Len(source[n]) \in Nat
        /\ \A j \in 1 .. Len(group) : /\ group[j] = EventOf(source, [tx |-> n, seq |-> j])
                                      /\ group[j].id = [tx |-> n, seq |-> j]
    <2>1. m = n
      <3> SUFFICES ASSUME n < m PROVE FALSE
        BY <1>2
      <3>1. p + 1 \in 1 .. Len(source)
        BY <1>1, <1>2
      <3>2. IsId(source, [tx |-> p + 1, seq |-> 1])
        BY <1>1, <3>1, SourceTyped DEF IsId, Records
      <3>3. PICK h \in 1 .. (offset + 1) - 1 : log[h] = [tx |-> p + 1, seq |-> 1]
        BY <1>2, <1>3, <3>2 DEF InOrderInv
      <3>4. h \in 1 .. offset
        BY <1>1
      <3>5. [tx |-> p + 1, seq |-> 1] \in db.marks
        BY <1>1, <3>3, <3>4
      <3> QED
        BY <1>4, <3>5
    <2> HIDE DEF m
    <2>2. n \in Nat /\ n - 1 = p
      OBVIOUS
    <2> HIDE DEF n
    <2> QED
      BY <1>2, <2>1, <2>2
  <1> HIDE DEF n
  <1>6. Fresh(db, group) = 1 .. Len(group)
    <2>1. \A j \in 1 .. Len(group) : group[j].id \notin db.marks
      <3> TAKE j \in 1 .. Len(group)
      <3>1. group[j].id.tx = n
        <4>1. group[j].id = [tx |-> n, seq |-> j]
          BY <1>5
        <4>2. [tx |-> n, seq |-> j].tx = n
          OBVIOUS
        <4> QED
          BY <4>1, <4>2
      <3>2. ~ (n <= p)
        BY <1>5
      <3> QED
        BY <1>4, <3>1, <3>2
    <2> QED
      BY <2>1 DEF Fresh, IsMarked
  <1>7. /\ SourceAt(p) = M!RowsFrom(Preloaded, Until(n, 0))
        /\ SourceAt(n) = M!RowsFrom(Preloaded, Until(n, Len(source[n])))
        /\ SourceAt(n) \in Contents /\ Solid(SourceAt(n))
    <2>1. n - 1 = p /\ n \in 0 .. Len(source)
      BY <1>1, <1>5
    <2> QED
      BY <1>1, <1>5, <2>1, SourceTables
  <1>8. AllMeet(db, M!RowsFrom(Preloaded, Until(n, 0)), n, view, CellHistory)
    BY <1>4, <1>5, <1>7 DEF AllMeet, n
  <1>9. \A t \in Tables : db.water[t] < n
    <2>1. \A t \in Tables : db.water[t] \in Nat
      BY <1>1 DEF Databases
    <2> QED
      BY <1>4, <1>5, <2>1
  <1>10. /\ AllMeet(ApplyBatch(db, group), M!RowsFrom(Preloaded, Until(n, Len(source[n]))),
                    n, view, CellHistory)
         /\ \A t \in Tables : ApplyBatch(db, group).water[t] <= n
    BY <1>1, <1>5, <1>6, <1>8, <1>9, PreloadTyped, BatchMeets
  <1>11. /\ db' \in Databases /\ db'.marks = db.marks \cup S
    BY <1>1, BatchMarks
  <1>12. AllMeet(db', SourceAt(n), n, view, CellHistory) /\ \A t \in Tables : db'.water[t] <= n
    BY <1>7, <1>10
  <1>13. ASSUME NEW t \in Tables, NEW k \in Keys
         PROVE  /\ SolidRow(db'.rows[t][k])
                /\ Meets(db'.rows[t][k], SourceAt(n)[t][k], n + 1, view, CellHistory[t][k])
    <2> DEFINE row == db'.rows[t][k]
               H == CellHistory[t][k]
    <2>1. H[n] = SourceAt(n)[t][k]
      BY <1>1, <1>5 DEF CellHistory
    <2>2. row \in Rows /\ SolidRow(row) /\ Meets(row, SourceAt(n)[t][k], n, view, H)
      BY <1>11, <1>12 DEF AllMeet, Databases
    <2>3. H[n] \in Cells /\ SolidCell(H[n]) /\ n \in Nat
      BY <1>5, <1>7, <2>1 DEF Contents, Solid
    <2> HIDE DEF row, H
    <2>4. Meets(row, H[n], n + 1, view, H)
      BY <1>1, <2>1, <2>2, <2>3, MeetsNext
    <2> QED
      BY <2>1, <2>2, <2>4 DEF row, H
  <1>14. Ids' = Ids /\ CellHistory' = CellHistory /\ SourceAt(n)' = SourceAt(n)
    BY SourceStands
  <1>15. db'.marks = {r \in Ids : r.tx <= n}
    <2>1. ASSUME NEW r \in S
          PROVE  r \in Ids /\ r.tx <= n
      <3>1. PICK j \in 1 .. Len(group) : r = [tx |-> n, seq |-> j]
        <4>1. PICK j \in 1 .. Len(group) : r = group[j].id
          OBVIOUS
        <4> QED
          BY <1>5, <4>1
      <3>2. IsId(source, r)
        BY <1>5, <3>1 DEF IsId, Records
      <3> QED
        BY <1>5, <1>3, <3>1, <3>2
    <2>2. ASSUME NEW r \in Ids, r.tx <= n, ~ (r.tx <= p)
          PROVE  r \in S
      <3>1. r.tx = n /\ r.seq \in 1 .. Len(group)
        BY <1>3, <1>5, <2>2 DEF IsId
      <3>2. group[r.seq].id = r
        BY <1>5, <1>3, <3>1
      <3> QED
        BY <3>1, <3>2
    <2>3. \A r \in Ids : r.tx <= p => r.tx <= n
      BY <1>3, <1>5
    <2> HIDE DEF S
    <2> QED
      BY <1>4, <1>11, <2>1, <2>2, <2>3
  <1>16. HandedOver(n)'
    <2>1. \A t \in Tables, k \in Keys :
             /\ SolidRow(db.rows[t][k])'
             /\ Meets(db.rows[t][k], SourceAt(n)[t][k], n + 1, view, CellHistory[t][k])'
      BY <1>13, <1>14 DEF SolidRow, Meets
    <2> QED
      BY <1>12, <1>14, <1>15, <2>1 DEF HandedOver
  <1> QED
    BY <1>1, <1>5, <1>16 DEF n

LEMMA BatchStays ==
    ASSUME HandoverInv, TruncatesOnce, Consume(CommitGroup)
    PROVE  HandoverInv'
  <1> DEFINE n == log[offset + 1].tx
             S == {group[i].id : i \in 1 .. Len(group)}
  <1>1. /\ SlotInv /\ BootInv /\ LoopInv /\ db \in Databases /\ group \in Seq(Events)
    BY DEF HandoverInv, LoopInv
  <1>2. /\ boot = "ready" /\ pc = "apply" /\ pc' = "commit" /\ boot' = "ready" /\ done
        /\ db' = ApplyBatch(db, group) /\ UNCHANGED <<source, log, offset, pos, group>>
        /\ UNCHANGED <<preload, committed, restart, from, stamp, view, done>>
    BY <1>1 DEF Consume, CommitGroup, topic, sourceVars, BootInv
  <1>3. /\ db' \in Databases /\ db'.marks = db.marks \cup S
    BY <1>1, <1>2, BatchMarks
  <1>4. \A j \in 1 .. Len(group) : log[offset + j] = group[j].id
    BY <1>2, WholeGroup
  <1>5. SlotInv'
    BY <1>1, <1>2 DEF SlotInv
  <1>6. BootInv'
    BY <1>1, <1>2 DEF BootInv
  <1>7. LoopInv'
    <2>1. \A j \in 1 .. Len(group) : log[offset + j] \in db'.marks
      BY <1>3, <1>4
    <2>2. \A i \in 1 .. offset : log[i] \in db'.marks
      BY <1>1, <1>3 DEF LoopInv
    <2>3. \A j : Event(log[offset + j])' = Event(log[offset + j])
      BY <1>2 DEF Event
    <2> HIDE DEF S
    <2> QED
      BY <1>1, <1>2, <1>3, <2>1, <2>2, <2>3 DEF LoopInv
  <1> SUFFICES ASSUME NoGap'
               PROVE  GapFree'
    BY <1>5, <1>6, <1>7 DEF HandoverInv
  <1>8. GapFree /\ InOrderInv
    <2>1. NoGap
      BY <1>2 DEF NoGap, T!Complete, T!Published
    <2> QED
      BY <2>1 DEF HandoverInv, GapFree
  <1>9. InOrderInv'
    <2>1. Ids' = Ids
      BY <1>2, SourceStands
    <2> QED
      BY <1>2, <1>8, <2>1 DEF InOrderInv
  <1>10. PICK p \in 0 .. committed : HandedOver(p)
    BY <1>8 DEF GapFree
  <1>11. p \in Nat /\ n \in Nat /\ view \in Nat
    <2>1. committed \in Nat /\ view \in Nat /\ Len(source) \in Nat
      BY <1>1, SourceTyped DEF SlotInv
    <2> QED
      BY <1>2, <2>1, WholeGroup
  <1>12. CASE n <= p
    <2>1. \A j \in 1 .. Len(group) : group[j].id \in db.marks
      <3> TAKE j \in 1 .. Len(group)
      <3>1. IsId(source, group[j].id) /\ group[j].id.tx = n
        <4>1. group[j].id = [tx |-> n, seq |-> j] /\ IsId(source, [tx |-> n, seq |-> j])
          BY <1>2, WholeGroup
        <4>2. [tx |-> n, seq |-> j].tx = n
          OBVIOUS
        <4> QED
          BY <4>1, <4>2
      <3>2. group[j].id \in Ids
        BY <1>1, <3>1, IdsAre DEF SlotInv
      <3> QED
        BY <1>10, <1>12, <3>1, <3>2 DEF HandedOver
    <2>2. Fresh(db, group) = {}
      BY <2>1 DEF Fresh, IsMarked
    <2>3. db' = db
      BY <1>1, <1>2, <2>2, BatchIdle
    <2>4. HandedOver(p)'
      BY <1>2, <1>10, <1>11, <2>3, HandedOverStays
    <2> QED
      BY <1>2, <1>9, <2>4 DEF GapFree
  <1>13. CASE p < n
    <2>1. p + 1 \in 0 .. committed /\ HandedOver(p + 1)'
      BY <1>2, <1>8, <1>10, <1>13, BatchHandsOver
    <2> QED
      BY <1>2, <1>9, <2>1 DEF GapFree
  <1> QED
    BY <1>11, <1>12, <1>13

(* Nothing fails, so nothing is rolled back.                               *)
LEMMA NothingFails == ASSUME HandoverInv, FaultFree PROVE ~RollBackGroup
  <1> SUFFICES ASSUME RollBackGroup PROVE FALSE
    OBVIOUS
  <1> DEFINE b == Surfaced(db, group)
             n == log[offset + 1].tx
  <1>1. pc = "apply" /\ BatchError(db, group) # 0
    BY DEF RollBackGroup
  <1>2. db \in Databases /\ group \in Seq(Events) /\ source \in Histories
    BY DEF HandoverInv, LoopInv, SlotInv
  <1>3. b \in 1 .. Len(group) /\ group[b].fault # "none"
    BY <1>1, <1>2, BlamesFaulty
  <1> HIDE DEF b
  <1>4. /\ n \in 1 .. Len(source) /\ b \in 1 .. Len(source[n])
        /\ group[b] = EventOf(source, [tx |-> n, seq |-> b])
    BY <1>1, <1>3, WholeGroup
  <1>5. group[b].fault = source[n][b].fault
    BY <1>4 DEF EventOf
  <1>6. source[n] \in Transactions
    BY <1>2, <1>4 DEF Transactions
  <1> QED
    BY <1>3, <1>4, <1>5, <1>6 DEF FaultFree

LEMMA HandoverInitially == SnapInit => HandoverInv
  <1> SUFFICES ASSUME SnapInit PROVE HandoverInv
    OBVIOUS
  <1> USE DEF SnapInit, Init
  <1>1. source \in Histories /\ Len(source) \in Nat
    BY SourceTyped
  <1>2. SlotInv
    BY <1>1 DEF SlotInv
  <1>3. /\ EmptyDatabase \in Databases /\ db = EmptyDatabase /\ db.marks = {}
        /\ \A t \in Tables : db.water[t] = 0
        /\ \A t \in Tables, k \in Keys : db.rows[t][k] = Absent
    BY AbsentFacts DEF EmptyDatabase, Databases
  <1>4. BootInv
    BY <1>3 DEF BootInv
  <1>5. LoopInv
    BY <1>3 DEF LoopInv
  <1>6. InOrderInv
    BY DEF InOrderInv
  <1>7. {r \in Ids : r.tx <= 0} = {}
    <2>1. \A r \in Ids : r.tx \in 1 .. Len(source)
      BY <1>1, IdsAre DEF IsId
    <2> QED
      BY <1>1, <2>1
  <1>8. HandedOver(0)
    BY <1>3, <1>7 DEF HandedOver, SolidRow
  <1> QED
    BY <1>2, <1>4, <1>5, <1>6, <1>8 DEF HandoverInv, GapFree

LEMMA HandoverStep ==
    ASSUME TruncatesOnce, FaultFree
    PROVE  HandoverInv /\ [SnapNext]_snapVars => HandoverInv'
  <1> SUFFICES ASSUME HandoverInv, [SnapNext]_snapVars PROVE HandoverInv'
    OBVIOUS
  <1>1. CASE SourceCommit \/ CreateSlot \/ DropSlot \/ AdvanceRestart
    BY <1>1, SlotStays
  <1>2. ASSUME NEW t \in 1 .. Len(source), NEW k \in 1 .. Len(source[t]), ReaderPublishes(t, k)
        PROVE  HandoverInv'
    BY <1>2, PublishStays
  <1>3. CASE Boot \/ BootCrash
    BY <1>3, BootStays, CopyStays DEF Boot
  <1>4. CASE Consume(PollEmpty) \/ Consume(Crash)
    BY <1>4, LoopStepsStay
  <1>5. CASE Consume(Step)
    <2>1. pc \in {"down", "poll", "apply", "commit"}
      BY DEF HandoverInv, LoopInv
    <2>2. ~ReplayHealthyEvent /\ ~RepairPoison /\ ~RetryPoison /\ ~QuarantinePoison
      BY <2>1 DEF ReplayHealthyEvent, RepairPoison, RetryPoison, QuarantinePoison
    <2>3. Run \/ HandleEvent \/ CommitGroup \/ CommitKafkaOffset
      BY <1>5, <2>2, NothingFails DEF Consume, Step
    <2>4. \/ Consume(Run) \/ Consume(HandleEvent) \/ Consume(CommitGroup)
          \/ Consume(CommitKafkaOffset)
      BY <1>5, <2>3 DEF Consume
    <2> QED
      BY <2>4, LoopStepsStay, BatchStays
  <1>6. CASE UNCHANGED snapVars
    <2>1. /\ UNCHANGED <<source, log, offset, db, pc, pos, group>>
          /\ UNCHANGED <<preload, committed, restart, from, boot, stamp, view, done>>
      BY <1>6 DEF snapVars, vars, sourceVars, bootVars
    <2>2. SlotInv /\ BootInv /\ LoopInv
      BY DEF HandoverInv
    <2>3. SlotInv' /\ BootInv' /\ LoopInv'
      BY <2>1, <2>2, LoopStays DEF SlotInv, BootInv
    <2>4. from <= from' /\ view <= view' /\ committed <= committed'
      BY <2>1, <2>2, SourceTyped DEF SlotInv
    <2> QED
      BY <2>1, <2>3, <2>4, HandoverStays
  <1> QED
    BY <1>1, <1>2, <1>3, <1>4, <1>5, <1>6 DEF SnapNext

(* Everything is published, marked and so shown.                           *)
LEMMA HandedOverAtLast == HandoverInv => HandoverConverges
  <1> SUFFICES ASSUME HandoverInv, CaughtUp, NoGap PROVE Visible = SourceAt(committed)
    BY DEF HandoverConverges
  <1>1. /\ source \in Histories /\ Len(source) \in Nat /\ committed \in 0 .. Len(source)
        /\ committed \in Nat /\ view \in Nat /\ view <= committed /\ db \in Databases
        /\ from \in Nat /\ from > 0 /\ Len(log) \in Nat
        /\ \A i \in 1 .. offset : log[i] \in db.marks
    BY SourceTyped DEF HandoverInv, SlotInv, LoopInv
  <1>2. done /\ PublishedFrom(committed) /\ offset = Len(log)
    BY DEF CaughtUp
  <1>3. PICK p \in 0 .. committed : HandedOver(p)
    BY DEF HandoverInv, GapFree
  <1>4. p = committed
    <2> SUFFICES ASSUME p < committed PROVE FALSE
      BY <1>1
    <2>1. committed \in 1 .. Len(source)
      BY <1>1
    <2>2. 1 \in 1 .. Len(source[committed])
      BY <1>1, <2>1, SourceTyped
    <2>3. T!Complete(committed)
      <3>1. committed \in 1 .. from - 1 \/ committed \in from .. committed
        BY <1>1, <2>1
      <3> QED
        BY <1>2, <3>1 DEF NoGap, PublishedFrom
    <2>4. PICK i \in 1 .. Len(log) : log[i] = [tx |-> committed, seq |-> 1]
      BY <1>1, <2>1, <2>2, <2>3, CompleteIs
    <2>5. log[i] \in db.marks
      BY <1>1, <1>2
    <2>6. [tx |-> committed, seq |-> 1] \in {r \in Ids : r.tx <= p}
      BY <1>3, <2>4, <2>5 DEF HandedOver
    <2>7. committed <= p
      BY <2>6
    <2> QED
      BY <1>1, <2>7
  <1>5. SourceAt(p) \in Contents
    BY <1>1, <1>4, SourceTables
  <1>6. ASSUME NEW t \in Tables, NEW k \in Keys
        PROVE  Cell(db.rows[t][k]) = SourceAt(p)[t][k]
    <2>1. Meets(db.rows[t][k], SourceAt(p)[t][k], p + 1, view, CellHistory[t][k])
      BY <1>2, <1>3 DEF HandedOver
    <2>2. db.rows[t][k] \in Rows /\ SourceAt(p)[t][k] \in Cells
      BY <1>1, <1>5 DEF Databases, Contents
    <2>3. p + 1 \in Nat /\ view < p + 1
      BY <1>1, <1>4
    <2> QED
      BY <1>1, <2>1, <2>2, <2>3, MeetsAtLast
  <1>7. Visible = [t \in Tables |-> [k \in Keys |-> SourceAt(p)[t][k]]]
    BY <1>6 DEF Visible, Cell
  <1>8. SourceAt(p) = [t \in Tables |-> [k \in Keys |-> SourceAt(p)[t][k]]]
    BY <1>5 DEF Contents
  <1> QED
    BY <1>4, <1>7, <1>8

(* "So snapshot rows and live rows can never fight" (run): however the     *)
(* snapshot falls between the commits of the source, the records of the    *)
(* topic and the moves of the restart LSN, and however often bootSnapshot  *)
(* takes it again, a writer that has caught up shows the source's tables.  *)
(* No transaction truncates a table twice, no event is faulty.             *)
THEOREM SnapshotHandoverConverges ==
    ASSUME TruncatesOnce, FaultFree
    PROVE  SnapSpec => []HandoverConverges
  <1>1. SnapInit => HandoverInv
    BY HandoverInitially
  <1>2. HandoverInv /\ [SnapNext]_snapVars => HandoverInv'
    BY HandoverStep
  <1>3. HandoverInv => HandoverConverges
    BY HandedOverAtLast
  <1> QED
    BY <1>1, <1>2, <1>3, PTL DEF SnapSpec
=============================================================================
