---------------------------- MODULE DeadLetters ----------------------------
(***************************************************************************)
(* Dead-letter administration (internal/destination/deadletter.go,         *)
(* cmd/cdcctl/main.go) beside the running writer: an operator alters the   *)
(* destination and replays or drops quarantined events.  ReplayDeadLetter  *)
(* is four separate statements; between any two of them the writer may     *)
(* apply or quarantine the same event, and cdcctl may be killed or run     *)
(* into its timeout.                                                       *)
(***************************************************************************)
EXTENDS Writer

CONSTANTS
    Redelivery,    \* TRUE: the reader may publish an event again
    MaxReplays,    \* bound: replay commands
    MaxDrops,      \* bound: dropped letters
    MaxTimeouts    \* bound: replay commands that are cut off

ASSUME DeadLettersAssumption ==
    /\ Redelivery \in BOOLEAN
    /\ MaxReplays \in Nat /\ MaxDrops \in Nat /\ MaxTimeouts \in Nat

VARIABLES
    ctl,       \* where cdcctl is: "idle", or in the loop of replayHandler
    todo,      \* the event IDs replayHandler has still to replay
    letter,    \* the event ID ReplayDeadLetter works on
    dropped,   \* event IDs the operator dropped
    times,     \* how often each event's mutation was applied and committed
    replays, timeouts

ctlVars == <<ctl, todo, letter, replays, timeouts>>
dlVars  == <<vars, ctlVars, dropped, times>>
(* What cdcctl leaves alone: everything of the writer but the database,    *)
(* and the statements that PostgreSQL refuses.                             *)
writerVars == <<topic, pc, pos, group, batch, crashes>>

DLInit ==
    /\ Init
    /\ ctl = "idle" /\ todo = {} /\ letter = Nil /\ dropped = {}
    /\ times = [r \in Ids |-> 0]
    /\ replays = 0 /\ timeouts = 0

Counted(S) == times' = [r \in Ids |-> IF r \in S THEN times[r] + 1 ELSE times[r]]

-----------------------------------------------------------------------------
(* The writer takes a step of its own.  The events whose mutation the step *)
(* commits: the fresh ones of a batch, or the one applied alone.           *)
AppliedAlone(e) ==
    IF IsMarked(db, e) \/ ApplyFails(db, e) \/ hiccups' # hiccups THEN {} ELSE {e.id}

WriterApplies ==
    CASE pc = "apply" /\ pc' = "commit" -> {group[i].id : i \in Fresh(db, group)}
      [] pc = "replay" /\ next' > next /\ next # poison -> AppliedAlone(group[next])
      [] pc = "retry" /\ pc' = "commit" -> AppliedAlone(group[poison])
      [] OTHER -> {}

WriterActs ==
    /\ \/ Step \/ Crash \/ PollEmpty
       \/ \E i \in DOMAIN group : RollBackInterrupted(i)
       \/ \E t \in 1 .. Len(source) : \E k \in 1 .. Len(source[t]) :
              (Redelivery \/ ~T!Published(t, k)) /\ Publish(t, k)
    /\ Counted(WriterApplies)
    /\ UNCHANGED <<ctlVars, dropped>>

(* The operator adds the column that the repair could not add.             *)
AlterTable(t) ==
    /\ t \notin db.cols
    /\ db' = [db EXCEPT !.cols = @ \cup {t}]
    /\ UNCHANGED <<writerVars, hiccups, ctlVars, dropped, times>>

-----------------------------------------------------------------------------
(* replayHandler: one event ID, or all that ListDeadLetters returns.       *)
StartReplay(S) ==
    /\ ctl = "idle" /\ replays < MaxReplays
    /\ S = db.dead \/ \E r \in db.dead : S = {r}
    /\ ctl' = "next" /\ todo' = S /\ replays' = replays + 1
    /\ UNCHANGED <<vars, letter, timeouts, dropped, times>>

EndReplay ==
    /\ ctl = "next" /\ todo = {}
    /\ ctl' = "idle"
    /\ UNCHANGED <<vars, todo, letter, replays, timeouts, dropped, times>>

(* Mutant of RewindMarker: the letter is taken out with the marker.        *)
RewindTakesLetter(r) ==
    /\ ctl = "next" /\ r \in todo
    /\ todo' = todo \ {r} /\ letter' = r
    /\ IF r \in db.dead
       THEN ctl' = "apply" /\ db' = [db EXCEPT !.marks = @ \ {r}, !.dead = @ \ {r}]
       ELSE UNCHANGED <<ctl, db>>
    /\ UNCHANGED <<writerVars, hiccups, replays, timeouts, dropped, times>>

(* ReplayDeadLetter: load the letter, which may be gone, and delete the    *)
(* event's marker.                                                         *)
RewindMarker(r) ==
    /\ ctl = "next" /\ r \in todo
    /\ todo' = todo \ {r} /\ letter' = r
    /\ IF r \in db.dead
       THEN ctl' = "apply" /\ db' = [db EXCEPT !.marks = @ \ {r}]
       ELSE UNCHANGED <<ctl, db>>
    /\ UNCHANGED <<writerVars, hiccups, replays, timeouts, dropped, times>>

(* ReplayDeadLetter: Apply, in a transaction of its own.                   *)
ReplayApply ==
    LET e == Event(letter)
    IN  /\ ctl = "apply"
        /\ \/ /\ (ApplyFails(db, e) /\ UNCHANGED hiccups) \/ Hiccup(e)
              /\ ctl' = "restash" /\ UNCHANGED db
           \/ /\ ~ApplyFails(db, e) /\ UNCHANGED hiccups
              /\ ctl' = "close" /\ db' = Apply(db, e)
        /\ Counted(AppliedAlone(e))
        /\ UNCHANGED <<writerVars, todo, letter, replays, timeouts, dropped>>

(* ReplayDeadLetter: the apply failed, the event is quarantined again.     *)
Restash ==
    /\ ctl = "restash" /\ ctl' = "next"
    /\ db' = RecordDeadLetter(db, Event(letter))
    /\ UNCHANGED <<writerVars, hiccups, todo, letter, replays, timeouts, dropped, times>>

(* Mutant of CloseLetter: the letter stays although it was applied.        *)
CloseNothing ==
    /\ ctl = "close" /\ ctl' = "next"
    /\ UNCHANGED <<vars, todo, letter, replays, timeouts, dropped, times>>

(* ReplayDeadLetter: the apply succeeded or found the marker; the letter   *)
(* is deleted.                                                             *)
CloseLetter ==
    /\ ctl = "close" /\ ctl' = "next"
    /\ db' = [db EXCEPT !.dead = @ \ {letter}]
    /\ UNCHANGED <<writerVars, hiccups, todo, letter, replays, timeouts, dropped, times>>

(* Mutant of DropDeadLetter: only the marker goes.                         *)
DropMarkerOnly(r) ==
    /\ ctl = "idle" /\ r \in db.dead /\ Cardinality(dropped) < MaxDrops
    /\ db' = [db EXCEPT !.marks = @ \ {r}]
    /\ dropped' = dropped \cup {r}
    /\ UNCHANGED <<writerVars, hiccups, ctlVars, times>>

(* dropHandler, DropDeadLetter: letter and marker go in one transaction.   *)
(* The operator names an event that is listed; -all takes one transaction  *)
(* for each.                                                               *)
DropDeadLetter(r) ==
    /\ ctl = "idle" /\ r \in db.dead /\ Cardinality(dropped) < MaxDrops
    /\ db' = [db EXCEPT !.marks = @ \ {r}, !.dead = @ \ {r}]
    /\ dropped' = dropped \cup {r}
    /\ UNCHANGED <<writerVars, hiccups, ctlVars, times>>

(* cdcctl is killed, or its context times out and every later statement    *)
(* fails too, the one that would restore the marker included.              *)
CutOff ==
    /\ ctl # "idle" /\ timeouts < MaxTimeouts
    /\ ctl' = "idle" /\ todo' = {} /\ timeouts' = timeouts + 1
    /\ UNCHANGED <<vars, letter, replays, dropped, times>>

DLNext ==
    \/ WriterActs \/ EndReplay \/ ReplayApply \/ Restash \/ CloseLetter \/ CutOff
    \/ \E t \in Tables : AlterTable(t)
    \/ \E S \in {db.dead} \cup {{r} : r \in db.dead} : StartReplay(S)
    \/ \E r \in todo : RewindMarker(r)
    \/ \E r \in db.dead : DropDeadLetter(r)

DLSpec == DLInit /\ [][DLNext]_dlVars

-----------------------------------------------------------------------------
(***************************************************************************)
(* Properties.                                                             *)
(***************************************************************************)

AppliedIds == {r \in Ids : times[r] > 0}

(* Kafka delivers the event at most once: the reader did not publish it    *)
(* again, and the writer did not crash with its offset behind.             *)
Once(r) == crashes = 0 /\ Cardinality({i \in 1 .. Len(log) : log[i] = r}) <= 1

(* "Offsets keep moving; nothing is lost" (README): whatever cdcctl does,  *)
(* and wherever it is cut off, an event the consumer has passed was        *)
(* applied, is still a dead letter, or was dropped by the operator.  (An   *)
(* event that Kafka delivers again while it is replayed may be none of     *)
(* these: CloseLetter then deletes the letter that the writer renewed.)    *)
NothingLost ==
    \A i \in 1 .. offset : Once(log[i]) => log[i] \in AppliedIds \cup db.dead \cup dropped

(* DropDeadLetter: "neither the writer nor a later replay attempt ever     *)
(* sees the event again", unless Kafka delivers it again.                  *)
DroppedStaysDropped == \A r \in dropped : Once(r) => r \notin db.marks \cup db.dead

(* ReplayDeadLetter: "re-applies a quarantined event exactly once".  An    *)
(* event that is delivered once is applied a second time only after a      *)
(* replay that was cut off, once for each.                                 *)
RepeatsOnlyAfterCutOff == \A r \in Ids : Once(r) => times[r] <= 1 + timeouts

(* "Dedupe markers and LSN/watermark guards still protect against stale    *)
(* writes" (README): replayed late, repeatedly, or together with           *)
(* redelivered records, the inserts and updates that were applied leave    *)
(* the tables as if they had been executed in source order.                *)
StaleWritesRefused == Visible = M!RowsAfter(AppliedIds)

(* It holds of inserts and updates of whole rows, of which a transaction   *)
(* has at most one for each row: the guard lets the same LSN pass.         *)
RowsUpsertedOnce ==
    \A tx \in Transactions : \A i, j \in 1 .. Len(tx) :
        /\ tx[i].op = "upsert"
        /\ tx[i].table = tx[j].table /\ tx[i].key = tx[j].key => i = j
=============================================================================
