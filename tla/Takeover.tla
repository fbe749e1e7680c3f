------------------------------ MODULE Takeover ------------------------------
(***************************************************************************)
(* Two writers: a member of the consumer group that is cut off from the    *)
(* broker, or works on one group for longer than a blocked rebalance may   *)
(* take (kgo.BlockRebalanceOnPoll), is evicted.  Its partition goes to a   *)
(* successor, but nothing stops the evicted process or its connection to   *)
(* the destination: it finishes its group beside the successor, until the  *)
(* broker refuses its offset commit.                                       *)
(*                                                                         *)
(* Writer's variables are those of the member that owns the partition.     *)
(***************************************************************************)
EXTENDS Writer

VARIABLES
    oldPc, oldPos, oldGroup, oldPoison, oldUndefined, oldNext,
    contested  \* history: a writer was evicted while it worked on a drifted transaction

owner   == <<pc, pos, group, poison, undefined, next>>
evicted == <<oldPc, oldPos, oldGroup, oldPoison, oldUndefined, oldNext, contested>>
allVars == <<vars, evicted>>

(* The evicted writer runs the same program on the same topic and database.*)
Old == INSTANCE Writer WITH
          pc <- oldPc, pos <- oldPos, group <- oldGroup, poison <- oldPoison,
          undefined <- oldUndefined, next <- oldNext

TakeoverInit ==
    /\ Init
    /\ oldPc = "down" /\ oldPos = 0 /\ oldGroup = <<>>
    /\ oldPoison = 0 /\ oldUndefined = FALSE /\ oldNext = 1
    /\ contested = FALSE

-----------------------------------------------------------------------------
(* A transaction with a column the destination does not have yet.          *)
Drifts(tx) == \E k \in 1 .. Len(tx) : tx[k].fault = "drift"

(* The broker evicts a writer that has polled a record of a group and not  *)
(* committed its offset yet; in between, a rebalance finds the writer      *)
(* without a group, which is a crash to the destination.                   *)
Evict ==
    /\ pc # "down" /\ group # <<>> /\ oldPc = "down" /\ crashes < MaxCrashes
    /\ oldPc' = pc /\ oldPos' = pos /\ oldGroup' = group
    /\ oldPoison' = poison /\ oldUndefined' = undefined /\ oldNext' = next
    /\ pc' = "down" /\ crashes' = crashes + 1
    /\ contested' = (contested \/ Drifts(source[group[1].id.tx]))
    /\ UNCHANGED <<topic, db, pos, group, batch, hiccups>>

(* commitKafkaOffsetAndAllowRebalance fails: the broker does not take the  *)
(* commit of a past generation, and after the retries the process exits.   *)
OldCommitRefused ==
    /\ oldPc = "commit" /\ oldPc' = "down"
    /\ UNCHANGED <<topic, db, budgets, owner, contested,
                   oldPos, oldGroup, oldPoison, oldUndefined, oldNext>>

(* The evicted writer's steps up to there.                                 *)
OldStep ==
    \/ Old!HandleEvent /\ UNCHANGED <<owner, contested>>
    \/ Old!CommitGroup /\ UNCHANGED <<owner, contested>>
    \/ Old!RollBackGroup /\ UNCHANGED <<owner, contested>>
    \/ \E i \in DOMAIN oldGroup : Old!RollBackInterrupted(i) /\ UNCHANGED <<owner, contested>>
    \/ Old!ReplayHealthyEvent /\ UNCHANGED <<owner, contested>>
    \/ Old!RepairPoison /\ UNCHANGED <<owner, contested>>
    \/ Old!RetryPoison /\ UNCHANGED <<owner, contested>>
    \/ Old!QuarantinePoison /\ UNCHANGED <<owner, contested>>

(* The steps of Writer, in which the evicted writer has no part.           *)
OwnerNext ==
    \/ \E t \in 1 .. Len(source) : \E k \in 1 .. Len(source[t]) :
           Publish(t, k) /\ UNCHANGED evicted
    \/ \E i \in DOMAIN group : RollBackInterrupted(i) /\ UNCHANGED evicted
    \/ PollEmpty /\ UNCHANGED evicted
    \/ Crash /\ UNCHANGED evicted
    \/ Run /\ UNCHANGED evicted
    \/ HandleEvent /\ UNCHANGED evicted
    \/ CommitGroup /\ UNCHANGED evicted
    \/ RollBackGroup /\ UNCHANGED evicted
    \/ ReplayHealthyEvent /\ UNCHANGED evicted
    \/ RepairPoison /\ UNCHANGED evicted
    \/ RetryPoison /\ UNCHANGED evicted
    \/ QuarantinePoison /\ UNCHANGED evicted
    \/ CommitKafkaOffset /\ UNCHANGED evicted

TakeoverNext == OwnerNext \/ Evict \/ OldStep \/ OldCommitRefused

TakeoverSpec == TakeoverInit /\ [][TakeoverNext]_allVars

(* The member that owns the partition makes progress; the evicted one may  *)
(* stop anywhere.                                                          *)
TakeoverFairSpec == TakeoverSpec /\ WF_allVars(Step /\ UNCHANGED evicted)

-----------------------------------------------------------------------------
(***************************************************************************)
(* Properties, besides those of Writer, which the two keep together.       *)
(***************************************************************************)

(* "Applied once and never out of order" also when an evicted writer goes  *)
(* on: whichever of the two records an event first applies it, after every *)
(* event before it, and the other's attempt changes nothing.  Contested    *)
(* drift is left out: whoever finds the column that the other has just     *)
(* added takes its event for beyond repair.  So are sources in which a     *)
(* healthy change takes the blame for a missing column: after a crash it   *)
(* is applied behind the changes that followed it.                         *)
TakeoverAppliedOnce == DriftsLead /\ ~contested => AppliedOnceInSourceOrder

(* Column drift still heals unless both writers repair the same table, or  *)
(* another change is named for it.                                         *)
TakeoverDriftHealed == DriftsLead /\ ~contested => DriftHealed
=============================================================================
