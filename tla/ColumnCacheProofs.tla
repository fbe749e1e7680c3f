------------------------- MODULE ColumnCacheProofs -------------------------
(***************************************************************************)
(* Proofs about ColumnCache, for any columns, any TTL and any bounds:      *)
(* columns are trusted for less than a TTL after they were right, and a    *)
(* column that the source has added is repaired rather than quarantined.   *)
(***************************************************************************)
EXTENDS ColumnCache, WellFoundedInduction, TLAPS

-----------------------------------------------------------------------------
(***************************************************************************)
(* The inductive invariant.                                                *)
(***************************************************************************)
Types ==
    /\ versions \in Seq(SUBSET Columns) /\ event \subseteq Columns
    /\ seen \in BOOLEAN /\ calm \in BOOLEAN /\ failed \in BOOLEAN
    /\ call \in {"apply", "repair", "retry"}
    /\ age \in 0 .. TTL /\ behind \in 0 .. TTL /\ quiet \in 0 .. TTL

(* The cache has been wrong for no longer than since it was stamped, as    *)
(* long as no catalog read has failed.  (Note stamps the old columns while *)
(* the catalog is being read.)                                             *)
BehindInv == seen /\ pc # "read" /\ ~failed => behind <= age

(* A repair has added columns.                                             *)
Repairing == pc = "alter" /\ missing # event \ types

(* What the writer has read is still right, or a repair is adding columns, *)
(* or the table was changed since by something else than a whole repair.   *)
CacheInv ==
    seen /\ pc # "read" /\ dest # {} /\ ~Repairing => cached = dest \/ quiet <= age

(* The columns a repair still has to add are columns of the event that the *)
(* answer of tableColumns did not have.                                    *)
MissingInv == pc = "alter" => missing \subseteq event \ types

CalmInv == calm => quiet = TTL

(* A statement is never executed with the answer that the repair got.      *)
CallInv == pc = "exec" => call # "repair"

(* Nobody else disturbs the event that is being applied.                   *)
Undisturbed == calm /\ dest # {}

(* Undisturbed, a repair starts because a column is missing, adds exactly  *)
(* the missing ones, and the retry finds them all.                         *)
RepairInv ==
    Undisturbed =>
        /\ call = "repair" /\ pc \in {"columns", "read"} => ~(event \subseteq dest)
        /\ pc = "alter" => /\ ~(event \subseteq types)
                           /\ missing \cap dest = {} /\ event \subseteq dest \cup missing
        /\ call = "retry" /\ pc \in {"columns", "read", "exec"} => event \subseteq dest

IInv == Types /\ BehindInv /\ CacheInv /\ MissingInv /\ CalmInv /\ CallInv /\ RepairInv

-----------------------------------------------------------------------------
Less == {ss \in Nat \X Nat : ss[1] < ss[2]}

(* Min picks one of the missing columns.                                   *)
LEMMA MinIn == ASSUME NEW S \in SUBSET Nat, S # {} PROVE Min(S) \in S
  <1>1. IsWellFoundedOn(Less, Nat)
    BY NatLessThanWellFounded DEF OpToRel, Less
  <1>2. PICK x \in S : \A y \in S : ~ (<<y, x>> \in Less)
    BY <1>1, WFMin
  <1>3. ASSUME NEW y \in S
        PROVE  x <= y
    <2>1. x \in Nat /\ y \in Nat
      OBVIOUS
    <2>2. y < x => <<y, x>> \in Nat \X Nat /\ <<y, x>>[1] < <<y, x>>[2]
      BY <2>1
    <2>3. ~ (y < x)
      BY <1>2, <2>2, Zenon DEF Less
    <2> QED
      BY <2>1, <2>3
  <1> QED
    BY <1>3 DEF Min

(* A counter that is capped at TTL.                                        *)
LEMMA UpIs ==
    ASSUME NEW m \in 0 .. TTL, NEW n \in 0 .. TTL
    PROVE  Up(n) \in 0 .. TTL /\ (m <= n => Up(m) <= Up(n)) /\ Up(TTL) = TTL /\ 0 <= Up(n)
  BY ColumnCacheAssumption DEF Up

(* A new process with an empty cache satisfies the invariant.              *)
LEMMA InitInv == Init => IInv
  <1> SUFFICES ASSUME Init PROVE IInv
    OBVIOUS
  <1>1. Key \in Columns /\ TTL \in Nat
    BY ColumnCacheAssumption
  <1>2. <<{Key}>> \in Seq(SUBSET Columns)
    BY <1>1
  <1>3. Types
    <2>1. 0 \in 0 .. TTL /\ TTL \in 0 .. TTL
      BY <1>1
    <2> QED
      BY <1>2, <2>1 DEF Init, Types
  <1>4. BehindInv /\ CacheInv /\ MissingInv /\ CalmInv /\ CallInv /\ RepairInv
    BY DEF Init, BehindInv, CacheInv, MissingInv, CalmInv, CallInv, RepairInv
  <1> QED
    BY <1>3, <1>4 DEF IInv

(* What happens outside the writer keeps the invariant.                    *)
LEMMA OutsideStep ==
    ASSUME IInv,
           \/ \E S \in Schemas : SourceAlters(S)
           \/ \E S \in Schemas \cup {{}} : DestinationAlters(S)
           \/ Tick
    PROVE  IInv'
  <1> USE ColumnCacheAssumption DEF IInv
  <1>1. ASSUME NEW S \in Schemas, SourceAlters(S)
        PROVE  IInv'
    <2>1. versions' \in Seq(SUBSET Columns)
      BY <1>1 DEF SourceAlters, Schemas, Types
    <2> QED
      BY <1>1, <2>1 DEF SourceAlters, Types, BehindInv, CacheInv, Repairing, MissingInv, CalmInv,
                   CallInv, RepairInv, Undisturbed, cache, writer, history, budgets
  <1>2. ASSUME NEW S \in Schemas \cup {{}}, DestinationAlters(S)
        PROVE  IInv'
    <2> USE <1>2 DEF DestinationAlters, Compare, cache, writer
    <2>0. behind' \in {0, behind} /\ 0 \in 0 .. TTL
      OBVIOUS
    <2>1. Types'
      BY <2>0 DEF Types
    <2>2. BehindInv'
      BY <2>0 DEF Types, BehindInv
    <2>3. CacheInv' /\ MissingInv'
      BY DEF Types, CacheInv, MissingInv
    <2>4. CalmInv' /\ CallInv' /\ RepairInv'
      BY DEF CalmInv, CallInv, RepairInv, Undisturbed
    <2> QED
      BY <2>1, <2>2, <2>3, <2>4
  <1>3. CASE Tick
    <2> USE <1>3 DEF Tick, writer
    <2>1. /\ age' = Up(age) /\ quiet' = Up(quiet) /\ behind' \in {0, Up(behind)}
          /\ age \in 0 .. TTL /\ quiet \in 0 .. TTL /\ behind \in 0 .. TTL /\ 0 \in 0 .. TTL
          /\ TTL \in 0 .. TTL
      BY DEF Types
    <2>2. /\ age' \in 0 .. TTL /\ quiet' \in 0 .. TTL /\ behind' \in 0 .. TTL
          /\ behind <= age => behind' <= age'
          /\ quiet <= age => quiet' <= age'
          /\ quiet = TTL => quiet' = TTL
      BY <2>1, UpIs
    <2>3. Types' /\ BehindInv'
      BY <2>2 DEF Types, BehindInv
    <2>4. CacheInv' /\ MissingInv'
      BY <2>2 DEF CacheInv, MissingInv, Repairing
    <2>5. CalmInv' /\ CallInv' /\ RepairInv'
      BY <2>2 DEF CalmInv, CallInv, RepairInv, Undisturbed
    <2> QED
      BY <2>3, <2>4, <2>5
  <1> QED
    BY <1>1, <1>2, <1>3

(* tableColumns and the statement keep the invariant.                      *)
LEMMA ApplyStep ==
    ASSUME IInv,
           \/ \E v \in 1 .. Len(versions) : Poll(v)
           \/ Cached \/ Note \/ ReadCatalog \/ ReadFails \/ Apply \/ ApplyFails
    PROVE  IInv'
  <1> USE ColumnCacheAssumption DEF IInv
  <1>1. ASSUME NEW v \in 1 .. Len(versions), Poll(v)
        PROVE  IInv'
    <2>1. versions[v] \subseteq Columns
      BY DEF Types
    <2> QED
      BY <1>1, <2>1 DEF Poll, Types, BehindInv, CacheInv, Repairing, MissingInv, CalmInv,
                   CallInv, RepairInv, Undisturbed, cache, budgets
  <1>2. CASE Cached
    <2> USE <1>2 DEF Cached, Answer, Trusted, cache, history
    <2>1. Types' /\ BehindInv' /\ CalmInv'
      BY DEF Types, BehindInv, CalmInv
    <2>2. CacheInv' /\ MissingInv' /\ CallInv'
      BY DEF CacheInv, Repairing, MissingInv, CallInv
    <2>3. Undisturbed => cached = dest
      BY DEF Undisturbed, CacheInv, Repairing, CalmInv, Types
    <2>4. RepairInv'
      BY <2>3 DEF RepairInv, Undisturbed
    <2> QED
      BY <2>1, <2>2, <2>4
  <1>3. CASE Note
    BY <1>3 DEF Note, Types, BehindInv, CacheInv, Repairing, MissingInv, CalmInv,
                   CallInv, RepairInv, Undisturbed, history
  <1>4. CASE ReadCatalog
    <2> USE <1>4 DEF ReadCatalog, Answer, Compare
    <2>1. Types' /\ BehindInv' /\ CalmInv'
      BY DEF Types, BehindInv, CalmInv
    <2>2. CacheInv' /\ MissingInv' /\ CallInv'
      BY DEF CacheInv, Repairing, MissingInv, CallInv
    <2>3. RepairInv'
      BY DEF RepairInv, Undisturbed
    <2> QED
      BY <2>1, <2>2, <2>3
  <1>5. CASE ReadFails
    BY <1>5 DEF ReadFails, Quarantine, Types, BehindInv, CacheInv, Repairing, MissingInv, CalmInv,
                   CallInv, RepairInv, Undisturbed, cache
  <1>6. CASE Apply
    BY <1>6 DEF Apply, Types, BehindInv, CacheInv, Repairing, MissingInv, CalmInv,
                   CallInv, RepairInv, Undisturbed, cache, history
  <1>7. CASE ApplyFails
    <2> USE <1>7 DEF ApplyFails, Quarantine, cache, history
    <2>1. Types' /\ BehindInv' /\ CalmInv'
      BY DEF Types, BehindInv, CalmInv
    <2>2. CacheInv' /\ MissingInv' /\ CallInv'
      BY DEF CacheInv, Repairing, MissingInv, CallInv
    <2>3. RepairInv'
      BY DEF RepairInv, Undisturbed
    <2> QED
      BY <2>1, <2>2, <2>3
  <1> QED
    BY <1>1, <1>2, <1>3, <1>4, <1>5, <1>6, <1>7

(* RepairSchema and a restart keep the invariant.                          *)
LEMMA RepairStep ==
    ASSUME IInv,
           NothingMissing \/ AddColumn \/ AddFails \/ RepairDone
           \/ SourceUnreachable \/ Restart
    PROVE  IInv'
  <1> USE ColumnCacheAssumption DEF IInv
  <1>1. CASE NothingMissing
    BY <1>1 DEF NothingMissing, Quarantine, Types, BehindInv, CacheInv, Repairing, MissingInv,
                CalmInv, CallInv, RepairInv, Undisturbed, cache, history
  <1>2. CASE AddColumn
    <2> DEFINE c == Min(missing)
    <2>1. missing # {} /\ missing \in SUBSET Nat
      BY <1>2 DEF AddColumn, MissingInv, Types
    <2>2. c \in missing
      BY <2>1, MinIn
    <2> HIDE DEF c
    <2>3. /\ dest' = dest \cup {c} /\ missing' = missing \ {c} /\ c \notin dest /\ dest # {}
          /\ behind' \in {0, behind} /\ pc = "alter"
          /\ UNCHANGED <<versions, cache, call, event, polled, types, quiet, calm, pc,
                         outcome, failed>>
      BY <1>2 DEF AddColumn, c, Compare
    <2>4. Types' /\ BehindInv' /\ CalmInv'
      BY <2>3 DEF Types, BehindInv, CalmInv, cache
    <2>5. CacheInv' /\ MissingInv' /\ CallInv'
      BY <2>2, <2>3 DEF CacheInv, Repairing, MissingInv, CallInv
    <2>6. RepairInv'
      BY <2>2, <2>3 DEF RepairInv, Undisturbed
    <2> QED
      BY <2>4, <2>5, <2>6
  <1>3. CASE RepairDone
    <2> USE <1>3 DEF RepairDone, Compare
    <2>0. behind' \in {0, behind} /\ 0 \in 0 .. TTL
      OBVIOUS
    <2>1. Types' /\ BehindInv' /\ CalmInv'
      BY <2>0 DEF Types, BehindInv, CalmInv
    <2>2. CacheInv' /\ MissingInv' /\ CallInv'
      BY DEF CacheInv, Repairing, MissingInv, CallInv
    <2>3. RepairInv'
      BY DEF RepairInv, Undisturbed
    <2> QED
      BY <2>1, <2>2, <2>3
  <1>4. CASE AddFails \/ SourceUnreachable
    <2>1. /\ pc = "alter" /\ pc' = "poll"
          /\ UNCHANGED <<versions, dest, cache, call, event, types, missing, behind, failed>>
          /\ \/ ~Repairing /\ UNCHANGED <<quiet, calm>>
             \/ quiet' = 0 /\ calm' = FALSE
      BY <1>4 DEF AddFails, SourceUnreachable, GiveUp, Repairing
    <2>2. Types' /\ BehindInv' /\ CalmInv'
      <3>1. 0 \in 0 .. TTL
        OBVIOUS
      <3>2. Types'
        BY <2>1, <3>1 DEF Types, cache
      <3>3. BehindInv' /\ CalmInv'
        BY <2>1 DEF BehindInv, CalmInv, cache
      <3> QED
        BY <3>2, <3>3
    <2>3. CacheInv' /\ MissingInv' /\ CallInv' /\ RepairInv'
      BY <2>1 DEF Types, CacheInv, Repairing, MissingInv, CallInv, RepairInv, cache
    <2> QED
      BY <2>2, <2>3
  <1>5. CASE Restart
    <2> USE <1>5 DEF Restart, Compare
    <2>0. behind' \in {0, behind} /\ 0 \in 0 .. TTL
      OBVIOUS
    <2>1. Types'
      BY <2>0 DEF Types
    <2> QED
      BY <2>1 DEF BehindInv, CacheInv, MissingInv, CalmInv, CallInv, RepairInv
  <1> QED
    BY <1>1, <1>2, <1>3, <1>4, <1>5

(* The invariant is inductive.                                             *)
LEMMA StepInv == IInv /\ [Next]_vars => IInv'
  <1> SUFFICES ASSUME IInv, [Next]_vars PROVE IInv'
    OBVIOUS
  <1>1. CASE UNCHANGED vars
    BY <1>1 DEF IInv, vars, Types, BehindInv, CacheInv, Repairing, MissingInv, CalmInv, CallInv,
                RepairInv, Undisturbed, cache, writer, history
  <1>2. CASE Next
    BY <1>2, OutsideStep, ApplyStep, RepairStep DEF Next
  <1> QED
    BY <1>1, <1>2

(* The invariant holds of every reachable state.                           *)
THEOREM ColumnCacheInvariance == Spec => []IInv
  BY InitInv, StepInv, PTL DEF Spec

(* columnCacheTTL: columns answered from the cache were the table's less   *)
(* than a TTL ago, as long as no catalog read fails, whatever is altered   *)
(* outside the writer and wherever a repair ends.                          *)
THEOREM CacheTrustedWithinTTL == Spec => []TrustedWithinTTL
  <1>1. IInv => TrustedWithinTTL
    BY ColumnCacheAssumption DEF IInv, Types, BehindInv, TrustedWithinTTL, Trusted
  <1> QED
    BY <1>1, ColumnCacheInvariance, PTL

(* RepairSchema heals drift: an event whose columns the source still has   *)
(* is quarantined only when the table is gone, lacks a column that it may  *)
(* refuse, or was changed within a TTL by somebody else or by a repair     *)
(* that ended half-way.                                                    *)
THEOREM CacheDriftHeals == Spec => DriftHeals
  <1>1. ASSUME IInv, [Next]_vars, outcome' = "letter", outcome # "letter",
               event \subseteq Source, Undisturbed, event \cap Refusable \subseteq dest
        PROVE  FALSE
    <2> USE <1>1
    <2>1. ReadFails \/ ApplyFails \/ NothingMissing \/ AddFails
      BY DEF Next, vars, writer, SourceAlters, DestinationAlters, Tick, Poll, Cached, Note,
             ReadCatalog, Apply, AddColumn, SourceUnreachable, RepairDone, Restart
    <2>2. CASE ReadFails
      BY <2>2 DEF ReadFails, Undisturbed
    <2>3. CASE ApplyFails
      BY <2>3 DEF ApplyFails, Undisturbed, IInv, Types, CallInv, RepairInv
    <2>4. CASE NothingMissing
      BY <2>4 DEF NothingMissing, IInv, RepairInv
    <2>5. CASE AddFails
      <3> DEFINE c == Min(missing)
      <3>1. /\ missing # {} /\ missing \in SUBSET Nat
            /\ missing \subseteq event /\ missing \cap dest = {} /\ dest # {}
        BY <2>5, ColumnCacheAssumption
           DEF AddFails, GiveUp, IInv, MissingInv, Types, RepairInv, Undisturbed
      <3>2. c \in missing
        BY <3>1, MinIn
      <3> HIDE DEF c
      <3>3. c \notin Source \/ dest = {} \/ c \in dest \/ c \in Refusable
        BY <2>5 DEF AddFails, c
      <3> QED
        BY <3>1, <3>2, <3>3
    <2> QED
      BY <2>1, <2>2, <2>3, <2>4, <2>5
  <1>2. ASSUME IInv, [Next]_vars
        PROVE  [outcome' = "letter" /\ outcome # "letter" =>
                  \/ dest = {} \/ ~(event \subseteq Source) \/ ~calm
                  \/ (event \cap Refusable) \ dest # {}]_vars
    BY <1>1, <1>2 DEF Undisturbed
  <1> QED
    BY <1>2, ColumnCacheInvariance, PTL DEF Spec, DriftHeals
=============================================================================
