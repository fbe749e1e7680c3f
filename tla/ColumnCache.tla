---------------------------- MODULE ColumnCache ----------------------------
(***************************************************************************)
(* The applier's cache of a destination table's columns (tableColumns in   *)
(* internal/destination/applier.go) and the schema repair that relies on   *)
(* it, for one table.  The source changes its columns; somebody may change *)
(* the destination's columns outside the writer; the writer applies one    *)
(* event at a time, and an event that names an unknown column starts a     *)
(* repair.  A table has at least its key column, so the empty set stands   *)
(* for a table that does not exist, and for no cached columns.             *)
(***************************************************************************)
EXTENDS Integers, Sequences, FiniteSetsExt

CONSTANTS
    Columns,     \* column names, in the order sort.Strings gives them
    Key,         \* the primary-key column
    Refusable,   \* columns that ALTER TABLE may refuse to add: of a type that the
                 \* destination lacks and that is no enum, NOT NULL without default
    TTL,         \* columnCacheTTL
    AddsOnly,    \* TRUE: the source only adds columns
    MayVanish,   \* TRUE: the destination table may be dropped and created again
    MaxVersions, \* bound: schemas the source goes through
    MaxAlters,   \* bound: changes of the destination outside the writer
    MaxOutages,  \* bound: repairs that cannot reach the source
    MaxRestarts  \* bound: restarts of the writer

ASSUME ColumnCacheAssumption ==
    /\ Columns \subseteq Nat /\ Key \in Columns /\ Refusable \subseteq Columns
    /\ TTL \in Nat \ {0} /\ AddsOnly \in BOOLEAN /\ MayVanish \in BOOLEAN
    /\ MaxVersions \in Nat /\ MaxAlters \in Nat
    /\ MaxOutages \in Nat /\ MaxRestarts \in Nat

VARIABLES
    versions, \* the schemas of the source table, the current one last (external)
    dest,     \* the destination table's columns (external)
    seen,     \* columnsSeenAt has the table
    age,      \* time.Since(columnsSeenAt), up to TTL
    cached,   \* columnsByTable
    pc,       \* where the writer is
    call,     \* which call of tableColumns it is: "apply", "repair", "retry"
    event,    \* the columns the event names
    polled,   \* the version of the source the event comes from
    types,    \* the answer of tableColumns
    missing,  \* RepairSchema's missing columns, still to be added
    outcome,  \* what became of the last event
    behind,   \* history: ticks since dest was what the cache says, up to TTL
    quiet,    \* history: ticks since the last change of dest that no completed
              \* repair made, up to TTL
    calm,     \* history: quiet for a TTL before the event, and during it
    failed,   \* history: a catalog read has failed in this process
    alters, outages, restarts

cache   == <<seen, age, cached>>
writer  == <<pc, call, event, polled, types, missing, outcome>>
history == <<behind, quiet, calm, failed>>
budgets == <<alters, outages, restarts>>
vars    == <<versions, dest, cache, writer, history, budgets>>

Source  == versions[Len(versions)]
Schemas == {S \in SUBSET Columns : Key \in S}
Up(n)   == IF n < TTL THEN n + 1 ELSE TTL

Init ==
    /\ versions = <<{Key}>> /\ dest = {Key}
    /\ seen = FALSE /\ age = 0 /\ cached = {}
    /\ pc = "poll" /\ call = "apply" /\ event = {} /\ polled = 1
    /\ types = {} /\ missing = {} /\ outcome = "none"
    /\ behind = 0 /\ quiet = TTL /\ calm = TRUE /\ failed = FALSE
    /\ alters = 0 /\ outages = 0 /\ restarts = 0

(* The cache agrees with the table, or lags behind it as before.           *)
Compare(columns, table) == behind' = IF columns = table THEN 0 ELSE behind

-----------------------------------------------------------------------------
(* ALTER TABLE on the source.                                              *)
SourceAlters(S) ==
    /\ Len(versions) < MaxVersions /\ S # Source
    /\ AddsOnly => Source \subseteq S
    /\ versions' = Append(versions, S)
    /\ UNCHANGED <<dest, cache, writer, history, budgets>>

(* CREATE, ALTER or DROP TABLE on the destination, not by the writer.      *)
DestinationAlters(S) ==
    /\ alters < MaxAlters /\ S # dest /\ (S = {} => MayVanish)
    /\ dest' = S /\ alters' = alters + 1
    /\ quiet' = 0 /\ calm' = FALSE
    /\ Compare(cached, S)
    /\ UNCHANGED <<versions, cache, writer, failed, outages, restarts>>

Tick ==
    /\ age' = Up(age) /\ quiet' = Up(quiet)
    /\ behind' = IF cached = dest THEN 0 ELSE Up(behind)
    /\ UNCHANGED <<versions, dest, seen, cached, writer, calm, failed, budgets>>

-----------------------------------------------------------------------------
(* The next event comes from the source's schema of its time; events       *)
(* arrive in source order.                                                 *)
Poll(v) ==
    /\ pc = "poll" /\ v >= polled
    /\ event' = versions[v] /\ polled' = v
    /\ pc' = "columns" /\ call' = "apply" /\ outcome' = "none"
    /\ calm' = (quiet = TTL)
    /\ UNCHANGED <<versions, dest, cache, types, missing, behind, quiet, failed, budgets>>

(* Mutant of Trusted: the age is not looked at.                            *)
TrustedForever == seen

(* tableColumns answers from the cache.                                    *)
Trusted == seen /\ age < TTL

(* What the caller does with the columns: build the statement, or find     *)
(* out which columns RepairSchema has to add.                              *)
Answer(columns) ==
    /\ types' = columns
    /\ IF call = "repair" THEN pc' = "alter" /\ missing' = event \ columns
                          ELSE pc' = "exec" /\ UNCHANGED missing

Quarantine == pc' = "poll" /\ outcome' = "letter"

Cached ==
    /\ pc = "columns" /\ Trusted
    /\ Answer(cached)
    /\ UNCHANGED <<versions, dest, cache, call, event, polled, outcome, history, budgets>>

(* tableColumns, first half: the time is noted before the catalog is read. *)
Note ==
    /\ pc = "columns" /\ ~Trusted
    /\ seen' = TRUE /\ age' = 0 /\ pc' = "read"
    /\ UNCHANGED <<versions, dest, cached, call, event, polled, types, missing,
                   outcome, history, budgets>>

(* tableColumns, second half.                                              *)
ReadCatalog ==
    /\ pc = "read" /\ dest # {}
    /\ cached' = dest /\ Answer(dest) /\ Compare(dest, dest)
    /\ UNCHANGED <<versions, dest, seen, age, call, event, polled, outcome, quiet,
                   calm, failed, budgets>>

(* ::regclass fails: the batch and the repair quarantine the event, the    *)
(* retry ends the process.                                                 *)
ReadFails ==
    /\ pc = "read" /\ dest = {}
    /\ IF call = "retry" THEN pc' = "down" /\ UNCHANGED outcome ELSE Quarantine
    /\ failed' = TRUE
    /\ UNCHANGED <<versions, dest, cache, call, event, polled, types, missing,
                   behind, quiet, calm, budgets>>

(* The statement runs.                                                     *)
Apply ==
    /\ pc = "exec" /\ dest # {} /\ event \subseteq dest
    /\ pc' = "poll" /\ outcome' = "applied"
    /\ UNCHANGED <<versions, dest, cache, call, event, polled, types, missing,
                   history, budgets>>

(* The statement fails.  A column that does not exist is repaired once.    *)
ApplyFails ==
    /\ pc = "exec" /\ ~(dest # {} /\ event \subseteq dest)
    /\ IF call = "apply" /\ dest # {}
       THEN pc' = "columns" /\ call' = "repair" /\ UNCHANGED outcome
       ELSE Quarantine /\ UNCHANGED call
    /\ UNCHANGED <<versions, dest, cache, event, polled, types, missing, history, budgets>>

(* RepairSchema: nothing is missing.                                       *)
NothingMissing ==
    /\ pc = "alter" /\ event \subseteq types
    /\ Quarantine
    /\ UNCHANGED <<versions, dest, cache, call, event, polled, types, missing,
                   history, budgets>>

(* RepairSchema: the next missing column is added.                        *)
AddColumn ==
    /\ pc = "alter" /\ missing # {}
    /\ LET c == Min(missing)
       IN  /\ c \in Source /\ dest # {} /\ c \notin dest
           /\ dest' = dest \cup {c} /\ missing' = missing \ {c}
           /\ Compare(cached, dest \cup {c})
    /\ UNCHANGED <<versions, cache, pc, call, event, polled, types, outcome, quiet,
                   calm, failed, budgets>>

(* RepairSchema returns an error and invalidates nothing: columns that it  *)
(* has already added are in the table, and not in the cache.               *)
GiveUp ==
    /\ pc = "alter" /\ missing # {}
    /\ pc' = "poll"
    /\ IF missing = event \ types THEN UNCHANGED <<quiet, calm>>
                                  ELSE quiet' = 0 /\ calm' = FALSE
    /\ UNCHANGED <<versions, dest, cache, call, event, polled, types, missing,
                   behind, failed, alters, restarts>>

(* RepairSchema: the source has the column no more, or the destination has *)
(* it already, or refuses to add it (NOT NULL without default is refused   *)
(* while the table has rows).                                              *)
AddFails ==
    /\ GiveUp /\ outcome' = "letter" /\ UNCHANGED outages
    /\ LET c == Min(missing)
       IN  c \notin Source \/ dest = {} \/ c \in dest \/ c \in Refusable

(* RepairSchema: the source cannot be reached, before the first column or  *)
(* between two; the event is quarantined for that.                         *)
SourceUnreachable ==
    /\ GiveUp /\ outcome' = "unreachable"
    /\ outages < MaxOutages /\ outages' = outages + 1

(* Mutant of RepairDone: the cache is left as it was.                      *)
RepairKeepsColumns ==
    /\ pc = "alter" /\ missing = {} /\ ~(event \subseteq types)
    /\ pc' = "columns" /\ call' = "retry"
    /\ UNCHANGED <<versions, dest, cache, event, polled, types, missing, outcome,
                   history, budgets>>

(* RepairSchema ends with invalidateColumns, and the event is retried.     *)
RepairDone ==
    /\ pc = "alter" /\ missing = {} /\ ~(event \subseteq types)
    /\ seen' = FALSE /\ cached' = {} /\ Compare({}, dest)
    /\ pc' = "columns" /\ call' = "retry"
    /\ UNCHANGED <<versions, dest, age, event, polled, types, missing, outcome, quiet,
                   calm, failed, budgets>>

(* A new process has an empty cache; the event is delivered again.         *)
Restart ==
    /\ pc = "down" \/ restarts < MaxRestarts
    /\ restarts' = IF pc = "down" THEN restarts ELSE restarts + 1
    /\ pc' = "poll" /\ outcome' = "none" /\ failed' = FALSE
    /\ seen' = FALSE /\ cached' = {} /\ Compare({}, dest)
    /\ UNCHANGED <<versions, dest, age, call, event, polled, types, missing, quiet,
                   calm, alters, outages>>

-----------------------------------------------------------------------------
Next ==
    \/ \E S \in Schemas : SourceAlters(S)
    \/ \E S \in Schemas \cup {{}} : DestinationAlters(S)
    \/ Tick
    \/ \E v \in 1 .. Len(versions) : Poll(v)
    \/ Cached \/ Note \/ ReadCatalog \/ ReadFails
    \/ Apply \/ ApplyFails \/ NothingMissing \/ AddColumn \/ AddFails
    \/ RepairDone \/ SourceUnreachable \/ Restart

Spec == Init /\ [][Next]_vars

-----------------------------------------------------------------------------
(* "columnCacheTTL bounds how long a column-type snapshot is trusted       *)
(* before the destination catalog is re-read": columns that tableColumns   *)
(* answers from the cache were the table's columns less than a TTL ago, as *)
(* long as no catalog read fails (a failed one renews the time stamp of    *)
(* the old columns, or of none).                                           *)
TrustedWithinTTL ==
    pc # "read" /\ Trusted /\ ~failed => behind < TTL

(* "a column-added DDL no longer poisons": an event whose columns a        *)
(* reachable source still has is quarantined only if the table is gone, if *)
(* it lacks a column whose definition it may refuse, or if it was changed  *)
(* within a TTL before the event, or during it, by somebody else or by a   *)
(* repair that ended half-way (which leaves its columns out of the cache). *)
DriftHeals ==
    [][outcome' = "letter" /\ outcome # "letter" =>
         \/ dest = {} \/ ~(event \subseteq Source) \/ ~calm
         \/ (event \cap Refusable) \ dest # {}]_vars
=============================================================================
