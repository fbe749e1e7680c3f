------------------------------- MODULE Tuples -------------------------------
(***************************************************************************)
(* The data path of one table: how PostgreSQL describes a row change under *)
(* each replica identity, what the decoder makes of it                     *)
(* (internal/source/decoder.go) with the key that discoverIdentity found,  *)
(* and what the events do to the keyed destination table                   *)
(* (internal/destination/applier.go).  Each step is one source statement   *)
(* carried through the pipeline; order, loss and repetition are the        *)
(* subject of the other modules.                                           *)
(***************************************************************************)
EXTENDS Integers, Sequences, Functions

CONSTANTS
    Columns,    \* the table's columns
    PK,         \* its primary key, {} for none
    Index,      \* the columns of its unique index
    Toast,      \* columns whose values may be stored out of line
    Values,     \* column values
    Null        \* NULL

ASSUME TuplesAssumption ==
    /\ PK \subseteq Columns /\ Index \subseteq Columns /\ Index # {}
    /\ Toast \subseteq Columns \ (PK \cup Index)
    /\ Null \notin Values

VARIABLES
    mode,    \* relreplident: "n"othing, "d"efault, using "i"ndex, "f"ull (external)
    source,  \* the rows of the source table (external)
    dest,    \* the rows of the destination table
    keys,    \* the unique keys of the destination table
    late,    \* the table was published after the reader had started
    reader   \* "boot", "running", "refused" at boot, or "stopped" by a decoder error

config == <<mode, keys, late>>
vars   == <<mode, keys, late, source, dest, reader>>

NotNull == PK \cup Index
Rows == {r \in [Columns -> Values \cup {Null}] : \A c \in NotNull : r[c] # Null}
On(r, C) == Restrict(r, C)

(* The destination table has the source's primary key, as the contract     *)
(* demands, and may have its unique index; without a primary key it is     *)
(* keyed by the index.                                                     *)
DestinationKeys == IF PK = {} THEN {{Index}} ELSE {{PK}, {PK, Index}}

Init ==
    /\ mode \in {"n", "d", "i", "f"} /\ late \in BOOLEAN /\ keys \in DestinationKeys
    /\ source = {} /\ dest = {} /\ reader = "boot"

-----------------------------------------------------------------------------
(***************************************************************************)
(* PostgreSQL.                                                             *)
(***************************************************************************)
Unchanged == "u"               \* the tuple's mark for an unchanged TOAST value
NoTuple   == [c \in {} |-> Null]

(* The mark is a kind of tuple data of its own, next to text and NULL.     *)
ASSUME UnchangedAssumption == Unchanged \notin Values \cup {Null}

(* The columns that pgoutput flags as key columns.                         *)
Flags == CASE mode = "n" -> {} [] mode = "d" -> PK [] mode = "i" -> Index [] mode = "f" -> Columns

(* The old tuple of an UPDATE: the whole row under FULL, otherwise the key *)
(* columns, and only when they change.                                     *)
OldTuple(old, new) ==
    IF mode = "f" \/ On(old, Flags) # On(new, Flags) THEN On(old, Flags) ELSE NoTuple

(* The columns whose unchanged value may be left out of the new tuple.     *)
MayBeUnchanged(old, new) == {c \in Toast : old[c] = new[c] /\ new[c] # Null}
NewTuple(new, U) == [c \in Columns |-> IF c \in U THEN Unchanged ELSE new[c]]

-----------------------------------------------------------------------------
(***************************************************************************)
(* The decoder.                                                            *)
(***************************************************************************)
(* discoverIdentity: the key of the table; none is refused.                *)
Discovered == CASE mode = "n" -> {} [] mode = "i" -> Index [] mode \in {"d", "f"} -> PK

(* primaryKey's columns: as discovered, or as flagged for a table that     *)
(* discoverIdentity has not seen.                                          *)
KeyColumns == IF late THEN Flags ELSE Discovered

(* Mutant of Fills: the old image is not used.                             *)
FillsNothing(fill, c) == FALSE

(* decodeTuple: the row, with unchanged values filled from the old image   *)
(* where it has them; the other unchanged columns are left out.            *)
Fills(fill, c) == c \in DOMAIN fill /\ fill[c] # Null
Decoded(tuple, fill) ==
    [c \in {c \in DOMAIN tuple : tuple[c] # Unchanged \/ Fills(fill, c)} |->
        IF tuple[c] = Unchanged THEN fill[c] ELSE tuple[c]]
LeftOut(tuple, fill) == DOMAIN tuple \ DOMAIN Decoded(tuple, fill)

(* primaryKey finds every key column, and none is NULL.                    *)
HasKey(row) == KeyColumns # {} /\ \A c \in KeyColumns : c \in DOMAIN row /\ row[c] # Null
Key(row) == On(row, KeyColumns)

(* equalRows on the old and the new key.                                   *)
KeyChanged(oldRow, after) == Key(oldRow) # Key(after)

UpsertEvent(key, after, unchanged) ==
    [op |-> "upsert", key |-> key, after |-> after, unchanged |-> unchanged]
DeleteEvent(key) == [op |-> "delete", key |-> key, after |-> NoTuple, unchanged |-> {}]
Error == <<>>                  \* no events

(* Handle, InsertMessage.                                                  *)
HandleInsert(new) ==
    IF HasKey(new) THEN <<UpsertEvent(Key(new), new, {})>> ELSE Error

(* Handle, DeleteMessage.                                                  *)
HandleDelete(old) ==
    IF HasKey(On(old, Flags)) THEN <<DeleteEvent(Key(On(old, Flags)))>> ELSE Error

(* Mutant of HandleUpdate: a changed key is not looked for.                *)
HandleUpdateInPlace(old, new, U) ==
    LET oldRow == Decoded(OldTuple(old, new), NoTuple)
        after  == Decoded(NewTuple(new, U), oldRow)
        hasOld == oldRow # NoTuple
    IN  IF ~HasKey(after) \/ (hasOld /\ ~HasKey(oldRow)) THEN Error
        ELSE <<UpsertEvent(IF hasOld THEN Key(oldRow) ELSE Key(after), after,
                           LeftOut(NewTuple(new, U), oldRow))>>

(* Handle, UpdateMessage.  A changed key becomes a delete and an insert,   *)
(* for which the row has to be complete.                                   *)
HandleUpdate(old, new, U) ==
    LET oldRow  == Decoded(OldTuple(old, new), NoTuple)
        after   == Decoded(NewTuple(new, U), oldRow)
        leftOut == LeftOut(NewTuple(new, U), oldRow)
        hasOld  == oldRow # NoTuple
    IN  CASE ~HasKey(after) \/ (hasOld /\ ~HasKey(oldRow)) -> Error
          [] hasOld /\ HasKey(oldRow) /\ HasKey(after) /\ KeyChanged(oldRow, after) ->
                IF \A c \in leftOut : Fills(oldRow, c)
                THEN <<DeleteEvent(Key(oldRow)),
                       UpsertEvent(Key(after), [c \in Columns |->
                           IF c \in leftOut THEN oldRow[c] ELSE after[c]], {})>>
                ELSE Error
          [] OTHER -> <<UpsertEvent(Key(after), after, leftOut)>>

-----------------------------------------------------------------------------
(***************************************************************************)
(* The destination.                                                        *)
(***************************************************************************)
Addressed(rows, key) == {r \in rows : On(r, DOMAIN key) = key}

(* No unique key of the destination table is violated by one more row.     *)
Fits(rows, r) == \A s \in rows, K \in keys : On(s, K) # On(r, K)

(* An upsert conflicts on the row's own key values; an update that         *)
(* preserves columns addresses the event's key.  Either sets the columns   *)
(* the event has, and a new row gets NULL for the others.  PostgreSQL      *)
(* refuses a conflict target that is no unique key of the table, and a row *)
(* that violates another key: the event is quarantined.                    *)
Upsert(rows, e) ==
    LET hit  == Addressed(rows, IF e.unchanged = {} THEN On(e.after, DOMAIN e.key) ELSE e.key)
        base == IF hit = {} THEN [c \in Columns |-> Null] ELSE CHOOSE r \in hit : TRUE
        row  == [c \in Columns |-> IF c \in DOMAIN e.after THEN e.after[c] ELSE base[c]]
    IN  IF (e.unchanged = {} => DOMAIN e.key \in keys) /\ Fits(rows \ hit, row)
        THEN (rows \ hit) \cup {row}
        ELSE rows

ApplyEvent(rows, e) ==
    IF e.op = "upsert" THEN Upsert(rows, e) ELSE rows \ Addressed(rows, e.key)

(* The events of one source statement reach the destination.               *)
Carry(events) ==
    IF events = Error
    THEN reader' = "stopped" /\ UNCHANGED dest
    ELSE /\ dest' = IF Len(events) = 1 THEN ApplyEvent(dest, events[1])
                    ELSE ApplyEvent(ApplyEvent(dest, events[1]), events[2])
         /\ UNCHANGED reader

-----------------------------------------------------------------------------
(* The source's unique constraints.                                        *)
Admits(rows, r) ==
    \A s \in rows : (PK # {} => On(s, PK) # On(r, PK)) /\ On(s, Index) # On(r, Index)

(* run: discoverIdentity refuses a table it finds no key for.              *)
Boot ==
    /\ reader = "boot"
    /\ reader' = IF Discovered = {} /\ ~late THEN "refused" ELSE "running"
    /\ UNCHANGED <<config, source, dest>>

Insert(r) ==
    /\ reader = "running" /\ Admits(source, r)
    /\ source' = source \cup {r} /\ Carry(HandleInsert(r))
    /\ UNCHANGED config

Update(old, new) ==
    /\ reader = "running" /\ Admits(source \ {old}, new)
    /\ source' = (source \ {old}) \cup {new}
    /\ \E U \in SUBSET MayBeUnchanged(old, new) : Carry(HandleUpdate(old, new, U))
    /\ UNCHANGED config

Delete(old) ==
    /\ reader = "running"
    /\ source' = source \ {old} /\ Carry(HandleDelete(old))
    /\ UNCHANGED config

(* Handle, TruncateMessage.                                                *)
Truncate ==
    /\ reader = "running"
    /\ source' = {} /\ dest' = {}
    /\ UNCHANGED <<config, reader>>

(* The reader exits on this table or this message after every restart.     *)
Stopped == reader \in {"refused", "stopped"} /\ UNCHANGED vars

Next ==
    \/ Boot
    \/ \E r \in Rows : Insert(r)
    \/ \E old \in source, new \in Rows : Update(old, new)
    \/ \E old \in source : Delete(old)
    \/ Truncate \/ Stopped

Spec == Init /\ [][Next]_vars

-----------------------------------------------------------------------------
(* Whatever the replica identity, which key columns change and which TOAST *)
(* values PostgreSQL leaves out: if the decoder's key is a key of the      *)
(* destination table, that table is the source table after every statement *)
(* that the decoder accepts.  (It is not for a unique index that only the  *)
(* source has, nor for a table under FULL that the reader has not          *)
(* discovered, which is keyed by all its columns.)                         *)
DataMirrored == reader = "running" /\ KeyColumns \in keys \cup {{}} => dest = source

(* "set REPLICA IDENTITY FULL" is the way out that the decoder's error     *)
(* names: with it, no row change of a discovered table stops the reader.   *)
FullNeverStops == mode = "f" /\ ~late => reader # "stopped"
=============================================================================
