---------------------------- MODULE TuplesProofs ----------------------------
(***************************************************************************)
(* Proofs about Tuples, for a table of any shape: whatever its columns,    *)
(* keys, replica identity and TOASTed values, the events that the decoder  *)
(* makes of a row change turn the old destination table into the new       *)
(* source table.                                                           *)
(***************************************************************************)
EXTENDS Tuples, TLAPS

-----------------------------------------------------------------------------
(***************************************************************************)
(* The inductive invariant.                                                *)
(***************************************************************************)
(* The source's unique constraints hold.                                   *)
Keyed(rows) ==
    \A r, s \in rows : r # s => (PK # {} => On(r, PK) # On(s, PK)) /\ On(r, Index) # On(s, Index)

Types ==
    /\ mode \in {"n", "d", "i", "f"} /\ late \in BOOLEAN /\ keys \in DestinationKeys
    /\ reader \in {"boot", "running", "refused", "stopped"}
    /\ source \subseteq Rows /\ Keyed(source)

BootInv == reader = "boot" => source = {} /\ dest = {}

(* A discovered table that is read has a key.                              *)
KeyInv == reader = "running" => late \/ Discovered # {}

IInv == Types /\ BootInv /\ KeyInv /\ DataMirrored /\ FullNeverStops

(* The decoder's key, if there is one, is a key of the destination.        *)
Agreed ==
    /\ mode \in {"n", "d", "i", "f"} /\ late \in BOOLEAN /\ keys \in DestinationKeys
    /\ KeyColumns \in keys \cup {{}}

-----------------------------------------------------------------------------
(***************************************************************************)
(* Keys and rows.                                                          *)
(***************************************************************************)
(* The key is the primary key or the unique index, and part of every old   *)
(* tuple.                                                                  *)
LEMMA TheKey ==
    ASSUME Agreed, KeyColumns # {}
    PROVE  /\ KeyColumns \in keys
           /\ KeyColumns = PK \/ KeyColumns = Index
           /\ KeyColumns \subseteq NotNull /\ NotNull \subseteq Columns
           /\ KeyColumns \cap Toast = {} /\ Toast \subseteq Columns
           /\ Flags \subseteq Columns /\ KeyColumns \subseteq Flags
           /\ mode = "f" => Flags = Columns
           /\ mode # "f" => Flags = KeyColumns
  <1>1. /\ KeyColumns \in keys
        /\ KeyColumns = PK \/ KeyColumns = Index
    BY DEF Agreed, DestinationKeys
  <1>2. /\ KeyColumns \subseteq NotNull /\ NotNull \subseteq Columns
        /\ KeyColumns \cap Toast = {} /\ Toast \subseteq Columns
    BY <1>1, TuplesAssumption DEF NotNull
  <1> USE TuplesAssumption DEF Agreed
  <1>3. CASE mode = "n"
    BY <1>3 DEF KeyColumns, Flags, Discovered
  <1>4. CASE mode = "d"
    BY <1>1, <1>2, <1>4 DEF KeyColumns, Flags, Discovered
  <1>5. CASE mode = "i"
    BY <1>1, <1>2, <1>5 DEF KeyColumns, Flags, Discovered
  <1>6. CASE mode = "f"
    <2>1. Flags = Columns
      BY <1>6 DEF Flags
    <2> QED
      BY <1>1, <1>2, <1>6, <2>1
  <1> QED
    BY <1>3, <1>4, <1>5, <1>6

(* A column of a row.                                                      *)
LEMMA RowIs ==
    ASSUME NEW r \in Rows
    PROVE  /\ DOMAIN r = Columns /\ r = [c \in Columns |-> r[c]]
           /\ \A c \in Columns : r[c] # Unchanged
           /\ \A c \in NotNull : r[c] # Null
  BY UnchangedAssumption DEF Rows

(* Restricting twice.                                                      *)
LEMMA OnOn ==
    ASSUME NEW r, NEW C, NEW D \in SUBSET C
    PROVE  /\ On(On(r, C), D) = On(r, D) /\ DOMAIN On(r, C) = C
           /\ \A c \in C : On(r, C)[c] = r[c]
  BY DEF On, Restrict

(* A row has a key.                                                        *)
LEMMA RowHasKey ==
    ASSUME Agreed, KeyColumns # {}, NEW r \in Rows, NEW C, KeyColumns \subseteq C
    PROVE  HasKey(On(r, C)) /\ Key(On(r, C)) = On(r, KeyColumns) /\ HasKey(r)
  <1>1. DOMAIN On(r, C) = C /\ \A c \in C : On(r, C)[c] = r[c]
    BY OnOn
  <1>2. On(On(r, C), KeyColumns) = On(r, KeyColumns)
    BY OnOn
  <1>3. KeyColumns \subseteq Columns /\ \A c \in KeyColumns : r[c] # Null
    BY TheKey, RowIs
  <1>4. DOMAIN r = Columns
    BY RowIs
  <1> QED
    BY <1>1, <1>2, <1>3, <1>4 DEF HasKey, Key

(* A key of a keyed table addresses one row.                               *)
LEMMA AddressesOne ==
    ASSUME Agreed, KeyColumns # {}, NEW rows, Keyed(rows), NEW r \in rows
    PROVE  Addressed(rows, On(r, KeyColumns)) = {r}
  <1>1. DOMAIN On(r, KeyColumns) = KeyColumns
    BY DEF On, Restrict
  <1>2. \A s \in rows : s # r => On(s, KeyColumns) # On(r, KeyColumns)
    BY TheKey DEF Keyed
  <1> QED
    BY <1>1, <1>2 DEF Addressed

(* The key of a row that the constraints admit addresses none.             *)
LEMMA AddressesNone ==
    ASSUME Agreed, KeyColumns # {}, NEW rows, NEW r, Admits(rows, r)
    PROVE  Addressed(rows, On(r, KeyColumns)) = {}
  <1>1. DOMAIN On(r, KeyColumns) = KeyColumns
    BY DEF On, Restrict
  <1>2. \A s \in rows : On(s, KeyColumns) # On(r, KeyColumns)
    BY TheKey DEF Admits
  <1> QED
    BY <1>1, <1>2 DEF Addressed

(* A row that the source's constraints admit fits the destination's keys.  *)
LEMMA AdmittedFits ==
    ASSUME Agreed, NEW rows, NEW r, Admits(rows, r)
    PROVE  Fits(rows, r)
  <1>1. \A K \in keys : K = Index \/ (K = PK /\ PK # {})
    BY DEF Agreed, DestinationKeys
  <1> QED
    BY <1>1 DEF Admits, Fits

(* The constraints are kept by the changes that they admit.                *)
LEMMA KeyedKept ==
    ASSUME NEW rows, Keyed(rows)
    PROVE  /\ \A S \in SUBSET rows : Keyed(S)
           /\ \A r : Admits(rows, r) => Keyed(rows \cup {r})
  BY DEF Keyed, Admits

-----------------------------------------------------------------------------
(***************************************************************************)
(* The decoder's events.                                                   *)
(***************************************************************************)
(* Without a key, every row change is an error.                            *)
LEMMA NoKeyNoEvents ==
    ASSUME KeyColumns = {}
    PROVE  \A old, new, U : /\ HandleInsert(new) = Error /\ HandleDelete(old) = Error
                            /\ HandleUpdate(old, new, U) = Error
  <1>1. \A row : ~HasKey(row)
    BY DEF HasKey
  <1> QED
    BY <1>1 DEF HandleInsert, HandleDelete, HandleUpdate

(* decodeTuple takes an old tuple as it is.                                *)
LEMMA OldDecoded ==
    ASSUME NEW r \in Rows, NEW C \in SUBSET Columns
    PROVE  Decoded(On(r, C), NoTuple) = On(r, C) /\ Decoded(NoTuple, NoTuple) = NoTuple
  <1>1. /\ DOMAIN On(r, C) = C /\ \A c \in C : On(r, C)[c] = r[c]
        /\ On(r, C) = [c \in C |-> r[c]] /\ DOMAIN NoTuple = {}
    BY DEF On, Restrict, NoTuple
  <1>2. \A c \in C : On(r, C)[c] # Unchanged
    BY <1>1, RowIs
  <1>3. {c \in DOMAIN On(r, C) : On(r, C)[c] # Unchanged \/ Fills(NoTuple, c)} = C
    BY <1>1, <1>2
  <1>4. Decoded(On(r, C), NoTuple) = [c \in C |-> On(r, C)[c]]
    BY <1>2, <1>3 DEF Decoded
  <1>5. Decoded(NoTuple, NoTuple) = NoTuple
    BY <1>1 DEF Decoded, NoTuple
  <1> QED
    BY <1>1, <1>4, <1>5

(* decodeTuple fills the unchanged columns from a full old image.          *)
LEMMA NewDecodedFull ==
    ASSUME NEW old \in Rows, NEW new \in Rows, NEW U \in SUBSET MayBeUnchanged(old, new)
    PROVE  Decoded(NewTuple(new, U), old) = new /\ LeftOut(NewTuple(new, U), old) = {}
  <1> DEFINE tuple == NewTuple(new, U)
  <1>1. U \subseteq Columns /\ \A c \in U : old[c] = new[c] /\ old[c] # Null
    BY TuplesAssumption DEF MayBeUnchanged
  <1>2. /\ DOMAIN tuple = Columns /\ \A c \in U : tuple[c] = Unchanged
        /\ \A c \in Columns \ U : tuple[c] = new[c] /\ tuple[c] # Unchanged
    BY <1>1, RowIs DEF NewTuple
  <1>3. \A c \in U : Fills(old, c)
    BY <1>1, RowIs DEF Fills
  <1> HIDE DEF tuple
  <1>4. {c \in DOMAIN tuple : tuple[c] # Unchanged \/ Fills(old, c)} = Columns
    BY <1>2, <1>3
  <1>5. Decoded(tuple, old) = [c \in Columns |-> IF tuple[c] = Unchanged THEN old[c] ELSE tuple[c]]
    BY <1>4 DEF Decoded
  <1>6. \A c \in Columns : (IF tuple[c] = Unchanged THEN old[c] ELSE tuple[c]) = new[c]
    BY <1>1, <1>2
  <1>7. Decoded(tuple, old) = [c \in Columns |-> new[c]]
    BY <1>5, <1>6
  <1>8. Decoded(tuple, old) = new
    BY <1>7, RowIs
  <1>9. DOMAIN new = Columns
    BY RowIs
  <1> QED
    BY <1>2, <1>8, <1>9 DEF LeftOut, tuple

(* Without the TOASTed columns in the old image, decodeTuple leaves the    *)
(* unchanged columns out.                                                  *)
LEMMA NewDecodedPartly ==
    ASSUME NEW old \in Rows, NEW new \in Rows, NEW U \in SUBSET MayBeUnchanged(old, new),
           NEW fill, DOMAIN fill \cap Toast = {}
    PROVE  /\ Decoded(NewTuple(new, U), fill) = On(new, Columns \ U)
           /\ LeftOut(NewTuple(new, U), fill) = U
  <1> DEFINE tuple == NewTuple(new, U)
  <1>1. U \subseteq Columns /\ U \subseteq Toast
    BY TuplesAssumption DEF MayBeUnchanged
  <1>2. /\ DOMAIN tuple = Columns /\ \A c \in U : tuple[c] = Unchanged
        /\ \A c \in Columns \ U : tuple[c] = new[c] /\ tuple[c] # Unchanged
    BY <1>1, RowIs DEF NewTuple
  <1>3. \A c \in U : ~Fills(fill, c)
    BY <1>1 DEF Fills
  <1> HIDE DEF tuple
  <1>4. {c \in DOMAIN tuple : tuple[c] # Unchanged \/ Fills(fill, c)} = Columns \ U
    BY <1>2, <1>3
  <1>5. Decoded(tuple, fill) =
            [c \in Columns \ U |-> IF tuple[c] = Unchanged THEN fill[c] ELSE tuple[c]]
    BY <1>4 DEF Decoded
  <1>6. Decoded(tuple, fill) = [c \in Columns \ U |-> new[c]]
    BY <1>2, <1>5
  <1>7. Decoded(tuple, fill) = On(new, Columns \ U)
    BY <1>6 DEF On, Restrict
  <1>8. DOMAIN On(new, Columns \ U) = Columns \ U
    BY DEF On, Restrict
  <1> QED
    BY <1>1, <1>2, <1>7, <1>8 DEF LeftOut, tuple

(* Handle, InsertMessage and DeleteMessage.                                *)
LEMMA InsertAndDeleteEvents ==
    ASSUME Agreed, KeyColumns # {}, NEW r \in Rows
    PROVE  /\ HandleInsert(r) = <<UpsertEvent(On(r, KeyColumns), r, {})>>
           /\ HandleDelete(r) = <<DeleteEvent(On(r, KeyColumns))>>
  <1>1. KeyColumns \subseteq Flags
    BY TheKey
  <1>2. HasKey(r) /\ HasKey(On(r, Flags)) /\ Key(On(r, Flags)) = On(r, KeyColumns)
    BY <1>1, RowHasKey
  <1> QED
    BY <1>2 DEF HandleInsert, HandleDelete, Key

(* Handle, UpdateMessage.  Only a key change without the old TOASTed       *)
(* values is an error.                                                     *)
LEMMA UpdateEvents ==
    ASSUME Agreed, KeyColumns # {}, NEW old \in Rows, NEW new \in Rows,
           NEW U \in SUBSET MayBeUnchanged(old, new)
    PROVE  /\ On(old, KeyColumns) # On(new, KeyColumns) =>
                HandleUpdate(old, new, U) =
                    IF mode = "f" \/ U = {}
                    THEN <<DeleteEvent(On(old, KeyColumns)),
                           UpsertEvent(On(new, KeyColumns), new, {})>>
                    ELSE Error
           /\ On(old, KeyColumns) = On(new, KeyColumns) =>
                HandleUpdate(old, new, U) =
                    IF mode = "f" THEN <<UpsertEvent(On(new, KeyColumns), new, {})>>
                    ELSE <<UpsertEvent(On(new, KeyColumns), On(new, Columns \ U), U)>>
  <1> DEFINE oldRow  == Decoded(OldTuple(old, new), NoTuple)
             after   == Decoded(NewTuple(new, U), oldRow)
             leftOut == LeftOut(NewTuple(new, U), oldRow)
             K       == KeyColumns
             whole   == [c \in Columns |-> IF c \in leftOut THEN oldRow[c] ELSE after[c]]
  <1>1. HandleUpdate(old, new, U) =
          CASE ~HasKey(after) \/ (oldRow # NoTuple /\ ~HasKey(oldRow)) -> Error
            [] oldRow # NoTuple /\ HasKey(oldRow) /\ HasKey(after) /\ KeyChanged(oldRow, after) ->
                IF \A c \in leftOut : Fills(oldRow, c)
                THEN <<DeleteEvent(Key(oldRow)), UpsertEvent(Key(after), whole, {})>>
                ELSE Error
            [] OTHER -> <<UpsertEvent(Key(after), after, leftOut)>>
    BY DEF HandleUpdate
  <1> HIDE DEF oldRow, after, leftOut, whole
  <1>2. /\ K # {} /\ K \subseteq Columns /\ K \cap Toast = {} /\ Flags \subseteq Columns
        /\ K \subseteq Flags /\ (mode = "f" => Flags = Columns) /\ (mode # "f" => Flags = K)
    BY TheKey
  <1>3. /\ old = On(old, Columns) /\ new = On(new, Columns)
        /\ DOMAIN On(old, K) = K /\ DOMAIN NoTuple = {} /\ DOMAIN On(old, Flags) = Flags
    BY RowIs DEF On, Restrict, NoTuple
  <1>4. U \subseteq Toast
    BY DEF MayBeUnchanged
  <1>5. CASE mode = "f"
    <2>1. oldRow = old
      BY <1>2, <1>3, <1>5, OldDecoded DEF oldRow, OldTuple
    <2>2. after = new /\ leftOut = {}
      BY <2>1, NewDecodedFull DEF after, leftOut
    <2>3. HasKey(old) /\ HasKey(new) /\ Key(old) = On(old, K) /\ Key(new) = On(new, K)
      BY <1>2, <1>3, RowHasKey DEF Key
    <2>4. old # NoTuple
      BY <1>2, <1>3, RowIs
    <2>5. whole = new
      <3>1. whole = [c \in Columns |-> new[c]]
        BY <2>2 DEF whole
      <3> QED
        BY <3>1, RowIs
    <2>6. CASE On(old, K) # On(new, K)
      BY <1>1, <1>5, <2>1, <2>2, <2>3, <2>4, <2>5, <2>6 DEF KeyChanged
    <2>7. CASE On(old, K) = On(new, K)
      BY <1>1, <1>5, <2>1, <2>2, <2>3, <2>4, <2>7 DEF KeyChanged
    <2> QED
      BY <2>6, <2>7
  <1>6. CASE mode # "f" /\ On(old, K) # On(new, K)
    <2>1. oldRow = On(old, K)
      BY <1>2, <1>6, OldDecoded DEF oldRow, OldTuple
    <2>2. after = On(new, Columns \ U) /\ leftOut = U
      BY <1>2, <1>3, <2>1, NewDecodedPartly DEF after, leftOut
    <2>3. K \subseteq Columns \ U
      BY <1>2, <1>4
    <2>4. HasKey(oldRow) /\ HasKey(after) /\ Key(oldRow) = On(old, K) /\ Key(after) = On(new, K)
      BY <1>2, <2>1, <2>2, <2>3, RowHasKey
    <2>5. oldRow # NoTuple
      BY <1>2, <1>3, <2>1
    <2>6. \A c \in U : ~Fills(oldRow, c)
      BY <1>2, <1>3, <1>4, <2>1 DEF Fills
    <2>7. HandleUpdate(old, new, U) =
            IF \A c \in leftOut : Fills(oldRow, c)
            THEN <<DeleteEvent(Key(oldRow)), UpsertEvent(Key(after), whole, {})>>
            ELSE Error
      BY <1>1, <1>6, <2>4, <2>5 DEF KeyChanged
    <2>8. CASE U = {}
      <3>1. after = new
        BY <1>3, <2>2, <2>8
      <3>2. whole = [c \in Columns |-> new[c]]
        BY <2>2, <2>8, <3>1 DEF whole
      <3>3. whole = new
        BY <3>2, RowIs
      <3> QED
        BY <1>6, <2>2, <2>4, <2>7, <2>8, <3>3
    <2>9. CASE U # {}
      BY <1>6, <2>2, <2>6, <2>7, <2>9
    <2> QED
      BY <2>8, <2>9
  <1>7. CASE mode # "f" /\ On(old, K) = On(new, K)
    <2>1. oldRow = NoTuple
      BY <1>2, <1>7, OldDecoded DEF oldRow, OldTuple
    <2>2. after = On(new, Columns \ U) /\ leftOut = U
      <3>1. DOMAIN oldRow \cap Toast = {}
        BY <1>3, <2>1
      <3> QED
        BY <3>1, NewDecodedPartly DEF after, leftOut
    <2>3. K \subseteq Columns \ U
      BY <1>2, <1>4
    <2>4. HasKey(after) /\ Key(after) = On(new, K)
      BY <1>2, <2>2, <2>3, RowHasKey
    <2> QED
      BY <1>1, <1>7, <2>1, <2>2, <2>4
  <1> QED
    BY <1>5, <1>6, <1>7

-----------------------------------------------------------------------------
(***************************************************************************)
(* The destination.                                                        *)
(***************************************************************************)
(* An upsert of a whole row replaces the row with its key.                 *)
LEMMA WholeUpsert ==
    ASSUME Agreed, KeyColumns # {}, NEW rows, NEW r \in Rows,
           Admits(rows \ Addressed(rows, On(r, KeyColumns)), r)
    PROVE  ApplyEvent(rows, UpsertEvent(On(r, KeyColumns), r, {})) =
               (rows \ Addressed(rows, On(r, KeyColumns))) \cup {r}
  <1> DEFINE e    == UpsertEvent(On(r, KeyColumns), r, {})
             hit  == Addressed(rows, IF e.unchanged = {} THEN On(e.after, DOMAIN e.key) ELSE e.key)
             base == IF hit = {} THEN [c \in Columns |-> Null] ELSE CHOOSE s \in hit : TRUE
             row  == [c \in Columns |-> IF c \in DOMAIN e.after THEN e.after[c] ELSE base[c]]
  <1>1. /\ e.op = "upsert" /\ e.unchanged = {} /\ e.after = r
        /\ e.key = On(r, KeyColumns) /\ DOMAIN e.key = KeyColumns
    BY DEF UpsertEvent, On, Restrict
  <1>2. KeyColumns \in keys
    BY TheKey
  <1>3. Fits(rows \ hit, row) => ApplyEvent(rows, e) = (rows \ hit) \cup {row}
    BY <1>1, <1>2 DEF ApplyEvent, Upsert
  <1> HIDE DEF e
  <1>4. hit = Addressed(rows, On(r, KeyColumns))
    BY <1>1
  <1> HIDE DEF hit, base
  <1>5. row = [c \in Columns |-> r[c]]
    BY <1>1, RowIs
  <1>6. row = r
    BY <1>5, RowIs
  <1> HIDE DEF row
  <1>7. Fits(rows \ hit, row)
    BY <1>4, <1>6, AdmittedFits
  <1> QED
    BY <1>3, <1>4, <1>6, <1>7 DEF e

(* An update that preserves columns leaves them as they were in the row it *)
(* addresses.                                                              *)
LEMMA PreservingUpdate ==
    ASSUME Agreed, KeyColumns # {}, NEW rows, NEW old \in Rows, NEW new \in Rows,
           On(old, KeyColumns) = On(new, KeyColumns),
           Addressed(rows, On(old, KeyColumns)) = {old}, Admits(rows \ {old}, new),
           NEW U \in SUBSET MayBeUnchanged(old, new)
    PROVE  ApplyEvent(rows, UpsertEvent(On(new, KeyColumns), On(new, Columns \ U), U)) =
               (rows \ {old}) \cup {new}
  <1> DEFINE e    == UpsertEvent(On(new, KeyColumns), On(new, Columns \ U), U)
             hit  == Addressed(rows, IF e.unchanged = {} THEN On(e.after, DOMAIN e.key) ELSE e.key)
             base == IF hit = {} THEN [c \in Columns |-> Null] ELSE CHOOSE s \in hit : TRUE
             row  == [c \in Columns |-> IF c \in DOMAIN e.after THEN e.after[c] ELSE base[c]]
  <1>1. /\ e.op = "upsert" /\ e.unchanged = U /\ e.after = On(new, Columns \ U)
        /\ e.key = On(new, KeyColumns) /\ DOMAIN e.key = KeyColumns
        /\ DOMAIN e.after = Columns \ U /\ \A c \in Columns \ U : e.after[c] = new[c]
    BY DEF UpsertEvent, On, Restrict
  <1>2. /\ KeyColumns \in keys /\ KeyColumns \cap Toast = {} /\ KeyColumns \subseteq Columns
        /\ U \subseteq Toast /\ \A c \in U : old[c] = new[c]
    BY TheKey DEF MayBeUnchanged
  <1>3. Fits(rows \ hit, row) => ApplyEvent(rows, e) = (rows \ hit) \cup {row}
    BY <1>1, <1>2 DEF ApplyEvent, Upsert
  <1>4. On(On(new, Columns \ U), KeyColumns) = On(new, KeyColumns)
    <2>1. KeyColumns \in SUBSET (Columns \ U)
      BY <1>2
    <2> QED
      BY <2>1, OnOn
  <1> HIDE DEF e
  <1>5. hit = {old}
    BY <1>1, <1>4
  <1> HIDE DEF hit
  <1>6. base = old
    BY <1>5
  <1> HIDE DEF base
  <1>7. row = [c \in Columns |-> new[c]]
    BY <1>1, <1>2, <1>6
  <1>8. row = new
    BY <1>7, RowIs
  <1> HIDE DEF row
  <1>9. Fits(rows \ hit, row)
    BY <1>5, <1>8, AdmittedFits
  <1> QED
    BY <1>3, <1>5, <1>8, <1>9 DEF e

(* A delete takes out the row that it addresses.                           *)
LEMMA KeyedDelete ==
    ASSUME NEW rows, NEW key
    PROVE  ApplyEvent(rows, DeleteEvent(key)) = rows \ Addressed(rows, key)
  BY DEF ApplyEvent, DeleteEvent

-----------------------------------------------------------------------------
(***************************************************************************)
(* The statements of the source, carried through the pipeline.             *)
(***************************************************************************)
(* One event, two events, or an error.                                     *)
LEMMA CarryIs ==
    /\ \A e : Carry(<<e>>) => dest' = ApplyEvent(dest, e) /\ reader' = reader
    /\ \A e, f : Carry(<<e, f>>) => /\ dest' = ApplyEvent(ApplyEvent(dest, e), f)
                                    /\ reader' = reader
    /\ Carry(Error) => reader' = "stopped"
  <1>1. \A e : <<e>> # Error /\ Len(<<e>>) = 1 /\ <<e>>[1] = e
    BY DEF Error
  <1>2. \A e, f : <<e, f>> # Error /\ Len(<<e, f>>) = 2 /\ <<e, f>>[1] = e /\ <<e, f>>[2] = f
    BY DEF Error
  <1>3. \A e : Carry(<<e>>) => dest' = ApplyEvent(dest, e) /\ reader' = reader
    BY <1>1 DEF Carry
  <1>4. \A e, f : Carry(<<e, f>>) => /\ dest' = ApplyEvent(ApplyEvent(dest, e), f)
                                     /\ reader' = reader
    BY <1>2 DEF Carry
  <1> QED
    BY <1>3, <1>4 DEF Carry

(* A step that keeps the key is mirrored, or stops the reader, which FULL  *)
(* never does.                                                             *)
Carried ==
    /\ KeyColumns = {} => reader' = "stopped"
    /\ KeyColumns # {} => \/ reader' = reader /\ dest' = source'
                          \/ reader' = "stopped" /\ mode # "f"

(* INSERT.                                                                 *)
LEMMA InsertCarried ==
    ASSUME Agreed, dest = source, NEW r \in Rows, Insert(r)
    PROVE  Carried
  <1>1. Admits(source, r) /\ source' = source \cup {r} /\ Carry(HandleInsert(r))
    BY DEF Insert
  <1>2. CASE KeyColumns = {}
    BY <1>1, <1>2, NoKeyNoEvents, CarryIs DEF Carried
  <1>3. CASE KeyColumns # {}
    <2>1. HandleInsert(r) = <<UpsertEvent(On(r, KeyColumns), r, {})>>
      BY <1>3, InsertAndDeleteEvents
    <2>2. reader' = reader /\ dest' = ApplyEvent(source, UpsertEvent(On(r, KeyColumns), r, {}))
      BY <1>1, <2>1, CarryIs
    <2>3. Addressed(source, On(r, KeyColumns)) = {} /\ source \ {} = source
      BY <1>1, <1>3, AddressesNone
    <2>4. dest' = source \cup {r}
      BY <1>1, <1>3, <2>2, <2>3, WholeUpsert
    <2> QED
      BY <1>1, <1>3, <2>2, <2>4 DEF Carried
  <1> QED
    BY <1>2, <1>3

(* DELETE.                                                                 *)
LEMMA DeleteCarried ==
    ASSUME Agreed, dest = source, source \subseteq Rows, Keyed(source),
           NEW old \in source, Delete(old)
    PROVE  Carried
  <1>1. source' = source \ {old} /\ Carry(HandleDelete(old)) /\ old \in Rows
    BY DEF Delete
  <1>2. CASE KeyColumns = {}
    BY <1>1, <1>2, NoKeyNoEvents, CarryIs DEF Carried
  <1>3. CASE KeyColumns # {}
    <2>1. HandleDelete(old) = <<DeleteEvent(On(old, KeyColumns))>>
      BY <1>1, <1>3, InsertAndDeleteEvents
    <2>2. reader' = reader /\ dest' = ApplyEvent(source, DeleteEvent(On(old, KeyColumns)))
      BY <1>1, <2>1, CarryIs
    <2>3. dest' = source \ {old}
      BY <1>3, <2>2, KeyedDelete, AddressesOne
    <2> QED
      BY <1>1, <1>3, <2>2, <2>3 DEF Carried
  <1> QED
    BY <1>2, <1>3

(* UPDATE.                                                                 *)
LEMMA UpdateCarried ==
    ASSUME Agreed, dest = source, source \subseteq Rows, Keyed(source),
           NEW old \in source, NEW new \in Rows, Update(old, new)
    PROVE  Carried
  <1>1. /\ Admits(source \ {old}, new) /\ source' = (source \ {old}) \cup {new}
        /\ old \in Rows
    BY DEF Update
  <1>2. PICK U \in SUBSET MayBeUnchanged(old, new) : Carry(HandleUpdate(old, new, U))
    BY DEF Update
  <1>3. CASE KeyColumns = {}
    BY <1>2, <1>3, NoKeyNoEvents, CarryIs DEF Carried
  <1>4. CASE KeyColumns # {} /\ On(old, KeyColumns) # On(new, KeyColumns)
    <2> DEFINE d == DeleteEvent(On(old, KeyColumns))
               u == UpsertEvent(On(new, KeyColumns), new, {})
    <2>1. HandleUpdate(old, new, U) = IF mode = "f" \/ U = {} THEN <<d, u>> ELSE Error
      BY <1>1, <1>4, UpdateEvents
    <2>2. ApplyEvent(source, d) = source \ {old}
      BY <1>4, KeyedDelete, AddressesOne
    <2>3. ApplyEvent(source \ {old}, u) = (source \ {old}) \cup {new}
      <3> DEFINE rest == source \ {old}
      <3>1. Admits(rest, new)
        BY <1>1
      <3> HIDE DEF rest
      <3>2. Addressed(rest, On(new, KeyColumns)) = {} /\ rest \ {} = rest
        BY <1>4, <3>1, AddressesNone
      <3>3. ApplyEvent(rest, u) = rest \cup {new}
        BY <1>4, <3>1, <3>2, WholeUpsert
      <3> QED
        BY <3>3 DEF rest
    <2> HIDE DEF d, u
    <2>4. CASE mode = "f" \/ U = {}
      <3>1. reader' = reader /\ dest' = ApplyEvent(ApplyEvent(source, d), u)
        BY <1>2, <2>1, <2>4, CarryIs
      <3> QED
        BY <1>1, <1>4, <2>2, <2>3, <3>1 DEF Carried
    <2>5. CASE mode # "f" /\ U # {}
      <3>1. reader' = "stopped"
        BY <1>2, <2>1, <2>5, CarryIs
      <3> QED
        BY <1>4, <2>5, <3>1 DEF Carried
    <2> QED
      BY <2>4, <2>5
  <1>5. CASE KeyColumns # {} /\ On(old, KeyColumns) = On(new, KeyColumns)
    <2> DEFINE u == UpsertEvent(On(new, KeyColumns), new, {})
               p == UpsertEvent(On(new, KeyColumns), On(new, Columns \ U), U)
    <2>1. HandleUpdate(old, new, U) = IF mode = "f" THEN <<u>> ELSE <<p>>
      BY <1>1, <1>5, UpdateEvents
    <2>2. Addressed(source, On(old, KeyColumns)) = {old}
      BY <1>5, AddressesOne
    <2>3. ApplyEvent(source, u) = (source \ {old}) \cup {new}
      BY <1>1, <1>5, <2>2, WholeUpsert
    <2>4. ApplyEvent(source, p) = (source \ {old}) \cup {new}
      BY <1>1, <1>5, <2>2, PreservingUpdate
    <2> HIDE DEF u, p
    <2>5. reader' = reader /\ (dest' = ApplyEvent(source, u) \/ dest' = ApplyEvent(source, p))
      BY <1>2, <2>1, CarryIs
    <2> QED
      BY <1>1, <1>5, <2>3, <2>4, <2>5 DEF Carried
  <1> QED
    BY <1>3, <1>4, <1>5

-----------------------------------------------------------------------------
(***************************************************************************)
(* The invariant.                                                          *)
(***************************************************************************)
(* Empty tables satisfy it.                                                *)
LEMMA InitInv == Init => IInv
  BY DEF Init, IInv, Types, BootInv, KeyInv, DataMirrored, FullNeverStops, Keyed

(* A row change that is carried keeps it.                                  *)
LEMMA CarriedKeeps ==
    ASSUME IInv, reader = "running", UNCHANGED config, Types',
           reader' \in {reader, "stopped"}, Agreed => Carried
    PROVE  IInv'
  <1> USE DEF IInv, config
  <1>1. BootInv' /\ KeyInv'
    BY DEF BootInv, KeyInv, Discovered
  <1>2. DataMirrored'
    <2>1. KeyColumns' = KeyColumns
      BY DEF KeyColumns, Flags, Discovered
    <2> QED
      BY <2>1 DEF DataMirrored, Agreed, Carried, Types
  <1>3. ASSUME mode = "f", ~late
        PROVE  reader' # "stopped"
    <2>1. Agreed /\ KeyColumns # {}
      BY <1>3 DEF Agreed, Types, KeyInv, KeyColumns, Discovered, DestinationKeys
    <2> QED
      BY <1>3, <2>1 DEF Carried
  <1>4. FullNeverStops'
    BY <1>3 DEF FullNeverStops
  <1> QED
    BY <1>1, <1>2, <1>4

(* The invariant is inductive.                                             *)
LEMMA StepInv == IInv /\ [Next]_vars => IInv'
  <1> SUFFICES ASSUME IInv, [Next]_vars PROVE IInv'
    OBVIOUS
  <1>0. /\ source \subseteq Rows /\ Keyed(source) /\ Types
        /\ reader = "running" /\ Agreed => dest = source
    BY DEF IInv, Types, DataMirrored, Agreed
  <1>1. ASSUME NEW r \in Rows, Insert(r)
        PROVE  IInv'
    <2>1. reader = "running" /\ UNCHANGED config /\ reader' \in {reader, "stopped"}
      BY <1>1 DEF Insert, Carry
    <2>2. Types'
      <3>1. source' \subseteq Rows /\ Keyed(source')
        BY <1>0, <1>1, KeyedKept DEF Insert
      <3> QED
        BY <1>0, <2>1, <3>1 DEF Types, config, Keyed
    <2>3. Agreed => Carried
      BY <1>0, <1>1, <2>1, InsertCarried
    <2> QED
      BY <2>1, <2>2, <2>3, CarriedKeeps
  <1>2. ASSUME NEW old \in source, NEW new \in Rows, Update(old, new)
        PROVE  IInv'
    <2>1. reader = "running" /\ UNCHANGED config /\ reader' \in {reader, "stopped"}
      BY <1>2 DEF Update, Carry
    <2>2. Types'
      <3>1. Keyed(source \ {old}) /\ Admits(source \ {old}, new)
        BY <1>0, <1>2, KeyedKept DEF Update
      <3>2. source' \subseteq Rows /\ Keyed(source')
        BY <1>0, <1>2, <3>1, KeyedKept DEF Update
      <3> QED
        BY <1>0, <2>1, <3>2 DEF Types, config, Keyed
    <2>3. Agreed => Carried
      BY <1>0, <1>2, <2>1, UpdateCarried
    <2> QED
      BY <2>1, <2>2, <2>3, CarriedKeeps
  <1>3. ASSUME NEW old \in source, Delete(old)
        PROVE  IInv'
    <2>1. reader = "running" /\ UNCHANGED config /\ reader' \in {reader, "stopped"}
      BY <1>3 DEF Delete, Carry
    <2>2. Types'
      <3>1. source' \subseteq Rows /\ Keyed(source')
        BY <1>0, <1>3, KeyedKept DEF Delete
      <3> QED
        BY <1>0, <2>1, <3>1 DEF Types, config, Keyed
    <2>3. Agreed => Carried
      BY <1>0, <1>3, <2>1, DeleteCarried
    <2> QED
      BY <2>1, <2>2, <2>3, CarriedKeeps
  <1>4. CASE Truncate
    BY <1>4 DEF Truncate, config, IInv, Types, BootInv, KeyInv, DataMirrored, FullNeverStops,
                Keyed, Discovered
  <1>5. CASE Boot
    BY <1>5 DEF Boot, config, IInv, Types, BootInv, KeyInv, DataMirrored, FullNeverStops,
                Keyed, Discovered
  <1>6. CASE Stopped \/ UNCHANGED vars
    BY <1>6 DEF Stopped, vars, IInv, Types, BootInv, KeyInv, DataMirrored, FullNeverStops,
                Keyed, KeyColumns, Flags, Discovered
  <1> QED
    BY <1>1, <1>2, <1>3, <1>4, <1>5, <1>6 DEF Next

(* The invariant holds of every reachable state.                           *)
THEOREM TuplesInvariance == Spec => []IInv
  BY InitInv, StepInv, PTL DEF Spec

(* Decoder and applier together mirror a table of any shape: whatever the  *)
(* columns, the replica identity, the key columns that change and the      *)
(* TOAST values that are left out, the destination table is the source     *)
(* table after every statement that the decoder accepts, provided that the *)
(* key the decoder uses is a unique key of the destination table.          *)
THEOREM TuplesMirrored == Spec => []DataMirrored
  <1>1. IInv => DataMirrored
    BY DEF IInv
  <1> QED
    BY <1>1, TuplesInvariance, PTL

(* The decoder's advice holds: under REPLICA IDENTITY FULL no row change   *)
(* of a discovered table stops the reader.                                 *)
THEOREM TuplesFullNeverStops == Spec => []FullNeverStops
  <1>1. IInv => FullNeverStops
    BY DEF IInv
  <1> QED
    BY <1>1, TuplesInvariance, PTL
=============================================================================
