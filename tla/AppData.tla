------------------------------- MODULE AppData -------------------------------
(***************************************************************************)
(* What a jam keeps on the platform: its records, and a person's keys      *)
(* (services/data-service.ts, services/storage-service.ts).                *)
(***************************************************************************)
EXTENDS Calls

CONSTANTS
    Fields,         \* the top-level fields of a record
    RecordsMax,     \* RECORDS_MAX_PER_APP
    KeysMax,        \* STORAGE_MAX_KEYS
    ListMax         \* LIST_MAX

VARIABLES
    records,        \* id -> its owner, when it was created, and the call that
                    \* wrote each field
    storage         \* the pairs of a user and a key that have a value

ASSUME AppDataAssumption ==
    /\ RecordsMax \in Nat /\ KeysMax \in Nat /\ ListMax \in Nat
    /\ \A op \in Ops : op.name = "update" => op.field \in Fields
    /\ \A op \in Ops : op.name = "list" => op.orderBy \in Fields \cup {"createdAt"}

appDataVars == <<records, storage>>

AppDataInit == records = <<>> /\ storage = {}

(* createdAt: how many passed the limit before.                            *)
Stamp == Cardinality({d \in The("insert") : call[d].saw # Null})

(* A limit that admits one record too many.                                *)
InsertCountsOneMore(c) ==
    /\ At(c, "insert", "begin")
    /\ \/ Cardinality(DOMAIN records) > RecordsMax /\ Returns(c, "QUOTA_EXCEEDED")
       \/ Cardinality(DOMAIN records) <= RecordsMax /\ Awaits(c, "row", Stamp)
    /\ UNCHANGED appDataVars

(* insert: the records are counted in one await, the row added in another. *)
InsertCounts(c) ==
    /\ At(c, "insert", "begin")
    /\ \/ Cardinality(DOMAIN records) >= RecordsMax /\ Returns(c, "QUOTA_EXCEEDED")
       \/ Cardinality(DOMAIN records) < RecordsMax /\ Awaits(c, "row", Stamp)
    /\ UNCHANGED appDataVars

(* The identifier is generated: no row has it.                             *)
InsertAdds(c) ==
    /\ At(c, "insert", "row") /\ Returns(c, "ok")
    /\ call[c].op.id \notin DOMAIN records
    /\ records' = [id \in DOMAIN records \cup {call[c].op.id} |->
          IF id = call[c].op.id
          THEN [by |-> call[c].op.by, createdAt |-> call[c].saw,
                data |-> [f \in Fields |-> c]]
          ELSE records[id]]
    /\ UNCHANGED storage

(* update and delete read the row first: it is there, and the caller's.    *)
ReadsOwn(c, step) ==
    LET id == call[c].op.id IN
    \/ id \notin DOMAIN records /\ Returns(c, "NOT_FOUND")
    \/ /\ id \in DOMAIN records /\ records[id].by # call[c].op.by
       /\ Returns(c, "FORBIDDEN")
    \/ /\ id \in DOMAIN records /\ records[id].by = call[c].op.by
       /\ Awaits(c, step, records[id].data)

UpdateReads(c) ==
    /\ At(c, "update", "begin") /\ ReadsOwn(c, "write") /\ UNCHANGED appDataVars

(* The patch instead of what it was merged with.                           *)
Patched(c) == [f \in Fields |-> IF f = call[c].op.field THEN c ELSE Null]

(* { ...row.data, ...patch }, of the row as it was read.                   *)
Merged(c) == [call[c].saw EXCEPT ![call[c].op.field] = c]

(* A row that is gone is returned as it was read.                          *)
UpdateWrites(c) ==
    /\ At(c, "update", "write") /\ Returns(c, "ok")
    /\ records' = IF call[c].op.id \in DOMAIN records
                  THEN [records EXCEPT ![call[c].op.id].data = Merged(c)] ELSE records
    /\ UNCHANGED storage

DeleteReads(c) ==
    /\ At(c, "delete", "begin") /\ ReadsOwn(c, "write") /\ UNCHANGED appDataVars

DeleteWrites(c) ==
    /\ At(c, "delete", "write") /\ Returns(c, "ok")
    /\ records' = [id \in DOMAIN records \ {call[c].op.id} |-> records[id]]
    /\ UNCHANGED storage

-----------------------------------------------------------------------------
(* The order of a listing, the highest first: by createdAt, or by a field, *)
(* whose values are the calls that wrote them.                             *)
Rank(id, orderBy) ==
    IF orderBy = "createdAt" THEN records[id].createdAt ELSE records[id].data[orderBy]

Position(id, orderBy) ==
    Cardinality({other \in DOMAIN records : Rank(other, orderBy) > Rank(id, orderBy)})

PageFrom(offset, orderBy) ==
    {id \in DOMAIN records : Position(id, orderBy) \in offset .. offset + ListMax - 1}

(* A cursor that counts the row that was only read to see if there is one. *)
PastTheOneMore(offset) == offset + ListMax + 1

NextOffset(offset) == offset + ListMax

(* list, called by a jam with the cursor of the page before until a page   *)
(* comes without one: a page is one await.                                 *)
ListPages(c) ==
    /\ IsA("list", c) /\ Running(c)
    /\ LET saw == IF call[c].at = "begin"
                  THEN [offset |-> 0, had |-> DOMAIN records, got |-> {}] ELSE call[c].saw
           got == saw.got \cup PageFrom(saw.offset, call[c].op.orderBy)
           next == NextOffset(saw.offset) IN
       IF Cardinality(DOMAIN records) > saw.offset + ListMax
       THEN Awaits(c, "page", [saw EXCEPT !.got = got, !.offset = next])
       ELSE Finds(c, [saw EXCEPT !.got = got])
    /\ UNCHANGED appDataVars

-----------------------------------------------------------------------------
KeysOf(user) == {k \in storage : k[1] = user}

(* set: whether the key is there; if not, how many there are; the upsert.  *)
SetLooks(c) ==
    /\ At(c, "set", "begin")
    /\ Awaits(c, IF <<call[c].op.by, call[c].op.key>> \in storage THEN "upsert"
                 ELSE "count", Null)
    /\ UNCHANGED appDataVars

SetCounts(c) ==
    /\ At(c, "set", "count")
    /\ LET kept == Cardinality(KeysOf(call[c].op.by)) IN
       \/ kept >= KeysMax /\ Returns(c, "QUOTA_EXCEEDED")
       \/ kept < KeysMax /\ Awaits(c, "upsert", Null)
    /\ UNCHANGED appDataVars

SetUpserts(c) ==
    /\ At(c, "set", "upsert") /\ Returns(c, "ok")
    /\ storage' = storage \cup {<<call[c].op.by, call[c].op.key>>}
    /\ UNCHANGED records

Unset(c) ==
    /\ At(c, "unset", "begin") /\ Returns(c, "ok")
    /\ storage' = storage \ {<<call[c].op.by, call[c].op.key>>}
    /\ UNCHANGED records

Clear(c) ==
    /\ At(c, "clear", "begin") /\ Returns(c, "ok")
    /\ storage' = storage \ KeysOf(call[c].op.by)
    /\ UNCHANGED records

AppDataStep(c) ==
    \/ InsertCounts(c) \/ InsertAdds(c) \/ UpdateReads(c) \/ UpdateWrites(c)
    \/ DeleteReads(c) \/ DeleteWrites(c) \/ ListPages(c)
    \/ SetLooks(c) \/ SetCounts(c) \/ SetUpserts(c) \/ Unset(c) \/ Clear(c)
=============================================================================
