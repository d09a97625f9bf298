------------------------------- MODULE Table -------------------------------
(***************************************************************************)
(* The attribute table of src/table/table.cc: the schema built by          *)
(* CreateTable/AddField, the key -> docid map item_to_docid_, the          *)
(* fixed-width records of the storage manager and last_docid_, under Add,  *)
(* BatchAdd, Update, Delete, a process restart and Load.                   *)
(*                                                                         *)
(* Data abstraction: a record is its _id key and one value standing for    *)
(* the other fields; keys and values are model values.  The docid a        *)
(* caller passes to Add and BatchAdd is the number of stored records (the  *)
(* engine's max_docid).  item_to_docid_ is a cuckoo hash map whose insert  *)
(* keeps an existing entry; a record whose _id is empty is not given back  *)
(* a key by Load.                                                          *)
(***************************************************************************)
EXTENDS Integers, Sequences, FiniteSets, Functions

CONSTANTS
    FieldNames,   \* names a schema may use
    IdField,      \* "_id"
    Keys,         \* document keys
    NoKey,        \* the empty _id
    Vals,         \* values of the other fields
    MaxDocs,      \* bound: records in the store
    MaxBatch,     \* bound: documents in one BatchAdd
    MaxCrashes    \* bound: restarts in one behaviour

None == -1        \* no docid: the key is not in item_to_docid_

ASSUME TableAssumption ==
    /\ IdField \in FieldNames
    /\ NoKey \notin Keys
    /\ MaxDocs \in Nat /\ MaxBatch \in Nat /\ MaxCrashes \in Nat

VARIABLES
    attrs,        \* field names in field_num_ order (attr_idx_map_)
    created,      \* table_created_
    storageOk,    \* storage_mgr_->Init succeeded
    keymap,       \* item_to_docid_: key -> docid or None
    records,      \* the storage manager's records; docid d is records[d + 1]
    lastDocid,    \* last_docid_
    up,           \* FALSE between a crash and the end of Load
    savedMap,     \* history: item_to_docid_ when the process last went down
    crashesLeft   \* budget of restarts

vars == <<attrs, created, storageOk, keymap, records, lastDocid, up, savedMap,
          crashesLeft>>

Record == [key : Keys \cup {NoKey}, val : Vals]
EmptyMap == [k \in Keys |-> None]

(* item_to_docid_.insert(k, d): a key already present keeps its docid. *)
Insert(m, k, d) == IF m[k] = None THEN [m EXCEPT ![k] = d] ELSE m

-----------------------------------------------------------------------------
(* CreateTable, lines 94-150, with AddField, lines 169-191: fields are     *)
(* added in order until one is a duplicate; the table counts as created    *)
(* once every field is in and _id is among them, before the storage        *)
(* manager's Init, whose failure is returned to the caller.                 *)

(* The position of the first field AddField refuses, or Len(fs) + 1. *)
FirstDup(fs) ==
    LET dups == {i \in 1 .. Len(fs) :
                    \/ fs[i] \in Range(attrs)
                    \/ \E j \in 1 .. i - 1 : fs[j] = fs[i]}
    IN IF dups = {} THEN Len(fs) + 1 ELSE CHOOSE i \in dups : \A j \in dups : i <= j

CreateTable(fs, initOk) ==
    /\ ~created
    /\ LET added == SubSeq(fs, 1, FirstDup(fs) - 1)
           ok == FirstDup(fs) = Len(fs) + 1 /\ IdField \in Range(attrs \o added)
       IN /\ attrs' = attrs \o added
          /\ created' = ok
          /\ storageOk' = (ok /\ initOk)
    /\ UNCHANGED <<keymap, records, lastDocid, up, savedMap, crashesLeft>>

(* Add, lines 210-273: insert the key, append the record, last_docid_ is   *)
(* the docid.  An empty _id returns -3 before anything changes.            *)
Add(key, val) ==
    /\ up /\ created /\ storageOk
    /\ Len(records) < MaxDocs
    /\ key # NoKey
    /\ keymap' = Insert(keymap, key, Len(records))
    /\ records' = Append(records, [key |-> key, val |-> val])
    /\ lastDocid' = Len(records)
    /\ UNCHANGED <<attrs, created, storageOk, up, savedMap, crashesLeft>>

(* Mutant: the parallel loop inserts docid + i + 1, as the second loop's   *)
(* records are counted from 1.                                             *)
BatchAddIdPastRecord(docs) ==
    /\ up /\ created /\ storageOk
    /\ Len(records) + Len(docs) <= MaxDocs
    /\ LET docid == Len(records)
           batchKeys == {docs[i].key : i \in 1 .. Len(docs)} \ {NoKey}
       IN /\ \E winner \in [batchKeys -> 1 .. Len(docs)] :
                /\ \A k \in batchKeys : docs[winner[k]].key = k
                /\ keymap' = [k \in Keys |->
                                IF k \in batchKeys /\ keymap[k] = None
                                THEN docid + winner[k] ELSE keymap[k]]
          /\ records' = records \o docs
          /\ lastDocid' = docid + Len(docs)
    /\ UNCHANGED <<attrs, created, storageOk, up, savedMap, crashesLeft>>

(* BatchAdd, lines 275-358: the parallel loop inserts every non-empty key  *)
(* with docid + i (when a key occurs twice in the batch the thread that    *)
(* inserts first wins); the second loop appends every record, empty _id    *)
(* included; last_docid_ becomes docid + batch_size.                       *)
BatchAdd(docs) ==
    /\ up /\ created /\ storageOk
    /\ Len(records) + Len(docs) <= MaxDocs
    /\ LET docid == Len(records)
           batchKeys == {docs[i].key : i \in 1 .. Len(docs)} \ {NoKey}
       IN /\ \E winner \in [batchKeys -> 1 .. Len(docs)] :
                /\ \A k \in batchKeys : docs[winner[k]].key = k
                /\ keymap' = [k \in Keys |->
                                IF k \in batchKeys /\ keymap[k] = None
                                THEN docid + winner[k] - 1 ELSE keymap[k]]
          /\ records' = records \o docs
          /\ lastDocid' = docid + Len(docs)
    /\ UNCHANGED <<attrs, created, storageOk, up, savedMap, crashesLeft>>

(* Update, lines 360-403: rewrite the fields of a stored record. *)
Update(docid, val) ==
    /\ up /\ created /\ storageOk
    /\ docid \in 0 .. Len(records) - 1
    /\ records' = [records EXCEPT ![docid + 1].val = val]
    /\ UNCHANGED <<attrs, created, storageOk, keymap, lastDocid, up, savedMap,
                   crashesLeft>>

(* Delete, lines 405-416: erase the key from item_to_docid_ only. *)
Delete(key) ==
    /\ up /\ created /\ storageOk
    /\ keymap' = [keymap EXCEPT ![key] = None]
    /\ UNCHANGED <<attrs, created, storageOk, records, lastDocid, up, savedMap,
                   crashesLeft>>

(* The process stops: everything in memory is lost, the stored records     *)
(* stay.  A new Table is constructed (lines 26-40).  After a failed        *)
(* storage Init no call of the table is modelled: what the storage         *)
(* manager does then is outside this code, so the model stops there.       *)
Crash ==
    /\ up
    /\ crashesLeft > 0
    /\ crashesLeft' = crashesLeft - 1
    /\ savedMap' = keymap
    /\ up' = FALSE
    /\ attrs' = << >>
    /\ created' = FALSE
    /\ storageOk' = FALSE
    /\ keymap' = EmptyMap
    /\ lastDocid' = -1
    /\ UNCHANGED records

(* Load, lines 51-85: truncate the store to the num documents the engine   *)
(* recovered and re-insert the _id of each record in docid order.  The     *)
(* "_id not found" return cannot happen once CreateTable has succeeded.    *)
(* The docids below num whose stored _id is k. *)
KeyDocs(k, num) == {d \in 0 .. num - 1 : records[d + 1].key = k}

Load(num) ==
    /\ ~up /\ created /\ storageOk
    /\ num \in 0 .. Len(records)
    /\ records' = SubSeq(records, 1, num)
    /\ keymap' = [k \in Keys |->
                    IF keymap[k] # None \/ KeyDocs(k, num) = {} THEN keymap[k]
                    ELSE CHOOSE d \in KeyDocs(k, num) :
                            \A e \in KeyDocs(k, num) : d <= e]
    /\ lastDocid' = num - 1
    /\ up' = TRUE
    /\ UNCHANGED <<attrs, created, storageOk, savedMap, crashesLeft>>

-----------------------------------------------------------------------------
Init ==
    /\ attrs = << >>
    /\ created = FALSE
    /\ storageOk = FALSE
    /\ keymap = EmptyMap
    /\ records = << >>
    /\ lastDocid = -1
    /\ up = TRUE
    /\ savedMap = EmptyMap
    /\ crashesLeft = MaxCrashes

(* Schemas and batches the callers pass: short sequences of names and of   *)
(* documents.                                                              *)
Schemas == UNION {[1 .. n -> FieldNames] : n \in 1 .. 2}
Batches == UNION {[1 .. n -> Record] : n \in 1 .. MaxBatch}

Next ==
    \/ \E fs \in Schemas, ok \in BOOLEAN : CreateTable(fs, ok)
    \/ \E k \in Keys, v \in Vals : Add(k, v)
    \/ \E docs \in Batches : BatchAdd(docs)
    \/ \E d \in 0 .. MaxDocs - 1, v \in Vals : Update(d, v)
    \/ \E k \in Keys : Delete(k)
    \/ Crash
    \/ \E n \in 0 .. MaxDocs : Load(n)

Spec == Init /\ [][Next]_vars

-----------------------------------------------------------------------------
(* Properties.                                                             *)

TypeOK ==
    /\ attrs \in Seq(FieldNames)
    /\ created \in BOOLEAN /\ storageOk \in BOOLEAN /\ up \in BOOLEAN
    /\ keymap \in [Keys -> Nat \cup {None}]
    /\ savedMap \in [Keys -> Nat \cup {None}]
    /\ records \in Seq(Record) /\ Len(records) <= MaxDocs
    /\ lastDocid \in Int
    /\ crashesLeft \in 0 .. MaxCrashes

(* GetDocIDByKey followed by GetDocInfo reads the record of that key:      *)
(* every docid in item_to_docid_ names a stored record whose _id is the    *)
(* key, through Add, the racing inserts of BatchAdd, Delete and Load.      *)
KeyMapSound ==
    \A k \in Keys :
        keymap[k] # None =>
            /\ keymap[k] < Len(records)
            /\ records[keymap[k] + 1].key = k

(* GetDocInfo's guard (line 438) admits exactly the stored docids: every   *)
(* docid up to last_docid_ has a record.                                   *)
LastDocidStored == lastDocid < Len(records)

(* A restart that keeps every record gives back the key map the process    *)
(* had: Load resolves each key as GetDocIDByKey did before the crash.      *)
KeyMapSurvivesRestart ==
    [][~up /\ up' /\ Len(records') = Len(records) => keymap' = savedMap]_vars

=============================================================================
