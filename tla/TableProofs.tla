---------------------------- MODULE TableProofs ----------------------------
(***************************************************************************)
(* Proofs about Table: the key map item_to_docid_ is sound (every docid it *)
(* gives names a stored record of that key) in every reachable state, for  *)
(* every set of keys, values and field names and every bound.              *)
(*                                                                         *)
(* KeyMapSound alone is not inductive: Load keeps an entry already in the  *)
(* map, so it relies on the map being empty when Load runs, which holds    *)
(* because a restart (Crash) empties it and nothing but CreateTable runs   *)
(* before Load.                                                            *)
(***************************************************************************)
EXTENDS Table, WellFoundedInduction, SequenceTheorems, TLAPS

(* Between a restart and the end of Load, item_to_docid_ is the empty map  *)
(* of the new Table object.                                                *)
RestartClean == ~up => keymap = EmptyMap

TInv == TypeOK /\ KeyMapSound /\ RestartClean

-----------------------------------------------------------------------------
(* Every non-empty set of naturals has a least element: the CHOOSE of      *)
(* FirstDup and Load picks a member of its set.                            *)
LEMMA MinExists ==
    ASSUME NEW S \in SUBSET Nat, S # {}
    PROVE  \E m \in S : \A e \in S : m <= e
<1>1. IsWellFoundedOn(OpToRel(<, Nat), Nat)
  BY NatLessThanWellFounded
<1>2. PICK x \in S : \A y \in S : ~(<<y, x>> \in OpToRel(<, Nat))
  BY <1>1, WFMin
<1>3. \A y \in S : y < x => <<y, x>> \in OpToRel(<, Nat)
  BY Zenon DEF OpToRel
<1>4. \A y \in S : ~(y < x)
  BY <1>2, <1>3, Zenon
<1> QED BY <1>4

(* AddField stops at a position of the schema or just past it. *)
LEMMA FirstDupRange ==
    ASSUME NEW fs \in Seq(FieldNames)
    PROVE  FirstDup(fs) \in 1 .. Len(fs) + 1
<1> DEFINE dups == {i \in 1 .. Len(fs) :
                       \/ fs[i] \in Range(attrs)
                       \/ \E j \in 1 .. i - 1 : fs[j] = fs[i]}
<1>1. Len(fs) \in Nat
  BY LenProperties
<1>2. dups \in SUBSET Nat
  BY <1>1
<1>3. FirstDup(fs) = IF dups = {} THEN Len(fs) + 1
                    ELSE CHOOSE i \in dups : \A j \in dups : i <= j
  BY DEF FirstDup
<1>4. CASE dups = {}
  BY <1>1, <1>3, <1>4
<1>5. CASE dups # {}
  <2>1. \E m \in dups : \A e \in dups : m <= e
    BY <1>2, <1>5, MinExists, Zenon
  <2>2. (CHOOSE i \in dups : \A j \in dups : i <= j) \in dups
    BY Zenon, <2>1
  <2>3. FirstDup(fs) \in dups
    BY <1>3, <1>5, <2>2, Zenon
  <2> QED BY <1>1, <2>3
<1> QED BY <1>4, <1>5

(* The schemas and batches callers pass are sequences. *)
LEMMA SchemasSeq ==
    ASSUME NEW fs \in Schemas
    PROVE  fs \in Seq(FieldNames)
<1>1. PICK n \in 1 .. 2 : fs \in [1 .. n -> FieldNames]
  BY DEF Schemas
<1> QED BY <1>1, SeqDef

LEMMA BatchesSeq ==
    ASSUME NEW docs \in Batches
    PROVE  docs \in Seq(Record)
<1>1. PICK n \in 1 .. MaxBatch : docs \in [1 .. n -> Record]
  BY DEF Batches
<1> QED BY <1>1, SeqDef

-----------------------------------------------------------------------------
LEMMA InitTInv == Init => TInv
<1> SUFFICES ASSUME Init PROVE TInv
  OBVIOUS
<1>1. EmptyMap \in [Keys -> Nat \cup {None}]
  BY DEF EmptyMap
<1>2. << >> \in Seq(FieldNames) /\ << >> \in Seq(Record) /\ Len(<< >>) = 0
  BY EmptySeq
<1>3. created \in BOOLEAN /\ storageOk \in BOOLEAN /\ up \in BOOLEAN
  BY Zenon DEF Init
<1>4. crashesLeft \in 0 .. MaxCrashes /\ lastDocid \in Int
  BY TableAssumption DEF Init
<1>5. TypeOK
  BY <1>1, <1>2, <1>3, <1>4, TableAssumption DEF Init, TypeOK
<1>6. KeyMapSound /\ RestartClean
  BY DEF Init, KeyMapSound, RestartClean, EmptyMap
<1> QED BY <1>5, <1>6 DEF TInv

LEMMA CreateTableTInv ==
    ASSUME TInv, NEW fs \in Schemas, NEW ok \in BOOLEAN, CreateTable(fs, ok)
    PROVE  TInv'
<1>1. fs \in Seq(FieldNames)
  BY SchemasSeq
<1>2. FirstDup(fs) \in 1 .. Len(fs) + 1
  BY <1>1, FirstDupRange
<1>3. SubSeq(fs, 1, FirstDup(fs) - 1) \in Seq(FieldNames)
  BY <1>1, <1>2, SubSeqProperties, LenProperties
<1>0. /\ attrs' = attrs \o SubSeq(fs, 1, FirstDup(fs) - 1)
      /\ created' \in BOOLEAN /\ storageOk' \in BOOLEAN
      /\ UNCHANGED <<keymap, records, lastDocid, up, savedMap, crashesLeft>>
  BY Zenon DEF CreateTable
<1>4. attrs' \in Seq(FieldNames)
  BY <1>0, <1>3, ConcatProperties DEF TInv, TypeOK
<1> QED BY <1>0, <1>4 DEF TInv, TypeOK, KeyMapSound, RestartClean

LEMMA AddTInv ==
    ASSUME TInv, NEW key \in Keys, NEW val \in Vals, Add(key, val)
    PROVE  TInv'
<1> DEFINE rec == [key |-> key, val |-> val]
<1>0. /\ Len(records) < MaxDocs
      /\ keymap' = Insert(keymap, key, Len(records))
      /\ records' = Append(records, rec)
      /\ lastDocid' = Len(records)
      /\ up' = TRUE
      /\ UNCHANGED <<attrs, created, storageOk, savedMap, crashesLeft>>
  BY Zenon DEF Add
<1>1. rec \in Record
  BY DEF Record
<1>2. /\ records' \in Seq(Record)
      /\ Len(records') = Len(records) + 1
      /\ \A i \in 1 .. Len(records) : records'[i] = records[i]
      /\ records'[Len(records) + 1] = rec
  BY <1>0, <1>1, AppendProperties DEF TInv, TypeOK
<1>3. keymap' = IF keymap[key] = None THEN [keymap EXCEPT ![key] = Len(records)]
                                       ELSE keymap
  BY <1>0 DEF Insert
<1>4. TypeOK'
  <2>1. created' \in BOOLEAN /\ storageOk' \in BOOLEAN /\ up' \in BOOLEAN
    BY <1>0, Zenon DEF TInv, TypeOK
  <2>a. attrs' \in Seq(FieldNames)
    BY <1>0 DEF TInv, TypeOK
  <2>b. keymap' \in [Keys -> Nat \cup {None}]
    BY <1>0, <1>2, <1>3, LenProperties DEF TInv, TypeOK
  <2>c. savedMap' \in [Keys -> Nat \cup {None}]
    BY <1>0 DEF TInv, TypeOK
  <2>d. records' \in Seq(Record) /\ Len(records') <= MaxDocs
    BY <1>0, <1>2, TableAssumption, LenProperties DEF TInv, TypeOK
  <2>e. lastDocid' \in Int /\ crashesLeft' \in 0 .. MaxCrashes
    BY <1>0, <1>2, LenProperties DEF TInv, TypeOK
  <2> QED BY <2>1, <2>a, <2>b, <2>c, <2>d, <2>e DEF TypeOK
<1>5. KeyMapSound'
  <2> SUFFICES ASSUME NEW k \in Keys, keymap'[k] # None
               PROVE  /\ keymap'[k] < Len(records')
                      /\ records'[keymap'[k] + 1].key = k
    BY DEF KeyMapSound
  <2>0. Len(records) \in Nat
    BY LenProperties DEF TInv, TypeOK
  <2>1. CASE k = key /\ keymap[key] = None
    <3>1. keymap'[k] = Len(records)
      BY <1>3, <2>1 DEF TInv, TypeOK
    <3> QED BY <1>2, <2>0, <2>1, <3>1
  <2>2. CASE ~(k = key /\ keymap[key] = None)
    <3>1. keymap'[k] = keymap[k]
      BY <1>3, <2>2 DEF TInv, TypeOK
    <3>2. /\ keymap[k] \in Nat
          /\ keymap[k] < Len(records)
          /\ records[keymap[k] + 1].key = k
      BY <3>1 DEF TInv, TypeOK, KeyMapSound
    <3> QED BY <1>2, <2>0, <3>1, <3>2
  <2> QED BY <2>1, <2>2
<1>6. RestartClean'
  BY <1>0, Zenon DEF RestartClean
<1> QED BY <1>4, <1>5, <1>6 DEF TInv

LEMMA BatchAddTInv ==
    ASSUME TInv, NEW docs \in Batches, BatchAdd(docs)
    PROVE  TInv'
<1> DEFINE docid == Len(records)
           batchKeys == {docs[i].key : i \in 1 .. Len(docs)} \ {NoKey}
<1>0. /\ Len(records) + Len(docs) <= MaxDocs
      /\ \E winner \in [batchKeys -> 1 .. Len(docs)] :
            /\ \A k \in batchKeys : docs[winner[k]].key = k
            /\ keymap' = [k \in Keys |->
                            IF k \in batchKeys /\ keymap[k] = None
                            THEN docid + winner[k] - 1 ELSE keymap[k]]
      /\ records' = records \o docs
      /\ lastDocid' = docid + Len(docs)
      /\ up' = TRUE
      /\ UNCHANGED <<attrs, created, storageOk, savedMap, crashesLeft>>
  BY Zenon DEF BatchAdd
<1>1. docs \in Seq(Record)
  BY BatchesSeq
<1>2. /\ records' \in Seq(Record)
      /\ Len(records') = Len(records) + Len(docs)
      /\ \A i \in 1 .. Len(records) + Len(docs) :
            records'[i] = IF i <= Len(records) THEN records[i]
                          ELSE docs[i - Len(records)]
  BY <1>0, <1>1, ConcatProperties DEF TInv, TypeOK
<1>8. \A i \in 1 .. Len(docs) : records'[Len(records) + i] = docs[i]
  <2> SUFFICES ASSUME NEW i \in 1 .. Len(docs)
               PROVE  records'[Len(records) + i] = docs[i]
    OBVIOUS
  <2>1. Len(records) \in Nat /\ Len(docs) \in Nat
    BY <1>1, LenProperties DEF TInv, TypeOK
  <2>2. Len(records) + i \in 1 .. Len(records) + Len(docs)
        /\ ~(Len(records) + i <= Len(records))
        /\ Len(records) + i - Len(records) = i
    BY <2>1
  <2> QED BY <1>2, <2>2
<1>3. PICK winner \in [batchKeys -> 1 .. Len(docs)] :
          /\ \A k \in batchKeys : docs[winner[k]].key = k
          /\ keymap' = [k \in Keys |->
                          IF k \in batchKeys /\ keymap[k] = None
                          THEN docid + winner[k] - 1 ELSE keymap[k]]
  BY Zenon, <1>0
<1>4. docid \in Nat /\ Len(docs) \in Nat
  BY <1>1, LenProperties DEF TInv, TypeOK
<1>5. TypeOK'
  <2>1. created' \in BOOLEAN /\ storageOk' \in BOOLEAN /\ up' \in BOOLEAN
    BY <1>0, Zenon DEF TInv, TypeOK
  <2>2. keymap' \in [Keys -> Nat \cup {None}]
    <3>1. ASSUME NEW k \in Keys
          PROVE  (IF k \in batchKeys /\ keymap[k] = None
                  THEN docid + winner[k] - 1 ELSE keymap[k]) \in Nat \cup {None}
      <4>1. CASE k \in batchKeys
        BY <1>4, <4>1 DEF TInv, TypeOK
      <4>2. CASE k \notin batchKeys
        BY <4>2 DEF TInv, TypeOK
      <4> QED BY <4>1, <4>2
    <3> HIDE DEF batchKeys, docid
    <3> QED BY <1>3, <3>1
  <2>3. records' \in Seq(Record) /\ Len(records') <= MaxDocs
    BY <1>0, <1>2, TableAssumption
  <2>4. /\ attrs' \in Seq(FieldNames)
        /\ savedMap' \in [Keys -> Nat \cup {None}]
        /\ lastDocid' \in Int
        /\ crashesLeft' \in 0 .. MaxCrashes
    BY <1>0, <1>4 DEF TInv, TypeOK
  <2> QED BY <2>1, <2>2, <2>3, <2>4 DEF TypeOK
<1>6. KeyMapSound'
  <2> SUFFICES ASSUME NEW k \in Keys, keymap'[k] # None
               PROVE  /\ keymap'[k] < Len(records')
                      /\ records'[keymap'[k] + 1].key = k
    BY DEF KeyMapSound
  <2>1. CASE k \in batchKeys /\ keymap[k] = None
    <3>1. winner[k] \in 1 .. Len(docs) /\ keymap'[k] = docid + winner[k] - 1
      BY <1>3, <2>1
    <3>2. /\ docid + winner[k] \in 1 .. Len(records) + Len(docs)
          /\ ~(docid + winner[k] <= Len(records))
          /\ docid + winner[k] - Len(records) = winner[k]
      BY <1>4, <3>1
    <3>4. records'[docid + winner[k]] = docs[winner[k]]
      BY <1>8, <3>1
    <3>3. docs[winner[k]].key = k
      BY Zenon, <1>3, <2>1
    <3>5. keymap'[k] + 1 = docid + winner[k] /\ keymap'[k] < Len(records')
      BY <1>2, <1>4, <3>1
    <3>6. records'[keymap'[k] + 1] = docs[winner[k]]
      BY <3>4, <3>5
    <3> QED BY <3>3, <3>5, <3>6
  <2>2. CASE ~(k \in batchKeys /\ keymap[k] = None)
    <3>1. keymap'[k] = keymap[k]
      BY <1>3, <2>2
    <3>2. /\ keymap[k] \in Nat
          /\ keymap[k] < Len(records)
          /\ records[keymap[k] + 1].key = k
      BY <3>1 DEF TInv, TypeOK, KeyMapSound
    <3> QED BY <1>2, <1>4, <3>1, <3>2
  <2> QED BY <2>1, <2>2
<1>7. RestartClean'
  BY <1>0, Zenon DEF RestartClean
<1> QED BY <1>5, <1>6, <1>7 DEF TInv

LEMMA UpdateTInv ==
    ASSUME TInv, NEW docid \in 0 .. MaxDocs - 1, NEW val \in Vals,
           Update(docid, val)
    PROVE  TInv'
<1>0. /\ docid \in 0 .. Len(records) - 1
      /\ records' = [records EXCEPT ![docid + 1].val = val]
      /\ UNCHANGED <<attrs, created, storageOk, keymap, lastDocid, up, savedMap,
                     crashesLeft>>
  BY Zenon DEF Update
<1>1. records[docid + 1] \in Record
  BY <1>0, ElementOfSeq DEF TInv, TypeOK
<1>2. [records[docid + 1] EXCEPT !.val = val] \in Record
  BY <1>1 DEF Record
<1>3. /\ records' \in Seq(Record)
      /\ Len(records') = Len(records)
      /\ \A j \in 1 .. Len(records) : records'[j].key = records[j].key
  BY <1>0, <1>2, ExceptSeq DEF TInv, TypeOK
<1> QED BY <1>0, <1>3 DEF TInv, TypeOK, KeyMapSound, RestartClean

LEMMA DeleteTInv ==
    ASSUME TInv, NEW key \in Keys, Delete(key)
    PROVE  TInv'
<1>0. /\ keymap' = [keymap EXCEPT ![key] = None]
      /\ up' = TRUE
      /\ UNCHANGED <<attrs, created, storageOk, records, lastDocid, savedMap,
                     crashesLeft>>
  BY Zenon DEF Delete
<1>1. TypeOK' /\ KeyMapSound'
  BY <1>0 DEF TInv, TypeOK, KeyMapSound
<1>2. RestartClean'
  BY <1>0, Zenon DEF RestartClean
<1> QED BY <1>1, <1>2 DEF TInv

LEMMA CrashTInv ==
    ASSUME TInv, Crash
    PROVE  TInv'
<1>0. /\ crashesLeft > 0
      /\ crashesLeft' = crashesLeft - 1
      /\ savedMap' = keymap
      /\ up' = FALSE /\ created' = FALSE /\ storageOk' = FALSE
      /\ attrs' = << >>
      /\ keymap' = EmptyMap
      /\ lastDocid' = -1
      /\ UNCHANGED records
  BY Zenon DEF Crash
<1>1. EmptyMap \in [Keys -> Nat \cup {None}]
  BY DEF EmptyMap
<1>2. created' \in BOOLEAN /\ storageOk' \in BOOLEAN /\ up' \in BOOLEAN
  BY <1>0, Zenon
<1>3. << >> \in Seq(FieldNames)
  BY EmptySeq
<1>4. TypeOK'
  <2>0. crashesLeft \in 0 .. MaxCrashes
    BY DEF TInv, TypeOK
  <2>1. crashesLeft > 0 /\ crashesLeft' = crashesLeft - 1 /\ lastDocid' = -1
    BY Zenon DEF Crash
  <2>4. crashesLeft' \in 0 .. MaxCrashes /\ lastDocid' \in Int
    BY <2>0, <2>1, TableAssumption
  <2>2. /\ savedMap' \in [Keys -> Nat \cup {None}]
        /\ records' \in Seq(Record) /\ Len(records') <= MaxDocs
    BY <1>0 DEF TInv, TypeOK
  <2>3. attrs' \in Seq(FieldNames) /\ keymap' \in [Keys -> Nat \cup {None}]
    BY <1>0, <1>1, <1>3
  <2> QED BY <1>2, <2>4, <2>2, <2>3 DEF TypeOK
<1>5. KeyMapSound' /\ RestartClean'
  BY <1>0 DEF KeyMapSound, RestartClean, EmptyMap
<1> QED BY <1>4, <1>5 DEF TInv

LEMMA LoadTInv ==
    ASSUME TInv, NEW num \in 0 .. MaxDocs, Load(num)
    PROVE  TInv'
<1> DEFINE LoadedAt(k) ==
             IF keymap[k] # None \/ KeyDocs(k, num) = {} THEN keymap[k]
             ELSE CHOOSE d \in KeyDocs(k, num) : \A e \in KeyDocs(k, num) : d <= e
<1>0. /\ num \in 0 .. Len(records)
      /\ records' = SubSeq(records, 1, num)
      /\ keymap' = [k \in Keys |-> LoadedAt(k)]
      /\ lastDocid' = num - 1
      /\ up' = TRUE
      /\ UNCHANGED <<attrs, created, storageOk, savedMap, crashesLeft>>
  BY Zenon DEF Load
<1>1. keymap = EmptyMap
  <2>1. ~up
    BY Zenon DEF Load
  <2> QED BY <2>1, Zenon DEF TInv, RestartClean
<1>2. /\ records' \in Seq(Record)
      /\ Len(records') = num
      /\ \A i \in 1 .. num : records'[i] = records[i]
  BY <1>0, SubSeqProperties, ElementOfSeq, LenProperties DEF TInv, TypeOK
<1>3. ASSUME NEW k \in Keys
      PROVE  \/ LoadedAt(k) = None
             \/ /\ LoadedAt(k) \in 0 .. num - 1
                /\ records[LoadedAt(k) + 1].key = k
  <2>1. keymap[k] = None
    BY <1>1 DEF EmptyMap
  <2>2. CASE KeyDocs(k, num) = {}
    BY <2>1, <2>2
  <2>3. CASE KeyDocs(k, num) # {}
    <3>0. KeyDocs(k, num) \in SUBSET Nat
      BY DEF KeyDocs
    <3>1. \E m \in KeyDocs(k, num) : \A e \in KeyDocs(k, num) : m <= e
      BY <2>3, <3>0, MinExists, Zenon
    <3>2. LoadedAt(k) \in KeyDocs(k, num)
      BY <2>1, <2>3, <3>1
    <3> QED BY <3>2 DEF KeyDocs
  <2> QED BY <2>2, <2>3
<1> HIDE DEF LoadedAt
<1>4. keymap' \in [Keys -> Nat \cup {None}]
  BY <1>0, <1>3
<1>5. KeyMapSound'
  <2> SUFFICES ASSUME NEW k \in Keys, keymap'[k] # None
               PROVE  /\ keymap'[k] < Len(records')
                      /\ records'[keymap'[k] + 1].key = k
    BY DEF KeyMapSound
  <2>1. keymap'[k] = LoadedAt(k)
    BY <1>0
  <2> QED BY <1>2, <1>3, <2>1
<1>6. created' \in BOOLEAN /\ storageOk' \in BOOLEAN /\ up' \in BOOLEAN
  BY <1>0, Zenon DEF TInv, TypeOK
<1>7. TypeOK'
  <2>1. Len(records') <= MaxDocs
    BY <1>0, <1>2, LenProperties DEF TInv, TypeOK
  <2>2. /\ attrs' \in Seq(FieldNames)
        /\ savedMap' \in [Keys -> Nat \cup {None}]
        /\ lastDocid' \in Int
        /\ crashesLeft' \in 0 .. MaxCrashes
    BY <1>0 DEF TInv, TypeOK
  <2> QED BY <1>2, <1>4, <1>6, <2>1, <2>2 DEF TypeOK
<1>8. RestartClean'
  BY <1>0, Zenon DEF RestartClean
<1> QED BY <1>5, <1>7, <1>8 DEF TInv

LEMMA StutterTInv ==
    ASSUME TInv, UNCHANGED vars
    PROVE  TInv'
BY DEF vars, TInv, TypeOK, KeyMapSound, RestartClean, EmptyMap

LEMMA NextTInv == TInv /\ [Next]_vars => TInv'
BY CreateTableTInv, AddTInv, BatchAddTInv, UpdateTInv, DeleteTInv, CrashTInv,
   LoadTInv, StutterTInv DEF Next

-----------------------------------------------------------------------------
(* The table's type invariant, the key map's soundness and the empty map   *)
(* between a restart and Load hold in every reachable state.               *)
THEOREM TInvInvariant == Spec => []TInv
BY InitTInv, NextTInv, PTL DEF Spec

(* GetDocIDByKey followed by GetDocInfo reads the record of that key, for  *)
(* any interleaving of Add, BatchAdd's racing inserts, Update, Delete,     *)
(* restarts and Load.                                                      *)
THEOREM KeyMapSoundInvariant == Spec => []KeyMapSound
BY TInvInvariant, PTL DEF TInv

(* Every state the table reaches is well typed. *)
THEOREM TableTypeCorrect == Spec => []TypeOK
BY TInvInvariant, PTL DEF TInv

=============================================================================
