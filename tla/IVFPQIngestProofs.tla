------------------------- MODULE IVFPQIngestProofs -------------------------
(***************************************************************************)
(* Proofs about the ingestion tick of IVFPQIngest, for every value of the  *)
(* constants that satisfies the module's assumptions.                      *)
(***************************************************************************)
EXTENDS IVFPQIngest, FiniteSetTheorems, SequenceTheorems, TLAPS

(* The vectors k full catch-up batches take. *)
Backlog(k) == k * BatchMax

(* While the catch-up loop runs, the batches still to come fit between     *)
(* indexed_vec_count_ and the snapshot total_stored_vecs: the non-last     *)
(* ones take BatchMax vectors each and the last one takes the rest.        *)
CatchUpInv ==
    pc = "add" =>
        /\ batch < indexCount
        /\ indexed <= total
        /\ total <= Len(vecs)
        /\ indexed + Backlog(indexCount - 1 - batch) <= total

(* Every vid waiting in updated_vids_ names a stored vector. *)
QueueInv == \A i \in 1 .. Len(queue) : queue[i] < Len(vecs)

(* The inductive strengthening of IndexedWithinStore (and of TypeOK). *)
IInv ==
    /\ TypeOK
    /\ IndexedWithinStore
    /\ CatchUpInv
    /\ QueueInv

-----------------------------------------------------------------------------
(* Lemmas about the operators the tick is built from. *)

(* The batch count index_count: (a \div BatchMax) full batches fit in a. *)
LEMMA DivFits ==
    ASSUME NEW a \in Nat
    PROVE  /\ a \div BatchMax \in Nat
           /\ Backlog(a \div BatchMax) <= a
BY BoundsAssumption, SMT DEF Backlog

(* One more full batch takes BatchMax more vectors. *)
LEMMA BacklogStep ==
    ASSUME NEW k \in Nat
    PROVE  /\ Backlog(k) \in Nat
           /\ Backlog(k + 1) = Backlog(k) + BatchMax
BY BoundsAssumption, SMT DEF Backlog

(* No backlog without batches. *)
LEMMA BacklogZero == Backlog(0) = 0
BY BoundsAssumption, SMT DEF Backlog

(* Add keeps at most as many vectors as it is given. *)
LEMMA KeptBound ==
    ASSUME NEW start \in Nat, NEW n \in Nat
    PROVE  /\ IsFiniteSet(Kept(start, n))
           /\ Cardinality(Kept(start, n)) \in 0 .. n
<1>1. /\ IsFiniteSet(0 .. n - 1)
      /\ Cardinality(0 .. n - 1) = n
  BY FS_Interval
<1>2. Kept(start, n) \subseteq 0 .. n - 1
  BY DEF Kept
<1>3. /\ IsFiniteSet(Kept(start, n))
      /\ Cardinality(Kept(start, n)) <= n
  BY <1>1, <1>2, FS_Subset
<1>. QED
  BY <1>3, FS_CardinalityType

(* The entries a batch of Add creates are entries of the index, provided   *)
(* the batch lies within the store.                                        *)
LEMMA NewKeysType ==
    ASSUME NEW start \in Nat, NEW n \in Nat,
           vecs \in Seq(Vals),
           start + n <= Len(vecs)
    PROVE  NewKeys(start, n) \subseteq Entry
<1> SUFFICES ASSUME NEW p \in Kept(start, n)
             PROVE  EntryOf(start + Cardinality({q \in Kept(start, n) : q < p}),
                            Vec(start + p)) \in Entry
  BY Zenon DEF NewKeys
<1>1. Vec(start + p) \in Vals /\ AssignOf[Vec(start + p)] \in Lists
  BY AssignAssumption DEF Kept, Vec
<1>2. Cardinality({q \in Kept(start, n) : q < p}) \in Nat
  BY Zenon, KeptBound, FS_Subset, FS_CardinalityType
<1>3. EncodeOf[<<Vec(start + p), AssignOf[Vec(start + p)]>>] \in Codes
  BY <1>1, EncodeAssumption DEF Lists
<1>. QED
  BY <1>1, <1>2, <1>3 DEF EntryOf, Entry

-----------------------------------------------------------------------------
(* The inductive invariant. *)

LEMMA InitIInv == Init => IInv
<1> SUFFICES ASSUME Init PROVE IInv
  OBVIOUS
<1>1. TypeOK
  <2>1. << >> \in Seq(Vals) /\ << >> \in Seq(Nat) /\ << >> \in Seq([vid : Nat, vec : Vals])
    BY EmptySeq
  <2>2. /\ updatesLeft \in 0 .. MaxUpdates
        /\ failsLeft \in 0 .. MaxAddFailures
        /\ compactNo \in 0 .. NList
    BY NListAssumption, BoundsAssumption DEF Init
  <2>3. vecs \in Seq(Vals) /\ queue \in Seq(Nat) /\ fetched \in Seq([vid : Nat, vec : Vals])
    BY <2>1 DEF Init
  <2>. QED
    BY Zenon, <2>2, <2>3 DEF Init, TypeOK
<1>2. IndexedWithinStore /\ CatchUpInv /\ QueueInv
  BY DEF Init, IndexedWithinStore, CatchUpInv, QueueInv
<1>. QED
  BY <1>1, <1>2 DEF IInv

(* The size of the batch Add is about to take is within the snapshot. *)
LEMMA BatchSizeFits ==
    ASSUME TypeOK, CatchUpInv, pc = "add"
    PROVE  /\ BatchSize \in Nat
           /\ indexed + BatchSize <= total
           /\ batch + 1 # indexCount => BatchSize = BatchMax
<1>1. indexCount - 1 - batch \in Nat
  BY DEF CatchUpInv, TypeOK
<1>2. CASE batch = indexCount - 1
  BY <1>2 DEF BatchSize, CatchUpInv, TypeOK
<1>3. CASE batch # indexCount - 1
  <2>1. PICK k \in Nat : indexCount - 1 - batch = k + 1
    BY <1>1, <1>3 DEF TypeOK
  <2>2. Backlog(k) \in Nat /\ Backlog(k + 1) = Backlog(k) + BatchMax
    BY BacklogStep
  <2>3. indexed + BatchMax <= total
    BY <2>1, <2>2, BoundsAssumption DEF CatchUpInv, TypeOK
  <2>. QED
    BY <1>3, <2>3, BoundsAssumption DEF BatchSize
<1>. QED
  BY <1>2, <1>3

LEMMA AddRTVecsToIndexIInv == IInv /\ AddRTVecsToIndex => IInv'
<1> SUFFICES ASSUME IInv, AddRTVecsToIndex PROVE IInv'
  OBVIOUS
<1>0. UNCHANGED <<vecs, deleted, queue, updatesLeft, failsLeft, idx, indexed,
                  compactNo, fetched>>
  BY DEF AddRTVecsToIndex, storeVars
<1>1. CASE indexed = Len(vecs)
  <2>1. /\ compaction' = (compaction \/ Cardinality(deleted) >= CompactThreshold)
        /\ pc' = "compact"
        /\ UNCHANGED <<total, batch, indexCount>>
    BY <1>1 DEF AddRTVecsToIndex, Compactable
  <2>. QED
    BY <1>0, <2>1 DEF IInv, TypeOK, IndexedWithinStore, CatchUpInv, QueueInv
<1>2. CASE indexed < Len(vecs)
  <2>1. Len(vecs) - indexed \in Nat
    BY <1>2 DEF IInv, TypeOK
  <2>2. /\ (Len(vecs) - indexed) \div BatchMax \in Nat
        /\ Backlog((Len(vecs) - indexed) \div BatchMax) <= Len(vecs) - indexed
    BY <2>1, DivFits
  <2>3. /\ total' = Len(vecs)
        /\ batch' = 0
        /\ indexCount' = (Len(vecs) - indexed) \div BatchMax + 1
        /\ pc' = "add"
        /\ UNCHANGED compaction
    BY <1>2 DEF AddRTVecsToIndex
  <2>4. indexCount' - 1 - batch' = (Len(vecs) - indexed) \div BatchMax
    BY <2>2, <2>3
  <2>5. Backlog(indexCount' - 1 - batch') = Backlog((Len(vecs) - indexed) \div BatchMax)
    BY <2>4
  <2>6. /\ batch' < indexCount'
        /\ indexed' <= total'
        /\ total' <= Len(vecs')
    BY <1>0, <1>2, <2>2, <2>3 DEF IInv, TypeOK
  <2>7. indexed' + Backlog(indexCount' - 1 - batch') <= total'
    <3>1. Backlog((Len(vecs) - indexed) \div BatchMax) \in Nat
      BY <2>2, BacklogStep
    <3>. QED
      BY <1>0, <1>2, <2>2, <2>3, <2>5, <3>1 DEF IInv, TypeOK
  <2>8. CatchUpInv'
    BY <2>6, <2>7 DEF CatchUpInv
  <2>9. TypeOK' /\ IndexedWithinStore' /\ QueueInv'
    BY <1>0, <2>2, <2>3 DEF IInv, TypeOK, IndexedWithinStore, QueueInv
  <2>. QED
    BY <2>8, <2>9 DEF IInv
<1>. QED
  BY <1>1, <1>2 DEF AddRTVecsToIndex, IInv, IndexedWithinStore, TypeOK

LEMMA AddIInv == IInv /\ Add => IInv'
<1> SUFFICES ASSUME IInv, Add PROVE IInv'
  OBVIOUS
<1>0. /\ pc = "add" /\ total <= Len(vecs) /\ Len(vecs) \in Nat
      /\ UNCHANGED <<vecs, deleted, queue, updatesLeft, failsLeft, compaction,
                     compactNo, fetched>>
  BY DEF Add, IInv, CatchUpInv, TypeOK, storeVars
<1>1. /\ BatchSize \in Nat
      /\ indexed + BatchSize <= total
      /\ batch + 1 # indexCount => BatchSize = BatchMax
  BY <1>0, BatchSizeFits DEF IInv
<1>2. /\ IsFiniteSet(Kept(indexed, BatchSize))
      /\ Cardinality(Kept(indexed, BatchSize)) \in 0 .. BatchSize
  BY Zenon, <1>1, KeptBound DEF IInv, TypeOK
<1>3. NewKeys(indexed, BatchSize) \subseteq Entry
  <2>1. indexed \in Nat /\ vecs \in Seq(Vals) /\ indexed + BatchSize <= Len(vecs)
    BY <1>0, <1>1 DEF IInv, TypeOK
  <2>. QED
    BY <1>1, <2>1, NewKeysType
<1>4. indexed' \in Nat /\ indexed' <= total /\ indexed' <= indexed + BatchSize
  BY <1>1, <1>2 DEF Add, IInv, TypeOK
<1>5. TypeOK'
  <2>1. /\ pc' \in {"idle", "add", "compact", "drain", "apply"}
        /\ total' \in Nat /\ batch' \in Nat /\ indexCount' \in Nat
    <3>1. CASE batch + 1 = indexCount
      BY <3>1 DEF Add, NextBatch
    <3>2. CASE batch + 1 # indexCount
      BY <3>2 DEF Add, NextBatch, IInv, TypeOK
    <3>. QED
      BY <3>1, <3>2
  <2>2. idx' \subseteq Entry
    BY <1>3 DEF Add, IInv, TypeOK
  <2>. QED
    BY <1>0, <1>4, <2>1, <2>2 DEF IInv, TypeOK
<1>6. IndexedWithinStore'
  BY <1>0, <1>4 DEF IInv, TypeOK, IndexedWithinStore
<1>7. CatchUpInv'
  <2>1. CASE batch + 1 = indexCount
    BY <2>1 DEF Add, NextBatch, CatchUpInv
  <2>2. CASE batch + 1 # indexCount
    <3>1. PICK k \in Nat : indexCount - 1 - batch = k + 1
      BY <1>0, <2>2 DEF IInv, TypeOK, CatchUpInv
    <3>2. Backlog(k) \in Nat /\ Backlog(k + 1) = Backlog(k) + BatchMax
      BY BacklogStep
    <3>3. /\ pc' = "add" /\ batch' = batch + 1
          /\ total' = total /\ indexCount' = indexCount
      BY <2>2 DEF Add, NextBatch
    <3>4. indexCount' - 1 - batch' = k
      BY <3>1, <3>3 DEF IInv, TypeOK
    <3>5. indexed' + Backlog(k) <= total
      <4>1. indexed + Backlog(k + 1) <= total
        BY <1>0, <3>1 DEF IInv, CatchUpInv
      <4>2. BatchSize = BatchMax
        BY <1>1, <2>2
      <4>3. indexed \in Nat /\ total \in Nat /\ BatchMax \in Nat
        BY BoundsAssumption DEF IInv, TypeOK
      <4>. QED
        BY <1>4, <3>2, <4>1, <4>2, <4>3
    <3>. QED
      BY <1>0, <1>4, <3>1, <3>3, <3>4, <3>5 DEF CatchUpInv, IInv, TypeOK
  <2>. QED
    BY <2>1, <2>2
<1>8. QueueInv'
  BY <1>0 DEF IInv, QueueInv
<1>. QED
  BY <1>5, <1>6, <1>7, <1>8 DEF IInv

(* The end of a catch-up batch leaves the tick's locals well typed. *)
LEMMA NextBatchType ==
    ASSUME TypeOK, NextBatch
    PROVE  /\ pc' \in {"add", "drain"}
           /\ total' \in Nat /\ batch' \in Nat /\ indexCount' \in Nat
BY DEF NextBatch, TypeOK

LEMMA AddFailIInv == IInv /\ AddFail => IInv'
<1> SUFFICES ASSUME IInv, AddFail PROVE IInv'
  OBVIOUS
<1>0. /\ pc = "add" /\ total <= Len(vecs) /\ failsLeft > 0
      /\ UNCHANGED <<vecs, deleted, queue, updatesLeft, idx, indexed, compaction,
                     compactNo, fetched>>
  BY DEF AddFail, IInv, CatchUpInv, storeVars
<1>1. TypeOK' /\ IndexedWithinStore' /\ QueueInv'
  <2>1. /\ pc' \in {"add", "drain"}
        /\ total' \in Nat /\ batch' \in Nat /\ indexCount' \in Nat
    BY NextBatchType DEF AddFail, IInv
  <2>2. failsLeft' \in 0 .. MaxAddFailures
    BY <1>0, BoundsAssumption DEF AddFail, IInv, TypeOK
  <2>. QED
    BY <1>0, <2>1, <2>2 DEF IInv, TypeOK, IndexedWithinStore, QueueInv
<1>2. CatchUpInv'
  <2>1. CASE batch + 1 = indexCount
    BY <2>1 DEF AddFail, NextBatch, CatchUpInv
  <2>2. CASE batch + 1 # indexCount
    <3>1. PICK k \in Nat : indexCount - 1 - batch = k + 1
      BY <1>0, <2>2 DEF IInv, TypeOK, CatchUpInv
    <3>2. Backlog(k) \in Nat /\ Backlog(k + 1) = Backlog(k) + BatchMax
      BY BacklogStep
    <3>3. /\ pc' = "add" /\ batch' = batch + 1
          /\ total' = total /\ indexCount' = indexCount
      BY <2>2 DEF AddFail, NextBatch
    <3>4. Backlog(indexCount' - 1 - batch') = Backlog(k)
      BY <3>1, <3>3 DEF IInv, TypeOK
    <3>5. indexed + Backlog(k) <= total
      BY <1>0, <3>1, <3>2, BoundsAssumption DEF IInv, TypeOK, CatchUpInv
    <3>. QED
      BY <1>0, <3>1, <3>3, <3>4, <3>5 DEF CatchUpInv, IInv, TypeOK
  <2>. QED
    BY <2>1, <2>2
<1>. QED
  BY <1>1, <1>2 DEF IInv

LEMMA CompactBucketIInv == IInv /\ CompactBucket => IInv'
<1> SUFFICES ASSUME IInv, CompactBucket PROVE IInv'
  OBVIOUS
<1>0. /\ UNCHANGED <<vecs, deleted, queue, updatesLeft, failsLeft, indexed,
                     compaction, pc, total, batch, indexCount, fetched>>
      /\ pc = "compact"
  BY DEF CompactBucket, storeVars, tickVars
<1>1. idx' \subseteq idx
  BY DEF CompactBucket, RTCompactBucket
<1>2. compactNo' \in 0 .. NList
  BY NListAssumption DEF CompactBucket, IInv, TypeOK
<1>. QED
  BY <1>0, <1>1, <1>2 DEF IInv, TypeOK, IndexedWithinStore, CatchUpInv, QueueInv

LEMMA CompactionEndIInv == IInv /\ CompactionEnd => IInv'
<1> SUFFICES ASSUME IInv, CompactionEnd PROVE IInv'
  OBVIOUS
<1>0. /\ UNCHANGED <<vecs, deleted, queue, updatesLeft, failsLeft, idx, indexed,
                     total, batch, indexCount, fetched>>
      /\ pc' = "drain"
  BY DEF CompactionEnd, storeVars
<1>1. compaction' \in BOOLEAN /\ compactNo' \in 0 .. NList
  <2>1. CASE compactNo = NList
    <3>1. compaction' = FALSE /\ compactNo' = 0
      BY <2>1, Zenon DEF CompactionEnd
    <3>2. compaction' \in BOOLEAN
      BY <3>1, Zenon
    <3>3. compactNo' \in 0 .. NList
      BY <3>1, NListAssumption
    <3>. QED
      BY <3>2, <3>3
  <2>2. CASE compactNo # NList
    BY <2>2 DEF CompactionEnd, IInv, TypeOK
  <2>. QED
    BY <2>1, <2>2
<1>. QED
  BY <1>0, <1>1 DEF IInv, TypeOK, IndexedWithinStore, CatchUpInv, QueueInv

LEMMA FetchIInv == IInv /\ AddUpdatedVecToIndexFetch => IInv'
<1> SUFFICES ASSUME IInv, AddUpdatedVecToIndexFetch PROVE IInv'
  OBVIOUS
<1> DEFINE n == IF Len(queue) < DrainMax THEN Len(queue) ELSE DrainMax
<1>0. /\ Len(queue) \in Nat
      /\ n \in 0 .. Len(queue)
      /\ \A i \in 1 .. Len(queue) : queue[i] \in Nat /\ queue[i] < Len(vecs)
  BY BoundsAssumption, LenProperties, ElementOfSeq DEF IInv, TypeOK, QueueInv
<1>1. /\ fetched' = [i \in 1 .. n |-> [vid |-> queue[i], vec |-> Vec(queue[i])]]
      /\ queue' = SubSeq(queue, n + 1, Len(queue))
      /\ pc' \in {"idle", "apply"}
      /\ UNCHANGED <<vecs, deleted, updatesLeft, failsLeft, idx, indexed,
                     compaction, compactNo, total, batch, indexCount>>
  BY DEF AddUpdatedVecToIndexFetch
<1>2. \A i \in 1 .. n : Vec(queue[i]) \in Vals
  BY <1>0, ElementOfSeq DEF IInv, TypeOK, Vec
<1>3. fetched' \in Seq([vid : Nat, vec : Vals])
  <2>1. \A i \in 1 .. n : [vid |-> queue[i], vec |-> Vec(queue[i])] \in [vid : Nat, vec : Vals]
    BY <1>0, <1>2
  <2>2. fetched' \in [1 .. n -> [vid : Nat, vec : Vals]]
    BY <1>1, <2>1
  <2>3. n \in Nat
    BY <1>0
  <2>4. fetched' \in UNION {[1 .. m -> [vid : Nat, vec : Vals]] : m \in Nat}
    BY <2>2, <2>3
  <2>. QED
    BY Zenon, <2>4, SeqDef
<1>4. /\ queue' \in Seq(Nat)
      /\ Len(queue') = Len(queue) - n
      /\ \A i \in 1 .. Len(queue') : queue'[i] = queue[n + i]
  <2>1. \A i \in n + 1 .. Len(queue) : queue[i] \in Nat
    BY <1>0
  <2>. QED
    BY <1>0, <1>1, <2>1, SubSeqProperties
<1>5. QueueInv'
  <2>1. ASSUME NEW i \in 1 .. Len(queue') PROVE queue'[i] < Len(vecs)
    <3>1. n + i \in 1 .. Len(queue)
      BY <1>0, <1>4
    <3>. QED
      BY Zenon, <1>0, <1>4, <3>1
  <2>. QED
    BY Zenon, <1>1, <2>1 DEF QueueInv
<1>. QED
  BY Zenon, <1>1, <1>3, <1>4, <1>5 DEF IInv, TypeOK, IndexedWithinStore, CatchUpInv

(* RTInvertIndex::Update keeps the index a set of well-formed entries,     *)
(* also when the vector is assigned to no list.                            *)
LEMMA RTUpdateType ==
    ASSUME idx \subseteq Entry,
           NEW l \in Lists \cup {NoList}, NEW v \in Nat, NEW c \in Codes
    PROVE  RTUpdate(l, v, c) \subseteq Entry
<1>1. CASE InList(l, v)
  <2>1. l \in Lists
    BY <1>1 DEF InList, Entry
  <2>. QED
    BY <1>1, <2>1 DEF RTUpdate, Entry
<1>2. CASE ~InList(l, v)
  BY <1>2 DEF RTUpdate, Entry, NoList, Lists
<1>. QED
  BY <1>1, <1>2

LEMMA ApplyIInv == IInv /\ AddUpdatedVecToIndexApply => IInv'
<1> SUFFICES ASSUME IInv, AddUpdatedVecToIndexApply PROVE IInv'
  OBVIOUS
<1> DEFINE f == Head(fetched)
           l == AssignOf[f.vec]
<1>0. /\ UNCHANGED <<vecs, deleted, queue, updatesLeft, failsLeft, indexed,
                     compaction, compactNo, total, batch, indexCount>>
      /\ idx' = RTUpdate(l, f.vid, EncodeOf[<<f.vec, l>>])
      /\ fetched' = Tail(fetched)
      /\ pc' \in {"idle", "apply"}
      /\ pc = "apply"
      /\ fetched # << >>
  BY DEF AddUpdatedVecToIndexApply, storeVars
<1>1. /\ f \in [vid : Nat, vec : Vals]
      /\ Tail(fetched) \in Seq([vid : Nat, vec : Vals])
  BY Zenon, <1>0, HeadTailProperties DEF IInv, TypeOK
<1>2. /\ l \in Lists \cup {NoList}
      /\ EncodeOf[<<f.vec, l>>] \in Codes
  BY <1>1, AssignAssumption, EncodeAssumption
<1>3. idx' \subseteq Entry
  BY Zenon, <1>0, <1>1, <1>2, RTUpdateType DEF IInv, TypeOK
<1>. QED
  BY Zenon, <1>0, <1>1, <1>3 DEF IInv, TypeOK, IndexedWithinStore, CatchUpInv, QueueInv

LEMMA StoreAddIInv ==
    ASSUME IInv, NEW x \in Vals, StoreAdd(x)
    PROVE  IInv'
<1>0. /\ UNCHANGED <<deleted, queue, updatesLeft, failsLeft, idx, indexed,
                     compaction, compactNo, pc, total, batch, indexCount, fetched>>
      /\ vecs' = Append(vecs, x)
  BY DEF StoreAdd, tickVars
<1>1. /\ vecs' \in Seq(Vals)
      /\ Len(vecs') = Len(vecs) + 1
      /\ Len(vecs) \in Nat
  BY <1>0, AppendProperties, LenProperties DEF IInv, TypeOK
<1>. QED
  BY <1>0, <1>1 DEF IInv, TypeOK, IndexedWithinStore, CatchUpInv, QueueInv

LEMMA StoreUpdateIInv ==
    ASSUME IInv, NEW v \in 0 .. MaxVecs - 1, NEW x \in Vals, StoreUpdate(v, x)
    PROVE  IInv'
<1>0. /\ UNCHANGED <<deleted, failsLeft, idx, indexed, compaction, compactNo,
                     pc, total, batch, indexCount, fetched>>
      /\ vecs' = [vecs EXCEPT ![v + 1] = x]
      /\ queue' = Append(queue, v)
      /\ updatesLeft' = updatesLeft - 1
      /\ v < Len(vecs) /\ updatesLeft > 0
  BY DEF StoreUpdate, tickVars
<1>1. v \in Nat /\ v + 1 \in 1 .. Len(vecs)
  BY <1>0, BoundsAssumption, LenProperties DEF IInv, TypeOK
<1>2. vecs' \in Seq(Vals) /\ Len(vecs') = Len(vecs)
  BY <1>0, <1>1, ExceptSeq DEF IInv, TypeOK
<1>3. /\ queue' \in Seq(Nat)
      /\ Len(queue') = Len(queue) + 1
      /\ \A i \in 1 .. Len(queue) : queue'[i] = queue[i]
      /\ queue'[Len(queue) + 1] = v
  BY <1>0, <1>1, AppendProperties DEF IInv, TypeOK
<1>4. QueueInv'
  BY <1>0, <1>2, <1>3 DEF IInv, QueueInv
<1>5. updatesLeft' \in 0 .. MaxUpdates
  BY <1>0, BoundsAssumption DEF IInv, TypeOK
<1>. QED
  BY <1>0, <1>2, <1>3, <1>4, <1>5 DEF IInv, TypeOK, IndexedWithinStore, CatchUpInv

LEMMA DocDeleteIInv ==
    ASSUME IInv, NEW v \in 0 .. MaxVecs - 1, DocDelete(v)
    PROVE  IInv'
BY BoundsAssumption
   DEF DocDelete, tickVars, IInv, TypeOK, IndexedWithinStore, CatchUpInv, QueueInv

LEMMA StutterIInv == IInv /\ UNCHANGED vars => IInv'
BY DEF vars, IInv, TypeOK, IndexedWithinStore, CatchUpInv, QueueInv

(* Every step of the tick and of the store's writers keeps IInv. *)
LEMMA NextIInv == IInv /\ [Next]_vars => IInv'
<1> SUFFICES ASSUME IInv, [Next]_vars PROVE IInv'
  OBVIOUS
<1>1. CASE Tick
  BY <1>1, AddRTVecsToIndexIInv, AddIInv, AddFailIInv, CompactBucketIInv,
     CompactionEndIInv, FetchIInv, ApplyIInv DEF Tick
<1>2. CASE Env
  BY <1>2, StoreAddIInv, StoreUpdateIInv, DocDeleteIInv DEF Env
<1>3. CASE UNCHANGED vars
  BY <1>3, StutterIInv
<1>. QED
  BY <1>1, <1>2, <1>3 DEF Next

(* IInv holds in every reachable state of the tick and the store. *)
THEOREM IInvInvariant == Spec => []IInv
BY InitIInv, NextIInv, PTL DEF Spec

(* Type correctness of every variable of the tick, the index and the store. *)
THEOREM TypeCorrect == Spec => []TypeOK
BY IInvInvariant, PTL DEF IInv

(* indexed_vec_count_ never passes the number of stored vectors, so the    *)
(* "internal error" branch of AddRTVecsToIndex (line 177) is unreachable   *)
(* for every store capacity, batch size and interleaving of the writers.   *)
THEOREM IndexedWithinStoreInvariant == Spec => []IndexedWithinStore
BY IInvInvariant, PTL DEF IInv

-----------------------------------------------------------------------------
(* The strengthening of VectorFindable.                                    *)

(* The quantizer assigns every vector to some list (no -1 from assign). *)
QuantizerTotal == \A x \in Vals : AssignOf[x] # NoList

(* Outside the re-encoding loop the drain holds no fetched vids. *)
FetchedEmpty == pc # "apply" => fetched = << >>

(* Every fetched vid names a stored vector, and the vector fetched for it  *)
(* is still the stored one unless the vid has been overwritten again and   *)
(* is back in updated_vids_.                                               *)
FetchedFresh ==
    \A i \in 1 .. Len(fetched) :
        /\ fetched[i].vid < Len(vecs)
        /\ \/ fetched[i].vec = Vec(fetched[i].vid)
           \/ \E j \in 1 .. Len(queue) : queue[j] = fetched[i].vid

(* The inductive strengthening of VectorFindable. *)
FInv ==
    /\ IInv
    /\ FetchedEmpty
    /\ FetchedFresh
    /\ VectorFindable

(* VectorFindable and FetchedFresh read only the store, the queue, the     *)
(* fetched vids, the index and indexed_vec_count_.                         *)
LEMMA FindableFrame ==
    ASSUME VectorFindable, FetchedFresh,
           UNCHANGED <<vecs, deleted, queue, fetched, idx, indexed>>
    PROVE  VectorFindable' /\ FetchedFresh'
BY DEF VectorFindable, FetchedFresh, Pending, Vec, EntryOf

LEMMA InitFInv == Init => FInv
<1> SUFFICES ASSUME Init PROVE FInv
  OBVIOUS
<1>1. IInv
  BY InitIInv
<1>2. FetchedEmpty /\ FetchedFresh /\ VectorFindable
  BY DEF Init, FetchedEmpty, FetchedFresh, VectorFindable
<1>. QED
  BY <1>1, <1>2 DEF FInv

LEMMA AddRTVecsToIndexFInv == FInv /\ AddRTVecsToIndex => FInv'
<1> SUFFICES ASSUME FInv, AddRTVecsToIndex PROVE FInv'
  OBVIOUS
<1>1. UNCHANGED <<vecs, deleted, queue, fetched, idx, indexed>>
  BY DEF AddRTVecsToIndex, storeVars
<1>2. fetched = << >>
  BY DEF AddRTVecsToIndex, FInv, FetchedEmpty
<1>. QED
  BY <1>1, <1>2, FindableFrame, AddRTVecsToIndexIInv DEF FInv, FetchedEmpty

LEMMA AddFailFInv == FInv /\ AddFail => FInv'
<1> SUFFICES ASSUME FInv, AddFail PROVE FInv'
  OBVIOUS
<1>1. UNCHANGED <<vecs, deleted, queue, fetched, idx, indexed>>
  BY DEF AddFail, storeVars
<1>2. fetched = << >>
  BY DEF AddFail, FInv, FetchedEmpty
<1>. QED
  BY <1>1, <1>2, FindableFrame, AddFailIInv DEF FInv, FetchedEmpty

LEMMA CompactionEndFInv == FInv /\ CompactionEnd => FInv'
<1> SUFFICES ASSUME FInv, CompactionEnd PROVE FInv'
  OBVIOUS
<1>1. UNCHANGED <<vecs, deleted, queue, fetched, idx, indexed>>
  BY DEF CompactionEnd, storeVars
<1>2. fetched = << >>
  BY DEF CompactionEnd, FInv, FetchedEmpty
<1>. QED
  BY <1>1, <1>2, FindableFrame, CompactionEndIInv DEF FInv, FetchedEmpty

(* Compaction drops only entries of deleted vids, which VectorFindable     *)
(* does not ask for.                                                       *)
LEMMA CompactBucketFInv == FInv /\ CompactBucket => FInv'
<1> SUFFICES ASSUME FInv, CompactBucket PROVE FInv'
  OBVIOUS
<1>1. /\ UNCHANGED <<vecs, deleted, queue, fetched, indexed, pc>>
      /\ idx' = {e \in idx : e.list # compactNo \/ e.vid \notin deleted}
  BY DEF CompactBucket, storeVars, tickVars, RTCompactBucket
<1>2. VectorFindable'
  BY <1>1 DEF FInv, VectorFindable, Pending, Vec, EntryOf
<1>3. FetchedEmpty' /\ FetchedFresh'
  BY <1>1 DEF FInv, FetchedEmpty, FetchedFresh, Vec
<1>. QED
  BY <1>2, <1>3, CompactBucketIInv DEF FInv

(* A delete only narrows the vids VectorFindable speaks of. *)
LEMMA DocDeleteFInv ==
    ASSUME FInv, NEW v \in 0 .. MaxVecs - 1, DocDelete(v)
    PROVE  FInv'
<1>1. /\ UNCHANGED <<vecs, queue, fetched, idx, indexed, pc>>
      /\ deleted' = deleted \cup {v}
  BY DEF DocDelete, tickVars
<1>2. VectorFindable'
  BY Zenon, <1>1 DEF FInv, VectorFindable, Pending, Vec, EntryOf
<1>3. FetchedEmpty' /\ FetchedFresh'
  BY <1>1 DEF FInv, FetchedEmpty, FetchedFresh, Vec
<1>. QED
  BY <1>2, <1>3, DocDeleteIInv DEF FInv

LEMMA StutterFInv == FInv /\ UNCHANGED vars => FInv'
<1> SUFFICES ASSUME FInv, UNCHANGED vars PROVE FInv'
  OBVIOUS
<1>1. UNCHANGED <<vecs, deleted, queue, fetched, idx, indexed, pc>>
  BY DEF vars
<1>. QED
  BY <1>1, FindableFrame, StutterIInv DEF FInv, FetchedEmpty

(* When the quantizer assigns every vector, Add keeps every position of    *)
(* the batch and the running vid of position p is start + p: the entry of  *)
(* each vid of the batch is among the new keys.                            *)
LEMMA NewKeysAll ==
    ASSUME QuantizerTotal, vecs \in Seq(Vals),
           NEW start \in Nat, NEW n \in Nat, start + n <= Len(vecs)
    PROVE  /\ Kept(start, n) = 0 .. n - 1
           /\ Cardinality(Kept(start, n)) = n
           /\ \A p \in 0 .. n - 1 : EntryOf(start + p, Vec(start + p)) \in NewKeys(start, n)
<1>1. \A p \in 0 .. n - 1 : Vec(start + p) \in Vals
  BY DEF Vec
<1>2. Kept(start, n) = 0 .. n - 1
  BY <1>1 DEF Kept, QuantizerTotal
<1>3. Cardinality(Kept(start, n)) = n
  BY <1>2, FS_Interval
<1>4. ASSUME NEW p \in 0 .. n - 1
      PROVE  EntryOf(start + p, Vec(start + p)) \in NewKeys(start, n)
  <2>1. {q \in Kept(start, n) : q < p} = 0 .. p - 1
    BY <1>2
  <2>2. Cardinality(0 .. p - 1) = p
    BY FS_Interval
  <2>3. p \in Kept(start, n)
    BY <1>2
  <2>. QED
    BY Zenon, <2>1, <2>2, <2>3 DEF NewKeys
<1>. QED
  BY <1>2, <1>3, <1>4

(* A successful catch-up batch indexes every vid it passes. *)
LEMMA AddFInv ==
    ASSUME QuantizerTotal, FInv, Add
    PROVE  FInv'
<1>0. /\ pc = "add"
      /\ UNCHANGED <<vecs, deleted, queue, fetched>>
      /\ idx' = idx \cup NewKeys(indexed, BatchSize)
      /\ indexed' = indexed + Cardinality(Kept(indexed, BatchSize))
  BY DEF Add, storeVars
<1>1. /\ BatchSize \in Nat
      /\ indexed + BatchSize <= Len(vecs)
      /\ indexed \in Nat /\ vecs \in Seq(Vals)
  BY <1>0, BatchSizeFits DEF FInv, IInv, CatchUpInv, TypeOK
<1>2. /\ indexed' = indexed + BatchSize
      /\ \A p \in 0 .. BatchSize - 1 :
            EntryOf(indexed + p, Vec(indexed + p)) \in idx'
  BY Zenon, <1>0, <1>1, NewKeysAll
<1>3. fetched = << >> /\ fetched' = << >>
  BY <1>0 DEF FInv, FetchedEmpty
<1>4. FetchedEmpty' /\ FetchedFresh'
  BY <1>3 DEF FetchedEmpty, FetchedFresh
<1>5. VectorFindable'
  <2> SUFFICES ASSUME NEW v \in 0 .. indexed' - 1,
                      v < Len(vecs), v \notin deleted, ~Pending(v),
                      AssignOf[Vec(v)] # NoList
               PROVE  EntryOf(v, Vec(v)) \in idx'
    BY <1>0 DEF VectorFindable, Pending, Vec, EntryOf
  <2>1. CASE v < indexed
    <3>1. v \in 0 .. indexed - 1
      BY <1>1, <2>1
    <3>2. EntryOf(v, Vec(v)) \in idx
      BY Zenon, <1>0, <3>1 DEF FInv, VectorFindable
    <3>. QED
      BY Zenon, <1>0, <3>2
  <2>2. CASE v >= indexed
    <3>1. v - indexed \in 0 .. BatchSize - 1
      BY <1>1, <1>2, <2>2
    <3>2. EntryOf(indexed + (v - indexed), Vec(indexed + (v - indexed))) \in idx'
      BY Zenon, <1>2, <3>1
    <3>3. indexed + (v - indexed) = v
      BY <1>1
    <3>. QED
      BY Zenon, <3>2, <3>3
  <2>. QED
    BY <1>1, <2>1, <2>2
<1>. QED
  BY <1>4, <1>5, AddIInv DEF FInv

(* Dropping the first n elements of a sequence of naturals. *)
LEMMA SubSeqTail ==
    ASSUME NEW q \in Seq(Nat), NEW n \in 0 .. Len(q)
    PROVE  /\ Len(SubSeq(q, n + 1, Len(q))) = Len(q) - n
           /\ \A i \in 1 .. Len(q) - n : SubSeq(q, n + 1, Len(q))[i] = q[n + i]
<1>1. \A i \in n + 1 .. Len(q) : q[i] \in Nat
  BY ElementOfSeq
<1>2. /\ Len(SubSeq(q, n + 1, Len(q))) =
            IF n + 1 <= Len(q) THEN Len(q) - (n + 1) + 1 ELSE 0
      /\ \A i \in 1 .. Len(q) - (n + 1) + 1 :
            SubSeq(q, n + 1, Len(q))[i] = q[n + 1 + i - 1]
  BY <1>1, SubSeqProperties
<1>. QED
  BY <1>2

(* A sequence of length 0 is the empty sequence. *)
LEMMA EmptyLen ==
    ASSUME NEW S, NEW f \in Seq(S), Len(f) = 0
    PROVE  f = << >>
<1>1. f # << >> => Len(f) \in Nat \ {0}
  BY EmptySeq
<1>. QED
  BY <1>1

(* The fetch moves vids from the head of updated_vids_ to the fetched      *)
(* list: a vid pending before is pending after, and what is fetched is the *)
(* current vector.                                                         *)
LEMMA FetchFInv == FInv /\ AddUpdatedVecToIndexFetch => FInv'
<1> SUFFICES ASSUME FInv, AddUpdatedVecToIndexFetch PROVE FInv'
  OBVIOUS
<1> DEFINE n == IF Len(queue) < DrainMax THEN Len(queue) ELSE DrainMax
<1>0. /\ fetched' = [i \in 1 .. n |-> [vid |-> queue[i], vec |-> Vec(queue[i])]]
      /\ queue' = SubSeq(queue, n + 1, Len(queue))
      /\ pc' = IF n = 0 THEN "idle" ELSE "apply"
      /\ pc = "drain"
      /\ UNCHANGED <<vecs, deleted, idx, indexed>>
  BY DEF AddUpdatedVecToIndexFetch
<1>1. /\ Len(queue) \in Nat
      /\ n \in 0 .. Len(queue)
      /\ queue \in Seq(Nat)
      /\ \A i \in 1 .. Len(queue) : queue[i] < Len(vecs)
      /\ fetched = << >>
  BY <1>0, BoundsAssumption, LenProperties DEF FInv, IInv, TypeOK, QueueInv, FetchedEmpty
<1>2. /\ Len(queue') = Len(queue) - n
      /\ \A i \in 1 .. Len(queue') : queue'[i] = queue[n + i]
  <2>1. /\ Len(SubSeq(queue, n + 1, Len(queue))) = Len(queue) - n
        /\ \A i \in 1 .. Len(queue) - n : SubSeq(queue, n + 1, Len(queue))[i] = queue[n + i]
    BY Zenon, <1>1, SubSeqTail
  <2>. QED
    BY Zenon, <1>0, <2>1
<1>3. IInv'
  BY FetchIInv DEF FInv
<1>4. Len(fetched') = n
  BY <1>0, <1>1, <1>3 DEF IInv, TypeOK
<1>5. FetchedEmpty'
  <2>1. CASE n = 0
    <3>1. fetched' \in Seq([vid : Nat, vec : Vals]) /\ Len(fetched') = 0
      BY <1>3, <1>4, <2>1 DEF IInv, TypeOK
    <3>. QED
      BY <3>1, EmptyLen DEF FetchedEmpty
  <2>2. CASE n # 0
    BY <1>0, <2>2 DEF FetchedEmpty
  <2>. QED
    BY <2>1, <2>2
<1>6. FetchedFresh'
  <2> SUFFICES ASSUME NEW i \in 1 .. Len(fetched')
               PROVE  /\ fetched'[i].vid < Len(vecs)
                      /\ fetched'[i].vec = vecs[fetched'[i].vid + 1]
    <3>1. vecs' = vecs
      BY <1>0
    <3>. QED
      BY <3>1 DEF FetchedFresh, Vec
  <2>1. i \in 1 .. Len(queue) /\ fetched'[i] = [vid |-> queue[i], vec |-> Vec(queue[i])]
    BY <1>0, <1>1, <1>4
  <2>. QED
    BY <1>1, <2>1 DEF Vec
<1>7. VectorFindable'
  <2> SUFFICES ASSUME NEW v \in 0 .. indexed - 1,
                      v < Len(vecs), v \notin deleted, ~Pending(v)',
                      AssignOf[Vec(v)] # NoList
               PROVE  EntryOf(v, Vec(v)) \in idx
    BY <1>0 DEF VectorFindable, Vec, EntryOf
  <2>1. ~\E i \in 1 .. Len(queue) : queue[i] = v
    <3> SUFFICES ASSUME NEW i \in 1 .. Len(queue), queue[i] = v PROVE FALSE
      OBVIOUS
    <3>1. CASE i <= n
      <4>1. i \in 1 .. Len(fetched') /\ fetched'[i].vid = v
        BY <1>0, <1>1, <1>4, <3>1
      <4>. QED
        BY Zenon, <4>1 DEF Pending
    <3>2. CASE i > n
      <4>1. i - n \in 1 .. Len(queue') /\ queue'[i - n] = v
        <5>1. i - n \in 1 .. Len(queue')
          BY <1>1, <1>2, <3>2
        <5>2. queue'[i - n] = queue[n + (i - n)]
          BY <5>1, <1>2
        <5>3. n + (i - n) = i
          BY <1>1
        <5>. QED
          BY Zenon, <5>1, <5>2, <5>3
      <4>. QED
        BY Zenon, <4>1 DEF Pending
    <3>. QED
      BY <1>1, <3>1, <3>2
  <2>2. ~Pending(v)
    BY <1>1, <2>1 DEF Pending
  <2>. QED
    BY <2>2 DEF FInv, VectorFindable
<1>. QED
  BY <1>3, <1>5, <1>6, <1>7 DEF FInv

(* RTInvertIndex::Update(l, v, c) touches only the entries of vid v, and   *)
(* for a list l it leaves (l, v, c) in the index.                          *)
LEMMA RTUpdateKeeps ==
    ASSUME NEW l, NEW v, NEW c
    PROVE  /\ \A e \in idx : e.vid # v => e \in RTUpdate(l, v, c)
           /\ l # NoList => [list |-> l, vid |-> v, code |-> c] \in RTUpdate(l, v, c)
<1>1. CASE InList(l, v)
  BY <1>1 DEF RTUpdate
<1>2. CASE ~InList(l, v)
  BY <1>2 DEF RTUpdate
<1>. QED
  BY <1>1, <1>2

(* One re-encoding of the drain: the head vid gets the entry of the vector *)
(* fetched for it, which is its current vector unless it is queued again.  *)
LEMMA ApplyFInv == FInv /\ AddUpdatedVecToIndexApply => FInv'
<1> SUFFICES ASSUME FInv, AddUpdatedVecToIndexApply PROVE FInv'
  OBVIOUS
<1> DEFINE f == Head(fetched)
           w == f.vid
           l == AssignOf[f.vec]
           c == EncodeOf[<<f.vec, l>>]
<1>0. /\ UNCHANGED <<vecs, deleted, queue, indexed>>
      /\ idx' = RTUpdate(l, w, c)
      /\ fetched' = Tail(fetched)
      /\ pc' = IF Len(fetched) = 1 THEN "idle" ELSE "apply"
      /\ fetched # << >>
  BY DEF AddUpdatedVecToIndexApply, storeVars
<1>1. fetched \in Seq([vid : Nat, vec : Vals])
  BY DEF FInv, IInv, TypeOK
<1>2. /\ Len(fetched) \in Nat \ {0}
      /\ Len(fetched') = Len(fetched) - 1
      /\ \A i \in 1 .. Len(fetched') : fetched'[i] = fetched[i + 1]
      /\ f = fetched[1]
  <2>1. /\ Len(Tail(fetched)) = Len(fetched) - 1
        /\ \A i \in 1 .. Len(Tail(fetched)) : Tail(fetched)[i] = fetched[i + 1]
    BY <1>0, <1>1, HeadTailProperties
  <2>2. Len(fetched) \in Nat \ {0}
    BY <1>0, <1>1, EmptySeq
  <2>. QED
    BY <1>0, <2>1, <2>2
<1>3. IInv'
  BY ApplyIInv DEF FInv
<1>4. FetchedEmpty'
  <2>1. CASE Len(fetched) = 1
    <3>1. fetched' \in Seq([vid : Nat, vec : Vals]) /\ Len(fetched') = 0
      BY <1>2, <1>3, <2>1 DEF IInv, TypeOK
    <3>. QED
      BY <3>1, EmptyLen DEF FetchedEmpty
  <2>2. CASE Len(fetched) # 1
    BY <1>0, <2>2 DEF FetchedEmpty
  <2>. QED
    BY <2>1, <2>2
<1>5. FetchedFresh'
  <2> SUFFICES ASSUME NEW i \in 1 .. Len(fetched')
               PROVE  /\ fetched'[i].vid < Len(vecs)
                      /\ \/ fetched'[i].vec = vecs[fetched'[i].vid + 1]
                         \/ \E j \in 1 .. Len(queue) : queue[j] = fetched'[i].vid
    <3>1. UNCHANGED <<vecs, queue>>
      BY <1>0
    <3>. QED
      BY <3>1 DEF FetchedFresh, Vec
  <2>1. i + 1 \in 1 .. Len(fetched) /\ fetched'[i] = fetched[i + 1]
    BY <1>2
  <2>. QED
    BY <2>1 DEF FInv, FetchedFresh, Vec
<1>6. VectorFindable'
  <2> SUFFICES ASSUME NEW v \in 0 .. indexed - 1,
                      v < Len(vecs), v \notin deleted, ~Pending(v)',
                      AssignOf[Vec(v)] # NoList
               PROVE  EntryOf(v, Vec(v)) \in idx'
    BY Zenon, <1>0 DEF VectorFindable, Vec, EntryOf
  <2>1. ~\E j \in 1 .. Len(queue) : queue[j] = v
    BY <1>0 DEF Pending
  <2>2. CASE v # w
    <3>1. ~Pending(v)
      <4> SUFFICES ASSUME NEW i \in 1 .. Len(fetched), fetched[i].vid = v PROVE FALSE
        BY <2>1 DEF Pending
      <4>1. i # 1
        BY <1>2, <2>2
      <4>2. i - 1 \in 1 .. Len(fetched') /\ fetched'[i - 1].vid = v
        BY <1>2, <4>1
      <4>. QED
        BY Zenon, <4>2 DEF Pending
    <3>2. EntryOf(v, Vec(v)) \in idx
      BY <3>1 DEF FInv, VectorFindable
    <3>3. EntryOf(v, Vec(v)).vid # w
      BY <2>2 DEF EntryOf
    <3>. QED
      BY Zenon, <1>0, <3>2, <3>3, RTUpdateKeeps
  <2>3. CASE v = w
    <3>1. f.vec = Vec(v)
      <4>1. 1 \in 1 .. Len(fetched)
        BY <1>2
      <4>. QED
        BY <1>2, <2>1, <2>3, <4>1 DEF FInv, FetchedFresh
    <3>2. l # NoList /\ EntryOf(v, Vec(v)) = [list |-> l, vid |-> w, code |-> c]
      BY <2>3, <3>1 DEF EntryOf
    <3>. QED
      BY <1>0, <3>2, RTUpdateKeeps
  <2>. QED
    BY <2>2, <2>3
<1>. QED
  BY <1>3, <1>4, <1>5, <1>6 DEF FInv

(* A new vector gets a vid past every vid the tick knows of. *)
LEMMA StoreAddFInv ==
    ASSUME FInv, NEW x \in Vals, StoreAdd(x)
    PROVE  FInv'
<1>0. /\ UNCHANGED <<deleted, queue, fetched, idx, indexed, pc>>
      /\ vecs' = Append(vecs, x)
  BY DEF StoreAdd, tickVars
<1>1. /\ Len(vecs') = Len(vecs) + 1
      /\ \A i \in 1 .. Len(vecs) : vecs'[i] = vecs[i]
      /\ indexed <= Len(vecs) /\ indexed \in Nat
      /\ fetched \in Seq([vid : Nat, vec : Vals])
  BY <1>0, AppendProperties DEF FInv, IInv, TypeOK, IndexedWithinStore
<1>2. FetchedFresh'
  <2> SUFFICES ASSUME NEW i \in 1 .. Len(fetched)
               PROVE  /\ fetched[i].vid < Len(vecs')
                      /\ \/ fetched[i].vec = vecs'[fetched[i].vid + 1]
                         \/ \E j \in 1 .. Len(queue) : queue[j] = fetched[i].vid
    BY Zenon, <1>0 DEF FetchedFresh, Vec
  <2>1. fetched[i].vid \in Nat
    <3>1. fetched[i] \in [vid : Nat, vec : Vals]
      BY Zenon, <1>1, ElementOfSeq
    <3>. QED
      BY <3>1
  <2>2. /\ fetched[i].vid < Len(vecs)
        /\ \/ fetched[i].vec = vecs[fetched[i].vid + 1]
           \/ \E j \in 1 .. Len(queue) : queue[j] = fetched[i].vid
    BY DEF FInv, FetchedFresh, Vec
  <2>3. vecs'[fetched[i].vid + 1] = vecs[fetched[i].vid + 1]
    <3>1. fetched[i].vid + 1 \in 1 .. Len(vecs)
      BY <2>1, <2>2
    <3>. QED
      BY Zenon, <1>1, <3>1
  <2>. QED
    BY <1>1, <2>1, <2>2, <2>3
<1>3. VectorFindable'
  <2> SUFFICES ASSUME NEW v \in 0 .. indexed - 1,
                      v \notin deleted, ~Pending(v),
                      AssignOf[vecs'[v + 1]] # NoList
               PROVE  EntryOf(v, vecs'[v + 1]) \in idx
    BY <1>0 DEF VectorFindable, Vec, Pending
  <2>1. vecs'[v + 1] = Vec(v) /\ v < Len(vecs)
    BY <1>1 DEF Vec
  <2>. QED
    BY <2>1 DEF FInv, VectorFindable
<1>. QED
  BY <1>0, <1>2, <1>3, StoreAddIInv DEF FInv, FetchedEmpty

(* An overwrite queues the vid, which makes it pending until the drain     *)
(* re-encodes it; every other vid keeps its vector.                        *)
LEMMA StoreUpdateFInv ==
    ASSUME FInv, NEW w \in 0 .. MaxVecs - 1, NEW x \in Vals, StoreUpdate(w, x)
    PROVE  FInv'
<1>0. /\ UNCHANGED <<deleted, fetched, idx, indexed, pc>>
      /\ vecs' = [vecs EXCEPT ![w + 1] = x]
      /\ queue' = Append(queue, w)
      /\ w < Len(vecs)
  BY DEF StoreUpdate, tickVars
<1>1. /\ w \in Nat /\ w + 1 \in 1 .. Len(vecs)
      /\ vecs \in Seq(Vals) /\ queue \in Seq(Nat)
      /\ fetched \in Seq([vid : Nat, vec : Vals])
  BY <1>0, BoundsAssumption DEF FInv, IInv, TypeOK
<1>2. /\ Len(vecs') = Len(vecs)
      /\ \A u \in Nat : u # w => vecs'[u + 1] = vecs[u + 1]
  BY <1>0, <1>1, ExceptSeq
<1>3. /\ Len(queue') = Len(queue) + 1
      /\ \A j \in 1 .. Len(queue) : queue'[j] = queue[j]
      /\ queue'[Len(queue) + 1] = w
  BY <1>0, <1>1, AppendProperties
<1>4. FetchedFresh'
  <2> SUFFICES ASSUME NEW i \in 1 .. Len(fetched)
               PROVE  /\ fetched[i].vid < Len(vecs')
                      /\ \/ fetched[i].vec = vecs'[fetched[i].vid + 1]
                         \/ \E j \in 1 .. Len(queue') : queue'[j] = fetched[i].vid
    BY Zenon, <1>0 DEF FetchedFresh, Vec
  <2>1. fetched[i].vid \in Nat
    <3>1. fetched[i] \in [vid : Nat, vec : Vals]
      BY Zenon, <1>1, ElementOfSeq
    <3>. QED
      BY <3>1
  <2>2. CASE fetched[i].vid = w
    BY <1>0, <1>2, <1>3, <2>2 DEF FInv, FetchedFresh
  <2>3. CASE fetched[i].vid # w
    <3>1. /\ fetched[i].vid < Len(vecs)
          /\ \/ fetched[i].vec = vecs[fetched[i].vid + 1]
             \/ \E j \in 1 .. Len(queue) : queue[j] = fetched[i].vid
      BY DEF FInv, FetchedFresh, Vec
    <3>2. vecs'[fetched[i].vid + 1] = vecs[fetched[i].vid + 1]
      BY <1>2, <2>1, <2>3
    <3>3. \A j \in 1 .. Len(queue) : j \in 1 .. Len(queue') /\ queue'[j] = queue[j]
      BY <1>1, <1>3, LenProperties
    <3>. QED
      BY <1>2, <3>1, <3>2, <3>3
  <2>. QED
    BY <2>2, <2>3
<1>5. VectorFindable'
  <2> SUFFICES ASSUME NEW v \in 0 .. indexed - 1,
                      v < Len(vecs'), v \notin deleted, ~Pending(v)',
                      AssignOf[vecs'[v + 1]] # NoList
               PROVE  EntryOf(v, vecs'[v + 1]) \in idx
    BY <1>0 DEF VectorFindable, Vec
  <2>1. v # w
    <3>1. Len(queue) + 1 \in 1 .. Len(queue') /\ queue'[Len(queue) + 1] = w
      BY <1>1, <1>3, LenProperties
    <3>. QED
      BY Zenon, <3>1 DEF Pending
  <2>2. ~Pending(v)
    BY <1>0, <1>3 DEF Pending
  <2>3. vecs'[v + 1] = Vec(v) /\ v < Len(vecs)
    BY <1>2, <2>1 DEF Vec
  <2>. QED
    BY <2>2, <2>3 DEF FInv, VectorFindable
<1>. QED
  BY <1>0, <1>4, <1>5, StoreUpdateIInv DEF FInv, FetchedEmpty

(* Every step of the tick and of the store's writers keeps FInv, when the  *)
(* quantizer assigns every vector.                                         *)
LEMMA NextFInv ==
    ASSUME QuantizerTotal
    PROVE  FInv /\ [Next]_vars => FInv'
<1> SUFFICES ASSUME FInv, [Next]_vars PROVE FInv'
  OBVIOUS
<1>1. CASE Tick
  BY <1>1, AddRTVecsToIndexFInv, AddFInv, AddFailFInv, CompactBucketFInv,
     CompactionEndFInv, FetchFInv, ApplyFInv DEF Tick
<1>2. CASE Env
  BY <1>2, StoreAddFInv, StoreUpdateFInv, DocDeleteFInv DEF Env
<1>3. CASE UNCHANGED vars
  BY <1>3, StutterFInv
<1>. QED
  BY <1>1, <1>2, <1>3 DEF Next

(* The real-time index finds what the store holds (spec 8.1): for every    *)
(* store capacity, batch size, drain cap and interleaving of the store's   *)
(* writers with the tick, every live vid the catch-up has passed whose     *)
(* last overwrite has been drained is in the bucket of its current vector  *)
(* with that vector's code.  The hypothesis is needed: when assign can     *)
(* answer -1, Add shifts the running vids of the batch (finding F2).       *)
THEOREM VectorFindableInvariant ==
    ASSUME QuantizerTotal
    PROVE  Spec => []VectorFindable
<1>1. Init => FInv
  BY InitFInv
<1>2. FInv /\ [Next]_vars => FInv'
  BY NextFInv
<1>3. FInv => VectorFindable
  BY DEF FInv
<1>. QED
  BY <1>1, <1>2, <1>3, PTL DEF Spec

=============================================================================
