---------------------------- MODULE IVFPQIngest ----------------------------
(***************************************************************************)
(* The real-time ingestion tick of GammaIVFPQIndex                         *)
(* (src/index/gamma_index_ivfpq.cc, AddRTVecsToIndex, Add and              *)
(* AddUpdatedVecToIndex) together with the realtime inverted index it      *)
(* writes (RTInvertIndex, C5) and the raw vector store and docid bitmap it *)
(* reads (RawVector, C1, and the bitmap, C2).                              *)
(*                                                                         *)
(* The tick is run by the engine's indexing driver while writers append,   *)
(* overwrite and delete vectors in the store, so every step of the tick    *)
(* that reads the store is an action of its own and the store's writers    *)
(* interleave with it.                                                     *)
(*                                                                         *)
(* Data abstraction: a raw vector is a member of Vals, a PQ code a member  *)
(* of Codes.  The coarse quantizer's assign is the function AssignOf and   *)
(* residual computation plus pq.compute_codes is EncodeOf, both            *)
(* deterministic as the spec requires.  A vid's docid is the vid itself    *)
(* (one vector per document), so the bitmap is the set `deleted` of vids.  *)
(* An inverted bucket is the set of its (vid, code) entries: bucket order  *)
(* carries no meaning (spec I2), invalidated entries are never returned by *)
(* the scanner and are left out, and two physical copies of one entry are  *)
(* one entry.                                                              *)
(***************************************************************************)
EXTENDS Integers, Sequences, FiniteSets

CONSTANTS
    NList,            \* nlist: number of inverted buckets
    Vals,             \* raw vector values
    Codes,            \* PQ codes
    AssignOf,         \* quantizer->assign of one vector: a list or -1
    EncodeOf,         \* compute_residuals + pq.compute_codes: [vector, list] -> code
    MaxVecs,          \* RawVector::GetMaxVectorSize, capacity of the store
    BatchMax,         \* MAX_NUM_PER_INDEX (1000) of AddRTVecsToIndex
    DrainMax,         \* cap (20000) on vids dequeued by AddUpdatedVecToIndex
    MaxUpdates,       \* bound: store overwrites in one behaviour
    MaxAddFailures,   \* bound: failed RTInvertIndex::AddKeys calls
    CompactThreshold  \* delete_num at which RTInvertIndex::Compactable holds

Lists == 0 .. NList - 1
NoList == -1          \* assign's answer when no centroid is representable

ASSUME NListAssumption == NList \in Nat \ {0}
ASSUME AssignAssumption == AssignOf \in [Vals -> Lists \cup {NoList}]
ASSUME EncodeAssumption == EncodeOf \in [Vals \X (Lists \cup {NoList}) -> Codes]
ASSUME BoundsAssumption ==
    /\ MaxVecs \in Nat
    /\ BatchMax \in Nat \ {0}
    /\ DrainMax \in Nat \ {0}
    /\ MaxUpdates \in Nat
    /\ MaxAddFailures \in Nat
    /\ CompactThreshold \in Nat

VARIABLES
    vecs,         \* raw vector store: vecs[v + 1] is the vector of vid v
    deleted,      \* docids (= vids) whose bitmap bit is set
    queue,        \* raw_vec_->updated_vids_, vids whose vector was overwritten
    updatesLeft,  \* budget of store overwrites still allowed
    failsLeft,    \* budget of AddKeys failures still allowed
    idx,          \* the realtime inverted index: a set of entries
    indexed,      \* indexed_vec_count_
    compaction,   \* compaction_
    compactNo,    \* compact_bucket_no_
    pc,           \* where the ingestion tick is
    total,        \* total_stored_vecs, read once at the start of the tick
    batch,        \* i, the catch-up batch being added
    indexCount,   \* index_count, the number of catch-up batches of the tick
    fetched       \* vids dequeued by AddUpdatedVecToIndex with their vectors

storeVars == <<vecs, deleted, queue, updatesLeft>>
tickVars == <<pc, total, batch, indexCount, fetched>>
vars == <<vecs, deleted, queue, updatesLeft, failsLeft, idx, indexed,
          compaction, compactNo, pc, total, batch, indexCount, fetched>>

Entry == [list : Lists, vid : Nat, code : Codes]

Vec(v) == vecs[v + 1]

(* The entry a vector with vid v and value x is stored as. *)
EntryOf(v, x) == [list |-> AssignOf[x], vid |-> v, code |-> EncodeOf[<<x, AssignOf[x]>>]]

-----------------------------------------------------------------------------
(* RTInvertIndex, modelled from its contract in the spec (4.3).            *)

InList(l, v) == \E e \in idx : e.list = l /\ e.vid = v

(* update(list_no, vid, code): replace the code when vid is in list_no,    *)
(* otherwise invalidate its prior entry and append it to list_no.          *)
RTUpdate(l, v, c) ==
    IF InList(l, v)
    THEN {e \in idx : e.list # l \/ e.vid # v} \cup {[list |-> l, vid |-> v, code |-> c]}
    ELSE {e \in idx : e.vid # v}
           \cup (IF l = NoList THEN {} ELSE {[list |-> l, vid |-> v, code |-> c]})

(* compact_bucket(l): keep only the entries whose docid bit is unset. *)
RTCompactBucket(l) == {e \in idx : e.list # l \/ e.vid \notin deleted}

Compactable(deleteNum) == deleteNum >= CompactThreshold

-----------------------------------------------------------------------------
(* GammaIVFPQIndex::Add(n, vec) on the vectors of vids start .. start+n-1: *)
(* positions the quantizer assigns to no list are ignored, and the k-th    *)
(* kept position gets the running vid start + k.                           *)

Kept(start, n) == {p \in 0 .. n - 1 : AssignOf[Vec(start + p)] # NoList}

NewKeys(start, n) ==
    LET K == Kept(start, n)
    IN {EntryOf(start + Cardinality({q \in K : q < p}), Vec(start + p)) : p \in K}

(* Mutant: the last batch stops one vector short of total_stored_vecs. *)
BatchSizeShort == IF batch = indexCount - 1 THEN total - indexed - 1 ELSE BatchMax

(* count_per_index of catch-up batch i. *)
BatchSize == IF batch = indexCount - 1 THEN total - indexed ELSE BatchMax

(* ++i of the catch-up loop; when it ends the tick moves on to the update  *)
(* drain and the loop's locals are gone.                                   *)
NextBatch ==
    IF batch + 1 = indexCount
    THEN /\ pc' = "drain"
         /\ total' = 0 /\ batch' = 0 /\ indexCount' = 0
    ELSE /\ pc' = "add"
         /\ batch' = batch + 1
         /\ UNCHANGED <<total, indexCount>>

-----------------------------------------------------------------------------
Init ==
    /\ vecs = << >>
    /\ deleted = {}
    /\ queue = << >>
    /\ updatesLeft = MaxUpdates
    /\ failsLeft = MaxAddFailures
    /\ idx = {}
    /\ indexed = 0
    /\ compaction = FALSE
    /\ compactNo = 0
    /\ pc = "idle"
    /\ total = 0
    /\ batch = 0
    /\ indexCount = 0
    /\ fetched = << >>

(* AddRTVecsToIndex, lines 176-218: read total_stored_vecs and choose the  *)
(* branch; the compaction branch decides whether a compaction starts.  The *)
(* "internal error" branch (indexed_vec_count_ > total_stored_vecs, lines  *)
(* 177-181) is left out: IndexedWithinStore shows no state reaches it.     *)
AddRTVecsToIndex ==
    /\ pc = "idle"
    /\ \/ /\ indexed = Len(vecs)
          /\ compaction' = (compaction \/ Compactable(Cardinality(deleted)))
          /\ pc' = "compact"
          /\ UNCHANGED <<total, batch, indexCount>>
       \/ /\ indexed < Len(vecs)
          /\ total' = Len(vecs)
          /\ batch' = 0
          /\ indexCount' = (Len(vecs) - indexed) \div BatchMax + 1
          /\ pc' = "add"
          /\ UNCHANGED compaction
    /\ UNCHANGED <<storeVars, failsLeft, idx, indexed, compactNo, fetched>>

(* Mutant: indexed_vec_count_ = vid + 1. *)
AddPastRunningVid ==
    /\ pc = "add"
    /\ batch < indexCount
    /\ idx' = idx \cup NewKeys(indexed, BatchSize)
    /\ indexed' = indexed + Cardinality(Kept(indexed, BatchSize)) + 1
    /\ NextBatch
    /\ UNCHANGED <<storeVars, failsLeft, compaction, compactNo, fetched>>

(* One catch-up batch, lines 220-250, whose Add succeeds: AddKeys takes    *)
(* the groups and indexed_vec_count_ becomes the running vid.              *)
Add ==
    /\ pc = "add"
    /\ batch < indexCount
    /\ idx' = idx \cup NewKeys(indexed, BatchSize)
    /\ indexed' = indexed + Cardinality(Kept(indexed, BatchSize))
    /\ NextBatch
    /\ UNCHANGED <<storeVars, failsLeft, compaction, compactNo, fetched>>

(* The same batch when AddKeys fails: Add returns false, nothing changes   *)
(* and the loop goes on with the next batch from the same start.           *)
AddFail ==
    /\ pc = "add"
    /\ batch < indexCount
    /\ failsLeft > 0
    /\ failsLeft' = failsLeft - 1
    /\ NextBatch
    /\ UNCHANGED <<storeVars, idx, indexed, compaction, compactNo, fetched>>

(* Mutant: the loop test is compact_bucket_no_ <= nlist. *)
CompactBucketPastEnd ==
    /\ pc = "compact"
    /\ compaction
    /\ compactNo <= NList
    /\ ~(Len(vecs) > indexed)
    /\ idx' = RTCompactBucket(compactNo)
    /\ compactNo' = compactNo + 1
    /\ UNCHANGED <<storeVars, failsLeft, indexed, compaction, tickVars>>

(* One iteration of the compaction loop, lines 200-205: unless new vectors *)
(* have arrived, compact bucket compact_bucket_no_ and move on.            *)
CompactBucket ==
    /\ pc = "compact"
    /\ compaction
    /\ compactNo < NList
    /\ ~(Len(vecs) > indexed)
    /\ idx' = RTCompactBucket(compactNo)
    /\ compactNo' = compactNo + 1
    /\ UNCHANGED <<storeVars, failsLeft, indexed, compaction, tickVars>>

(* Mutant: the completion test never matches, the state is never reset. *)
CompactionEndNoReset ==
    /\ pc = "compact"
    /\ ~compaction \/ compactNo >= NList \/ Len(vecs) > indexed
    /\ IF compactNo = NList + 1
       THEN compaction' = FALSE /\ compactNo' = 0
       ELSE UNCHANGED <<compaction, compactNo>>
    /\ pc' = "drain"
    /\ total' = 0
    /\ UNCHANGED <<storeVars, failsLeft, idx, indexed, batch, indexCount,
                   fetched>>

(* The loop ends (all buckets done, or broken by new vectors, or no        *)
(* compaction); lines 207-214 reset the state when the scan is complete.   *)
CompactionEnd ==
    /\ pc = "compact"
    /\ ~compaction \/ compactNo >= NList \/ Len(vecs) > indexed
    /\ IF compactNo = NList
       THEN compaction' = FALSE /\ compactNo' = 0
       ELSE UNCHANGED <<compaction, compactNo>>
    /\ pc' = "drain"
    /\ UNCHANGED <<storeVars, failsLeft, idx, indexed, total, batch,
                   indexCount, fetched>>

(* Mutant: the vids beyond the cap are dropped with the dequeued ones. *)
AddUpdatedVecToIndexFetchDropsRest ==
    /\ pc = "drain"
    /\ LET n == IF Len(queue) < DrainMax THEN Len(queue) ELSE DrainMax
       IN /\ fetched' = [i \in 1 .. n |-> [vid |-> queue[i], vec |-> Vec(queue[i])]]
          /\ queue' = << >>
          /\ pc' = IF n = 0 THEN "idle" ELSE "apply"
    /\ UNCHANGED <<vecs, deleted, updatesLeft, failsLeft, idx, indexed,
                   compaction, compactNo, total, batch, indexCount>>

(* AddUpdatedVecToIndex, lines 260-268: dequeue up to DrainMax vids and    *)
(* read their current vectors.                                             *)
AddUpdatedVecToIndexFetch ==
    /\ pc = "drain"
    /\ LET n == IF Len(queue) < DrainMax THEN Len(queue) ELSE DrainMax
       IN /\ fetched' = [i \in 1 .. n |-> [vid |-> queue[i], vec |-> Vec(queue[i])]]
          /\ queue' = SubSeq(queue, n + 1, Len(queue))
          /\ pc' = IF n = 0 THEN "idle" ELSE "apply"
    /\ UNCHANGED <<vecs, deleted, updatesLeft, failsLeft, idx, indexed,
                   compaction, compactNo, total, batch, indexCount>>

(* One iteration of lines 270-298: reassign, re-encode, RTInvertIndex::Update. *)
AddUpdatedVecToIndexApply ==
    /\ pc = "apply"
    /\ fetched # << >>
    /\ LET f == Head(fetched)
           l == AssignOf[f.vec]
       IN idx' = RTUpdate(l, f.vid, EncodeOf[<<f.vec, l>>])
    /\ fetched' = Tail(fetched)
    /\ pc' = IF Len(fetched) = 1 THEN "idle" ELSE "apply"
    /\ UNCHANGED <<storeVars, failsLeft, indexed, compaction, compactNo,
                   total, batch, indexCount>>

Tick ==
    \/ AddRTVecsToIndex
    \/ Add
    \/ AddFail
    \/ CompactBucket
    \/ CompactionEnd
    \/ AddUpdatedVecToIndexFetch
    \/ AddUpdatedVecToIndexApply

-----------------------------------------------------------------------------
(* The writers of the store, modelled from the spec (C1, C2, section 6).   *)

(* RawVector add: a new vector gets the next vid. *)
StoreAdd(x) ==
    /\ Len(vecs) < MaxVecs
    /\ vecs' = Append(vecs, x)
    /\ UNCHANGED <<deleted, queue, updatesLeft, failsLeft, idx, indexed,
                   compaction, compactNo, tickVars>>

(* RawVector update: overwrite a live vector and enqueue its vid. *)
StoreUpdate(v, x) ==
    /\ v < Len(vecs)
    /\ v \notin deleted
    /\ updatesLeft > 0
    /\ vecs' = [vecs EXCEPT ![v + 1] = x]
    /\ queue' = Append(queue, v)
    /\ updatesLeft' = updatesLeft - 1
    /\ UNCHANGED <<deleted, failsLeft, idx, indexed, compaction, compactNo,
                   tickVars>>

(* Document delete: set the docid's bitmap bit (delete_num grows). *)
DocDelete(v) ==
    /\ v < Len(vecs)
    /\ v \notin deleted
    /\ deleted' = deleted \cup {v}
    /\ UNCHANGED <<vecs, queue, updatesLeft, failsLeft, idx, indexed,
                   compaction, compactNo, tickVars>>

Env ==
    \/ \E x \in Vals : StoreAdd(x)
    \/ \E v \in 0 .. MaxVecs - 1, x \in Vals : StoreUpdate(v, x)
    \/ \E v \in 0 .. MaxVecs - 1 : DocDelete(v)

Next == Tick \/ Env

(* The indexing driver calls AddRTVecsToIndex in a loop, so the tick never *)
(* stops for good; the store's writers owe nothing.                        *)
Spec == Init /\ [][Next]_vars /\ WF_vars(Tick)

-----------------------------------------------------------------------------
(* Properties.                                                             *)

(* A vid is pending while the update drain still owes it a re-encoding:    *)
(* it is in updated_vids_ or among the vids AddUpdatedVecToIndex fetched.  *)
Pending(v) ==
    \/ \E i \in 1 .. Len(queue) : queue[i] = v
    \/ \E i \in 1 .. Len(fetched) : fetched[i].vid = v

TypeOK ==
    /\ vecs \in Seq(Vals)
    /\ deleted \subseteq Nat
    /\ queue \in Seq(Nat)
    /\ updatesLeft \in 0 .. MaxUpdates
    /\ failsLeft \in 0 .. MaxAddFailures
    /\ idx \subseteq Entry
    /\ indexed \in Nat
    /\ compaction \in BOOLEAN
    /\ compactNo \in 0 .. NList
    /\ pc \in {"idle", "add", "compact", "drain", "apply"}
    /\ total \in Nat
    /\ batch \in Nat
    /\ indexCount \in Nat
    /\ fetched \in Seq([vid : Nat, vec : Vals])

(* indexed_vec_count_ never passes the number of stored vectors: the       *)
(* "internal error" branch of AddRTVecsToIndex (line 177) is unreachable,  *)
(* however the catch-up batches are cut and whatever the store does        *)
(* between the snapshot of total_stored_vecs and the batches.              *)
IndexedWithinStore == indexed <= Len(vecs)

(* Every vid the catch-up has passed whose document is live, whose vector  *)
(* the quantizer can assign and whose last overwrite has been drained is   *)
(* in the bucket of its current vector with the code of its current        *)
(* vector: the real-time index finds what the store holds (spec 8.1 and    *)
(* end-to-end scenario 2), across batches, failed AddKeys, updates and     *)
(* compactions.                                                            *)
VectorFindable ==
    \A v \in 0 .. indexed - 1 :
        (/\ v < Len(vecs)
         /\ v \notin deleted
         /\ ~Pending(v)
         /\ AssignOf[Vec(v)] # NoList)
        => EntryOf(v, Vec(v)) \in idx

(* Spec I1 and testable property 8.1: a vid is in at most one bucket. *)
UniqueVid == \A e1, e2 \in idx : e1.vid = e2.vid => e1.list = e2.list

(* Every vector the store holds is eventually absorbed by the catch-up     *)
(* (indexed_vec_count_ passes its vid), failed AddKeys calls included.     *)
EveryVectorIndexed ==
    \A v \in 0 .. MaxVecs - 1 : (v < Len(vecs)) ~> (v < indexed)

(* Once a document is deleted and the index is compactable, the tick's     *)
(* compaction eventually drops every entry of it, even when new vectors    *)
(* break the compaction loop and it resumes at compact_bucket_no_.         *)
DeletedPurged ==
    \A v \in 0 .. MaxVecs - 1 :
        (v \in deleted /\ Compactable(Cardinality(deleted)))
            ~> (\A e \in idx : e.vid # v)

=============================================================================
