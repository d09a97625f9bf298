---------------------------- MODULE IVFPQSearch ----------------------------
(***************************************************************************)
(* GammaIVFPQIndex::search_preassigned (src/index/gamma_index_ivfpq.cc)    *)
(* for a batch of queries over a fixed index, with the OpenMP threads of   *)
(* its parallel region, or SearchDirectly when use_direct_search is set,   *)
(* followed by the docid remapping of Search.                              *)
(*                                                                         *)
(* Threads 0 .. NThreads-1 run the region.  In mode 0 (parallel over       *)
(* queries) `omp for` hands each thread a contiguous chunk of queries; in  *)
(* mode 1 (parallel over lists) all threads walk the queries together,     *)
(* grab probes one at a time (schedule(dynamic)) into thread-local recall  *)
(* heaps, meet at barriers, merge under `omp critical` and let one thread  *)
(* (`omp single`) init the shared heaps and run compute_dis.               *)
(*                                                                         *)
(* The output arrays `distances`/`labels` are `out`, a sequence whose     *)
(* element i*k + j + 1 is slot j of query i; a write past their end is    *)
(* recorded in `overflow`.  The result                                     *)
(* heaps are faiss binary heaps kept as sequences of [d, id] pairs with    *)
(* the layout faiss's heap_pop/heap_push give them, because compute_dis    *)
(* without rank reads them in array order.  Metric L2 (CMax heaps).        *)
(***************************************************************************)
EXTENDS Integers, Sequences, FiniteSets, SequencesExt

CONSTANTS NQ, K, R, NProbe, ListVids, Probes, PQDist, ExactDist, Vid2Docid,
          Filtered, MaxCodes, Conds,
          NThreads,   \* omp_get_num_threads() of the parallel region
          Inf         \* CMax::neutral(), larger than every distance

ASSUME SearchAssumption ==
    /\ NQ \in Nat \ {0} /\ K \in Nat \ {0} /\ R \in Nat /\ R >= K
    /\ NProbe \in Nat \ {0} /\ NThreads \in Nat \ {0} /\ MaxCodes \in Nat
    /\ Probes \in [0 .. NQ - 1 -> Seq(Int)]

VARIABLES
    cond,        \* the GammaSearchCondition of the call
    out,         \* distances/labels: a sequence of NQ * K [d, id] pairs
    overflow,    \* some write went past the end of distances/labels
    recall,      \* recall_distances/recall_labels: query -> heap of R pairs
    local,       \* local_dis/local_idx of each thread (mode 1)
    pc,          \* where each thread is
    q,           \* each thread's query index i
    probe,       \* ik, probes scanned so far of the thread's query (mode 0)
    nscan,       \* nscan, codes scanned so far of the thread's query (mode 0)
    claimed,     \* next ik the dynamic schedule hands out (mode 1)
    singleDone,  \* which `omp single` blocks of the current query have run
    res          \* result.docids/result.dists after Search's remapping

vars == <<cond, out, overflow, recall, local, pc, q, probe, nscan, claimed,
          singleDone, res>>

Threads == 0 .. NThreads - 1
Neutral == [d |-> Inf, id |-> -1]
NeutralHeap(n) == SubSeq([j \in 1 .. n |-> Neutral], 1, n)

Abs == INSTANCE IVFPQSearchSpec WITH result <- res

InRange(c, dis) == Abs!InRange(c, dis)
ListLen(l) == Abs!ListLen(l)

-----------------------------------------------------------------------------
(* faiss heaps (faiss/utils/Heap.h), 1-based, CMax: the root is the worst. *)

(* heap_pop(k): sift the last element down from the root. *)
RECURSIVE PopDown(_, _, _, _)
PopDown(h, k, val, i) ==
    LET i1 == 2 * i
        c == IF i1 + 1 = k + 1 \/ h[i1].d > h[i1 + 1].d THEN i1 ELSE i1 + 1
    IN IF i1 > k \/ val.d > h[c].d
       THEN [h EXCEPT ![i] = h[k]]
       ELSE PopDown([h EXCEPT ![i] = h[c]], k, val, c)

(* heap_push(k): put e in slot k and sift it up. *)
RECURSIVE PushUp(_, _, _)
PushUp(h, i, e) ==
    IF i > 1 /\ e.d > h[i \div 2].d
    THEN PushUp([h EXCEPT ![i] = h[i \div 2]], i \div 2, e)
    ELSE [h EXCEPT ![i] = e]

(* `if (C::cmp(simi[0], dis)) { heap_pop; heap_push }` *)
HeapAdd(h, e) ==
    IF h[1].d > e.d THEN PushUp(PopDown(h, Len(h), h[Len(h)], 1), Len(h), e) ELSE h

(* heap_addn: every pair of src offered to h in array order. *)
HeapAddN(h, src) == FoldLeft(HeapAdd, h, src)

(* heap_reorder: the valid pairs by increasing distance, then padding. *)
Reorder(h) == SortSeq(h, LAMBDA a, b : a.d < b.d)

(* std::sort of (id, sim) pairs. *)
SortByDocid(h) == SortSeq(h, LAMBDA a, b : a.id < b.id \/ (a.id = b.id /\ a.d < b.d))

-----------------------------------------------------------------------------
(* scan_one_list on list `key` into heap h: no list for key < 0, nothing   *)
(* for an empty list, else the scanner skips filtered docids and offers    *)
(* every other code with its PQ distance.                                  *)
ScanOneList(h, key) ==
    IF ListLen(key) = 0 THEN h
    ELSE FoldLeft(LAMBDA acc, v : IF Vid2Docid[v] \in Filtered THEN acc
                                  ELSE HeapAdd(acc, [d |-> PQDist[v], id |-> v]),
                  h, ListVids[key])

QuerySlots(i) == SubSeq(out, i * K + 1, i * K + K)

(* compute_dis with rank: exact distances of the recall candidates that    *)
(* pass the range predicate go through the k-heap, then sort.              *)
RankResult(c, rh, kh) ==
    LET h == FoldLeft(LAMBDA acc, e :
                 IF e.id = -1 \/ ~InRange(c, ExactDist[e.id]) THEN acc
                 ELSE HeapAdd(acc, [d |-> ExactDist[e.id], id |-> e.id]), kh, rh)
    IN IF c.sortByDocid THEN SortByDocid(h) ELSE Reorder(h)

(* compute_dis without rank: the recall pairs that pass the range          *)
(* predicate, in heap array order, written from simi[0] on.                *)
NoRankResult(c, rh) == SelectSeq(rh, LAMBDA e : e.id # -1 /\ InRange(c, e.d))

(* out with s written from slot base on; slots past the arrays are lost. *)
WriteOut(base, s) ==
    [p \in 1 .. NQ * K |-> IF p - base \in 1 .. Len(s) THEN s[p - base] ELSE out[p]]

(* compute_dis(xi, simi, idxi, recall_simi, recall_idxi) of query i. *)
ComputeDis(i) ==
    LET s == IF cond.hasRank THEN RankResult(cond, recall[i], QuerySlots(i))
             ELSE NoRankResult(cond, recall[i])
    IN /\ out' = WriteOut(i * K, s)
       /\ overflow' = (overflow \/ i * K + Len(s) > NQ * K)

(* init_result on the k slots of query i and its recall heap. *)
InitResult(i) ==
    /\ out' = WriteOut(i * K, NeutralHeap(K))
    /\ recall' = [recall EXCEPT ![i] = NeutralHeap(R)]

-----------------------------------------------------------------------------
(* Mode 0, `#pragma omp for` over queries: static chunks. *)
Chunk == (NQ + NThreads - 1) \div NThreads
FirstQuery(t) == t * Chunk
LastQuery(t) == IF (t + 1) * Chunk < NQ THEN (t + 1) * Chunk - 1 ELSE NQ - 1

(* `if (do_parallel)`: otherwise only the master thread runs the region. *)
(* SearchDirectly always opens the region on every thread.                *)
Active(c) ==
    IF c.direct \/ (IF c.byQuery THEN NQ > 1 ELSE NProbe > 1) THEN Threads ELSE {0}

(* Start of query q[t]: init_result of both heaps, nscan = 0. *)
QueryStart(t) ==
    /\ pc[t] = "start"
    /\ InitResult(q[t])
    /\ probe' = [probe EXCEPT ![t] = 0]
    /\ nscan' = [nscan EXCEPT ![t] = 0]
    /\ pc' = [pc EXCEPT ![t] = "probe"]
    /\ UNCHANGED <<cond, overflow, local, q, claimed, singleDone, res>>

(* One probe ik of the query; `if (max_codes && nscan >= max_codes) break`. *)
QueryProbe(t) ==
    LET i == q[t]
        key == Probes[i][probe[t] + 1]
        n == nscan[t] + ListLen(key)
    IN /\ pc[t] = "probe"
       /\ recall' = [recall EXCEPT ![i] = ScanOneList(recall[i], key)]
       /\ probe' = [probe EXCEPT ![t] = probe[t] + 1]
       /\ nscan' = [nscan EXCEPT ![t] = n]
       /\ pc' = [pc EXCEPT ![t] =
                   IF probe[t] + 1 = NProbe \/ (MaxCodes > 0 /\ n >= MaxCodes)
                   THEN "compute" ELSE "probe"]
       /\ UNCHANGED <<cond, out, overflow, local, q, claimed, singleDone, res>>

(* compute_dis of the query, then the next query of the chunk. *)
QueryCompute(t) ==
    /\ pc[t] = "compute"
    /\ ComputeDis(q[t])
    /\ q' = [q EXCEPT ![t] = q[t] + 1]
    /\ pc' = [pc EXCEPT ![t] = IF q[t] < LastQuery(t) THEN "start" ELSE "done"]
    /\ UNCHANGED <<cond, recall, local, probe, nscan, claimed, singleDone, res>>

-----------------------------------------------------------------------------
(* Mode 1: per query, init_result of the local heap, then `omp for        *)
(* schedule(dynamic)` over the probes.                                     *)
LocalInit(t) ==
    /\ pc[t] = "local"
    /\ local' = [local EXCEPT ![t] = NeutralHeap(R)]
    /\ pc' = [pc EXCEPT ![t] = "for"]
    /\ UNCHANGED <<cond, out, overflow, recall, q, probe, nscan, claimed, singleDone, res>>

(* The thread takes the next iteration ik and scans it into its own heap. *)
ForProbe(t) ==
    /\ pc[t] = "for"
    /\ claimed < NProbe
    /\ claimed' = claimed + 1
    /\ local' = [local EXCEPT ![t] = ScanOneList(local[t], Probes[q[t]][claimed + 1])]
    /\ UNCHANGED <<cond, out, overflow, recall, pc, q, probe, nscan, singleDone, res>>

ForEnd(t) ==
    /\ pc[t] = "for"
    /\ claimed = NProbe
    /\ pc' = [pc EXCEPT ![t] = "forBarrier"]
    /\ UNCHANGED <<cond, out, overflow, recall, local, q, probe, nscan, claimed, singleDone, res>>

(* `omp single`: the first thread to arrive runs the block, the others    *)
(* skip it; all wait at its implicit barrier.                              *)
Single(t, name, from, to, block) ==
    /\ pc[t] = from
    /\ pc' = [pc EXCEPT ![t] = to]
    /\ \/ /\ name \notin singleDone
          /\ singleDone' = singleDone \cup {name}
          /\ block
       \/ /\ name \in singleDone
          /\ UNCHANGED <<singleDone, out, overflow, recall>>
    /\ UNCHANGED <<cond, local, q, probe, nscan, claimed, res>>

SingleInit(t) == Single(t, "init", "singleInit", "initBarrier",
                        InitResult(q[t]) /\ UNCHANGED overflow)

(* Mutant: the `omp barrier` after the critical section is dropped. *)
MergeNoBarrier(t) ==
    /\ pc[t] = "merge"
    /\ recall' = [recall EXCEPT ![q[t]] = HeapAddN(recall[q[t]], local[t])]
    /\ pc' = [pc EXCEPT ![t] = "singleCompute"]
    /\ UNCHANGED <<cond, out, overflow, local, q, probe, nscan, claimed, singleDone, res>>

(* The critical section: heap_addn of the thread's local heap. *)
Merge(t) ==
    /\ pc[t] = "merge"
    /\ recall' = [recall EXCEPT ![q[t]] = HeapAddN(recall[q[t]], local[t])]
    /\ pc' = [pc EXCEPT ![t] = "mergeBarrier"]
    /\ UNCHANGED <<cond, out, overflow, local, q, probe, nscan, claimed, singleDone, res>>

SingleCompute(t) == Single(t, "compute", "singleCompute", "queryBarrier",
                           ComputeDis(q[t]) /\ UNCHANGED recall)

(* A barrier: when every active thread has arrived at `at`, all go on. *)
AfterBarrier(at) ==
    CASE at = "forBarrier" -> "singleInit"
      [] at = "initBarrier" -> "merge"
      [] at = "mergeBarrier" -> "singleCompute"
      [] at = "dforBarrier" -> "dsingleInit"
      [] at = "dinitBarrier" -> "dmerge"
      [] at = "dmergeBarrier" -> "dsingleSort"

Barrier(at) ==
    /\ \A t \in Active(cond) : pc[t] = at
    /\ pc' = [t \in Threads |-> IF t \in Active(cond) THEN AfterBarrier(at) ELSE pc[t]]
    /\ UNCHANGED <<cond, out, overflow, recall, local, q, probe, nscan, claimed, singleDone, res>>

(* The barrier ending `omp single` compute_dis, then ++i. *)
QueryBarrier ==
    /\ \A t \in Active(cond) : pc[t] = "queryBarrier"
    /\ LET i == q[0]
       IN /\ q' = [t \in Threads |-> IF t \in Active(cond) THEN i + 1 ELSE q[t]]
          /\ pc' = [t \in Threads |-> IF t \notin Active(cond) THEN pc[t]
                                      ELSE IF i + 1 >= NQ THEN "done"
                                      ELSE IF cond.direct THEN "dlocal" ELSE "local"]
    /\ claimed' = 0
    /\ singleDone' = {}
    /\ UNCHANGED <<cond, out, overflow, recall, local, probe, nscan, res>>

-----------------------------------------------------------------------------
(* SearchDirectly.  The raw store holds the vids of vid2docid's domain,    *)
(* 0 .. NumVectors-1, and the exact distance is computed for each.         *)
NumVectors == Cardinality(DOMAIN Vid2Docid)
Vectors(offset, ny) == [j \in 1 .. ny |-> offset + j - 1]

(* search_impl's filters: the bitmap, then the range check, which applies  *)
(* only when `ck_dis = min_dist >= 0 && max_dist >= 0`.                    *)
DirectPass(v) ==
    /\ Vid2Docid[v] \notin Filtered
    /\ cond.minD >= 0 /\ cond.maxD >= 0 =>
           ExactDist[v] >= cond.minD /\ ExactDist[v] <= cond.maxD

(* search_impl(xi, y, ny, offset, simi, idxi, k) on vectors s into heap h. *)
SearchImpl(h, s) ==
    FoldLeft(LAMBDA acc, v : IF DirectPass(v)
                             THEN HeapAdd(acc, [d |-> ExactDist[v], id |-> v])
                             ELSE acc, h, s)

SortResult(h) == IF cond.sortByDocid THEN SortByDocid(h) ELSE Reorder(h)

(* Mode 0: init_result, search_impl over every vector, sort, all on the   *)
(* query's own k slots; then the next query of the thread's chunk.        *)
DirectQuery(t) ==
    /\ pc[t] = "direct"
    /\ out' = WriteOut(q[t] * K,
                       SortResult(SearchImpl(NeutralHeap(K), Vectors(0, NumVectors))))
    /\ q' = [q EXCEPT ![t] = q[t] + 1]
    /\ pc' = [pc EXCEPT ![t] = IF q[t] < LastQuery(t) THEN "direct" ELSE "done"]
    /\ UNCHANGED <<cond, overflow, recall, local, probe, nscan, claimed, singleDone, res>>

(* Mode 1: init_result of the thread's local k-heap. *)
DirectLocalInit(t) ==
    /\ pc[t] = "dlocal"
    /\ local' = [local EXCEPT ![t] = NeutralHeap(K)]
    /\ pc' = [pc EXCEPT ![t] = "dfor"]
    /\ UNCHANGED <<cond, out, overflow, recall, q, probe, nscan, claimed, singleDone, res>>

(* `omp for schedule(dynamic)` over ik < num_threads: chunk ik holds       *)
(* num_vectors / num_threads vectors from ik times that, the last one the  *)
(* rest as well.                                                           *)
DirectForChunk(t) ==
    LET per == NumVectors \div NThreads
        ik == claimed
        ny == per + (IF ik = NThreads - 1 THEN NumVectors % NThreads ELSE 0)
    IN /\ pc[t] = "dfor"
       /\ claimed < NThreads
       /\ claimed' = claimed + 1
       /\ local' = [local EXCEPT ![t] = SearchImpl(local[t], Vectors(ik * per, ny))]
       /\ UNCHANGED <<cond, out, overflow, recall, pc, q, probe, nscan, singleDone, res>>

DirectForEnd(t) ==
    /\ pc[t] = "dfor"
    /\ claimed = NThreads
    /\ pc' = [pc EXCEPT ![t] = "dforBarrier"]
    /\ UNCHANGED <<cond, out, overflow, recall, local, q, probe, nscan, claimed, singleDone, res>>

DirectSingleInit(t) == Single(t, "init", "dsingleInit", "dinitBarrier",
                              out' = WriteOut(q[t] * K, NeutralHeap(K))
                              /\ UNCHANGED <<overflow, recall>>)

(* The critical section: heap_addn of the local k-heap into simi/idxi. *)
DirectMerge(t) ==
    /\ pc[t] = "dmerge"
    /\ out' = WriteOut(q[t] * K, HeapAddN(QuerySlots(q[t]), local[t]))
    /\ pc' = [pc EXCEPT ![t] = "dmergeBarrier"]
    /\ UNCHANGED <<cond, overflow, recall, local, q, probe, nscan, claimed, singleDone, res>>

DirectSingleSort(t) == Single(t, "sort", "dsingleSort", "queryBarrier",
                              out' = WriteOut(q[t] * K, SortResult(QuerySlots(q[t])))
                              /\ UNCHANGED <<overflow, recall>>)

-----------------------------------------------------------------------------
(* Mutant: the padding loop runs to pos <= topn. *)
RemapPadPastK(i) ==
    LET step(acc, e) ==
            IF e.id = -1 \/ Vid2Docid[e.id] \in {x.doc : x \in ToSet(acc)} THEN acc
            ELSE Append(acc, [doc |-> Vid2Docid[e.id], d |-> e.d])
        s == FoldLeft(step, << >>, QuerySlots(i))
    IN s \o [j \in 1 .. K - Len(s) + 1 |-> [doc |-> -1, d |-> -1]]

(* Search's remapping of query i: walk the k slots, skip -1, map vid to    *)
(* docid, keep the first slot of each docid, pad with (-1, -1).            *)
Remap(i) ==
    LET step(acc, e) ==
            IF e.id = -1 \/ Vid2Docid[e.id] \in {x.doc : x \in ToSet(acc)} THEN acc
            ELSE Append(acc, [doc |-> Vid2Docid[e.id], d |-> e.d])
        s == FoldLeft(step, << >>, QuerySlots(i))
    IN s \o [j \in 1 .. K - Len(s) |-> [doc |-> -1, d |-> -1]]

(* The region has joined: Search remaps every query. *)
Finish ==
    /\ \A t \in Threads : pc[t] = "done"
    /\ res = Abs!NotDone
    /\ res' = [i \in 0 .. NQ - 1 |-> Remap(i)]
    /\ UNCHANGED <<cond, out, overflow, recall, local, pc, q, probe, nscan, claimed, singleDone>>

Init ==
    /\ cond \in Conds
    /\ out = NeutralHeap(NQ * K)
    /\ overflow = FALSE
    /\ recall = [i \in 0 .. NQ - 1 |-> NeutralHeap(R)]
    /\ local = [t \in Threads |-> NeutralHeap(R)]
    /\ pc = [t \in Threads |->
               CASE t \notin Active(cond) -> "done"
                 [] FirstQuery(t) >= NQ /\ cond.byQuery -> "done"
                 [] cond.direct -> IF cond.byQuery THEN "direct" ELSE "dlocal"
                 [] cond.byQuery -> "start"
                 [] OTHER -> "local"]
    /\ q = [t \in Threads |-> IF cond.byQuery THEN FirstQuery(t) ELSE 0]
    /\ probe = [t \in Threads |-> 0]
    /\ nscan = [t \in Threads |-> 0]
    /\ claimed = 0
    /\ singleDone = {}
    /\ res = Abs!NotDone

Next ==
    \/ \E t \in Threads :
          \/ QueryStart(t) \/ QueryProbe(t) \/ QueryCompute(t)
          \/ LocalInit(t) \/ ForProbe(t) \/ ForEnd(t)
          \/ SingleInit(t) \/ Merge(t) \/ SingleCompute(t)
          \/ DirectQuery(t) \/ DirectLocalInit(t) \/ DirectForChunk(t)
          \/ DirectForEnd(t) \/ DirectSingleInit(t) \/ DirectMerge(t)
          \/ DirectSingleSort(t)
    \/ \E at \in {"forBarrier", "initBarrier", "mergeBarrier",
                  "dforBarrier", "dinitBarrier", "dmergeBarrier"} : Barrier(at)
    \/ QueryBarrier
    \/ Finish

Spec == Init /\ [][Next]_vars

-----------------------------------------------------------------------------
Pair == [d : Int, id : Int]

TypeOK ==
    /\ cond \in Conds
    /\ out \in [1 .. NQ * K -> Pair]
    /\ overflow \in BOOLEAN
    /\ recall \in [0 .. NQ - 1 -> [1 .. R -> Pair]]
    /\ local \in [Threads -> [1 .. R -> Pair] \cup [1 .. K -> Pair]]
    /\ q \in [Threads -> 0 .. NQ]
    /\ probe \in [Threads -> 0 .. NProbe]
    /\ claimed \in 0 .. NProbe
    /\ res = Abs!NotDone \/ res \in [0 .. NQ - 1 -> [1 .. K -> [doc : Int, d : Int]]]

(* Whatever the parallel mode, the thread count, the order in which the    *)
(* dynamic schedule hands out probes and threads enter the critical        *)
(* section, search_preassigned followed by Search's remapping answers what *)
(* the search specification says (spec 4.5.2, 8.5, 8.7, 8.8): this        *)
(* detailed specification implements IVFPQSearchSpec.                     *)
SearchRefines == Abs!Spec

(* Filter soundness (spec 8, invariant 7): no result slot holds a docid    *)
(* whose bitmap bit is set, and every result distance satisfies the range  *)
(* predicate, whichever search path (IVF-PQ or direct) produced it.        *)
FilterSound ==
    res # Abs!NotDone =>
        \A i \in 0 .. NQ - 1 : \A j \in 1 .. K :
            res[i][j].doc # -1 => res[i][j].doc \notin Filtered /\ InRange(cond, res[i][j].d)

(* compute_dis never writes past the end of the distances/labels arrays    *)
(* the caller passed (n * topn slots).                                     *)
NoBufferOverrun == ~overflow

=============================================================================
