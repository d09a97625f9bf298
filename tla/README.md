# Formal models of the gamma IVF-PQ engine

This directory holds TLA+ models of the real-time IVF-PQ vector index in
`src/index/gamma_index_ivfpq.cc` and of the attribute table in
`src/table/table.cc`. It also holds TLC configurations that model-check
them on small instances and TLAPS proofs of their main safety properties for
every value of the constants.

## 1. The system

`spec.md` names eight components.

| # | Component | Where | State it owns |
|---|-----------|-------|---------------|
| C1 | Raw vector store | external (`RawVector`) | vectors by vid, `updated_vids_` queue |
| C2 | Docid bitmap | external | one deletion bit per docid |
| C3 | PQ codec | faiss `pq` | frozen codebooks |
| C4 | Coarse quantizer | faiss `quantizer` | frozen centroids |
| C5 | Realtime inverted index | external (`RTInvertIndex`) | per-bucket `(vid, code)` arrays |
| C6 | Inverted-list view | `RTInvertedLists`, lines 1039-1087 | none (borrows C5) |
| C7 | IVF-PQ engine | `GammaIVFPQIndex`, lines 46-1037 | `indexed_vec_count_`, `compaction_`, `compact_bucket_no_` |
| C8 | Scanner | external (`GammaIVFPQScanner`) | per-query lookup tables |

The attribute table (`Table`) is beside them. It holds a key → docid map, a
fixed-width record store and `last_docid_`.

**How they interact.** An external driver calls the ingestion tick
`AddRTVecsToIndex` over and over, on one thread. Meanwhile:
- writers append vectors to C1, overwrite them (which enqueues the vid in
  `updated_vids_`) and delete documents (which sets the C2 bit);
- searches run in parallel (OpenMP) and read C5 through C6.

The tick has three phases:
- **catch-up** (`indexed_vec_count_ < total_stored_vecs`): batches of at most
  1000 vectors go through `Add`, which assigns, encodes, groups and calls
  `AddKeys`;
- **compaction** (otherwise): starts when `Compactable(delete_num)` holds,
  compacts one bucket after another, breaks when new vectors arrive, and
  resets when `compact_bucket_no_` reaches nlist;
- **update drain** (always): `AddUpdatedVecToIndex` dequeues up to 20000
  vids, reads their current vectors, and re-assigns, re-encodes and calls
  `RTInvertIndex::Update`.

**What makes it hard:**
- the writers interleave with every step of the tick;
- the tick snapshots the store size once, but the compaction loop rereads it;
- an `AddKeys` failure leaves the counter and lets the loop go on;
- a compaction is broken and resumed over many ticks;
- the drain cap;
- the quantizer's `-1` answer;
- the search side reads buckets that the tick rewrites concurrently.

## 2. Modules

| Module | Models | Source |
|--------|--------|--------|
| `IVFPQIngest` | the ingestion tick (C7), C5 as used by it, the writers of C1/C2 | `gamma_index_ivfpq.cc` 46-76, 174-373 |
| `IVFPQIngestProofs` | TLAPS proofs about `IVFPQIngest` | — |
| `MC_IVFPQIngest` | small instances: vectors and codes as model values, quantizer and encoder as tables | — |
| `Table` | the attribute table: schema, key map, record store, `last_docid_`, restart and `Load` | `table.cc` 26-85, 94-191, 210-416 |
| `TableProofs` | TLAPS proofs about `Table` | — |
| `MC_Table` | small instances: two keys, the empty key, two values, two field names | — |
| `IVFPQSearchSpec` | what `Search` promises: the answer as a function of the index, bitmap and condition | spec 4.5.2-4.5.6, 8.5-8.8 |
| `IVFPQSearch` | `search_preassigned` with its OpenMP threads (modes 0 and 1), the scanner, `compute_dis` and the remap in `Search` | `gamma_index_ivfpq.cc` 388-495, 508-758, 1002-1036 |
| `MC_IVFPQSearch` | a 3-list, 6-vid index with 2 queries and the conditions a caller may pass | — |
| `RTInvertedListsView` | C6 (`list_size`/`get_codes`/`get_ids`) read by `scan_one_list` while the tick writes the same bucket | `gamma_index_ivfpq.cc` 641-665, 1044-1076 |
| `RTInvertedListsViewProofs` | TLAPS proofs about `RTInvertedListsView` | — |
| `MC_RTInvertedListsView` | one bucket, 3 vids, initial capacity 2 | — |

### IVFPQIngest

**State.** Each variable corresponds to part of the code:
- `vecs` is the raw store; vid `v` is `vecs[v+1]`.
- `deleted` is the set of deleted docids. A vid's docid is the vid itself: one
  vector per document.
- `queue` is `updated_vids_`.
- `idx` is C5 as a set of `[list, vid, code]` entries. Bucket order carries no
  meaning (spec I2). Invalidated entries are never returned, so they are left
  out.
- `indexed`, `compaction` and `compactNo` are the engine's three counters.
- `pc`, `total`, `batch`, `indexCount` and `fetched` are the tick's control
  point and the locals of `AddRTVecsToIndex` and `AddUpdatedVecToIndex`.
- `updatesLeft` and `failsLeft` are the budgets that bound overwrites and
  `AddKeys` failures.

**Actions.** Each step of the tick that reads the store is an action of its
own, so the writers can run between any two steps:

| Action | Code |
|--------|------|
| `AddRTVecsToIndex` | lines 174-218: snapshot, branch choice, start of compaction |
| `Add` / `AddFail` | one catch-up batch, lines 220-250 with `Add` 305-361 (success / `AddKeys` failure) |
| `CompactBucket` | one iteration of the loop at lines 200-205 |
| `CompactionEnd` | loop exit and reset, lines 207-214 |
| `AddUpdatedVecToIndexFetch` | dequeue and `Gets`, lines 252-268 |
| `AddUpdatedVecToIndexApply` | one iteration of lines 270-298 |
| `StoreAdd`, `StoreUpdate`, `DocDelete` | the writers, modelled from spec 3 and 6 |

Some parts are modelled from spec 4.3, because they are not under `src/`:
- `RTUpdate`, `RTCompactBucket` and `Compactable` (C5);
- the three writers.

The "internal error" branch (`indexed_vec_count_ > total_stored_vecs`) is left
out because it is unreachable: `IndexedWithinStore` shows it, and it is proved.

**Data abstraction.** Data is reduced to what the properties tell apart:
- a vector is a member of `Vals` and a code a member of `Codes`;
- `AssignOf : Vals -> Lists ∪ {-1}` is `quantizer->assign`;
- `EncodeOf : Vals × list -> Codes` is `compute_residuals` followed by
  `pq.compute_codes`. The code depends on the list through the residual.

**Fairness.** `WF_vars(Tick)`: the driver calls the tick in a loop and every
step of the tick is enabled until the tick ends. The writers owe nothing.

### Table

**State.** Each variable corresponds to part of the code:
- `attrs` is the list of field names in `field_num_` order (`attr_idx_map_`);
- `created` is `table_created_`, and `storageOk` says whether
  `storage_mgr_->Init` succeeded;
- `keymap` is `item_to_docid_`, a key → docid map with `None` for an absent
  key;
- `records` is the storage manager's record store; docid `d` is
  `records[d+1]`, a record is its `_id` and one value standing for the other
  fields;
- `lastDocid` is `last_docid_`;
- `up` is FALSE between a process restart and the end of `Load`;
- `savedMap` is a history variable (the key map when the process last went
  down) and `crashesLeft` the restart budget.

**Actions.**

| Action | Code |
|--------|------|
| `CreateTable` | lines 94-150 with `AddField` 169-191: fields are added until a duplicate; `table_created_` is set before the storage `Init` |
| `Add` | lines 210-273: an empty `_id` returns before anything changes |
| `BatchAdd` | lines 275-358: parallel key inserts (a key repeated in the batch keeps whichever docid is inserted first, chosen by `\E winner`), then every record is appended |
| `Update` | lines 360-403: rewrites the non-key fields |
| `Delete` | lines 405-416: erases the key from the map only |
| `Crash` | the process stops; the new object is the constructor, lines 26-40; stored records survive |
| `Load` | lines 51-85: truncate to the recovered count and re-insert each record's `_id` in docid order |

The docid a caller passes to `Add`/`BatchAdd` is the number of stored
records, the engine's `max_docid`. `item_to_docid_.insert` keeps an
existing entry (cuckoo-hash semantics, modelled as `Insert`).

After a failed storage `Init` no call of the table is modelled, so the run
does not check deadlock (`CHECK_DEADLOCK FALSE`): the table then stays
created and unusable, which is where the code leaves it.

### IVFPQSearchSpec and IVFPQSearch

`IVFPQSearchSpec` is the abstract specification of one call of `Search` over
a fixed index. `cond` is the `GammaSearchCondition`, and `result` starts
empty. One step, `Answer`, sets `result` to `Expected(cond)`:
- the candidates of each query are the vids of its probed lists whose docid is
  not filtered;
- the `recall_num` best by PQ distance are kept;
- of those, the ones passing the range predicate compete for the top `k`, by
  exact distance with `has_rank` and by PQ distance without it;
- the top `k` are ordered by vid (`sort_by_docid`) or by distance, mapped to
  docids, deduplicated (the first slot of a docid wins) and padded with
  `(-1, -1)`;
- in mode 0 with `max_codes > 0`, probing stops once the codes scanned so far
  exceed `max_codes`;
- with `use_direct_search` (4.5.5) the candidates are instead every vid of the
  raw store whose docid is not filtered, ranked by exact distance.

`IVFPQSearch` is the code. Its threads `0 .. NThreads-1` run the parallel
region of `search_preassigned`, lines 498-760, or, when `cond.direct` holds,
the parallel region of `SearchDirectly`, lines 787-962.

**State.** Each variable corresponds to part of the code:
- `out` is `distances`/`labels`;
- `recall` is `recall_distances`/`recall_labels`;
- `local` is each thread's `local_dis`/`local_idx`;
- `q`, `probe` and `nscan` are each thread's loop variables;
- `claimed` is the dynamic schedule's next iteration;
- `singleDone` records which `omp single` blocks of the current query have run;
- `res` is `result.docids`/`dists` after the remap;
- `overflow` records a write past the end of `distances`/`labels`.

The heaps are faiss binary heaps, kept with the array layout that
`heap_pop`/`heap_push` give them (`PopDown`, `PushUp`, `HeapAdd`). The layout
matters because `compute_dis` without rank reads the heap in array order.
faiss is not under `src/`, so the heap operators are modelled from its
documented behaviour.

**Actions.**

| Action | Code |
|--------|------|
| `QueryStart`, `QueryProbe`, `QueryCompute` | mode 0, lines 670-697: `omp for` gives each thread a contiguous chunk of queries; `QueryProbe` is one `scan_one_list` (628-666) with the `max_codes` break (691) |
| `LocalInit`, `ForProbe`, `ForEnd` | mode 1, lines 698-715: `schedule(dynamic)` hands out probes one at a time |
| `SingleInit`, `Merge`, `SingleCompute` | lines 719-757: `omp single` init, the `omp critical` `heap_addn`, and `omp single` `compute_dis` (425-495) |
| `Barrier(at)`, `QueryBarrier` | the `omp barrier`s and the implicit barriers of `omp for`/`omp single` |
| `DirectQuery` | direct mode 0, lines 887-904: per query, `init_result`, `search_impl` over all vectors (826-885), then sort |
| `DirectLocalInit`, `DirectForChunk`, `DirectForEnd` | direct mode 1, lines 905-932: each of the `num_threads` iterations of the dynamic `omp for` scans one chunk of `num_vectors / num_threads` vectors (the last takes the rest) into the thread's local heap |
| `DirectSingleInit`, `DirectMerge`, `DirectSingleSort` | lines 934-960: `omp single` `init_result`, barrier, the `omp critical` `heap_addn`, barrier, `omp single` sort |
| `Finish` | the join and the remap loop of `Search`, lines 1002-1036 |

A barrier is one step, taken when every active thread has reached it.
`do_parallel` (508) decides whether the other threads are active; in
`SearchDirectly` every thread is active.

`SearchImpl` is `search_impl`: it pushes, in vid order, every vector whose
docid is not filtered and, when `ck_dis` holds (both bounds `>= 0`), whose
distance is in range. The `total`/`ndis` statistics are not modelled.

**Refinement.** `Abs == INSTANCE IVFPQSearchSpec WITH result <- res`. The run
checks `SearchRefines == Abs!Spec`: every thread schedule of either mode
produces exactly the answer the abstract spec gives for the condition.

**Bounds.** The instance has:
- 2 queries, `k = 2`, `recall_num = 3`, `nprobe = 2` and 2 threads;
- 3 lists of 2 vids each;
- one query that probes a missing centroid (`-1`);
- one filtered docid;
- 2 vids that share a docid, so the dedup matters.

Distances are distinct, which makes the answer unique. The recall heap
overflows: 4 candidates fill 3 slots. With 2 threads every interleaving of
the merge, the singles and the barriers occurs. Conditions range over both
modes, `sort_by_docid`, and a range filter that does and does not exclude
candidates. Direct search runs over the 6 vids in two chunks of 3, in
both modes, with no range and with a two-sided range; the exact distances
rank the vids differently from the PQ distances and put a filtered vid among
the best, so a dropped bitmap test changes the answer. One-sided ranges are
left to search_direct_range (finding F9). The pass run has 2,064 distinct
states.

The search terminates: every thread ends at `done` and `Finish` runs once. So
these runs do not check deadlock.

### RTInvertedListsView

`RTInvertedListsView` models one bucket of C5 as seen through C6. `arrays`
holds every `(ids, codes)` array pair the bucket has had. Old arrays stay
readable, because their memory is not reused in the modelled window. `cur`
and `len` are the bucket's pointer and length.

The reader is `scan_one_list` (641-665). It takes three separate `GetIvtList`
borrows:
- `ListSize` (`list_size`, 1044-1053);
- `GetCodes` (`get_codes`, 1055-1064);
- `GetIds` (`get_ids`, 1066-1076).

Then `ScanCodes` scores `list_size` entries of the two arrays it got.

The writers are modelled from spec 4.3 and 5, because `RTInvertIndex` is not
under `src/`:
- `AddKeys` appends in place, or copies into arrays of twice the capacity and
  swaps the pointer;
- `Delete` sets the bitmap bit;
- `CompactBucket` writes new arrays of the live entries and swaps pointer and
  length. The live entries keep their order. The model says so with a
  function `f` that lists the live positions in increasing order
  (`Enumerates(f, LivePos)`), rather than a recursive `SelectSeq`. TLC
  checked on every reachable state of the live run that the two give the
  same arrays.

`ViewAssumption` requires the vids `AddKeys` adds to be distinct
(`IsInjective(Vids)`): the catch-up hands each vid to the index once, as a
running counter. A scan that ends with `list_size` 0 has scanned nothing
(`scanned` is emptied by `ListSize`).

The code of vid `v` is `v`, so a torn `(id, code)` pair is visible. A read
past an array's end returns `Garbage`. `seen` collects the bucket contents
from `list_size` to the scan.

**Bounds.**
- 3 vids, initial capacity 2, so the third `AddKeys` reallocates.
- Up to 2 compactions and 2 scans, which is enough for a writer step between
  every two reader steps.

The scans and the writers are bounded, so the system stops, and these runs
do not check deadlock.

## 3. Runs

The first three runs use `MC_IVFPQIngest`, the next three `MC_Table`, then four `MC_IVFPQSearch` and two `MC_RTInvertedListsView`.

| Run | cfg | Expect | Properties | Shows |
|-----|-----|--------|------------|-------|
| ingest_core | `MC_IVFPQIngest.cfg` | pass | TypeOK, IndexedWithinStore, VectorFindable, EveryVectorIndexed, DeletedPurged | see below |
| ingest_unique_vid | `MC_IVFPQIngest_unique.cfg` | violation | UniqueVid | finding F1 |
| ingest_ignored_vec | `MC_IVFPQIngest_ignored.cfg` | violation | VectorFindable | finding F2 |
| table_core | `MC_Table.cfg` | pass | KeyMapSound | see below |
| table_last_docid | `MC_Table_lastdocid.cfg` | violation | LastDocidStored | finding F3 |
| table_restart | `MC_Table_restart.cfg` | violation | KeyMapSurvivesRestart | finding F4 |
| search_modes | `MC_IVFPQSearch.cfg` | pass | TypeOK, SearchRefines | see below |
| search_norank | `MC_IVFPQSearch_norank.cfg` | violation | SearchRefines | finding F5 |
| search_overrun | `MC_IVFPQSearch_overrun.cfg` | violation | NoBufferOverrun | finding F6 |
| search_direct_range | `MC_IVFPQSearch_direct_range.cfg` | violation | FilterSound | finding F9 |
| view_append_scan | `MC_RTInvertedListsView_scan.cfg` | pass | ScanReadsWritten | see below |
| view_torn | `MC_RTInvertedListsView_compact.cfg` | violation | ScanIsSnapshot | finding F8 |

- **ingest_core** shows four things:
  - the counter never passes the store;
  - every live vector the catch-up has passed and the drain has re-encoded is
    in the bucket of its current vector, with that vector's code;
  - every stored vector is eventually indexed;
  - every deleted document is eventually purged, even when compaction is
    broken.
- **table_core** shows that every docid the key map gives names a stored
  record of that key. This holds through duplicate schemas, batches with a
  repeated key, deletes and a restart. Its bounds are 3 records, batches of
  2, 1 restart, 2 keys and the empty key, and 78,121 distinct states: a batch
  can repeat a key, mix in an empty `_id`, and be cut by `Load`'s truncation.

- **search_modes** checks every condition of both modes with rank, and of both
  modes of direct search. For every thread schedule the answer is the one
  `IVFPQSearchSpec` gives, so the barriers, the `omp single` blocks and the
  critical merges make the result independent of the schedule. It has 2,064
  distinct states.
- **view_append_scan** shows where the reader's three borrows are safe. A
  scan reads only written entries whenever the bucket stayed at least
  `list_size` long between `list_size` and the scan. `list_size` is read
  first, and `AddKeys` appends in place or copies every entry before it
  swaps the pointer, so both borrowed arrays hold `list_size` entries.
  Compactions run too (up to 2, with 2 scans, 12,237 distinct states); the
  scans they shrink are the torn reads of F8. The property fails when
  `scan_codes` reads one entry more, or when the reallocation does not copy.

**Bounds of the ingestion runs:**
- 2 buckets;
- 3 vids, so a catch-up of 3 vectors with `BatchMax = 2` runs two batches,
  including a non-last one;
- 2 overwrites and a drain cap of 1,
  so the queue holds more than the drain takes;
- one `AddKeys` failure;
- a compaction threshold of 1, so one delete starts a compaction.

With these bounds every interleaving of a writer with the snapshot, a batch,
a broken compaction and a split drain occurs. The core run has 359,027
distinct states.

**Findings.**
- **F1** (`src/index/gamma_index_ivfpq.cc:297`). Trace:
  1. a vector is appended after the tick's snapshot;
  2. it is overwritten;
  3. the drain `Update`s the vid into the bucket of the new vector;
  4. the next catch-up appends the vid again.

  The vid is then in two buckets, against spec invariant I1 and property 8.1.
- **F2** (`:348`). `Add` gives running vids only to assigned vectors. After a
  `-1` vector, each following vector is stored under its predecessor's vid.
  The spec (4.5.1, 9) leaves the ignored slot unlinked but keeps the others'
  vids.
- **F3** (`src/table/table.cc:356`). `BatchAdd` sets `last_docid_` to
  `docid + batch_size`, one past its last record (`Add` and `Load` set it to
  the last docid). `GetDocInfo`'s guard `docid > last_docid_` then admits a
  docid with no record. One `BatchAdd` of one document shows it.
- **F4** (`:408`). `Delete` erases the key only in memory, and `Load`
  rebuilds the map from every stored record, first docid first. After a
  restart that keeps every record:
  - a deleted key resolves again;
  - a key repeated in a batch, which the parallel insert gave to the later
    docid, now resolves to the earlier one.

  The shortest trace is the second.

- **F5** (`src/index/gamma_index_ivfpq.cc:487`). Without rank,
  `compute_dis` copies the recall heap in its array order. A binary heap
  keeps its worst element first, so query 1 returns its worst candidate in
  slot 0, and the top `k` are not the best `k`. Spec 4.5.3 and 8.7 promise
  the best `k` in distance order.
- **F6** (`:490`). In the same branch, every heap entry that passes the range
  check is written, up to `recall_num` of them, into the `k` slots of the
  query. With `recall_num > k` this writes into the next query's slots, and
  for the last query past the end of `distances`/`labels`.
- **`max_codes`** (`:691`, not checked by a run). The mode-0 probe loop breaks
  when `nscan >= max_codes`, where spec 4.5.2 says probing stops once the
  scanned codes *exceed* `max_codes`. The two differ when the count reaches
  `max_codes` exactly. The model keeps the code's `>=`, and the passing run
  uses `max_codes = 0` (no limit).
- **F8** (`:641`). `scan_one_list` takes `list_size`, the codes and the ids
  in three separate `GetIvtList` borrows. A `CompactBucket` between
  `list_size` and the scan shrinks the bucket, so the scan reads `list_size`
  entries of smaller arrays: past their end, or entries already dropped.
  Spec 5 (a) and (c) says a reader never sees a torn or partially rewritten
  bucket.
- **F9** (`:830`). `search_impl` of `SearchDirectly` sets
  `ck_dis = min_dist >= 0 && max_dist >= 0`, so a condition with one bound
  `-1` is not range-filtered at all. `compute_dis` of the IVF-PQ path (445-447)
  and the spec's predicate (4.5.2) keep a distance only when both bounds are
  `-1` or both hold, and spec 8 invariant 7 says every result satisfies it.
  `FilterSound` states invariant 7 for both paths. In the counterexample
  (direct search, `min_dist = 2`, `max_dist = -1`) no distance satisfies the
  predicate, since `d <= -1` never holds, so every slot should be `-1`. Both
  queries are instead answered docid 0 at distance 2 (vid 0), followed by a
  `-1` pad; vid 3 also maps to docid 0 and is removed by the docid dedup.
  Vid 5 (distance 1, docid 4) is in the bitmap and is filtered, as it should
  be.

## 4. Proofs

`IVFPQIngestProofs` proves four theorems for every value of the constants
allowed by the assumptions (`NList ≥ 1`, `BatchMax ≥ 1`, `DrainMax ≥ 1`, the
quantizer and the encoder total on their domains, naturals elsewhere):
- `TypeCorrect` (`Spec => []TypeOK`);
- `IndexedWithinStoreInvariant` (`Spec => []IndexedWithinStore`);
- `IInvInvariant`;
- `VectorFindableInvariant` (below).

`IndexedWithinStore` is not inductive on its own. `Add` raises `indexed` by at
most `BatchSize`, and that is safe only if the batch fits in the snapshot,
which needs two facts:
- `CatchUpInv`: while the catch-up runs, `indexed + Backlog(indexCount-1-batch)
  <= total <= Len(vecs)`, where `Backlog(k) = k * BatchMax`. The remaining
  full batches fit under the snapshot, and the snapshot under the store.
- `QueueInv`: every queued vid names a stored vector, so the drain reads
  well-typed vectors.

`IInv = TypeOK /\ IndexedWithinStore /\ CatchUpInv /\ QueueInv` was first
checked with TLC as an invariant, then proved:
- `Init => IInv`;
- one lemma per action (`IInv /\ A => IInv'`), together giving
  `IInv /\ [Next]_vars => IInv'`;
- the temporal step by PTL.

The arithmetic rests on three lemmas about `Backlog` (`DivFits`,
`BacklogStep`, `BacklogZero`). They keep the nonlinear product out of the SMT
obligations. The sequence facts come from `SequenceTheorems`.

`VectorFindableInvariant` proves `Spec => []VectorFindable` under the
hypothesis `QuantizerTotal` (`AssignOf[x] # NoList` for every value). The
hypothesis is needed. When `assign` can answer -1, `Add` gives the kept
positions of a batch running vids, and a vector after an ignored one is
filed under the wrong vid. Finding F2's run (ingest_ignored_vec) is that
counterexample; the ingest_core constants satisfy the hypothesis.
`VectorFindable` is not inductive even together with `IInv`. The drain
re-encodes the vector it *fetched*, not the one the store holds at `Apply`.
`FInv = IInv /\ FetchedEmpty /\ FetchedFresh /\ VectorFindable` adds:
- `FetchedEmpty`: outside the drain's apply loop nothing is fetched;
- `FetchedFresh`: every fetched vid names a stored vector, and its fetched
  vector is the current one unless the vid was overwritten again and is
  back in `updated_vids_`. A stale fetched vector therefore never makes a
  vid look findable: it stays pending.
`FInv` was checked with TLC first, then proved one lemma per action.
- `Add` rests on `NewKeysAll`: with every position kept, batch position `p`
  gets vid `start + p`.
- `Fetch` rests on `SubSeqTail` (the queue left after the dequeue is its
  suffix) and on `EmptyLen`.
- `Apply` rests on `RTUpdateKeeps`: `update` keeps every entry of another
  vid, and puts the given entry in a bucket.

`TableProofs` proves `KeyMapSoundInvariant` (`Spec => []KeyMapSound`),
`TableTypeCorrect` and `TInvInvariant` from `TableAssumption`.
`KeyMapSound` alone is not inductive. `Load` keeps an entry already in the
map, and is sound only because the map is empty when it runs. `RestartClean`
(`~up => keymap = EmptyMap`) says so: `Crash` empties the map and only
`CreateTable` runs before `Load`.
- `BatchAdd`'s step rests on the fact that record `Len(records)+i` of the
  concatenation is `docs[i]`.
- `Load`'s step rests on `MinExists`: a non-empty set of naturals has a least
  element, so the docid `Load` picks is a member of the set. It is proved from
  `WFMin` and `NatLessThanWellFounded`, because the least-number theorem of
  `NaturalsInduction` takes an operator parameter.

`RTInvertedListsViewProofs` proves `ScanReadsWrittenInvariant` (`Spec =>
[]ScanReadsWritten`) and `RInvInvariant` from `ViewAssumption`.
`ScanReadsWritten` speaks only of a finished scan, so it is not inductive.
`RInv` adds what holds while the reader is between `list_size` and the scan:
- `RTypeOK`: the arrays are sequences of naturals, the current ones hold at
  least `len` written entries, and the borrowed indices name allocated arrays;
- while a scan is in progress the bucket's content is among what the reader
  has seen, so `len >= list_size` if the bucket never fell below it;
- the arrays `get_codes` and, later, `get_ids` returned hold at least
  `list_size` entries if the bucket never fell below it.

The writers are handled once. `WriterShape` says that a writer step leaves
every array allocated before untouched, except the current one, which then
holds exactly the new length. `AddKeysShape`, `CompactBucketShape` and
`DeleteShape` prove that shape for each writer (`AppendPrefix` for the
arrays `AddKeys` writes, `FcnSeq` for the compacted arrays), and `WriterStep`
proves that any step of that shape keeps `RInv`: the content the reader then
records is as long as the arrays it changed (`FcnLen`). The reader steps have
a lemma each; `ScanCodes` rests on `WrittenEntry`, which says that an entry
within an array's written length is never `Garbage`.

**Only model-checked:**
- the liveness properties (`EveryVectorIndexed`, `DeletedPurged`), which are
  out of TLAPS's reach (fairness and ENABLED);
- the violations, which TLC finds as counterexamples;
- everything about the search (`TypeOK`, `SearchRefines`, `NoBufferOverrun`,
  `FilterSound`). `IVFPQSearch` declares the heap's sift operators
  `PopDown` and `PushUp` `RECURSIVE`, and a module that reaches a
  `RECURSIVE` declaration has no SMT backend. Its results are also folds and
  sorts, whose outcome needs induction over the input;
- `ScanIsSnapshot` (a violation).
- No action property of the table is stated: that an added key keeps its
  docid is `item_to_docid_.insert`'s own guard, and the spec says nothing of
  a key added twice.

## 5. Not modelled (yet)

**Training** (`Indexing`) is a guarded one-shot call into faiss.

**PQ and quantizer numerics** are abstracted to functions.

**Not modelled:**
- **`total` in `SearchDirectly`.** Every thread of its mode-1 region runs
  `total[i] += ndis` without synchronisation, and `ndis` is never reset
  between queries (line 932). That is a data race, but only on a search
  statistic that no modelled state reads and the spec does not describe.
- **The `SMALL_DOC_NUM_OPTIMIZATION` block** (lines 511-627) is compiled only
  with that macro. It scans the range-query docids directly instead of the
  inverted lists. Reading it shows two departures from the normal path:
  - it indexes `bucket_codes[key]` (584) without the `key < 0` test that
    `scan_one_list` makes (636), so a missing centroid is undefined behaviour;
  - it ignores `parallel_mode` and `max_codes`, where spec 4.5.4 promises the
    same result as the normal path.

  Both are listed as hazards. The model would have to choose among the
  undefined outcomes of the first, which the spec gives no meaning to.
- **The inner-product metric.** The models use L2 (CMax heaps). IP swaps the
  heap order and the direction of the range check, and the control flow is
  the same.
- **Search statistics** (`total`, `nlistv`, `nheap`) and the
  `range_query_result`/bitmap lookups are abstracted. Filtering becomes the
  set `Filtered`.
- **Table reads.** `GetDocInfo`/`GetFieldRawValue` change nothing the model
  holds. Their guards are stated as `KeyMapSound` and `LastDocidStored`. The
  end-iterator dereference for an unknown field name (line 467) is a crash on
  bad input, not a state change. The by-name `GetFieldRawValue` (481-489) falls off its end
  without a `return` on success; nothing in `src/` calls it.

**Planned next:**
- An abstract specification of the index: a map from vid to `(list, code)`,
  which the tick refines.
- Composing `RTInvertedListsView` with the tick's own compaction and drain
  steps, instead of the spec-level writers.
