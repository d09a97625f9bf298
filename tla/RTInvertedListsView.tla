------------------------ MODULE RTInvertedListsView ------------------------
(***************************************************************************)
(* RTInvertedLists (src/index/gamma_index_ivfpq.cc), the view the faiss    *)
(* scanner reads the realtime inverted index through, and its one reader,  *)
(* scan_one_list of search_preassigned, against the ingestion tick writing *)
(* the same bucket.                                                        *)
(*                                                                         *)
(* scan_one_list takes the bucket three times: list_size(key), then        *)
(* ScopedCodes (get_codes), then ScopedIds (get_ids), each a separate      *)
(* RTInvertIndex::GetIvtList borrow, and then scans list_size entries of   *)
(* the two arrays.  The writers are modelled from spec 4.3 and 5: AddKeys  *)
(* appends in place while the arrays have room and otherwise copies them   *)
(* into larger ones and swaps the pointers; CompactBucket writes new       *)
(* arrays without the deleted entries and swaps the pointers.  Each        *)
(* GetIvtList and each writer operation is atomic; arrays that were        *)
(* swapped out stay readable (their memory is not reused).                 *)
(*                                                                         *)
(* One bucket.  An entry's code is modelled by its vid (the code of vid v  *)
(* is v), so a scanned (id, code) pair whose two halves differ is a torn   *)
(* read.                                                                   *)
(***************************************************************************)
EXTENDS Integers, Sequences, FiniteSets, Functions

CONSTANTS
    Vids,            \* the vids the tick may add, in this order
    InitCap,         \* capacity of the bucket's first arrays
    MaxCompactions,  \* bound: compactions in one behaviour
    MaxScans,        \* bound: scans the reader runs
    Garbage          \* what a read past an array's end returns

(* The tick adds each vid once: the catch-up's vids are a running counter. *)
ASSUME ViewAssumption ==
    /\ Vids \in Seq(Nat) /\ IsInjective(Vids) /\ InitCap \in Nat \ {0}
    /\ MaxCompactions \in Nat /\ MaxScans \in Nat /\ Garbage \notin Nat

VARIABLES
    arrays,      \* every array pair ever allocated: [ids, codes, cap]
    cur,         \* the bucket's current arrays (index into arrays)
    len,         \* the bucket's length
    added,       \* how many of Vids the tick has added
    deleted,     \* vids whose docid bit is set
    compactLeft, \* compactions still allowed
    rpc,         \* where scan_one_list is
    n,           \* list_size as the reader got it
    codesAt,     \* the arrays get_codes returned
    idsAt,       \* the arrays get_ids returned
    scanned,     \* the (id, code) pairs of the last scan
    seen,        \* the bucket contents since list_size was read
    scansLeft    \* scans still allowed

vars == <<arrays, cur, len, added, deleted, compactLeft, rpc, n, codesAt,
          idsAt, scanned, seen, scansLeft>>
writerVars == <<arrays, cur, len, added, deleted, compactLeft>>
readerVars == <<rpc, n, codesAt, idsAt, scanned, scansLeft>>

(* Entry j of array a, or garbage past the end of what was written. *)
At(a, field, j) == IF j <= Len(arrays[a][field]) THEN arrays[a][field][j] ELSE Garbage

(* The bucket as a reader at this instant sees it: its first len entries. *)
Content == [j \in 1 .. len |-> <<At(cur, "ids", j), At(cur, "codes", j)>>]

Pairs(s) == {s[j] : j \in DOMAIN s}

(* Every step records the content the reader may be reading. *)
Observe == seen' = IF rpc' = "idle" THEN seen ELSE seen \cup {Content'}

-----------------------------------------------------------------------------
(* RTInvertIndex::AddKeys of the next vid into this bucket: in place while *)
(* the arrays have room, else copy into arrays of twice the capacity.      *)
AddKeys ==
    LET v == Vids[added + 1]
        a == arrays[cur]
    IN /\ added < Len(Vids)
       /\ added' = added + 1
       /\ len' = len + 1
       /\ IF len < a.cap
          THEN /\ arrays' = [arrays EXCEPT ![cur] =
                               [a EXCEPT !.ids = Append(SubSeq(@, 1, len), v),
                                         !.codes = Append(SubSeq(@, 1, len), v)]]
               /\ UNCHANGED cur
          ELSE /\ arrays' = Append(arrays,
                               [ids |-> Append(SubSeq(a.ids, 1, len), v),
                                codes |-> Append(SubSeq(a.codes, 1, len), v),
                                cap |-> 2 * a.cap])
               /\ cur' = Len(arrays) + 1
       /\ UNCHANGED <<deleted, compactLeft>>
       /\ UNCHANGED readerVars /\ Observe

(* The engine deletes a document: its bit is set in the bitmap. *)
Delete(v) ==
    /\ v \in {Vids[j] : j \in 1 .. added} \ deleted
    /\ deleted' = deleted \cup {v}
    /\ UNCHANGED <<arrays, cur, len, added, compactLeft>>
    /\ UNCHANGED readerVars /\ Observe

(* The positions of the bucket's entries whose docid bit is unset. *)
LivePos == {p \in 1 .. len : At(cur, "ids", p) \notin deleted}

(* f lists the positions S in increasing order. *)
Enumerates(f, S) ==
    /\ Range(f) = S
    /\ \A j, k \in DOMAIN f : j < k => f[j] < f[k]

(* RTInvertIndex::CompactBucket, when some entry is deleted: new arrays    *)
(* with the live entries in their order, then the pointers and the length  *)
(* are swapped.                                                            *)
CompactBucket ==
    /\ compactLeft > 0
    /\ \E m \in 0 .. len - 1 : \E f \in [1 .. m -> 1 .. len] :
          /\ Enumerates(f, LivePos)
          /\ arrays' = Append(arrays, [ids |-> [j \in 1 .. m |-> At(cur, "ids", f[j])],
                                       codes |-> [j \in 1 .. m |-> At(cur, "codes", f[j])],
                                       cap |-> arrays[cur].cap])
          /\ len' = m
    /\ compactLeft' = compactLeft - 1
    /\ cur' = Len(arrays) + 1
    /\ UNCHANGED <<added, deleted>>
    /\ UNCHANGED readerVars /\ Observe

-----------------------------------------------------------------------------
(* scan_one_list: `size_t list_size = invlists->list_size(key)`. *)
ListSize ==
    /\ rpc = "idle"
    /\ scansLeft > 0
    /\ n' = len
    /\ rpc' = IF len = 0 THEN "idle" ELSE "codes"
    /\ scansLeft' = scansLeft - 1
    /\ seen' = IF len = 0 THEN seen ELSE {Content}
    /\ scanned' = {}
    /\ UNCHANGED <<codesAt, idsAt>>
    /\ UNCHANGED writerVars

(* `faiss::InvertedLists::ScopedCodes scodes(invlists, key)`. *)
GetCodes ==
    /\ rpc = "codes"
    /\ codesAt' = cur
    /\ rpc' = "ids"
    /\ UNCHANGED <<n, idsAt, scanned, scansLeft, seen>>
    /\ UNCHANGED writerVars

(* `sids.reset(new faiss::InvertedLists::ScopedIds(invlists, key))`. *)
GetIds ==
    /\ rpc = "ids"
    /\ idsAt' = cur
    /\ rpc' = "scan"
    /\ UNCHANGED <<n, codesAt, scanned, scansLeft, seen>>
    /\ UNCHANGED writerVars

(* Mutant: the scan loop runs to j <= list_size + 1. *)
ScanCodesPastEnd ==
    /\ rpc = "scan"
    /\ scanned' = {<<At(idsAt, "ids", j), At(codesAt, "codes", j)>> : j \in 1 .. n + 1}
    /\ rpc' = "idle"
    /\ UNCHANGED <<n, codesAt, idsAt, scansLeft, seen>>
    /\ UNCHANGED writerVars

(* `scanner->scan_codes(list_size, scodes.get(), ids, ...)`: entry j is    *)
(* (ids[j], codes[j]) for j < list_size.                                   *)
ScanCodes ==
    /\ rpc = "scan"
    /\ scanned' = {<<At(idsAt, "ids", j), At(codesAt, "codes", j)>> : j \in 1 .. n}
    /\ rpc' = "idle"
    /\ UNCHANGED <<n, codesAt, idsAt, scansLeft, seen>>
    /\ UNCHANGED writerVars


Init ==
    /\ arrays = << [ids |-> << >>, codes |-> << >>, cap |-> InitCap] >>
    /\ cur = 1
    /\ len = 0
    /\ added = 0
    /\ deleted = {}
    /\ compactLeft = MaxCompactions
    /\ rpc = "idle"
    /\ n = 0
    /\ codesAt = 1
    /\ idsAt = 1
    /\ scanned = {}
    /\ seen = {}
    /\ scansLeft = MaxScans

Next ==
    \/ AddKeys \/ CompactBucket \/ \E v \in Range(Vids) : Delete(v)
    \/ ListSize \/ GetCodes \/ GetIds \/ ScanCodes

Spec == Init /\ [][Next]_vars

-----------------------------------------------------------------------------
(* No torn read (spec 5 (a), (c)): what a scan scores is the content of    *)
(* the bucket at one instant between list_size and the scan, whatever      *)
(* AddKeys and CompactBucket did to the bucket in between.                 *)
ScanIsSnapshot == rpc = "idle" /\ scanned # {} => scanned \in {Pairs(s) : s \in seen}

(* A scan reads only entries that were written, unless the bucket was    *)
(* shorter than list_size at some instant between list_size and the scan: *)
(* list_size is read before the two borrows, AddKeys only appends in place *)
(* or copies every entry before swapping, so the arrays get_codes and      *)
(* get_ids return hold list_size written entries; only a compaction that  *)
(* shrinks the bucket makes scan_codes read past their end.               *)
ScanReadsWritten ==
    rpc = "idle" /\ (\A s \in seen : Len(s) >= n) =>
        \A e \in scanned : e[1] # Garbage /\ e[2] # Garbage

=============================================================================
