-------------------------- MODULE IVFPQSearchSpec --------------------------
(***************************************************************************)
(* What GammaIVFPQIndex::Search promises for a batch of queries over a     *)
(* fixed index (spec 4.5.2, 4.5.3, 4.5.6 and properties 8.5, 8.7, 8.8):    *)
(* the answer is a function of the index, the bitmap and the search        *)
(* condition, whatever the parallel mode and the thread schedule.          *)
(*                                                                         *)
(*  - the candidates of query i are the vids of its nprobe probed lists    *)
(*    whose docid is not filtered out (bitmap, range_query_result);        *)
(*  - the recall_num candidates with the best PQ distance are kept;        *)
(*  - of those, the ones whose distance (exact when has_rank, PQ           *)
(*    otherwise) passes the range predicate compete for the top k;         *)
(*  - the top k are ordered by vid (sort_by_docid) or by distance, mapped  *)
(*    to docids, deduplicated with the first occurrence winning and padded *)
(*    with (-1, -1) up to k.                                               *)
(*  - with max_codes > 0 and the parallel-over-queries mode, probing stops *)
(*    once the cumulative scanned codes exceed max_codes.                  *)
(*  - with use_direct_search (4.5.5) every vid of the raw store that       *)
(*    passes the bitmap and the range predicate competes, by exact         *)
(*    distance; coarse probes and recall play no part.                     *)
(*                                                                         *)
(* Metric L2: smaller is better.  Distances are distinct (no ties), so the *)
(* answer is unique.                                                       *)
(***************************************************************************)
EXTENDS Integers, Sequences, FiniteSets, SequencesExt

CONSTANTS
    NQ,          \* n, the number of queries of the batch
    K,           \* condition->topn
    R,           \* condition->recall_num
    NProbe,      \* nprobe
    ListVids,    \* the vids of each inverted list, in bucket order
    Probes,      \* keys: the nprobe lists of each query (-1: no centroid)
    PQDist,      \* the PQ distance of each vid to the query
    ExactDist,   \* the exact distance of each vid to the query
    Vid2Docid,   \* raw_vec_->vid2docid_
    Filtered,    \* docids whose bitmap bit is set or that the range query excludes
    MaxCodes,    \* max_codes (0: no limit)
    Conds        \* the search conditions a caller may pass

VARIABLES cond, result

NotDone == <<>>

(* The range predicate on min_dist and max_dist. *)
InRange(c, dis) ==
    \/ c.minD >= 0 /\ dis >= c.minD /\ c.maxD >= 0 /\ dis <= c.maxD
    \/ c.minD = -1 /\ c.maxD = -1

(* Number of codes in list l; a key of -1 names no list. *)
ListLen(l) == IF l < 0 THEN 0 ELSE Len(ListVids[l])

(* How many of the probes of query i are scanned: all of them, except that *)
(* in the parallel-over-queries mode with max_codes > 0 probing stops once *)
(* the codes scanned so far exceed max_codes.                              *)
Scanned(c, i) ==
    LET Sum(j) == LET F[m \in 0 .. j] == IF m = 0 THEN 0
                                          ELSE F[m - 1] + ListLen(Probes[i][m])
                  IN F[j]
        Stop == {j \in 1 .. NProbe : Sum(j) > MaxCodes}
    IN IF c.byQuery /\ MaxCodes > 0 /\ Stop # {}
       THEN CHOOSE j \in Stop : \A j2 \in Stop : j <= j2
       ELSE NProbe

Cand(c, i) ==
    {v \in UNION {ToSet(ListVids[Probes[i][j]]) : j \in {j \in 1 .. Scanned(c, i) : Probes[i][j] >= 0}} :
        Vid2Docid[v] \notin Filtered}

(* The n members of S with the smallest D. *)
Best(S, D, n) == {v \in S : Cardinality({w \in S : D[w] < D[v]}) < n}

Dist(c) == IF c.direct \/ c.hasRank THEN ExactDist ELSE PQDist

(* Direct search: the vids of the raw store (the domain of vid2docid). *)
DirectCand == {v \in DOMAIN Vid2Docid : Vid2Docid[v] \notin Filtered}

TopK(c, i) ==
    LET D == Dist(c)
        pool == IF c.direct THEN DirectCand ELSE Best(Cand(c, i), PQDist, R)
    IN Best({v \in pool : InRange(c, D[v])}, D, K)

Ordered(c, i) ==
    LET D == Dist(c)
        s == SetToSortSeq(TopK(c, i),
                 LAMBDA v, w : IF c.sortByDocid THEN v < w ELSE D[v] < D[w])
    IN [j \in 1 .. Len(s) |-> [doc |-> Vid2Docid[s[j]], d |-> D[s[j]]]]

(* Keep the first slot of each docid, pad with (-1, -1) up to k. *)
Dedup(s) ==
    LET keep == {j \in DOMAIN s : \A j2 \in 1 .. j - 1 : s[j2].doc # s[j].doc}
        ix == SetToSortSeq(keep, <)
    IN [j \in 1 .. K |-> IF j <= Len(ix) THEN s[ix[j]] ELSE [doc |-> -1, d |-> -1]]

Expected(c) == [i \in 0 .. NQ - 1 |-> Dedup(Ordered(c, i))]

Init == cond \in Conds /\ result = NotDone

Answer == result = NotDone /\ result' = Expected(cond) /\ UNCHANGED cond

Spec == Init /\ [][Answer]_<<cond, result>>

=============================================================================
